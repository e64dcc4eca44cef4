---------------------------- MODULE PatternEconomy ----------------------------
(***************************************************************************)
(* Credits and patterns of the OM World server: lib/credits.ts,            *)
(* lib/patterns.ts, and the routes that move them: POST /api/intents, the  *)
(* inline half of POST /api/executions, what completeWork (lib/work.ts)    *)
(* does after its idempotency check, PATCH /api/executions/[id]/feedback   *)
(* and POST /api/patterns.                                                 *)
(*                                                                         *)
(* A job is an intent with the one execution made for it.  Its handlers    *)
(* run one after the other, so stage[j] says how far they got and step[j]  *)
(* where the payment of that stage is.  An action is the code between two  *)
(* awaits.  A job completes once here; WorkQueue covers claims, the sweep  *)
(* and submissions that overlap.                                           *)
(***************************************************************************)
EXTENDS Integers, Sequences, FiniteSets, FiniteSetsExt

CONSTANTS
    Jobs,         \* an intent and its execution
    Posted,       \* patterns that may come from POST /api/patterns
    PostedBy,     \* creator_contact of those: contacts, or None
    Contacts,     \* people: Intent.contact, Capability.providerContact
    AuthorOf,     \* AuthorOf[j]: Intent.contact
    ProvidersOf,  \* ProvidersOf[j]: providers of the capabilities of j, in order
    Kinds,        \* intent types
    Queued,       \* kinds whose executor has runsOnNode: completeWork ends them
    Feedbacks,    \* slots for PATCH feedback requests in flight
    Rated,        \* jobs whose author sends feedback
    None,         \* SQL NULL
    Amount,       \* Amount[t]: signed OMC of an event of type t
    Elapsed,      \* Elapsed[m]: elapsedSec of executions of mode m
    RatioPct,     \* FRICTION_REWARD_RATIO in per cent
    Window,       \* REUSE_WINDOW_SEC
    WindowCap,    \* REUSE_WINDOW_CAP
    Cooldown,     \* COOLDOWN_HOURS
    MaxBusy,      \* bound on jobs whose handlers run at the same time
    MaxTime,      \* bound on the clock
    MaxMishaps    \* bound on crashes and failing database or LLM calls

EventType == {"system_grant", "intent_submission_debit", "capability_reward",
              "pattern_creation_reward", "pattern_reuse_reward"}
Patterns  == Jobs \cup Posted   \* a job names the pattern made from it
Mode      == {"fresh", "adapted"}
OwnerType == {"user", "provider", "pattern_creator"}
Accounts  == Contacts \X OwnerType

Row == [kind : Kinds, creator : Contacts \cup {None}, reuses : Nat, good : Nat,
        adapted : Nat, fresh : Nat, freshSum : Nat,
        started : Nat \cup {-1}, inWindow : Nat, until : Nat \cup {-1}]
Reading == [row : Row, when : Nat, sec : Nat, mode : Mode]

ASSUME EconomyAssumption ==
    /\ IsFiniteSet(Jobs) /\ Jobs \cap Posted = {}
    /\ AuthorOf \in [Jobs -> Contacts]
    /\ ProvidersOf \in [Jobs -> Seq(Contacts) \ {<<>>}]
    /\ Queued \subseteq Kinds
    /\ Rated \subseteq Jobs
    /\ PostedBy \subseteq Contacts \cup {None}
    /\ None \notin Patterns \cup Contacts \cup Row \cup Reading
    /\ Amount \in [EventType -> Int]
    /\ Elapsed \in [Mode -> SUBSET (Nat \ {0})]
    /\ RatioPct \in 0..100
    /\ Window \in Nat /\ WindowCap \in Nat \ {0} /\ Cooldown \in Nat \ {0}
    /\ MaxBusy \in Nat /\ MaxTime \in Nat /\ MaxMishaps \in Nat

VARIABLES
    kind,      \* kind[j]: Intent.intentType
    now,       \* the clock, in units of the window and the cool-down
    stage,     \* stage[j]: what the handlers of job j do next
    step,      \* step[j]: where the payment of that stage is
    todo,      \* todo[j]: providers still to be rewarded for j
    reused,    \* reused[j]: the pattern found for j; trace.reused_pattern_id
    seen,      \* seen[j]: what recordPatternReuse read, None outside it
    accepted,  \* accepted[j]: Execution.userAccepted
    pattern,   \* pattern[p]: the Pattern row, None before it exists
    accounts,  \* credit accounts that exist
    funds,     \* funds[a]: balance, earned and spent of account a
    events,    \* credit events
    asked,     \* asked[f]: what feedback request f has read, None when idle
    mishaps    \* crashes and failed calls so far

job      == <<kind, stage, step, todo, reused, seen>>
credit   == <<accounts, funds, events>>
feedback == <<asked, accepted>>
vars     == <<now, job, feedback, pattern, credit, mishaps>>

Paying == {"charge", "payProvider", "payReuse", "payCreation"}
Stage  == Paying \cup {"absent", "open", "find", "commit", "settle", "pattern",
                       "write", "fresh", "failed", "done"}

TypeOK ==
    /\ now \in Nat
    /\ kind \in [Jobs -> Kinds]
    /\ stage \in [Jobs -> Stage]
    /\ step \in [Jobs -> {"idle", "find", "create", "grant", "record"}]
    /\ \A j \in Jobs : step[j] # "idle" <=> stage[j] \in Paying
    /\ todo \in [Jobs -> Seq(Contacts)]
    /\ \A j \in Jobs : todo[j] # <<>> <=> stage[j] = "payProvider"
    /\ reused \in [Jobs -> Patterns \cup {None}]
    /\ \A j \in Jobs : reused[j] # None => pattern[reused[j]] # None
    /\ seen \in [Jobs -> Reading \cup {None}]
    /\ accepted \in [Jobs -> BOOLEAN \cup {None}]
    /\ pattern \in [Patterns -> Row \cup {None}]
    /\ accounts \subseteq Accounts
    /\ funds \in [Accounts -> [balance : Int, earned : Nat, spent : Nat]]
    /\ events \subseteq [type : EventType, to : accounts, job : Jobs]
    /\ asked \in [Feedbacks -> [of : Jobs, verdict : BOOLEAN, reuse : Patterns \cup {None},
                                step : {"write", "bump"}] \cup {None}]
    /\ mishaps \in Nat

Init ==
    /\ now = 0
    /\ kind \in [Jobs -> Kinds]
    /\ stage = [j \in Jobs |-> "absent"]
    /\ step = [j \in Jobs |-> "idle"]
    /\ todo = [j \in Jobs |-> <<>>]
    /\ reused = [j \in Jobs |-> None]
    /\ seen = [j \in Jobs |-> None]
    /\ accepted = [j \in Jobs |-> None]
    /\ pattern = [p \in Patterns |-> None]
    /\ accounts = {}
    /\ funds = [a \in Accounts |-> [balance |-> 0, earned |-> 0, spent |-> 0]]
    /\ events = {}
    /\ asked = [f \in Feedbacks |-> None]
    /\ mishaps = 0

-----------------------------------------------------------------------------
(***************************************************************************)
(* Stages.  Entering a paying stage starts ensureAccount.                  *)
(***************************************************************************)
Enter(j, s) ==
    /\ stage' = [stage EXCEPT ![j] = s]
    /\ step' = [step EXCEPT ![j] = IF s \in Paying THEN "find" ELSE "idle"]

Busy == {j \in Jobs : stage[j] \notin {"absent", "open", "failed", "done"}}

\* A new intent is stored before its submission is charged.
Submit(j) ==
    /\ stage[j] = "absent" /\ Cardinality(Busy) < MaxBusy
    /\ Enter(j, "charge")
    /\ UNCHANGED <<kind, now, todo, reused, seen, feedback, pattern, credit, mishaps>>

\* POST /api/executions: a queued kind gets its rows, an inline kind runs.
Execute(j) ==
    /\ stage[j] = "open" /\ Cardinality(Busy) < MaxBusy
    /\ Enter(j, "find")
    /\ UNCHANGED <<kind, now, todo, reused, seen, feedback, pattern, credit, mishaps>>

\* Active patterns of the kind that are not cooling down...
Usable(k) == {p \in Patterns : pattern[p] # None /\ pattern[p].kind = k
                                                 /\ pattern[p].until < now}

\* ... of which findReusablePattern takes one of those that sort first.
Best(k) == {p \in Usable(k) : \A q \in Usable(k) :
              \/ pattern[p].good > pattern[q].good
              \/ /\ pattern[p].good = pattern[q].good
                 /\ pattern[p].reuses >= pattern[q].reuses}

FindReusable(j) ==
    /\ stage[j] = "find"
    /\ reused' \in {[reused EXCEPT ![j] = p] :
                      p \in IF Best(kind[j]) = {} THEN {None} ELSE Best(kind[j])}
    /\ Enter(j, "commit")
    /\ UNCHANGED <<kind, now, todo, seen, feedback, pattern, credit, mishaps>>

\* completeWork commits all rows in one transaction; the inline path creates
\* the execution and then updates intent and path.
Commit(j) ==
    /\ stage[j] = "commit"
    /\ Enter(j, IF kind[j] \in Queued THEN "payProvider" ELSE "settle")
    /\ todo' = [todo EXCEPT ![j] = IF kind[j] \in Queued THEN ProvidersOf[j] ELSE <<>>]
    /\ UNCHANGED <<kind, now, reused, seen, feedback, pattern, credit, mishaps>>

Settle(j) ==
    /\ stage[j] = "settle"
    /\ Enter(j, "payProvider")
    /\ todo' = [todo EXCEPT ![j] = ProvidersOf[j]]
    /\ UNCHANGED <<kind, now, reused, seen, feedback, pattern, credit, mishaps>>

-----------------------------------------------------------------------------
(***************************************************************************)
(* Payments: ensureAccount, then recordEvent.  An error is caught by the   *)
(* route, which goes on with its next stage.                               *)
(***************************************************************************)
\* The pattern job j is about: the one it reused or the one made from it.
Subject(j) == IF reused[j] = None THEN j ELSE reused[j]

Payee(j) ==
    IF stage[j] = "charge" THEN <<AuthorOf[j], "user">>
    ELSE IF stage[j] = "payProvider" THEN <<Head(todo[j]), "provider">>
    ELSE <<pattern[Subject(j)].creator, "pattern_creator">>

Purpose(j) ==
    IF stage[j] = "charge" THEN "intent_submission_debit"
    ELSE IF stage[j] = "payProvider" THEN "capability_reward"
    ELSE IF stage[j] = "payReuse" THEN "pattern_reuse_reward"
    ELSE "pattern_creation_reward"

\* The payment of this stage is over, paid or not.

EndPayment(j) ==
    /\ todo' = [todo EXCEPT ![j] = IF @ = <<>> THEN <<>> ELSE Tail(@)]
    /\ Enter(j, IF stage[j] = "charge" THEN "open"
                ELSE IF stage[j] # "payProvider" THEN "done"
                ELSE IF Tail(todo[j]) # <<>> THEN "payProvider"
                ELSE "pattern")

At(j, s) == stage[j] \in Paying /\ step[j] = s

FindAccount(j) ==
    /\ At(j, "find")
    /\ step' = [step EXCEPT ![j] = IF Payee(j) \in accounts THEN "record" ELSE "create"]
    /\ UNCHANGED <<kind, now, stage, todo, reused, seen, feedback, pattern, credit, mishaps>>

\* The unique index on owner and type lets one of two creators through.
CreateAccount_NoIndex(j) ==                  \* mutant: no unique index
    /\ At(j, "create")
    /\ accounts' = accounts \cup {Payee(j)}
    /\ step' = [step EXCEPT ![j] = IF stage[j] = "charge" THEN "grant" ELSE "record"]
    /\ UNCHANGED <<kind, now, stage, todo, reused, seen, feedback, pattern, funds, events, mishaps>>

CreateAccount(j) ==
    /\ At(j, "create")
    /\ Payee(j) \notin accounts
    /\ accounts' = accounts \cup {Payee(j)}
    /\ step' = [step EXCEPT ![j] = IF stage[j] = "charge" /\ Amount["system_grant"] > 0
                                   THEN "grant" ELSE "record"]
    /\ UNCHANGED <<kind, now, stage, todo, reused, seen, feedback, pattern, funds, events, mishaps>>

CreateCollides(j) ==
    /\ At(j, "create")
    /\ Payee(j) \in accounts
    /\ EndPayment(j)
    /\ UNCHANGED <<kind, now, reused, seen, feedback, pattern, credit, mishaps>>

Credit(n) == IF n >= 0 THEN n ELSE 0

Debit(n) == IF n < 0 THEN -n ELSE 0

\* recordEvent reads the account, updates it and adds the event in one
\* transaction, which SQLite runs serially.
RecordEvent(j, type) ==
    LET a == Payee(j)
        n == Amount[type]
    IN  /\ funds' = [funds EXCEPT ![a] = [balance |-> @.balance + n,
                                          earned |-> @.earned + Credit(n),
                                          spent |-> @.spent + Debit(n)]]
        /\ events' = events \cup {[type |-> type, to |-> a, job |-> j]}

Grant(j) ==
    /\ At(j, "grant")
    /\ RecordEvent(j, "system_grant")
    /\ step' = [step EXCEPT ![j] = "record"]
    /\ UNCHANGED <<kind, now, stage, todo, reused, seen, feedback, pattern, accounts, mishaps>>

Pay(j) ==
    /\ At(j, "record")
    /\ RecordEvent(j, Purpose(j))
    /\ EndPayment(j)
    /\ UNCHANGED <<kind, now, reused, seen, feedback, pattern, accounts, mishaps>>

-----------------------------------------------------------------------------
(* Patterns.                                                               *)

\* recordPatternReuse: the row it reads decides what it writes later.
ReadPattern(j) ==
    /\ stage[j] = "pattern" /\ kind[j] \in Queued /\ reused[j] # None
    /\ \E mode \in Mode : \E sec \in Elapsed[mode] :
          seen' = [seen EXCEPT ![j] = [row |-> pattern[reused[j]], when |-> now,
                                       sec |-> sec, mode |-> mode]]
    /\ Enter(j, "write")
    /\ UNCHANGED <<kind, now, todo, reused, feedback, pattern, credit, mishaps>>

Cooling(s) == s.row.until > s.when

\* Faster than the baseline of fresh runs, by a factor.
Saved(s) == /\ s.row.fresh > 0
            /\ 100 * s.sec * s.row.fresh < RatioPct * s.row.freshSum

Eligible_Self(j) == Saved(seen[j]) /\ ~Cooling(seen[j])  \* mutant: self-reuse pays

Eligible(j) == /\ Saved(seen[j])
               /\ seen[j].row.creator # AuthorOf[j]
               /\ ~Cooling(seen[j])

\* The rolling window begins anew when it is over; its count includes this reuse.
NewWindow(s)   == s.row.started = -1 \/ s.when - s.row.started > Window
WindowCount(s) == IF NewWindow(s) THEN 1 ELSE s.row.inWindow + 1
CoolUntil(s)   == IF WindowCount(s) >= WindowCap /\ ~Cooling(s)
                  THEN s.when + Cooldown ELSE s.row.until

\* The counters are incremented in the database, window and cool-down are set
\* to what was computed from the row that was read.

Reuse(row, s, eligible) ==
    [row EXCEPT !.reuses = @ + 1,
                !.adapted = @ + 1,
                !.good = IF eligible THEN @ + 1 ELSE @,
                !.started = IF NewWindow(s) THEN s.when ELSE s.row.started,
                !.inWindow = WindowCount(s),
                !.until = CoolUntil(s)]

\* The reward, when the reuse earned one, comes after recordFreshExecution.
RewardReuse_Always(j) ==                     \* mutant: rewarded like the inline path
    /\ Enter(j, IF seen[j].row.creator # None THEN "payReuse" ELSE "done")
    /\ seen' = [seen EXCEPT ![j] = None]

RewardReuse(j) ==
    /\ Enter(j, IF Eligible(j) /\ seen[j].row.creator # None THEN "payReuse" ELSE "done")
    /\ seen' = [seen EXCEPT ![j] = None]

WriteReuse(j) ==
    /\ stage[j] = "write"
    /\ pattern' = [pattern EXCEPT ![reused[j]] = Reuse(@, seen[j], Eligible(j))]
    /\ IF seen[j].mode = "fresh" THEN Enter(j, "fresh") /\ UNCHANGED seen
                                 ELSE RewardReuse(j)
    /\ UNCHANGED <<kind, now, todo, reused, feedback, credit, mishaps>>

RecordFresh(j) ==
    /\ stage[j] = "fresh"
    /\ pattern' = [pattern EXCEPT ![reused[j]].fresh = @ + 1,
                                  ![reused[j]].freshSum = @ + seen[j].sec]
    /\ RewardReuse(j)
    /\ UNCHANGED <<kind, now, todo, reused, feedback, credit, mishaps>>

\* The inline path counts the reuse and rewards it, however long it took and
\* whoever asked.
IncrementReuse(j) ==
    /\ stage[j] = "pattern" /\ kind[j] \notin Queued /\ reused[j] # None
    /\ pattern' = [pattern EXCEPT ![reused[j]].reuses = @ + 1]
    /\ Enter(j, IF pattern[reused[j]].creator # None THEN "payReuse" ELSE "done")
    /\ UNCHANGED <<kind, now, todo, reused, seen, feedback, credit, mishaps>>

\* A row as it is created: used by nobody, with at most one run as baseline.
NewRow(k, creator, sec) ==
    [kind |-> k, creator |-> creator, reuses |-> 0, good |-> 0, adapted |-> 0,
     fresh |-> IF sec > 0 THEN 1 ELSE 0, freshSum |-> sec,
     started |-> -1, inWindow |-> 0, until |-> -1]

\* The LLM names the intent type the new pattern is filed under; the inline
\* path records no time.
CreatePattern(j) ==
    /\ stage[j] = "pattern" /\ reused[j] = None
    /\ \E k \in Kinds, sec \in IF kind[j] \in Queued THEN Elapsed["fresh"] ELSE {0} :
          pattern' = [pattern EXCEPT ![j] = NewRow(k, Head(ProvidersOf[j]), sec)]
    /\ Enter(j, "payCreation")
    /\ UNCHANGED <<kind, now, todo, reused, seen, feedback, credit, mishaps>>

PostPattern(p) ==
    /\ pattern[p] = None
    /\ \E k \in Kinds, creator \in PostedBy :
          pattern' = [pattern EXCEPT ![p] = NewRow(k, creator, 0)]
    /\ UNCHANGED <<now, job, feedback, credit, mishaps>>

-----------------------------------------------------------------------------
(* Feedback.                                                               *)

Completed(j) ==
    stage[j] \notin {"absent", "charge", "open", "find", "commit", "failed"}

\* Execution rows: a queued one exists before it has a trace.
HasRow(j) == Completed(j) \/ (kind[j] \in Queued /\ stage[j] \in {"find", "commit", "failed"})

ReadExecution(f, j) ==
    /\ asked[f] = None
    /\ HasRow(j)
    /\ accepted[j] = None
    /\ \E verdict \in BOOLEAN :
          asked' = [asked EXCEPT ![f] =
              [of |-> j, verdict |-> verdict, step |-> "write",
               reuse |-> IF Completed(j) THEN reused[j] ELSE None]]
    /\ UNCHANGED <<now, job, accepted, pattern, credit, mishaps>>

RecordFeedback(f) ==
    /\ asked[f] # None /\ asked[f].step = "write"
    /\ accepted' = [accepted EXCEPT ![asked[f].of] = asked[f].verdict]
    /\ asked' = [asked EXCEPT ![f] = IF @.verdict /\ @.reuse # None
                                     THEN [@ EXCEPT !.step = "bump"] ELSE None]
    /\ UNCHANGED <<now, job, pattern, credit, mishaps>>

BumpGood(f) ==
    /\ asked[f] # None /\ asked[f].step = "bump"
    /\ pattern' = [pattern EXCEPT ![asked[f].reuse].good = @ + 1]
    /\ asked' = [asked EXCEPT ![f] = None]
    /\ UNCHANGED <<now, job, accepted, credit, mishaps>>

-----------------------------------------------------------------------------
(* Errors, crashes and time.                                               *)

Mishap == mishaps < MaxMishaps /\ mishaps' = mishaps + 1

\* ensureAccount or recordEvent fails.
PayFails(j) ==
    /\ stage[j] \in Paying
    /\ Mishap
    /\ EndPayment(j)
    /\ UNCHANGED <<kind, now, reused, seen, feedback, pattern, credit>>

FreshFails(j) ==
    /\ stage[j] = "fresh"
    /\ Mishap
    /\ RewardReuse(j)
    /\ UNCHANGED <<kind, now, todo, reused, feedback, pattern, credit>>

\* What is left of a job whose handler ends here: an intent that may be
\* executed again, a queued job that is not completed, or a completed one.
Abandoned(j) ==
    IF stage[j] \in {"absent", "open", "failed", "done"} THEN stage[j]
    ELSE IF Completed(j) THEN "done"
    ELSE IF stage[j] # "charge" /\ kind[j] \in Queued THEN "failed"
    ELSE "open"

\* An error no handler catches, or one while the pattern is made.
HandlerFails(j) ==
    /\ stage[j] \in {"find", "commit", "settle", "pattern", "write"}
    /\ Mishap
    /\ stage' = [stage EXCEPT ![j] = Abandoned(j)]
    /\ seen' = [seen EXCEPT ![j] = None]
    /\ UNCHANGED <<kind, now, step, todo, reused, feedback, pattern, credit>>

FeedbackFails(f) ==
    /\ asked[f] # None
    /\ Mishap
    /\ asked' = [asked EXCEPT ![f] = None]
    /\ UNCHANGED <<now, job, accepted, pattern, credit>>

Crash ==
    /\ Mishap
    /\ stage' = [j \in Jobs |-> Abandoned(j)]
    /\ step' = [j \in Jobs |-> "idle"]
    /\ todo' = [j \in Jobs |-> <<>>]
    /\ seen' = [j \in Jobs |-> None]
    /\ asked' = [f \in Feedbacks |-> None]
    /\ UNCHANGED <<kind, now, reused, accepted, pattern, credit>>

\* A tick is days: no request is in flight meanwhile.
Tick ==
    /\ now < MaxTime
    /\ Busy = {} /\ \A f \in Feedbacks : asked[f] = None
    /\ now' = now + 1
    /\ UNCHANGED <<job, feedback, pattern, credit, mishaps>>

Route(j) ==
    \/ Submit(j) \/ Execute(j) \/ FindReusable(j) \/ Commit(j) \/ Settle(j)
    \/ FindAccount(j) \/ CreateAccount(j) \/ CreateCollides(j) \/ Grant(j) \/ Pay(j)
    \/ ReadPattern(j) \/ WriteReuse(j) \/ RecordFresh(j)
    \/ IncrementReuse(j) \/ CreatePattern(j)
    \/ PayFails(j) \/ FreshFails(j) \/ HandlerFails(j)

Patch(f) ==
    \/ \E j \in Rated : ReadExecution(f, j)
    \/ RecordFeedback(f) \/ BumpGood(f) \/ FeedbackFails(f)

Next ==
    \/ \E j \in Jobs : Route(j)
    \/ \E p \in Posted : PostPattern(p)
    \/ \E f \in Feedbacks : Patch(f)
    \/ Crash \/ Tick

Spec == Init /\ [][Next]_vars

-----------------------------------------------------------------------------

\* A user gets the initial grant at most once, however many of the user's
\* intents are submitted together (ensureAccount).
GrantedOnce ==
    \A d, e \in events :
        d.type = "system_grant" /\ e.type = "system_grant" /\ d.to = e.to => d = e

Reusers(p) == {j \in Jobs : Completed(j) /\ reused[j] = p}
Rewarded(p) == {j \in Reusers(p) : \E e \in events :
                   e.job = j /\ e.type = "pattern_reuse_reward"}

\* Rewards for queued reuses bind to successfulReuseCount: there are never more
\* of them than reuses and acceptances that counted as a success.
RewardsAreEarned ==
    \A p \in Patterns : pattern[p] # None =>
        Cardinality({j \in Rewarded(p) : kind[j] \in Queued}) <= pattern[p].good

\* No queued reuse pays the creator for an intent of the creator's own.
NoSelfReward ==
    \A e \in events :
        e.type = "pattern_reuse_reward" /\ kind[e.job] \in Queued
            => e.to[1] # AuthorOf[e.job]

=============================================================================
