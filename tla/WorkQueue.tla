------------------------------ MODULE WorkQueue ------------------------------
(***************************************************************************)
(* The compute work queue of the OM World server: lib/work.ts, the routes  *)
(* that drive it (POST /api/executions, POST /api/nodes/heartbeat,         *)
(* PUT /api/nodes/work, POST /api/intents/[id]/match) and the poll loop of *)
(* the node client.                                                        *)
(*                                                                         *)
(* The server is one event loop: a route handler runs from one await to    *)
(* the next without interruption, and every await is a place where another *)
(* handler may run.  An action is the code between two awaits, so it       *)
(* touches the database once.  A handler is a request slot of a node, or   *)
(* the fallback sweep, of which the flag sweepInFlight allows one.         *)
(*                                                                         *)
(* A job stands for an Execution row and the WorkAssignment row created    *)
(* with it.                                                                *)
(***************************************************************************)
EXTENDS Naturals, FiniteSets

CONSTANTS
    Jobs,         \* the execution/work pairs that may be created
    Intents,      \* the intents the jobs execute
    IntentOf,     \* IntentOf[j]: the intent of job j
    Kinds,        \* executor kinds (Intent.intentType)
    KindOf,       \* KindOf[i]: the intent type of intent i
    Nodes,        \* registered, active compute nodes
    KindsRunBy,   \* KindsRunBy[n]: the executor_kinds node n advertises
    Requests,     \* slots for requests in flight
    From,         \* From[r]: the node that issues requests in slot r
    Sweep,        \* the handler that is the fallback sweep
    Fallback,     \* the owner "local-fallback" of a job the server runs itself
    None,         \* SQL NULL
    Contacts,     \* contacts of capability providers
    Capabilities, \* the capabilities on offer
    ProviderOf,   \* ProviderOf[c]: the provider's contact
    Hired,        \* Hired[j]: the capabilities job j's execution names
    Unclassified, \* intents without (readable) constraintsJson
    Instant,      \* jobs whose result reports no elapsed time
    SweepBatch,   \* runs per sweep ("take: 3")
    MaxSubmits,   \* PUTs a node sends per job: 1 for the shipped client
    MaxLosses,    \* bound on crashes and lost connections
    MaxErrors     \* bound on failing database and LLM calls and refused PUTs

ASSUME WorkQueueAssumption ==
    /\ IsFiniteSet(Jobs)
    /\ IntentOf \in [Jobs -> Intents]
    /\ KindOf \in [Intents -> Kinds]
    /\ KindsRunBy \in [Nodes -> SUBSET Kinds]
    /\ From \in [Requests -> Nodes]
    /\ Sweep \notin Requests
    /\ Fallback \notin Nodes
    /\ None \notin Nodes \cup Jobs \cup Requests \cup Contacts \cup {Fallback}
    /\ IsFiniteSet(Requests)
    /\ IsFiniteSet(Capabilities)
    /\ Capabilities \cap {"node", "pattern"} = {}
    /\ ProviderOf \in [Capabilities -> Contacts]
    /\ Hired \in [Jobs -> SUBSET Capabilities]
    /\ Unclassified \subseteq Intents
    /\ Instant \subseteq Jobs
    /\ SweepBatch \in Nat \ {0}
    /\ MaxSubmits \in Nat \ {0}
    /\ MaxLosses \in Nat
    /\ MaxErrors \in Nat

VARIABLES
    work,      \* work[j]: WorkAssignment.status, "absent" before the row exists
    owner,     \* owner[j]: WorkAssignment.nodeId
    born,      \* born[j]: position of j in the createdAt order
    aged,      \* jobs created more than OMW_LOCAL_FALLBACK_AFTER_SEC ago
    exec,      \* exec[j]: Execution.status
    intent,    \* intent[i]: Intent.status, from "matched" on
    patterns,  \* patterns, named by the job whose completion created them
    accounts,  \* credit accounts, as <<ownerId, ownerType>>
    paid,      \* paid[j][r]: rewards of kind r recorded for execution j
    pc,        \* pc[h]: where handler h is
    at,        \* at[h]: the job handler h works on
    reuse,     \* reuse[h]: the pattern completeWork found reusable
    due,       \* due[h]: the capabilities completeWork has still to reward
    todo,      \* stale jobs the sweep has read and not handled yet
    waiting,   \* waiting[n]: the request whose response node n awaits
    has,       \* has[n]: the job node n was handed and computes
    sent,      \* sent[j]: PUTs sent for job j
    losses,    \* crashes and lost connections so far
    errors     \* failed database and LLM calls so far

rows    == <<work, owner, exec, intent>>
times   == <<born, aged>>
ledger  == <<patterns, accounts, paid>>
handler == <<pc, at, reuse, due>>
client  == <<waiting, has, sent>>
faults  == <<losses, errors>>
vars    == <<rows, times, ledger, handler, todo, client, faults>>

Handlers  == Requests \cup {Sweep}
Accounts  == Contacts \X {"provider", "pattern_creator"}
Rewards   == Capabilities \cup {"node", "pattern"}
WorkState == {"absent", "queued", "claimed", "running", "completed", "failed"}
ExecState == {"absent", "queued", "running", "completed", "failed"}
PC == {"idle", "claim", "mark", "check", "scan", "inline", "run", "read", "commit",
       "payCapability", "payNode", "recordReuse", "createPattern", "payPattern",
       "create", "reply", "failWork", "failExec"}

TypeOK ==
    /\ work \in [Jobs -> WorkState]
    /\ owner \in [Jobs -> Nodes \cup {Fallback, None}]
    /\ born \in [Jobs -> Nat]
    /\ aged \subseteq Jobs
    /\ exec \in [Jobs -> ExecState]
    /\ intent \in [Intents -> {"matched", "in_execution", "fulfilled"}]
    /\ patterns \subseteq Jobs
    /\ accounts \subseteq Accounts
    /\ paid \in [Jobs -> [Rewards -> Nat]]
    /\ pc \in [Handlers -> PC]
    /\ at \in [Handlers -> Jobs \cup {None}]
    /\ reuse \in [Handlers -> Jobs \cup {None}]
    /\ due \in [Handlers -> SUBSET Capabilities]
    /\ todo \subseteq Jobs
    /\ waiting \in [Nodes -> Requests \cup {None}]
    /\ has \in [Nodes -> Jobs \cup {None}]
    /\ sent \in [Jobs -> Nat]
    /\ losses \in Nat
    /\ errors \in Nat

Init ==
    /\ work = [j \in Jobs |-> "absent"]
    /\ owner = [j \in Jobs |-> None]
    /\ born = [j \in Jobs |-> 0]
    /\ aged = {}
    /\ exec = [j \in Jobs |-> "absent"]
    /\ intent = [i \in Intents |-> "matched"]
    /\ patterns = {}
    /\ accounts = {}
    /\ paid = [j \in Jobs |-> [r \in Rewards |-> 0]]
    /\ pc = [h \in Handlers |-> "idle"]
    /\ at = [h \in Handlers |-> None]
    /\ reuse = [h \in Handlers |-> None]
    /\ due = [h \in Handlers |-> {}]
    /\ todo = {}
    /\ waiting = [n \in Nodes |-> None]
    /\ has = [n \in Nodes |-> None]
    /\ sent = [j \in Jobs |-> 0]
    /\ losses = 0
    /\ errors = 0

-----------------------------------------------------------------------------
Kind(j)   == KindOf[IntentOf[j]]
Exists(j) == work[j] # "absent"
Queued    == {j \in Jobs : work[j] = "queued"}

\* The predicate of both claims: updateMany({id, status: "queued"}).
Claimable_Unowned(j) == owner[j] = None      \* mutant: by owner, not by status
Claimable(j) == work[j] = "queued"

\* completeWork's input.nodeId: the submitting node, NULL for an inline run.
Submitter_Null(h)    == None                 \* mutant: the node is forgotten
Submitter(h) == IF h = Sweep THEN None ELSE From[h]

\* A failing database or LLM call, within the bound.
Error == /\ errors < MaxErrors
         /\ errors' = errors + 1
         /\ UNCHANGED losses

Goto(h, label) == pc' = [pc EXCEPT ![h] = label]

\* The end of a handler's work on a job: a route answers its node, the sweep
\* turns to its next job (or clears sweepInFlight when there is none).
AfterJob(h) == IF h # Sweep THEN "reply" ELSE IF todo = {} THEN "idle" ELSE "inline"

\* The first k of S in creation order (as the one element of a set).
Oldest(S, k) ==
    {B \in SUBSET S :
        /\ Cardinality(B) = IF Cardinality(S) < k THEN Cardinality(S) ELSE k
        /\ \A b \in B, s \in S \ B : born[b] < born[s]}

\* `void runFallbackSweep()`: sets the flag and goes on at its first await,
\* unless a sweep is in flight.
WithSweep_Off(next) == next                  \* mutant: nothing nudges the sweep
WithSweep(next) == [next EXCEPT ![Sweep] = IF @ = "idle" THEN "scan" ELSE @]

-----------------------------------------------------------------------------
(* The clients of the queue: users and time.                               *)

\* POST /api/executions of an intent whose executor runs on nodes: the sweep
\* is nudged, then enqueueWork creates both rows in one transaction.  The
\* route does not look at the intent's status.
PostExecution(j) ==
    /\ ~Exists(j)
    /\ work' = [work EXCEPT ![j] = "queued"]
    /\ exec' = [exec EXCEPT ![j] = "queued"]
    /\ intent' = [intent EXCEPT ![IntentOf[j]] = "in_execution"]
    /\ born' = [born EXCEPT ![j] = Cardinality({k \in Jobs : Exists(k)})]
    /\ pc' = WithSweep(pc)
    /\ UNCHANGED <<owner, aged, ledger, at, reuse, due, todo, client, faults>>

\* POST /api/intents/[id]/match writes the status whatever it was.
MatchIntent(i) ==
    /\ intent' = [intent EXCEPT ![i] = "matched"]
    /\ UNCHANGED <<work, owner, exec, times, ledger, handler, todo, client, faults>>

\* Time passes: the oldest young job crosses the fallback cutoff.
Age(j) ==
    /\ Exists(j) /\ j \notin aged
    /\ \A k \in Jobs \ aged : Exists(k) => born[j] <= born[k]
    /\ aged' = aged \cup {j}
    /\ UNCHANGED <<rows, born, ledger, handler, todo, client, faults>>

-----------------------------------------------------------------------------
(* A node's poll loop and its two requests.                                *)

\* The loop is sequential: it polls again when the response is in and the job it
\* brought is computed and submitted.
Free(n) == has[n] = None /\ waiting[n] = None

\* POST /api/nodes/heartbeat of a node that computes nothing; the handler
\* nudges the sweep and reads the oldest queued job of the node's kinds.
Heartbeat(h) ==
    LET n   == From[h]
        fit == {j \in Queued : Kind(j) \in KindsRunBy[n]}
    IN /\ pc[h] = "idle"
       /\ Free(n)
       /\ waiting' = [waiting EXCEPT ![n] = h]
       /\ IF fit = {}
          THEN /\ pc' = [WithSweep(pc) EXCEPT ![h] = "reply"]
               /\ UNCHANGED at
          ELSE /\ pc' = [WithSweep(pc) EXCEPT ![h] = "claim"]
               /\ \E j \in fit : /\ {j} \in Oldest(fit, 1)
                                 /\ at' = [at EXCEPT ![h] = j]
       /\ UNCHANGED <<rows, times, ledger, reuse, due, todo, has, sent, faults>>

\* updateMany({id, status: "queued"}): the claim takes effect only if the job
\* is still queued; otherwise the heartbeat has nothing to hand out.
Claim(h) ==
    /\ pc[h] = "claim"
    /\ IF Claimable(at[h])
       THEN /\ work' = [work EXCEPT ![at[h]] = IF h = Sweep THEN "running" ELSE "claimed"]
            /\ owner' = [owner EXCEPT ![at[h]] = IF h = Sweep THEN Fallback ELSE From[h]]
            /\ Goto(h, "mark")
            /\ UNCHANGED at
       ELSE /\ Goto(h, AfterJob(h))
            /\ at' = [at EXCEPT ![h] = None]
            /\ UNCHANGED <<work, owner>>
    /\ UNCHANGED <<exec, intent, times, ledger, reuse, due, todo, client, faults>>

\* The separate write that flips the Execution row to "running".
Mark(h) ==
    /\ pc[h] = "mark"
    /\ exec' = [exec EXCEPT ![at[h]] = "running"]
    /\ Goto(h, IF h = Sweep THEN "run" ELSE "reply")
    /\ UNCHANGED <<work, owner, intent, times, ledger, at, reuse, due, todo, client, faults>>

\* That write fails: the heartbeat answers 500, the sweep drops the job, and
\* the claim stands.
MarkFails(h) ==
    /\ pc[h] = "mark"
    /\ Error
    /\ Goto(h, AfterJob(h))
    /\ at' = [at EXCEPT ![h] = None]
    /\ UNCHANGED <<rows, times, ledger, reuse, due, todo, client>>

\* The response: it reaches the node only if the node still waits for it.
\* A heartbeat's response hands the job over (at[h] = None: nothing to do);
\* a PUT's response ends the node's interest in the job it sent.
Reply(h) ==
    LET n == From[h]
    IN /\ h # Sweep /\ pc[h] = "reply"
       /\ Goto(h, "idle")
       /\ at' = [at EXCEPT ![h] = None]
       /\ reuse' = [reuse EXCEPT ![h] = None]
       /\ IF waiting[n] = h
          THEN /\ waiting' = [waiting EXCEPT ![n] = None]
               /\ has' = [has EXCEPT ![n] = IF @ = None THEN at[h] ELSE None]
          ELSE UNCHANGED <<waiting, has>>
       /\ UNCHANGED <<rows, times, ledger, due, todo, sent, faults>>

\* The node has computed its job and PUTs the result (a runner that fails
\* submits a placeholder result the same way).
Submit(h) ==
    LET n == From[h]
        j == has[n]
    IN /\ pc[h] = "idle"
       /\ j # None /\ waiting[n] = None
       /\ sent[j] < MaxSubmits
       /\ sent' = [sent EXCEPT ![j] = @ + 1]
       /\ waiting' = [waiting EXCEPT ![n] = h]
       /\ Goto(h, "check")
       /\ at' = [at EXCEPT ![h] = j]
       /\ UNCHANGED <<rows, times, ledger, reuse, due, todo, has, faults>>

\* PUT /api/nodes/work: refused unless the node owns the job; nothing to do
\* if the job is completed.  A signature out of its time window is refused, and
\* a read that fails is answered 500, before completeWork is reached.
CheckSubmit(h) ==
    /\ pc[h] = "check"
    /\ Goto(h, IF owner[at[h]] = From[h] /\ work[at[h]] # "completed"
               THEN "read" ELSE "reply")
    /\ UNCHANGED <<rows, times, ledger, at, reuse, due, todo, client, faults>>

RefuseSubmit(h) ==
    /\ pc[h] = "check"
    /\ Error
    /\ Goto(h, "reply")
    /\ UNCHANGED <<rows, times, ledger, at, reuse, due, todo, client>>

-----------------------------------------------------------------------------
(* runFallbackSweep and runQueuedWorkInline.                               *)

\* The stale queued jobs, oldest first, at most SweepBatch of them.
Scan ==
    /\ pc[Sweep] = "scan"
    /\ todo' \in Oldest(Queued \cap aged, SweepBatch)
    /\ Goto(Sweep, IF todo' = {} THEN "idle" ELSE "inline")
    /\ UNCHANGED <<rows, times, ledger, at, reuse, due, client, faults>>

\* The next job of the batch is re-read and dropped unless it is queued.
Inline ==
    /\ pc[Sweep] = "inline"
    /\ \E j \in todo :
        /\ {j} \in Oldest(todo, 1)
        /\ todo' = todo \ {j}
        /\ IF work[j] = "queued"
           THEN /\ Goto(Sweep, "claim")
                /\ at' = [at EXCEPT ![Sweep] = j]
           ELSE /\ Goto(Sweep, IF todo' = {} THEN "idle" ELSE "inline")
                /\ UNCHANGED at
    /\ UNCHANGED <<rows, times, ledger, reuse, due, client, faults>>

\* runCapability returns a result, or throws.
RunInline ==
    /\ pc[Sweep] = "run"
    /\ \/ Goto(Sweep, "read")
       \/ Goto(Sweep, "failWork")
    /\ UNCHANGED <<rows, times, ledger, at, reuse, due, todo, client, faults>>

\* What the run needs is read after the claim and outside its try block: a read
\* that fails leaves the job running.
LoadFails ==
    /\ pc[Sweep] = "run"
    /\ Error
    /\ Goto(Sweep, AfterJob(Sweep))
    /\ at' = [at EXCEPT ![Sweep] = None]
    /\ UNCHANGED <<rows, times, ledger, reuse, due, todo, client>>

\* The catch block of runQueuedWorkInline: two writes, whatever the rows hold.
FailWork_Only ==                             \* mutant: the execution is forgotten
    /\ pc[Sweep] = "failWork"
    /\ work' = [work EXCEPT ![at[Sweep]] = "failed"]
    /\ Goto(Sweep, AfterJob(Sweep))
    /\ at' = [at EXCEPT ![Sweep] = None]
    /\ UNCHANGED <<owner, exec, intent, times, ledger, reuse, due, todo, client, faults>>

FailWork ==
    /\ pc[Sweep] = "failWork"
    /\ work' = [work EXCEPT ![at[Sweep]] = "failed"]
    /\ Goto(Sweep, "failExec")
    /\ UNCHANGED <<owner, exec, intent, times, ledger, at, reuse, due, todo, client, faults>>

FailExec ==
    /\ pc[Sweep] = "failExec"
    /\ exec' = [exec EXCEPT ![at[Sweep]] = "failed"]
    /\ Goto(Sweep, AfterJob(Sweep))
    /\ at' = [at EXCEPT ![Sweep] = None]
    /\ reuse' = [reuse EXCEPT ![Sweep] = None]
    /\ UNCHANGED <<work, owner, intent, times, ledger, due, todo, client, faults>>

\* A write of the catch block fails: the sweep logs it and goes on.
FailFails ==
    /\ pc[Sweep] \in {"failWork", "failExec"}
    /\ Error
    /\ Goto(Sweep, AfterJob(Sweep))
    /\ at' = [at EXCEPT ![Sweep] = None]
    /\ reuse' = [reuse EXCEPT ![Sweep] = None]
    /\ UNCHANGED <<rows, times, ledger, due, todo, client>>

-----------------------------------------------------------------------------
(* completeWork, run by a PUT handler or by the sweep.                     *)

\* completeWork returns: the PUT handler answers, the sweep moves on.
Finish(h) ==
    /\ Goto(h, AfterJob(h))
    /\ IF h = Sweep
       THEN /\ at' = [at EXCEPT ![h] = None]
            /\ reuse' = [reuse EXCEPT ![h] = None]
       ELSE UNCHANGED <<at, reuse>>

\* On to the next step of completeWork, or back to its caller.
GoOn(h, label) == IF label = "done" THEN Finish(h)
                  ELSE Goto(h, label) /\ UNCHANGED <<at, reuse>>

\* completeWork throws: the PUT handler answers 500, the sweep's catch block
\* marks the job failed.
Throw(h) == Goto(h, IF h = Sweep THEN "failWork" ELSE "reply")

\* The job is re-read; unless completed, a pattern of the intent's type is
\* looked up, if the intent was classified.  Patterns are filed under the type
\* the LLM names, which may be any; which of them is found, or none because all
\* cool down, is PatternEconomy's concern.
ReadWork(h) ==
    /\ pc[h] = "read"
    /\ \/ /\ work[at[h]] = "completed"
          /\ Finish(h)
       \/ /\ work[at[h]] # "completed"
          /\ \E p \in (IF IntentOf[at[h]] \in Unclassified THEN {} ELSE patterns) \cup {None} :
                reuse' = [reuse EXCEPT ![h] = p]
          /\ Goto(h, "commit")
          /\ UNCHANGED at
    /\ UNCHANGED <<rows, times, ledger, due, todo, client, faults>>

\* Where the rewards lead: a capability each, a node's result the compute reward
\* (if any time elapsed), then the pattern is credited or created.
AfterNode(h) == IF IntentOf[at[h]] \in Unclassified THEN "done"
                ELSE IF reuse[h] # None THEN "recordReuse" ELSE "createPattern"

AfterCapability_NoNode(h) == AfterNode(h)    \* mutant: no compute reward
AfterCapability(h) == IF Submitter(h) # None /\ at[h] \notin Instant
                      THEN "payNode" ELSE AfterNode(h)

\* One transaction completes execution, work, path and intent.
Commit(h) ==
    /\ pc[h] = "commit"
    /\ exec' = [exec EXCEPT ![at[h]] = "completed"]
    /\ work' = [work EXCEPT ![at[h]] = "completed"]
    /\ owner' = [owner EXCEPT ![at[h]] = Submitter(h)]
    /\ intent' = [intent EXCEPT ![IntentOf[at[h]]] = "fulfilled"]
    /\ due' = [due EXCEPT ![h] = Hired[at[h]]]
    /\ GoOn(h, IF Hired[at[h]] = {} THEN AfterCapability(h) ELSE "payCapability")
    /\ UNCHANGED <<times, ledger, todo, client, faults>>

CommitFails(h) ==
    /\ pc[h] = "commit"
    /\ Error
    /\ Throw(h)
    /\ UNCHANGED <<rows, times, ledger, at, reuse, due, todo, client>>

-----------------------------------------------------------------------------
(* The rewards of a completion.  Each is its own try block: it is recorded, *)
(* or its failure is logged and the completion goes on.                     *)

\* The database returns capabilities in some order, which nothing fixes.
FirstOf(S) == CHOOSE c \in S : TRUE

\* A pattern's creator is the provider of its execution's first capability.
CreatorOf(j) == IF Hired[j] = {} THEN None ELSE ProviderOf[FirstOf(Hired[j])]

\* The reward handler h is at, and the account it goes to.
Reward(h) == IF due[h] # {} THEN FirstOf(due[h])
             ELSE IF pc[h] = "payNode" THEN "node" ELSE "pattern"

Payee(h) == IF due[h] # {} THEN <<ProviderOf[FirstOf(due[h])], "provider">>
            ELSE <<CreatorOf(IF reuse[h] # None THEN reuse[h] ELSE at[h]), "pattern_creator">>

\* The step that pays Reward(h), once its payee has an account.
PayStep(h) == IF due[h] # {} THEN "payCapability" ELSE "payPattern"

\* The reward is settled one way or the other.
Proceed_Abandons(h) ==                       \* mutant: the try block encloses the loop
    /\ due' = [due EXCEPT ![h] = IF pc[h] = "create" THEN {} ELSE @ \ {Reward(h)}]
    /\ IF due[h] # {}
       THEN GoOn(h, IF due'[h] = {} THEN AfterCapability(h) ELSE "payCapability")
       ELSE GoOn(h, IF pc[h] = "payNode" THEN AfterNode(h) ELSE "done")

Proceed(h) ==
    /\ due' = [due EXCEPT ![h] = @ \ {Reward(h)}]
    /\ IF due[h] # {}
       THEN GoOn(h, IF due'[h] = {} THEN AfterCapability(h) ELSE "payCapability")
       ELSE GoOn(h, IF pc[h] = "payNode" THEN AfterNode(h) ELSE "done")

\* ensureAccount finds the payee's account (or has just created it) and
\* recordEvent credits it.  Accounts are never deleted, so the two are one step;
\* a node's account is as old as its registration.
Pay(h) ==
    /\ \/ pc[h] = "payNode"
       \/ pc[h] \in {"payCapability", "payPattern"} /\ Payee(h) \in accounts
    /\ Proceed(h)
    /\ paid' = [paid EXCEPT ![at[h]][Reward(h)] = @ + 1]
    /\ UNCHANGED <<rows, times, patterns, accounts, todo, client, faults>>

\* ensureAccount finds no account: it will create one.
FindNone(h) ==
    /\ pc[h] \in {"payCapability", "payPattern"}
    /\ Payee(h) \notin accounts
    /\ Goto(h, "create")
    /\ UNCHANGED <<rows, times, ledger, at, reuse, due, todo, client, faults>>

CreateAccount(h) ==
    /\ pc[h] = "create"
    /\ Payee(h) \notin accounts
    /\ accounts' = accounts \cup {Payee(h)}
    /\ Goto(h, PayStep(h))
    /\ UNCHANGED <<rows, times, patterns, paid, at, reuse, due, todo, client, faults>>

\* Somebody else created it since: the unique index throws, and the reward is
\* given up like one whose write failed.
CreateCollides(h) ==
    /\ pc[h] = "create"
    /\ Payee(h) \in accounts
    /\ Proceed(h)
    /\ UNCHANGED <<rows, times, ledger, todo, client, faults>>

PayFails(h) ==
    /\ pc[h] \in {"payCapability", "payNode", "payPattern", "create"}
    /\ Error
    /\ Proceed(h)
    /\ UNCHANGED <<rows, times, ledger, todo, client>>

\* recordPatternReuse decides whether the creator, if there is one, is rewarded
\* (PatternEconomy models the decision).
RecordReuse(h) ==
    /\ pc[h] = "recordReuse"
    /\ \/ CreatorOf(reuse[h]) # None /\ GoOn(h, "payPattern")
       \/ GoOn(h, "done")
    /\ UNCHANGED <<rows, times, ledger, due, todo, client, faults>>

\* It is the one call after the transaction that no try block encloses.
RecordReuseFails(h) ==
    /\ pc[h] = "recordReuse"
    /\ Error
    /\ Throw(h)
    /\ UNCHANGED <<rows, times, ledger, at, reuse, due, todo, client>>

CreatePattern(h) ==
    /\ pc[h] = "createPattern"
    /\ patterns' = patterns \cup {at[h]}
    /\ GoOn(h, IF CreatorOf(at[h]) # None THEN "payPattern" ELSE "done")
    /\ UNCHANGED <<rows, times, accounts, paid, due, todo, client, faults>>

CreatePatternFails(h) ==
    /\ pc[h] = "createPattern"
    /\ Error
    /\ GoOn(h, "done")
    /\ UNCHANGED <<rows, times, ledger, due, todo, client>>

\* POST /api/capabilities gives the provider of a new capability an account.
OpenAccount(c) ==
    /\ <<ProviderOf[c], "provider">> \notin accounts
    /\ accounts' = accounts \cup {<<ProviderOf[c], "provider">>}
    /\ UNCHANGED <<rows, times, patterns, paid, handler, todo, client, faults>>

-----------------------------------------------------------------------------
(* Crashes and lost connections.                                           *)

Loss == /\ losses < MaxLosses
        /\ losses' = losses + 1
        /\ UNCHANGED errors

\* The server process dies: the handlers and sweepInFlight go with it, and
\* the open connections break.
ServerCrash ==
    /\ Loss
    /\ pc' = [h \in Handlers |-> "idle"]
    /\ at' = [h \in Handlers |-> None]
    /\ reuse' = [h \in Handlers |-> None]
    /\ due' = [h \in Handlers |-> {}]
    /\ todo' = {}
    /\ waiting' = [n \in Nodes |-> None]
    /\ has' = [n \in Nodes |-> IF has[n] # None /\ waiting[n] # None /\ sent[has[n]] >= MaxSubmits
                               THEN None ELSE has[n]]
    /\ UNCHANGED <<rows, times, ledger, sent>>

\* A node's connection breaks while it waits; the handler runs on.  After its
\* last PUT the client gives the job up.
Disconnect(n) ==
    /\ waiting[n] # None
    /\ Loss
    /\ waiting' = [waiting EXCEPT ![n] = None]
    /\ has' = [has EXCEPT ![n] = IF @ # None /\ sent[@] >= MaxSubmits THEN None ELSE @]
    /\ UNCHANGED <<rows, times, ledger, handler, todo, sent>>

\* A node process dies; it keeps no record of its job.
NodeCrash(n) ==
    /\ has[n] # None \/ waiting[n] # None
    /\ Loss
    /\ waiting' = [waiting EXCEPT ![n] = None]
    /\ has' = [has EXCEPT ![n] = None]
    /\ UNCHANGED <<rows, times, ledger, handler, todo, sent>>

-----------------------------------------------------------------------------
\* The steps of handler h that the event loop owes it.
Continue(h) ==
    \/ Claim(h) \/ Mark(h) \/ Reply(h) \/ CheckSubmit(h)
    \/ ReadWork(h) \/ Commit(h) \/ RecordReuse(h) \/ CreatePattern(h)
    \/ Pay(h) \/ FindNone(h) \/ CreateAccount(h) \/ CreateCollides(h)

SweepStep == Scan \/ Inline \/ RunInline \/ FailWork \/ FailExec

HandlerFails(h) ==
    \/ MarkFails(h) \/ RefuseSubmit(h) \/ CommitFails(h) \/ PayFails(h)
    \/ RecordReuseFails(h) \/ CreatePatternFails(h)

Next ==
    \/ \E j \in Jobs : PostExecution(j) \/ Age(j)
    \/ \E i \in Intents : MatchIntent(i)
    \/ \E h \in Requests : Heartbeat(h) \/ Submit(h)
    \/ \E h \in Handlers : Continue(h) \/ HandlerFails(h)
    \/ \E c \in Capabilities : OpenAccount(c)
    \/ SweepStep \/ LoadFails \/ FailFails
    \/ ServerCrash
    \/ \E n \in Nodes : Disconnect(n) \/ NodeCrash(n)

Spec == Init /\ [][Next]_vars

(***************************************************************************)
(* Fairness: the event loop runs every handler whose await is over, time   *)
(* passes, and a node's loop sends its next request.  Posting executions,  *)
(* faults and crashes are never owed.                                      *)
(***************************************************************************)
Fairness ==
    /\ \A h \in Handlers : WF_vars(Continue(h))
    /\ WF_vars(SweepStep)
    /\ \A j \in Jobs : WF_vars(Age(j))
    /\ \A n \in Nodes : WF_vars(\E h \in Requests : From[h] = n /\ (Heartbeat(h) \/ Submit(h)))

FairSpec == Spec /\ Fairness
-----------------------------------------------------------------------------
(* Properties.                                                             *)

\* Who works on job j: the nodes computing it or with a request of theirs past
\* the claim, and the sweep past its own.
Workers(j) ==
    {n \in Nodes : has[n] = j \/ \E h \in Requests : /\ From[h] = n /\ at[h] = j
                                                    /\ pc[h] # "claim"}
    \cup {w \in {Fallback} : at[Sweep] = j /\ pc[Sweep] # "claim"}

\* "two nodes heartbeating simultaneously can't double-claim" (claimNextWorkForNode)
\* and the sweep cannot run what a node has: nobody but the owner on the row works
\* on a job, however heartbeats, sweeps, lost responses and restarts interleave.
OneWorker ==
    \A j \in Jobs : \A w \in Workers(j) :
        \/ owner[j] = w
        \/ w = Fallback /\ owner[j] = None /\ work[j] \in {"completed", "failed"}

\* No reward of an execution is recorded twice, whatever requests are lost,
\* repeated or interleaved (completeWork's rewards follow its status check).
PaidOnce == \A j \in Jobs, r \in Rewards : paid[j][r] <= 1

\* Nothing has been lost and no call has failed so far.
Faultless == losses = 0 /\ errors = 0

\* The rewards of provider p for completed executions that are neither recorded
\* nor still due.
Missed(p) ==
    {jc \in Jobs \X Capabilities :
        /\ work[jc[1]] = "completed"
        /\ jc[2] \in Hired[jc[1]] /\ ProviderOf[jc[2]] = p
        /\ paid[jc[1]][jc[2]] = 0
        /\ \A h \in Handlers : at[h] = jc[1] => jc[2] \notin due[h]}

\* While nothing fails, a provider misses no reward except by the race for a new
\* account: nobody who has none yet, and at most one for each completion that was
\* under way when the account came to be, however many jobs there are and
\* capabilities in each.  And a node's compute reward is never missed.
PaidInFull ==
    Faultless =>
        /\ \A p \in Contacts :
             Cardinality(Missed(p)) <= IF <<p, "provider">> \in accounts
                                       THEN Cardinality(Handlers) ELSE 0
        /\ \A j \in Jobs \ Instant :
             work[j] = "completed" /\ owner[j] \in Nodes /\ (\A h \in Handlers : at[h] # j)
                => paid[j]["node"] = 1

\* A job once claimed by a node is never taken from it, by another node or by
\* the sweep.
ClaimIsKept ==
    [][\A j \in Jobs : owner[j] \in Nodes => owner'[j] = owner[j]]_vars

\* A queued job does not wait for ever, even if no node runs its kind and nodes
\* and server crash: a heartbeat claims it or a heartbeat's sweep runs it.
QueuedIsServed == \A j \in Jobs : work[j] = "queued" ~> work[j] # "queued"

\* While nothing is lost and no call fails, every job posted is completed, or
\* failed by the sweep; and its two rows say the same.
EveryJobEnds ==
    \A j \in Jobs : Exists(j) ~> \/ ~ Faultless
                                  \/ /\ work[j] \in {"completed", "failed"}
                                     /\ exec[j] = work[j]
-----------------------------------------------------------------------------
\* The contract of the queue (WorkContract): a node's or the server's claim is
\* a Take, the transaction of completeWork a Finish, a credit event a Pay.  The
\* row forgets the owner of an inline run; the contract does not.
Contract == INSTANCE WorkContract WITH
    Server <- Fallback,
    stage  <- [j \in Jobs |-> CASE work[j] = "absent" -> "none"
                                [] work[j] = "queued" -> "open"
                                [] work[j] \in {"claimed", "running"} -> "taken"
                                [] work[j] = "completed" -> "done"
                                [] work[j] = "failed" -> "failed"],
    holder <- [j \in Jobs |-> IF work[j] = "completed" /\ owner[j] = None
                              THEN Fallback ELSE owner[j]],
    credit <- paid

\* With one PUT per job and no failing call, the queue keeps the contract
\* through crashes and lost connections.
KeepsContract == Contract!Spec
=============================================================================
