---------------------------- MODULE EventDelivery ----------------------------
(* The way of an event from the context manager that logs it                  *)
(* (sdk/invocation.py) to the numbers in SKILL.md.  LocalBackend appends it   *)
(* to three files; push_outbox.py posts one of them to the server, which      *)
(* keeps every row it is sent; sync_server_metrics.py copies the rows back    *)
(* next to each pattern; aggregate_metrics.py pairs what it finds in both     *)
(* files.  An agent with ServerBackend posts directly.  The four programs run *)
(* beside each other; each may die, and calls and writes may fail.            *)
EXTENDS Naturals, Sequences, FiniteSets, SequencesExt, PatternTools

CONSTANTS
    Agents, Remote,       \* agents; those of them with a ServerBackend
    Overlaid,             \* patterns found in both pattern directories
    BatchMax,             \* lines posted by one run of push_outbox
    MaxInv, MaxOutcomes   \* bounds: invocations, outcomes of each

Phases == {"loaded", "completed", "errored"}
Events == [inv : 1..MaxInv, pat : Patterns, n : Nat, phase : Phases,
           ok : BOOLEAN \cup {None}]

ASSUME DeliveryAssumption ==
    /\ Remote \subseteq Agents /\ Overlaid \subseteq Patterns
    /\ BatchMax \in Nat \ {0}
    /\ MaxInv \in Nat /\ MaxOutcomes \in Nat /\ MaxMishaps \in Nat
    /\ None \notin BOOLEAN \cup Events
    /\ Patterns \cap {"off", "files"} = {}

VARIABLES
    made,       \* number of invocations entered so far
    agent,      \* agent -> its invocation, and the event it is logging
    logged,     \* runtime/invocations.jsonl and the events posted directly
    patLog,     \* pattern -> its invocations.jsonl
    outbox,     \* runtime/_outbox.jsonl
    table,      \* rows of the server's invocations table
    pusher,     \* the run of push_outbox.py
    copy,       \* pattern -> its invocations.server.jsonl
    sync,       \* the run of sync_server_metrics.py
    skill       \* pattern -> the metrics in its SKILL.md
deliveryVars == <<made, agent, logged, patLog, outbox, table, pusher, copy,
                  sync, skill, mishaps>>
sdk == <<made, agent, logged, patLog>>
tools == <<copy, sync, skill>>

Idle == [inv |-> 0, pat |-> None, n |-> 0, done |-> FALSE, ev |-> None,
         left |-> <<>>]
NoPush == [pc |-> "off", lines |-> <<>>, at |-> 1, pushed |-> {}]
NoSync == [pc |-> "off", rows |-> <<>>, todo |-> {}]

DeliveryInit ==
    /\ made = 0 /\ agent = [a \in Agents |-> Idle] /\ logged = {}
    /\ patLog = [p \in Patterns |-> <<>>] /\ outbox = <<>> /\ table = <<>>
    /\ pusher = NoPush /\ copy = patLog /\ sync = NoSync
    /\ skill = [p \in Patterns |-> [invoked |-> 0, success |-> 0]]
    /\ mishaps = 0

----------------------------------------------------------------------------
(* sdk/invocation.py with the log_invocation_event of the agent's backend    *)

Event(i, p, n, phase, ok) ==
    [inv |-> i, pat |-> p, n |-> n, phase |-> phase, ok |-> ok]
IsOutcome(e) == e.phase \in {"completed", "errored"}

\* The first two of the three files are appended to in one step: no program
\* reads the first, so that a death between them is one before them.
LocalWrites == <<"logs", "outbox">>
Request == <<"post">>
Files(a) == IF a \in Remote THEN Request ELSE LocalWrites
Log(a, inv, phase, ok) ==
    agent' = [agent EXCEPT ![a] =
        [inv EXCEPT !.ev = Event(inv.inv, inv.pat, inv.n, phase, ok),
                    !.left = Files(a), !.n = @ + 1]]

Enter(a, p) ==
    /\ agent[a] = Idle /\ made < MaxInv /\ made' = made + 1
    /\ Log(a, [Idle EXCEPT !.inv = made', !.pat = p], "loaded", None)
    /\ UNCHANGED <<logged, patLog, outbox, table, pusher, tools, mishaps>>

InBody(a) == agent[a].inv # 0 /\ agent[a].ev = None
RecordOutcome(a, ok) ==
    /\ InBody(a) /\ agent[a].n <= MaxOutcomes
    /\ Log(a, agent[a], "completed", ok)
    /\ UNCHANGED <<made, logged, patLog, outbox, table, pusher, tools, mishaps>>

\* With an outcome recorded nothing more is logged, raised or not.
Exit(a, raised) ==
    /\ InBody(a)
    /\ IF agent[a].done THEN agent' = [agent EXCEPT ![a] = Idle]
       ELSE IF raised THEN Log(a, agent[a], "errored", FALSE)
                      ELSE Log(a, agent[a], "completed", None)
    /\ UNCHANGED <<made, logged, patLog, outbox, table, pusher, tools, mishaps>>

\* After the last write the caller goes on: __exit__ is over, record_outcome
\* notes that it was called.
Exiting(inv) == inv.ev.phase = "errored" \/ (IsOutcome(inv.ev) /\ inv.ev.ok = None)
AfterWrite(inv) ==
    IF Tail(inv.left) # <<>> THEN [inv EXCEPT !.left = Tail(@)]
    ELSE IF Exiting(inv) THEN Idle
    ELSE [inv EXCEPT !.ev = None, !.left = <<>>, !.done = IsOutcome(inv.ev)]
Write(a) ==
    LET inv == agent[a]
        file == Head(inv.left) IN
    /\ inv.left # <<>> /\ agent' = [agent EXCEPT ![a] = AfterWrite(inv)]
    /\ logged' = IF file \in {"logs", "post"} THEN logged \cup {inv.ev} ELSE logged
    /\ patLog' = IF file = "logs" THEN [patLog EXCEPT ![inv.pat] = Append(@, inv.ev)]
                 ELSE patLog
    /\ outbox' = IF file = "outbox" THEN Append(outbox, inv.ev) ELSE outbox
    /\ table' = IF file = "post" THEN Append(table, inv.ev) ELSE table
    /\ UNCHANGED <<made, pusher, tools, mishaps>>

\* A write or request that raises.  In __enter__ and __exit__ the invocation
\* is over; in record_outcome the exception leaves the body, and __exit__ logs
\* it.  A request may have been stored before it raised.
AfterFailure(a, inv) ==
    IF inv.ev.phase = "loaded" \/ Exiting(inv) THEN Idle
    ELSE IF inv.done THEN Idle
    ELSE [inv EXCEPT !.ev = Event(inv.inv, inv.pat, inv.n, "errored", FALSE),
                     !.left = Files(a), !.n = @ + 1]
WriteFails(a) ==
    /\ agent[a].left # <<>> /\ Mishap
    /\ agent' = [agent EXCEPT ![a] = AfterFailure(a, @)]
    /\ \/ UNCHANGED <<logged, table>>
       \/ /\ Head(agent[a].left) = "post"
          /\ logged' = logged \cup {agent[a].ev} /\ table' = Append(table, agent[a].ev)
    /\ UNCHANGED <<made, patLog, outbox, pusher, tools>>
AgentDies(a) ==
    /\ agent[a] # Idle /\ Mishap /\ agent' = [agent EXCEPT ![a] = Idle]
    /\ UNCHANGED <<made, logged, patLog, outbox, table, pusher, tools>>

----------------------------------------------------------------------------
(* tools/push_outbox.py, one run at a time, and the server's POST handler     *)

\* main reads the file whole; without lines it returns.
ReadOutbox ==
    /\ pusher.pc = "off" /\ outbox # <<>>
    /\ pusher' = [NoPush EXCEPT !.pc = "probe", !.lines = outbox]
    /\ UNCHANGED <<sdk, outbox, table, tools, mishaps>>

\* The tunnel and the health probe: an unreachable server ends the run.
Probe ==
    /\ pusher.pc = "probe"
    /\ \/ pusher' = [pusher EXCEPT !.pc = "post"] /\ UNCHANGED mishaps
       \/ pusher' = NoPush /\ Mishap
    /\ UNCHANGED <<sdk, outbox, table, tools>>

Batch_Whole(lines) == Len(lines)
Batch_AllButLast(lines) == IF Len(lines) <= BatchMax THEN Len(lines) - 1 ELSE BatchMax
Batch(lines) == IF Len(lines) < BatchMax THEN Len(lines) ELSE BatchMax

\* _log_invocation inserts a row for whatever it is sent.  When the first line
\* fails, the run stops posting.
Stored(e) == table' = Append(table, e)
Post ==
    /\ pusher.pc = "post" /\ pusher.at <= Batch(pusher.lines)
    /\ \/ /\ Stored(pusher.lines[pusher.at]) /\ UNCHANGED mishaps
          /\ pusher' = [pusher EXCEPT !.at = @ + 1, !.pushed = @ \cup {pusher.at}]
       \/ /\ Mishap
          /\ Stored(pusher.lines[pusher.at]) \/ UNCHANGED table
          /\ pusher' = IF pusher.pushed = {} THEN [pusher EXCEPT !.pc = "rewrite"]
                       ELSE [pusher EXCEPT !.at = @ + 1]
    /\ UNCHANGED <<sdk, outbox, tools>>

Keep_Posted(lines, pushed) == SubSeq(lines, Batch(lines) + 1, Len(lines))
\* The lines of s at the places S, in their order.
Lines(s, S) ==
    [k \in 1..Cardinality(S) |-> s[CHOOSE i \in S : Cardinality({j \in S : j <= i}) = k]]
Keep(lines, pushed) == Lines(lines, DOMAIN lines \ pushed)

\* tmp.replace: what was appended since the read is not among the lines.
Rewrite ==
    /\ \/ pusher.pc = "rewrite"
       \/ pusher.pc = "post" /\ pusher.at > Batch(pusher.lines)
    /\ outbox' = Keep(pusher.lines, pusher.pushed) /\ pusher' = NoPush
    /\ UNCHANGED <<sdk, table, tools, mishaps>>
PusherDies ==
    /\ pusher.pc # "off" /\ Mishap /\ pusher' = NoPush
    /\ UNCHANGED <<sdk, outbox, table, tools>>

\* What the server itself answers for a pattern: it counts rows.
ServerMetrics(p) ==
    LET rows == {k \in DOMAIN table : table[k].pat = p} IN
    [events  |-> Cardinality(rows),
     invoked |-> Cardinality({k \in rows : table[k].phase = "loaded"}),
     success |-> Cardinality({k \in rows : table[k].ok = TRUE})]

----------------------------------------------------------------------------
(* tools/sync_server_metrics.py                                              *)

\* All rows at once; without rows, or when the dump fails, the run ends.
Dump ==
    /\ sync.pc = "off" /\ table # <<>>
    /\ sync' = [pc |-> "files", rows |-> table, todo |-> {e.pat : e \in ToSet(table)}]
    /\ UNCHANGED <<sdk, outbox, table, pusher, copy, skill, mishaps>>

\* _write_server_jsonl truncates the file and then fills it.
Truncate(p) ==
    /\ sync.pc = "files" /\ p \in sync.todo
    /\ copy' = [copy EXCEPT ![p] = <<>>] /\ sync' = [sync EXCEPT !.pc = p]
    /\ UNCHANGED <<sdk, outbox, table, pusher, skill, mishaps>>
Fill(p) ==
    /\ sync.pc = p
    /\ copy' = [copy EXCEPT ![p] =
                   Lines(sync.rows, {k \in DOMAIN sync.rows : sync.rows[k].pat = p})]
    /\ sync' = IF sync.todo = {p} THEN NoSync
               ELSE [sync EXCEPT !.pc = "files", !.todo = @ \ {p}]
    /\ UNCHANGED <<sdk, outbox, table, pusher, skill, mishaps>>
SyncDies ==
    /\ sync.pc # "off" /\ Mishap /\ sync' = NoSync
    /\ UNCHANGED <<sdk, outbox, table, pusher, copy, skill>>

----------------------------------------------------------------------------
(* tools/aggregate_metrics.py                                                *)

\* _pair_events: an invocation needs a loaded event and an outcome; of several
\* outcomes the last one read stands.
Paired(evs) ==
    {e.inv : e \in {f \in ToSet(evs) : f.phase = "loaded"}}
        \cap {e.inv : e \in {f \in ToSet(evs) : IsOutcome(f)}}
LastOutcome(evs, i) ==
    LET of == {k \in DOMAIN evs : evs[k].inv = i /\ IsOutcome(evs[k])} IN
    evs[CHOOSE k \in of : \A j \in of : j <= k].ok
Aggregate_Rows(evs) ==
    LET of == {k \in DOMAIN evs : IsOutcome(evs[k])} IN
    [invoked |-> Cardinality(of), success |-> Cardinality({k \in of : evs[k].ok = TRUE})]
Aggregate(evs) ==
    [invoked |-> Cardinality(Paired(evs)),
     success |-> Cardinality({i \in Paired(evs) : LastOutcome(evs, i) = TRUE})]
Rated(evs) == \E i \in Paired(evs) : LastOutcome(evs, i) # None

\* The aggregator takes the first directory that has the pattern; the SDK logs
\* to the last one.
LocalEvents_Copied(p) == copy[p]
LocalEvents(p) == IF p \in Overlaid THEN <<>> ELSE patLog[p]
\* aggregate_one reads both files and rewrites SKILL.md, which is left alone
\* without a pair, and keeps its success rate without an outcome that has one.
AggregateOne(p) ==
    /\ LET evs == LocalEvents(p) \o copy[p]
           agg == Aggregate(evs) IN
        skill' = IF agg.invoked = 0 THEN skill
                 ELSE [skill EXCEPT ![p].invoked = agg.invoked,
                                    ![p].success = IF Rated(evs) THEN agg.success ELSE @]
    /\ UNCHANGED <<sdk, outbox, table, pusher, copy, sync, mishaps>>

----------------------------------------------------------------------------
AgentStep == \E a \in Agents :
    \/ \E p \in Patterns : Enter(a, p)
    \/ \E ok \in BOOLEAN : RecordOutcome(a, ok) \/ Exit(a, ok)
    \/ Write(a) \/ WriteFails(a) \/ AgentDies(a)
PushStep == ReadOutbox \/ Probe \/ Post \/ Rewrite \/ PusherDies
SyncStep == Dump \/ SyncDies \/ (\E p \in Patterns : Truncate(p) \/ Fill(p))
DeliveryNext ==
    AgentStep \/ PushStep \/ SyncStep \/ (\E p \in Patterns : AggregateOne(p))
DeliverySpec == DeliveryInit /\ [][DeliveryNext]_deliveryVars

\* launchd starts the tools again and again; nothing makes an agent go on.
FairDeliverySpec ==
    /\ DeliverySpec /\ WF_deliveryVars(PushStep)
    /\ \A p \in Patterns : WF_deliveryVars(AggregateOne(p))

----------------------------------------------------------------------------
\* The variables have their types (the files, the table, the tools' locals).
DeliveryTypeOK ==
    /\ made \in 0..MaxInv
    /\ agent \in [Agents -> [inv : 0..MaxInv, pat : Patterns \cup {None}, n : Nat,
                             done : BOOLEAN, ev : Events \cup {None},
                             left : {<<>>, LocalWrites, Tail(LocalWrites), Request}]]
    /\ logged \subseteq Events /\ IsFiniteSet(logged)
    /\ \A f \in {patLog, copy} : f \in [Patterns -> Seq(Events)]
    /\ outbox \in Seq(Events) /\ table \in Seq(Events)
    /\ pusher \in [pc : {"off", "probe", "post", "rewrite"}, lines : Seq(Events),
                   at : Nat \ {0}, pushed : SUBSET Nat]
    /\ sync \in [pc : {"off", "files"} \cup Patterns, rows : Seq(Events),
                 todo : SUBSET Patterns]
    /\ skill \in [Patterns -> [invoked : Nat, success : Nat]]
    /\ mishaps \in Nat

\* SKILL.md counts an invocation once and a success only where one was
\* recorded, however often its events were posted, and though they are found
\* both in the pattern's own log and in the copy of the server's.
CountedOnce ==
    \A p \in Patterns :
        LET mine == {e \in logged : e.pat = p} IN
        /\ skill[p].invoked <=
             Cardinality({e.inv : e \in {f \in mine : IsOutcome(f)}})
        /\ skill[p].success <= Cardinality({e.inv : e \in {f \in mine : f.ok = TRUE}})

\* The server's own numbers are too high by at most one batch for each time a
\* run died or a response was lost.
OvercountBounded ==
    \A p \in Patterns :
        LET mine == {e \in logged : e.pat = p}
            slack == BatchMax * mishaps IN
        /\ ServerMetrics(p).events <= Cardinality(mine) + slack
        /\ ServerMetrics(p).invoked <= Cardinality({e \in mine : e.phase = "loaded"}) + slack
        /\ ServerMetrics(p).success <= Cardinality({e \in mine : e.ok = TRUE}) + slack

\* A line leaves the outbox only when the server has stored it, or when it was
\* appended after the run that replaces the file had read it.
OnlyRacedVanish ==
    [][\A e \in ToSet(outbox) \ ToSet(outbox') :
            e \in ToSet(table) \/ e \notin ToSet(pusher.lines)]_deliveryVars

\* Whatever is in the outbox leaves it: no line is stuck behind others, behind
\* a batch limit or behind a failure that passes.
OutboxDrains ==
    \A i \in 1..MaxInv :
        LET waits == \E k \in DOMAIN outbox : outbox[k].inv = i /\ IsOutcome(outbox[k])
        IN waits ~> ~waits

\* What is paired in a pattern's own log is counted in its SKILL.md, whatever
\* becomes of the outbox, the server and the copy, unless the pattern is
\* overlaid.
LocalIsCounted ==
    \A p \in Patterns \ Overlaid, n \in 1..MaxInv :
        Cardinality(Paired(patLog[p])) >= n ~> skill[p].invoked >= n
=============================================================================
