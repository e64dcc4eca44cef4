---------------------------- MODULE StorageNodes ----------------------------
(***************************************************************************)
(* Replicated storage of patterns on volunteer nodes: the heartbeat and    *)
(* proof routes (app/api/nodes/heartbeat, app/api/nodes/proof), the rows   *)
(* and blobs they work on (lib/storage_assignment.ts, lib/nodes.ts) and    *)
(* the storage half of the node client (node-client/src/index.ts).         *)
(*                                                                         *)
(* A route handler runs in steps, one per database statement whose result  *)
(* another handler could change before the next one; a node waits for the  *)
(* answer of its one call, but a call the node gave up on keeps running on *)
(* the server.  A blob is known by its version: the server rebuilds it     *)
(* from the database on every use, so its bytes and hash change when the   *)
(* execution it quotes changes.                                            *)
(***************************************************************************)
EXTENDS Integers, Sequences, FiniteSets, FiniteSetsExt

CONSTANTS
    Nodes, Patterns, Calls,  \* node ids, pattern ids, slots for calls in flight
    None,                    \* null
    MaxVersion,              \* bound: versions a pattern's blob goes through
    TooBig,                  \* the <<pattern, version>>s above MAX_BLOB_BYTES
    MaxAssignments,          \* MAX_ASSIGNMENTS_PER_NODE
    LookAhead,               \* `take` of the candidate query
    StrikeThreshold,         \* STRIKE_THRESHOLD
    CapHours,                \* longest period one proof is paid for
    MinEmit,                 \* shortest period that reaches the minimal reward
    MaxTime,                 \* bound: the clock
    MaxStrikes,              \* bound: the strikes a node collects
    MaxMishaps               \* bound: lost calls, restarts and lost disks

Versions == 1..MaxVersion
Shas == Versions \cup {None}
Times == 0..MaxTime
Rows == [sha : Versions, status : {"assigned", "confirmed"},
         last : Times \cup {None}, failures : Nat]

ASSUME StorageAssumption ==
    /\ MaxVersion \in Nat \ {0} /\ TooBig \subseteq Patterns \X Versions
    /\ {MaxAssignments, LookAhead, StrikeThreshold, CapHours, MinEmit}
          \subseteq Nat \ {0}
    /\ {MaxTime, MaxStrikes, MaxMishaps} \subseteq Nat
    /\ None \notin Nodes \cup Patterns \cup Calls \cup Int /\ None \notin Rows

VARIABLES
    blob,     \* the version buildPatternBlob would produce now
    uri,      \* storageUri and contentHash of the pattern row
    rows,     \* the NodeAssignment rows, one at most per node and pattern
    nodes,    \* the Node rows
    proven,   \* provenGb: the assignments whose sizes it sums
    credits,  \* the storage rewards of each row, as the periods paid for
    calls,    \* the requests the server is working on
    clients,  \* the node processes
    blobs,    \* the files in each node's blob directory
    now, mishaps

vars == <<blob, uri, rows, nodes, proven, credits, calls, clients, blobs,
          now, mishaps>>
store == <<rows, nodes, proven, credits, uri>>

\* What a handler carries from one await to the next.
FreeCall == [pc |-> "free", node |-> None, pat |-> None, sha |-> None,
             active |-> FALSE, prev |-> None, sum |-> {}]
OffClient == [at |-> "off", call |-> None, confirm |-> None]
NewRow(v) == [sha |-> v, status |-> "assigned", last |-> None, failures |-> 0]

Held(n) == {p \in Patterns : rows[n][p] # None}
Confirmed(n) == {p \in Held(n) : rows[n][p].status = "confirmed"}
Unconfirmed(n) == Held(n) \ Confirmed(n)

\* buildPatternBlob: null when the blob is over the ceiling.
Built(p) == IF <<p, blob[p]>> \in TooBig THEN None ELSE blob[p]

Init ==
    /\ blob \in [Patterns -> {1}]
    /\ uri = [p \in Patterns |-> None]
    /\ rows = [n \in Nodes |-> [p \in Patterns |-> None]]
    /\ nodes = [n \in Nodes |-> [status |-> "unknown", strikes |-> 0]]
    /\ proven = [n \in Nodes |-> {}]
    /\ credits = [n \in Nodes |-> [p \in Patterns |-> <<>>]]
    /\ calls = [c \in Calls |-> FreeCall]
    /\ clients = [n \in Nodes |-> OffClient]
    /\ blobs = [n \in Nodes |-> {}]
    /\ now = 0 /\ mishaps = 0

-----------------------------------------------------------------------------
(* The node process. *)

\* register() on start-up: registerNode inserts the node or refreshes its
\* claim, and leaves status and strikes of a known node alone.
Register(n) ==
    /\ clients[n].at = "off"
    /\ nodes' = IF nodes[n].status = "unknown"
                THEN [nodes EXCEPT ![n].status = "active"] ELSE nodes
    /\ clients' = [clients EXCEPT ![n].at = "idle"]
    /\ UNCHANGED <<blob, uri, rows, proven, credits, calls, blobs, now, mishaps>>

\* poll(): a heartbeat, with the confirmation of the blob just stored.  The
\* handler reads the node row before anything else and keeps what it read.
Heartbeat(n, c) ==
    /\ clients[n].at = "idle" /\ calls[c].pc = "free"
    /\ LET confirm == clients[n].confirm
           call == [FreeCall EXCEPT !.node = n,
                                    !.active = nodes[n].status = "active"]
       IN calls' = [calls EXCEPT ![c] =
              IF confirm = None THEN [call EXCEPT !.pc = "choose"]
              ELSE [call EXCEPT !.pc = "confirm", !.pat = confirm.pat,
                                !.sha = confirm.sha]]
    /\ clients' = [clients EXCEPT ![n] =
                      [at |-> "waiting", call |-> c, confirm |-> None]]
    /\ UNCHANGED <<blob, store, blobs, now, mishaps>>

\* The call fails at the node: a request that never arrived, or an answer
\* that is given up while the handler goes on.  poll() returns {} and the
\* confirmation it carried is forgotten.
CallFails(n) ==
    /\ clients[n].at \in {"idle", "waiting"} /\ mishaps < MaxMishaps
    /\ clients' = [clients EXCEPT ![n] = [OffClient EXCEPT !.at = "idle"]]
    /\ mishaps' = mishaps + 1
    /\ UNCHANGED <<blob, store, calls, blobs, now>>

\* The process ends and is started again; its blob directory stays.
Restart(n) ==
    /\ clients[n].at # "off" /\ mishaps < MaxMishaps
    /\ clients' = [clients EXCEPT ![n] = OffClient]
    /\ mishaps' = mishaps + 1
    /\ UNCHANGED <<blob, store, calls, blobs, now>>

\* The blob directory is lost; the identity file is not.
DiskLoss(n) ==
    /\ blobs[n] # {} /\ mishaps < MaxMishaps
    /\ blobs' = [blobs EXCEPT ![n] = {}]
    /\ mishaps' = mishaps + 1
    /\ UNCHANGED <<blob, store, calls, clients, now>>

Waiting(c) == LET n == calls[c].node
              IN clients[n].at = "waiting" /\ clients[n].call = c

\* The handler's answer arrives, or nobody waits for it any more.
Dropped(c) ==
    /\ calls[c].pc \in {"nothing", "stored", "challenged"} /\ ~ Waiting(c)
    /\ calls' = [calls EXCEPT ![c] = FreeCall]
    /\ UNCHANGED <<blob, store, clients, blobs, now, mishaps>>

GotNothing(c) ==
    /\ calls[c].pc = "nothing" /\ Waiting(c)
    /\ calls' = [calls EXCEPT ![c] = FreeCall]
    /\ clients' = [clients EXCEPT ![calls[c].node] = [OffClient EXCEPT !.at = "idle"]]
    /\ UNCHANGED <<blob, store, blobs, now, mishaps>>

\* A client that does not keep the confirmation for its next heartbeat.
GotStore_NoConfirm(c) ==
    /\ calls[c].pc = "stored" /\ Waiting(c)
    /\ clients' = [clients EXCEPT ![calls[c].node] = [OffClient EXCEPT !.at = "idle"]]
    /\ blobs' = [blobs EXCEPT ![calls[c].node] = @ \cup {<<calls[c].pat, calls[c].sha>>}]
    /\ calls' = [calls EXCEPT ![c] = FreeCall]
    /\ UNCHANGED <<blob, store, now, mishaps>>

\* handleWork, kind "store": putBlob writes the blob under its own hash, and
\* the next heartbeat confirms it.
GotStore(c) ==
    /\ calls[c].pc = "stored" /\ Waiting(c)
    /\ LET n == calls[c].node  p == calls[c].pat  v == calls[c].sha
       IN /\ blobs' = [blobs EXCEPT ![n] = @ \cup {<<p, v>>}]
          /\ clients' = [clients EXCEPT ![n] =
                [at |-> "idle", call |-> None, confirm |-> [pat |-> p, sha |-> v]]]
    /\ calls' = [calls EXCEPT ![c] = FreeCall]
    /\ UNCHANGED <<blob, store, now, mishaps>>

\* handleWork, kind "challenge": the node posts a proof if it has the blob.
\* Its process waits for the answer of that call as it did for the heartbeat.
GotChallenge(c) ==
    /\ calls[c].pc = "challenged" /\ Waiting(c)
    /\ LET n == calls[c].node
       IN IF <<calls[c].pat, calls[c].sha>> \in blobs[n]
          THEN /\ calls' = [calls EXCEPT ![c].pc = "prove"]
               /\ UNCHANGED clients
          ELSE /\ calls' = [calls EXCEPT ![c] = FreeCall]
               /\ clients' = [clients EXCEPT ![n] = [OffClient EXCEPT !.at = "idle"]]
    /\ UNCHANGED <<blob, store, blobs, now, mishaps>>

-----------------------------------------------------------------------------
(* The heartbeat handler. *)

At(c, pc) == calls[c].pc = pc

\* One step of the handler of call c, from one point to the next.
Goes(c, from, call) == At(c, from) /\ calls' = [calls EXCEPT ![c] = call]
Aside == UNCHANGED <<blob, clients, blobs, now, mishaps>>

\* A confirmation whose hash is not compared.
ConfirmAssignment_AnyHash(c) ==
    /\ Goes(c, "confirm", [calls[c] EXCEPT !.pc = "pattern"])
    /\ rows' = [rows EXCEPT ![calls[c].node][calls[c].pat].status = "confirmed"]
    /\ UNCHANGED <<uri, nodes, proven, credits>> /\ Aside

\* confirmAssignment up to the update of the row.  The hash and the owner of
\* a row never change, so its read and its update are one step.
ConfirmAssignment(c) ==
    LET call == calls[c]  n == call.node  p == call.pat
        matches == rows[n][p].sha = call.sha
    IN /\ Goes(c, "confirm", [call EXCEPT !.pc = IF matches THEN "pattern" ELSE "choose"])
       /\ rows' = IF matches THEN [rows EXCEPT ![n][p].status = "confirmed"] ELSE rows
       /\ UNCHANGED <<uri, nodes, proven, credits>> /\ Aside

\* confirmAssignment, the pattern: read first, ...
ReadPattern(c) ==
    LET call == calls[c]
    IN /\ Goes(c, "pattern", [call EXCEPT !.pc =
                  IF uri[call.pat] = None THEN "stamp" ELSE "choose"])
       /\ UNCHANGED store /\ Aside

\* ... then stamped, if it had no storage_uri when it was read.
StampPattern(c) ==
    LET call == calls[c]
    IN /\ Goes(c, "stamp", [call EXCEPT !.pc = "choose"])
       /\ uri' = [uri EXCEPT ![call.pat] = [node |-> call.node, sha |-> call.sha]]
       /\ UNCHANGED <<rows, nodes, proven, credits>> /\ Aside

\* pickChallengeForNode, on the heartbeats whose coin says so: any confirmed
\* row of the node.
Challenge(c) ==
    /\ At(c, "choose")
    /\ LET n == calls[c].node
       IN \E p \in Confirmed(n) :
             Goes(c, "choose", [calls[c] EXCEPT !.pc = "challenged", !.pat = p,
                                                !.sha = rows[n][p].sha])
    /\ UNCHANGED store /\ Aside

\* pickNextAssignment, as far as re-delivery: an unconfirmed row is sent again
\* with the blob as it is built now.  The order of assignedAt is left open.
Redeliver(c) ==
    /\ At(c, "choose") /\ calls[c].active
    /\ \E p \in Unconfirmed(calls[c].node) :
          /\ Built(p) # None
          /\ Goes(c, "choose", [calls[c] EXCEPT !.pc = "stored", !.pat = p,
                                                !.sha = Built(p)])
    /\ UNCHANGED store /\ Aside


\* pickNextAssignment when nothing is re-delivered: the count of the node's
\* rows is compared with the cap.
CheckCap(c) ==
    LET n == calls[c].node
        room == /\ calls[c].active
                /\ Cardinality(Held(n)) < MaxAssignments
    IN /\ At(c, "choose")
       /\ calls[c].active =>
              Unconfirmed(n) = {} \/ \E p \in Unconfirmed(n) : Built(p) = None
       /\ Goes(c, "choose", [calls[c] EXCEPT !.pc = IF room THEN "candidates"
                                                    ELSE "nothing"])
       /\ UNCHANGED store /\ Aside

\* The first rows of the candidate query: unstored patterns come first, and
\* nothing is said of the order among the others.
Windows(n) ==
    LET open == Patterns \ Held(n)
    IN {w \in SUBSET open :
            /\ Cardinality(w) = Min({LookAhead, Cardinality(open)})
            /\ \A p \in w, q \in open \ w : uri[p] # None => uri[q] # None}

\* The candidates that can be built, unstored ones before the others.
Firsts(w) ==
    LET good == {p \in w : Built(p) # None}
        unstored == {p \in good : uri[p] = None}
    IN IF unstored # {} THEN unstored ELSE good

PickCandidate(c) ==
    /\ At(c, "candidates")
    /\ \E w \in Windows(calls[c].node) :
          \/ \E p \in Firsts(w) :
                Goes(c, "candidates", [calls[c] EXCEPT !.pc = "create", !.pat = p,
                                                       !.sha = Built(p)])
          \/ /\ Firsts(w) = {}
             /\ Goes(c, "candidates", [calls[c] EXCEPT !.pc = "nothing"])
    /\ UNCHANGED store /\ Aside

\* The insert: (nodeId, patternId) is unique, and a clash ends the handler.
CreateRow(c) ==
    LET call == calls[c]  n == call.node  p == call.pat
        fresh == rows[n][p] = None
    IN /\ Goes(c, "create", [call EXCEPT !.pc = IF fresh THEN "stored" ELSE "nothing"])
       /\ rows' = IF fresh THEN [rows EXCEPT ![n][p] = NewRow(call.sha)] ELSE rows
       /\ UNCHANGED <<uri, nodes, proven, credits>> /\ Aside

-----------------------------------------------------------------------------
(* The proof handler. *)

\* The checks on the assignment row; lastChallengeAt is read here and used
\* when the reward is computed, at the end.
ProofRead(c) ==
    LET call == calls[c]  row == rows[call.node][call.pat]
    IN /\ Goes(c, "prove",
               IF row.status # "confirmed" THEN [call EXCEPT !.pc = "nothing"]
               ELSE [call EXCEPT !.pc = "check", !.prev = row.last])
       /\ UNCHANGED store /\ Aside

\* An expected hash of a range that is off by one.
ProofMatches_OffByOne(n, p, v) ==
    {TRUE} \cup (IF nodes[n].strikes < MaxStrikes THEN {FALSE} ELSE {})

\* The expected hash is of the blob as it is built now.  A range of another
\* version may happen to hold the same bytes.
ProofMatches(n, p, v) ==
    IF v = Built(p) THEN {TRUE}
    ELSE {TRUE} \cup (IF nodes[n].strikes < MaxStrikes THEN {FALSE} ELSE {})
CheckProof(c) ==
    LET call == calls[c]
    IN /\ At(c, "check")
       /\ IF Built(call.pat) = None
          THEN Goes(c, "check", [call EXCEPT !.pc = "nothing"])
          ELSE \E matched \in ProofMatches(call.node, call.pat, call.sha) :
                  Goes(c, "check", [call EXCEPT !.pc = IF matched THEN "success"
                                                       ELSE "strike"])
       /\ UNCHANGED store /\ Aside

\* A threshold that is off by one.
Strike_Beyond(c) ==
    LET call == calls[c]  n == call.node
        struck == [nodes[n] EXCEPT !.strikes = @ + 1]
        demotes == struck.strikes > StrikeThreshold /\ struck.status = "active"
    IN /\ Goes(c, "strike", [call EXCEPT !.pc = "failure", !.active = demotes])
       /\ nodes' = [nodes EXCEPT ![n] = struck]
       /\ UNCHANGED <<uri, rows, proven, credits>> /\ Aside

\* recordChallengeFailure: a strike, and the node row the update returns, ...
Strike(c) ==
    LET call == calls[c]  n == call.node
        struck == [nodes[n] EXCEPT !.strikes = @ + 1]
        demotes == struck.strikes >= StrikeThreshold /\ struck.status = "active"
    IN /\ Goes(c, "strike", [call EXCEPT !.pc = "failure", !.active = demotes])
       /\ nodes' = [nodes EXCEPT ![n] = struck]
       /\ UNCHANGED <<uri, rows, proven, credits>> /\ Aside


\* ... a failure on the assignment row, ...
CountFailure(c) ==
    LET call == calls[c]
    IN /\ Goes(c, "failure", [call EXCEPT !.pc = IF call.active THEN "demote"
                                                 ELSE "nothing"])
       /\ rows' = [rows EXCEPT ![call.node][call.pat].failures = @ + 1]
       /\ UNCHANGED <<uri, nodes, proven, credits>> /\ Aside

\* ... and the demotion.
Demote(c) ==
    LET call == calls[c]
    IN /\ Goes(c, "demote", [call EXCEPT !.pc = "nothing"])
       /\ nodes' = [nodes EXCEPT ![call.node].status = "striked"]
       /\ UNCHANGED <<uri, rows, proven, credits>> /\ Aside

\* recordChallengeSuccess: the assignment row, ...
RecordSuccess(c) ==
    LET call == calls[c]
    IN /\ Goes(c, "success", [call EXCEPT !.pc = "aggregate"])
       /\ rows' = [rows EXCEPT ![call.node][call.pat].last = now,
                               ![call.node][call.pat].failures = 0]
       /\ UNCHANGED <<uri, nodes, proven, credits>> /\ Aside

\* ... the sum over the node's confirmed rows, ...
Aggregate(c) ==
    LET call == calls[c]
    IN /\ Goes(c, "aggregate", [call EXCEPT !.pc = "proven",
                                            !.sum = Confirmed(call.node)])
       /\ UNCHANGED store /\ Aside

\* ... and provenGb.
SetProven(c) ==
    LET call == calls[c]
    IN /\ Goes(c, "proven", [call EXCEPT !.pc = "reward", !.sum = {}])
       /\ proven' = [proven EXCEPT ![call.node] = call.sum]
       /\ UNCHANGED <<uri, rows, nodes, credits>> /\ Aside

\* A reward for the whole period the cap allows, whatever was paid before.
Reward_WholeCap(c) ==
    LET call == calls[c]  n == call.node  p == call.pat
        from == Max({0, now - CapHours})
        paid == call.prev # None /\ now - call.prev >= MinEmit
    IN /\ Goes(c, "reward", [call EXCEPT !.pc = "nothing", !.prev = None])
       /\ credits' = IF paid THEN [credits EXCEPT ![n][p] = Append(@, <<from, now>>)]
                     ELSE credits
       /\ UNCHANGED <<uri, rows, nodes, proven>> /\ Aside

\* The reward of one proof: the time since the success the handler read at
\* its start, at most CapHours of it; none for a first proof; and
\* rewardNodeStorage drops what is below the minimal amount.
Reward(c) ==
    LET call == calls[c]  n == call.node  p == call.pat
        from == Max({call.prev, now - CapHours})
        paid == call.prev # None /\ now - from >= MinEmit
    IN /\ Goes(c, "reward", [call EXCEPT !.pc = "nothing", !.prev = None])
       /\ credits' = IF paid THEN [credits EXCEPT ![n][p] = Append(@, <<from, now>>)]
                     ELSE credits
       /\ UNCHANGED <<uri, rows, nodes, proven>> /\ Aside

-----------------------------------------------------------------------------
(* The rest of the world. *)

\* The execution a pattern's blob quotes - the earliest completed one of its
\* original intent - is completed again or gets an earlier rival.
SourceChanges(p) ==
    /\ blob[p] < MaxVersion
    /\ blob' = [blob EXCEPT ![p] = @ + 1]
    /\ UNCHANGED <<store, calls, clients, blobs, now, mishaps>>

\* Time is counted in units that are long beside a request.
Tick ==
    /\ now < MaxTime /\ \A c \in Calls : calls[c].pc = "free"
    /\ now' = now + 1
    /\ UNCHANGED <<blob, store, calls, clients, blobs, mishaps>>

HeartbeatStep(c) ==
    \/ ConfirmAssignment(c) \/ ReadPattern(c) \/ StampPattern(c)
    \/ Challenge(c) \/ Redeliver(c) \/ CheckCap(c)
    \/ PickCandidate(c) \/ CreateRow(c)
ProofStep(c) ==
    \/ ProofRead(c) \/ CheckProof(c)
    \/ Strike(c) \/ CountFailure(c) \/ Demote(c)
    \/ RecordSuccess(c) \/ Aggregate(c) \/ SetProven(c) \/ Reward(c)
Answer(c) == Dropped(c) \/ GotNothing(c) \/ GotStore(c) \/ GotChallenge(c)

Next ==
    \/ \E n \in Nodes : \/ Register(n) \/ CallFails(n) \/ Restart(n) \/ DiskLoss(n)
                        \/ \E c \in Calls : Heartbeat(n, c)
    \/ \E c \in Calls : HeartbeatStep(c) \/ ProofStep(c) \/ Answer(c)
    \/ \E p \in Patterns : SourceChanges(p)
    \/ Tick

Spec == Init /\ [][Next]_vars

\* A client in its loop polls, a handler that runs goes on, and its answer is
\* taken.  A heartbeat draws its coin anew each time, so re-delivery is not
\* passed over for a challenge for ever.
Fairness ==
    /\ \A n \in Nodes : WF_vars(Register(n))
                       /\ WF_vars(\E c \in Calls : Heartbeat(n, c))
    /\ \A c \in Calls : WF_vars(HeartbeatStep(c) \/ ProofStep(c) \/ Answer(c))
                       /\ SF_vars(Redeliver(c))

FairSpec == Spec /\ Fairness

-----------------------------------------------------------------------------
(* What must hold. *)

\* Every variable has values of its kind.
TypeOK ==
    /\ blob \in [Patterns -> Versions]
    /\ uri \in [Patterns -> [node : Nodes, sha : Versions] \cup {None}]
    /\ rows \in [Nodes -> [Patterns -> Rows \cup {None}]]
    /\ nodes \in [Nodes -> [status : {"unknown", "active", "striked"}, strikes : Nat]]
    /\ proven \in [Nodes -> SUBSET Patterns]
    /\ credits \in [Nodes -> [Patterns -> Seq(Times \X Times)]]
    /\ calls \in [Calls ->
          [pc : {"free", "confirm", "pattern", "stamp", "choose", "candidates",
                 "create", "nothing", "stored", "challenged", "prove", "check",
                 "strike", "failure", "demote", "success", "aggregate", "proven",
                 "reward"},
           node : Nodes \cup {None}, pat : Patterns \cup {None}, sha : Shas,
           active : BOOLEAN, prev : Times \cup {None}, sum : SUBSET Patterns]]
    /\ clients \in [Nodes ->
          [at : {"off", "idle", "waiting"}, call : Calls \cup {None},
           confirm : [pat : Patterns, sha : Versions] \cup {None}]]
    /\ blobs \in [Nodes -> SUBSET (Patterns \X Versions)]
    /\ now \in Times /\ mishaps \in 0..MaxMishaps

\* The place and hash a pattern row advertises (storage_assignment.ts:178) are
\* always those of one confirmed assignment, whichever of two nodes that
\* confirm the pattern at once writes last.
UriIsConfirmed ==
    \A p \in Patterns : uri[p] # None =>
        LET row == rows[uri[p].node][p]
        IN row # None /\ row.status = "confirmed" /\ row.sha = uri[p].sha

\* A node with StrikeThreshold strikes is out (nodes.ts:131) unless a handler
\* that counted a strike is still on its way to demote it; and no node is out
\* with fewer.
DemotedAtThreshold ==
    \A n \in Nodes :
        /\ nodes[n].status = "striked" => nodes[n].strikes >= StrikeThreshold
        /\ nodes[n].strikes >= StrikeThreshold =>
              \/ nodes[n].status = "striked"
              \/ \E c \in Calls : calls[c].node = n /\ calls[c].active
                                 /\ calls[c].pc \in {"failure", "demote"}

\* A node that answers from the bytes it was given is struck only after the
\* server's own copy has changed since the assignment was made
\* (proof/route.ts:56-67 against storage_assignment.ts:33).
StruckOnlyByDrift ==
    \A n \in Nodes : nodes[n].strikes > 0 =>
        \E p \in Held(n) : rows[n][p].sha # blob[p]

\* No hour of storing one blob is paid twice: the periods of a row's rewards
\* do not overlap (proof/route.ts:80-87).
NoHourPaidTwice ==
    \A n \in Nodes, p \in Patterns :
        \A i, j \in DOMAIN credits[n][p] :
            i < j => \/ credits[n][p][i][2] <= credits[n][p][j][1]
                     \/ credits[n][p][j][2] <= credits[n][p][i][1]

\* An assignment is confirmed in the end, through lost calls, restarts and a
\* lost disk (storage_assignment.ts:69-73), unless the blobs of the node's
\* assignments have changed since, or it is striked.
AssignedIsConfirmed ==
    \A n \in Nodes, p \in Patterns :
        rows[n][p] # None ~>
            \/ p \in Confirmed(n)
            \/ nodes[n].status = "striked"
            \/ \E q \in Held(n) : rows[n][q].sha # blob[q]

=============================================================================
