---------------------------- MODULE WorkContract ----------------------------
(***************************************************************************)
(* What the compute work queue promises, without handlers or rows: a job   *)
(* is taken once, by one worker, and that worker alone ends it; only the   *)
(* server fails a job; a finished job earns each reward once, and the      *)
(* compute reward only for a node's work.                                  *)
(***************************************************************************)
EXTENDS Naturals

CONSTANTS Jobs, Capabilities, Nodes, Server, None

VARIABLES
    stage,    \* stage[j] \in {"none", "open", "taken", "done", "failed"}
    holder,   \* holder[j]: who took j, None before
    credit    \* credit[j][r]: times reward r was paid for j

vars == <<stage, holder, credit>>

Rewards == Capabilities \cup {"node", "pattern"}

Init ==
    /\ stage = [j \in Jobs |-> "none"]
    /\ holder = [j \in Jobs |-> None]
    /\ credit = [j \in Jobs |-> [r \in Rewards |-> 0]]

Move(j, from, to) == /\ stage[j] = from
                     /\ stage' = [stage EXCEPT ![j] = to]

Post(j) == Move(j, "none", "open") /\ UNCHANGED <<holder, credit>>

Take(j, w) == /\ Move(j, "open", "taken")
              /\ holder' = [holder EXCEPT ![j] = w]
              /\ UNCHANGED credit

Finish(j) == Move(j, "taken", "done") /\ UNCHANGED <<holder, credit>>

Fail(j) == /\ holder[j] = Server
           /\ Move(j, "taken", "failed")
           /\ UNCHANGED <<holder, credit>>

Pay(j, r) == /\ stage[j] = "done"
             /\ credit[j][r] = 0
             /\ r = "node" => holder[j] \in Nodes
             /\ credit' = [credit EXCEPT ![j][r] = 1]
             /\ UNCHANGED <<stage, holder>>

Next == \E j \in Jobs :
    \/ Post(j) \/ Finish(j) \/ Fail(j)
    \/ \E w \in Nodes \cup {Server} : Take(j, w)
    \/ \E r \in Rewards : Pay(j, r)

Spec == Init /\ [][Next]_vars
=============================================================================
