---------------------------- MODULE MCWorkQueue ----------------------------
(* Instances of WorkQueue for TLC: which intent a job executes, which kinds *)
(* a node runs and whose requests the slots carry.                          *)
EXTENDS WorkQueue, TLC

CONSTANTS j1, j2, n1, n2, i1, i2, r1, r2, kA, kB, p1

\* Two executions of one intent.
SameIntent == [j \in Jobs |-> i1]

\* One execution of each of two intents.
OwnIntent == (j1 :> i1) @@ (j2 :> i2)

\* Every intent is of the same type; or the second of a type of its own.
OneKind  == [i \in Intents |-> kA]
TwoKinds == [i \in Intents |-> IF i = i1 THEN kA ELSE kB]

\* Every node runs the first kind only.
RunsFirst == [n \in Nodes |-> {kA}]

\* One slot for each node; or all slots for node n1.
SlotPerNode == (r1 :> n1) @@ (r2 :> n2)
SlotsOfOne  == [r \in Requests |-> n1]

\* All capabilities are one provider's, and every job hires them all.
OneProvider == [c \in Capabilities |-> p1]
HireAll     == [j \in Jobs |-> Capabilities]
=============================================================================
