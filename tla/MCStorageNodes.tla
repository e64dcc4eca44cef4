---------------------------- MODULE MCStorageNodes ----------------------------
(* Small instances of StorageNodes for TLC. *)
EXTENDS StorageNodes, TLC

CONSTANTS p1, p2

\* Nodes, patterns and call slots are told apart by nothing but their names.
Alike == Permutations(Nodes) \cup Permutations(Patterns) \cup Permutations(Calls)

\* The second version of p2's blob is above the limit.
OneOutgrows == {<<p2, 2>>}
=============================================================================
