------------------------- MODULE StorageNodes_proofs -------------------------
(* Proofs about StorageNodes: types, what a pattern row advertises, when a    *)
(* node is struck and when it is demoted, for any number of nodes, patterns   *)
(* and calls in flight.  The invariant says what each call carries past its   *)
(* first read; it holds because rows, strikes and blob versions only grow.    *)
EXTENDS StorageNodes, TLAPS

Steps == {"free", "confirm", "pattern", "stamp", "choose", "candidates",
          "create", "nothing", "stored", "challenged", "prove", "check",
          "strike", "failure", "demote", "success", "aggregate", "proven",
          "reward"}
Call == [pc : Steps, node : Nodes \cup {None}, pat : Patterns \cup {None},
         sha : Shas, active : BOOLEAN, prev : Times \cup {None},
         sum : SUBSET Patterns]
Client == [at : {"off", "idle", "waiting"}, call : Calls \cup {None},
           confirm : [pat : Patterns, sha : Versions] \cup {None}]
Node == [status : {"unknown", "active", "striked"}, strikes : Nat]

\* From the challenge on, the call speaks of the bytes of its row.
Proving == {"challenged", "prove", "check", "strike", "failure", "demote",
            "success", "aggregate", "proven", "reward"}
OnRow == {"confirm", "pattern", "stamp", "stored"} \cup Proving
Pending(c) == calls[c].active /\ calls[c].pc \in {"failure", "demote"}

\* What a call carries, by the point it has reached.
CallOK(c) ==
    LET call == calls[c]  n == call.node  p == call.pat
    IN /\ call.pc # "free" => n \in Nodes /\ nodes[n].status # "unknown"
       /\ call.pc \in OnRow \cup {"create"} => p \in Patterns /\ call.sha \in Versions
       /\ call.pc \in OnRow => rows[n][p] # None
       /\ call.pc \in {"pattern", "stamp"} =>
             rows[n][p].status = "confirmed" /\ rows[n][p].sha = call.sha
       /\ call.pc = "create" => call.sha <= blob[p]
       /\ call.pc \in Proving => rows[n][p].sha = call.sha
       /\ call.pc = "strike" => rows[n][p].sha # blob[p]
       /\ call.pc = "demote" => call.active
       /\ Pending(c) => nodes[n].strikes >= StrikeThreshold

\* A client past its start is registered, and confirms only what it was given.
ClientOK(n) ==
    /\ clients[n].at # "off" => nodes[n].status # "unknown"
    /\ clients[n].confirm # None => rows[n][clients[n].confirm.pat] # None

\* A row is of a version the blob has had.
RowOK(n, p) == rows[n][p] # None => rows[n][p].sha <= blob[p]

UriOK(p) == uri[p] # None =>
    LET row == rows[uri[p].node][p]
    IN row # None /\ row.status = "confirmed" /\ row.sha = uri[p].sha
StruckOK(n) == nodes[n].strikes > 0 => \E p \in Held(n) : rows[n][p].sha # blob[p]
DemotedOK(n) ==
    /\ nodes[n].status = "striked" => nodes[n].strikes >= StrikeThreshold
    /\ nodes[n].strikes >= StrikeThreshold =>
          nodes[n].status = "striked" \/ \E c \in Calls : calls[c].node = n /\ Pending(c)
NodeOK(n) ==
    /\ nodes[n].status = "unknown" => nodes[n].strikes = 0
    /\ StruckOK(n) /\ DemotedOK(n)

IInv ==
    /\ TypeOK
    /\ \A c \in Calls : CallOK(c)
    /\ \A n \in Nodes : ClientOK(n) /\ NodeOK(n)
    /\ \A n \in Nodes, p \in Patterns : RowOK(n, p)
    /\ \A p \in Patterns : UriOK(p)

\* No step takes back a row, its hash or its confirmation, a strike, the
\* registration of a node, or a version.
Grows ==
    /\ \A n \in Nodes, p \in Patterns : rows[n][p] # None =>
          /\ rows'[n][p] # None /\ rows'[n][p].sha = rows[n][p].sha
          /\ rows[n][p].status = "confirmed" => rows'[n][p].status = "confirmed"
    /\ \A n \in Nodes : /\ nodes'[n].strikes >= nodes[n].strikes
                        /\ nodes[n].status # "unknown" => nodes'[n].status # "unknown"
                        /\ nodes[n].status = "striked" => nodes'[n].status = "striked"
    /\ \A p \in Patterns : blob'[p] >= blob[p]

\* What a step must show of the parts it changes.
Changes ==
    /\ \A c \in Calls : calls'[c] # calls[c] => CallOK(c)'
    /\ \A c \in Calls : calls'[c] # calls[c] /\ Pending(c) =>
          \/ Pending(c)' /\ calls'[c].node = calls[c].node
          \/ nodes'[calls[c].node].status = "striked"
    /\ \A n \in Nodes : clients'[n] # clients[n] => ClientOK(n)'
    /\ \A n \in Nodes : nodes'[n] # nodes[n] => NodeOK(n)'
    /\ \A n \in Nodes, p \in Patterns : rows[n][p] = None => RowOK(n, p)'
    /\ \A p \in Patterns : uri'[p] # uri[p] => UriOK(p)'

-----------------------------------------------------------------------------
(* What does not change stays right. *)

LEMMA CallStays ==
    ASSUME IInv, TypeOK', Grows, NEW c \in Calls, calls'[c] = calls[c]
    PROVE  CallOK(c)'
<1>1. CallOK(c) /\ calls[c] \in Call
  BY DEF IInv, TypeOK, Call, Steps
<1>2. /\ blob \in [Patterns -> Nat] /\ blob' \in [Patterns -> Nat]
      /\ nodes \in [Nodes -> Node] /\ nodes' \in [Nodes -> Node]
  BY StorageAssumption DEF IInv, TypeOK, Versions, Node
<1>3. \A n \in Nodes, p \in Patterns : RowOK(n, p)
  BY DEF IInv
<1>4. \A n \in Nodes, p \in Patterns : rows[n][p] # None => rows[n][p].sha \in Nat
  BY StorageAssumption DEF IInv, TypeOK, Rows, Versions
<1>5. calls[c].pc # "free" =>
         calls[c].node \in Nodes /\ nodes'[calls[c].node].status # "unknown"
  BY <1>1 DEF CallOK, Grows
<1>6. Pending(c) => nodes'[calls[c].node].strikes >= StrikeThreshold
  <2>1. StrikeThreshold \in Nat
    BY StorageAssumption
  <2>2. Pending(c) => calls[c].node \in Nodes /\ nodes[calls[c].node].strikes >= StrikeThreshold
    BY <1>1 DEF CallOK, Pending
  <2> QED BY <1>2, <2>1, <2>2 DEF Grows, Node
<1>7. calls[c].pc = "strike" =>
         rows'[calls[c].node][calls[c].pat].sha # blob'[calls[c].pat]
  <2> SUFFICES ASSUME calls[c].pc = "strike"
               PROVE  rows'[calls[c].node][calls[c].pat].sha # blob'[calls[c].pat]
    OBVIOUS
  <2> DEFINE n == calls[c].node  p == calls[c].pat
  <2>1. n \in Nodes /\ p \in Patterns /\ rows[n][p] # None /\ rows[n][p].sha # blob[p]
    BY <1>1 DEF CallOK, OnRow, Proving
  <2>2. rows[n][p].sha <= blob[p] /\ rows[n][p].sha \in Nat
    BY <2>1, <1>3, <1>4 DEF RowOK
  <2>3. rows'[n][p].sha = rows[n][p].sha /\ blob'[p] >= blob[p]
    BY <2>1 DEF Grows
  <2>4. blob[p] \in Nat /\ blob'[p] \in Nat
    BY <1>2, <2>1
  <2> HIDE DEF n, p
  <2>5. rows'[n][p].sha # blob'[p]
    BY <2>1, <2>2, <2>3, <2>4
  <2> QED BY <2>5 DEF n, p
<1>8. calls[c].pc = "create" => calls[c].sha <= blob'[calls[c].pat]
  <2>1. calls[c].pc = "create" => /\ calls[c].pat \in Patterns
                                  /\ calls[c].sha \in Versions
                                  /\ calls[c].sha <= blob[calls[c].pat]
    BY <1>1 DEF CallOK
  <2> QED BY <2>1, <1>2, StorageAssumption DEF Grows, Versions
<1>9. calls[c].pc \in OnRow =>
         LET n == calls[c].node  p == calls[c].pat
         IN /\ p \in Patterns /\ calls[c].sha \in Versions
            /\ rows'[n][p] # None /\ rows'[n][p].sha = rows[n][p].sha
            /\ rows[n][p].status = "confirmed" => rows'[n][p].status = "confirmed"
  BY <1>1 DEF CallOK, Grows, OnRow, Proving
<1> QED
  BY <1>1, <1>5, <1>6, <1>7, <1>8, <1>9
     DEF CallOK, Pending, OnRow, Proving

LEMMA NodeStays ==
    ASSUME IInv, TypeOK', Grows, Changes, NEW n \in Nodes, nodes'[n] = nodes[n]
    PROVE  NodeOK(n)'
<1>1. NodeOK(n)
  BY DEF IInv
<1>2. StruckOK(n)'
  <2> SUFFICES ASSUME nodes[n].strikes > 0
               PROVE  \E p \in Held(n)' : rows'[n][p].sha # blob'[p]
    BY DEF StruckOK
  <2>1. PICK p \in Held(n) : rows[n][p].sha # blob[p]
    BY <1>1 DEF NodeOK, StruckOK
  <2>2. p \in Patterns /\ rows[n][p] # None
    BY DEF Held
  <2>3. rows'[n][p] # None /\ rows'[n][p].sha = rows[n][p].sha /\ blob'[p] >= blob[p]
    BY <2>2 DEF Grows
  <2>4. rows[n][p].sha \in Nat /\ blob[p] \in Nat /\ blob'[p] \in Nat
    BY <2>2, StorageAssumption DEF IInv, TypeOK, Rows, Versions
  <2>5. rows[n][p].sha <= blob[p]
    BY <2>2 DEF IInv, RowOK
  <2>6. rows'[n][p].sha # blob'[p]
    BY <2>1, <2>3, <2>4, <2>5
  <2> QED BY <2>2, <2>3, <2>6 DEF Held
<1>3. DemotedOK(n)'
  <2> SUFFICES ASSUME nodes[n].strikes >= StrikeThreshold, nodes[n].status # "striked"
               PROVE  \E c \in Calls : calls'[c].node = n /\ Pending(c)'
    BY <1>1 DEF NodeOK, DemotedOK
  <2>1. PICK c \in Calls : calls[c].node = n /\ Pending(c)
    BY <1>1 DEF NodeOK, DemotedOK
  <2>2. Pending(c)' /\ calls'[c].node = n
    BY <2>1 DEF Changes, Pending
  <2> QED BY <2>2
<1> QED BY <1>1, <1>2, <1>3 DEF NodeOK

\* A step that shows its changes right keeps the invariant.
LEMMA Settles ==
    ASSUME IInv, TypeOK', Grows, Changes
    PROVE  IInv'
<1>1. \A c \in Calls : CallOK(c)'
  BY CallStays DEF Changes
<1>2. \A n \in Nodes : NodeOK(n)'
  BY NodeStays DEF Changes
<1>3. \A n \in Nodes : ClientOK(n)'
  <2> SUFFICES ASSUME NEW n \in Nodes, clients'[n] = clients[n] PROVE ClientOK(n)'
    BY DEF Changes
  <2>1. ClientOK(n) /\ clients[n] \in Client
    BY DEF IInv, TypeOK, Client
  <2> QED BY <2>1 DEF ClientOK, Grows, Client
<1>4. \A n \in Nodes, p \in Patterns : RowOK(n, p)'
  <2> SUFFICES ASSUME NEW n \in Nodes, NEW p \in Patterns, rows[n][p] # None
               PROVE  rows'[n][p].sha <= blob'[p]
    BY DEF Changes, RowOK
  <2>1. rows[n][p].sha <= blob[p]
    BY DEF IInv, RowOK
  <2>2. rows'[n][p].sha = rows[n][p].sha /\ blob'[p] >= blob[p]
    BY DEF Grows
  <2>3. rows[n][p].sha \in Nat /\ blob[p] \in Nat /\ blob'[p] \in Nat
    BY StorageAssumption DEF IInv, TypeOK, Rows, Versions
  <2> QED BY <2>1, <2>2, <2>3
<1>5. \A p \in Patterns : UriOK(p)'
  <2> SUFFICES ASSUME NEW p \in Patterns, uri'[p] = uri[p] PROVE UriOK(p)'
    BY DEF Changes
  <2>1. UriOK(p) /\ (uri[p] # None => uri[p].node \in Nodes)
    BY DEF IInv, TypeOK
  <2> QED BY <2>1 DEF UriOK, Grows
<1> QED BY <1>1, <1>2, <1>3, <1>4, <1>5 DEF IInv

-----------------------------------------------------------------------------
(* Types of the parts a step writes. *)

\* TypeOK, with the names used here.
Kinds ==
    /\ blob \in [Patterns -> Versions]
    /\ uri \in [Patterns -> [node : Nodes, sha : Versions] \cup {None}]
    /\ rows \in [Nodes -> [Patterns -> Rows \cup {None}]]
    /\ nodes \in [Nodes -> Node]
    /\ proven \in [Nodes -> SUBSET Patterns]
    /\ credits \in [Nodes -> [Patterns -> Seq(Times \X Times)]]
    /\ calls \in [Calls -> Call]
    /\ clients \in [Nodes -> Client]
    /\ blobs \in [Nodes -> SUBSET (Patterns \X Versions)]
    /\ now \in Times /\ mishaps \in 0..MaxMishaps

LEMMA Typed == (TypeOK <=> Kinds) /\ (TypeOK' <=> Kinds')
BY DEF TypeOK, Kinds, Node, Call, Steps, Client

LEMMA Apart == None \notin Nodes /\ None \notin Patterns /\ None \notin Calls
               /\ None \notin Int /\ None \notin Versions /\ None \notin Times
BY StorageAssumption DEF Versions, Times

LEMMA IdleTyped == FreeCall \in Call /\ OffClient \in Client
BY Apart DEF FreeCall, OffClient, Call, Client, Steps, Shas, Client

\* A free slot carries nothing.
LEMMA Free == ASSUME NEW c \in Calls, calls'[c].pc = "free" PROVE CallOK(c)' /\ ~ Pending(c)'
BY DEF CallOK, Pending, OnRow, Proving

\* What a step that only moves one call must show.
LEMMA OneCallMoves ==
    ASSUME IInv, NEW c \in Calls, NEW new \in Call,
           calls' = [calls EXCEPT ![c] = new],
           UNCHANGED <<blob, rows, nodes, uri>>,
           CallOK(c)', ~ Pending(c),
           TypeOK', \A n \in Nodes : clients'[n] # clients[n] => ClientOK(n)'
    PROVE  IInv'
<1>1. calls \in [Calls -> Call]
  BY Typed DEF Kinds, IInv
<1>2. \A d \in Calls : d # c => calls'[d] = calls[d]
  BY <1>1
<1>3. Grows
  <2>1. /\ blob \in [Patterns -> Nat] /\ \A n \in Nodes : nodes[n].strikes \in Nat
    BY StorageAssumption, Typed DEF Kinds, IInv, Versions, Node
  <2> QED BY <2>1 DEF Grows
<1>4. Changes
  <2>1. \A n \in Nodes, p \in Patterns : rows[n][p] = None => RowOK(n, p)'
    BY DEF RowOK
  <2> QED BY <1>2, <2>1 DEF Changes
<1> QED BY <1>3, <1>4, Settles

-----------------------------------------------------------------------------
(* The steps that move one call and write no row. *)

LEMMA ReadPatternKeeps == ASSUME IInv, NEW c \in Calls, ReadPattern(c) PROVE IInv'
<1> DEFINE new == [calls[c] EXCEPT !.pc = IF uri[calls[c].pat] = None
                                          THEN "stamp" ELSE "choose"]
<1>1. /\ calls[c] \in Call /\ CallOK(c) /\ calls[c].pc = "pattern"
      /\ calls \in [Calls -> Call]
  BY Typed DEF Kinds, IInv, ReadPattern, Goes, At
<1>2. new \in Call /\ calls' = [calls EXCEPT ![c] = new]
  BY <1>1 DEF ReadPattern, Goes, Call, Steps
<1>3. CallOK(c)'
  BY <1>1, <1>2 DEF CallOK, Pending, OnRow, Proving, Call, ReadPattern, store, Aside
<1> HIDE DEF new
<1>4. TypeOK'
  BY <1>1, <1>2, Typed DEF Kinds, IInv, ReadPattern, store, Aside
<1> QED BY <1>1, <1>2, <1>3, <1>4, OneCallMoves DEF ReadPattern, store, Aside, Pending

LEMMA ChallengeKeeps == ASSUME IInv, NEW c \in Calls, Challenge(c) PROVE IInv'
<1> DEFINE n == calls[c].node
<1>1. /\ calls[c] \in Call /\ CallOK(c) /\ calls[c].pc = "choose" /\ n \in Nodes
      /\ calls \in [Calls -> Call] /\ rows[n] \in [Patterns -> Rows \cup {None}]
  BY Typed DEF Kinds, IInv, Challenge, At, CallOK
<1>2. PICK p \in Patterns :
         /\ rows[n][p] # None
         /\ calls' = [calls EXCEPT ![c] = [calls[c] EXCEPT
                          !.pc = "challenged", !.pat = p, !.sha = rows[n][p].sha]]
  BY DEF Challenge, Confirmed, Held, Goes
<1> DEFINE new == [calls[c] EXCEPT !.pc = "challenged", !.pat = p, !.sha = rows[n][p].sha]
<1>3. rows[n][p].sha \in Versions
  BY <1>1, <1>2 DEF Rows
<1>4. new \in Call /\ calls' = [calls EXCEPT ![c] = new]
  BY <1>1, <1>2, <1>3 DEF Call, Steps, Shas
<1>5. CallOK(c)'
  BY <1>1, <1>2, <1>3, <1>4
     DEF CallOK, Pending, OnRow, Proving, Call, Challenge, store, Aside
<1> HIDE DEF new, n
<1>6. TypeOK'
  BY <1>1, <1>4, Typed DEF Kinds, IInv, Challenge, store, Aside
<1> QED BY <1>1, <1>4, <1>5, <1>6, OneCallMoves DEF Challenge, store, Aside, Pending

LEMMA RedeliverKeeps == ASSUME IInv, NEW c \in Calls, Redeliver(c) PROVE IInv'
<1> DEFINE n == calls[c].node
<1>1. /\ calls[c] \in Call /\ CallOK(c) /\ calls[c].pc = "choose" /\ n \in Nodes
      /\ calls \in [Calls -> Call] /\ blob \in [Patterns -> Versions]
  BY Typed DEF Kinds, IInv, Redeliver, At, CallOK
<1>2. PICK p \in Patterns :
         /\ rows[n][p] # None /\ Built(p) # None
         /\ calls' = [calls EXCEPT ![c] = [calls[c] EXCEPT
                          !.pc = "stored", !.pat = p, !.sha = Built(p)]]
  BY DEF Redeliver, Unconfirmed, Held, Goes
<1> DEFINE new == [calls[c] EXCEPT !.pc = "stored", !.pat = p, !.sha = Built(p)]
<1>3. Built(p) \in Versions
  BY <1>1, <1>2 DEF Built
<1>4. new \in Call /\ calls' = [calls EXCEPT ![c] = new]
  BY <1>1, <1>2, <1>3 DEF Call, Steps, Shas
<1>5. CallOK(c)'
  BY <1>1, <1>2, <1>3, <1>4
     DEF CallOK, Pending, OnRow, Proving, Call, Redeliver, store, Aside
<1> HIDE DEF new, n
<1>6. TypeOK'
  BY <1>1, <1>4, Typed DEF Kinds, IInv, Redeliver, store, Aside
<1> QED BY <1>1, <1>4, <1>5, <1>6, OneCallMoves DEF Redeliver, store, Aside, Pending

LEMMA CheckCapKeeps == ASSUME IInv, NEW c \in Calls, CheckCap(c) PROVE IInv'
<1>1. /\ calls[c] \in Call /\ CallOK(c) /\ calls[c].pc = "choose"
      /\ calls \in [Calls -> Call]
  BY Typed DEF Kinds, IInv, CheckCap, At
<1>2. PICK pc \in {"candidates", "nothing"} :
         calls' = [calls EXCEPT ![c] = [calls[c] EXCEPT !.pc = pc]]
  BY DEF CheckCap, Goes
<1> DEFINE new == [calls[c] EXCEPT !.pc = pc]
<1>3. new \in Call /\ calls' = [calls EXCEPT ![c] = new]
  BY <1>1, <1>2 DEF Call, Steps
<1>4. CallOK(c)'
  BY <1>1, <1>2, <1>3 DEF CallOK, Pending, OnRow, Proving, Call, CheckCap, store, Aside
<1> HIDE DEF new
<1>5. TypeOK'
  BY <1>1, <1>3, Typed DEF Kinds, IInv, CheckCap, store, Aside
<1> QED BY <1>1, <1>3, <1>4, <1>5, OneCallMoves DEF CheckCap, store, Aside, Pending

LEMMA PickCandidateKeeps == ASSUME IInv, NEW c \in Calls, PickCandidate(c) PROVE IInv'
<1> DEFINE n == calls[c].node
<1>1. /\ calls[c] \in Call /\ CallOK(c) /\ calls[c].pc = "candidates" /\ n \in Nodes
      /\ calls \in [Calls -> Call] /\ blob \in [Patterns -> Versions]
  BY Typed DEF Kinds, IInv, PickCandidate, At, CallOK
<1>2. PICK w \in Windows(n) :
         \/ \E p \in Firsts(w) : calls' = [calls EXCEPT ![c] = [calls[c] EXCEPT
                                    !.pc = "create", !.pat = p, !.sha = Built(p)]]
         \/ calls' = [calls EXCEPT ![c] = [calls[c] EXCEPT !.pc = "nothing"]]
  BY DEF PickCandidate, Goes
<1>3. CASE calls' = [calls EXCEPT ![c] = [calls[c] EXCEPT !.pc = "nothing"]]
  <2> DEFINE new == [calls[c] EXCEPT !.pc = "nothing"]
  <2>1. new \in Call /\ calls' = [calls EXCEPT ![c] = new]
    BY <1>1, <1>3 DEF Call, Steps
  <2>2. CallOK(c)'
    BY <1>1, <2>1 DEF CallOK, Pending, OnRow, Proving, Call, PickCandidate, store, Aside
  <2> HIDE DEF new
  <2>3. TypeOK'
    BY <1>1, <2>1, Typed DEF Kinds, IInv, PickCandidate, store, Aside
  <2> QED BY <1>1, <2>1, <2>2, <2>3, OneCallMoves
             DEF PickCandidate, store, Aside, Pending
<1>4. CASE \E p \in Firsts(w) : calls' = [calls EXCEPT ![c] = [calls[c] EXCEPT
                                    !.pc = "create", !.pat = p, !.sha = Built(p)]]
  <2>1. PICK p \in Firsts(w) : calls' = [calls EXCEPT ![c] = [calls[c] EXCEPT
                                    !.pc = "create", !.pat = p, !.sha = Built(p)]]
    BY <1>4
  <2>2. p \in Patterns /\ Built(p) # None
    BY DEF Firsts, Windows
  <2>3. Built(p) = blob[p] /\ blob[p] \in Versions
    BY <1>1, <2>2 DEF Built
  <2> DEFINE new == [calls[c] EXCEPT !.pc = "create", !.pat = p, !.sha = Built(p)]
  <2>4. new \in Call /\ calls' = [calls EXCEPT ![c] = new]
    BY <1>1, <2>1, <2>2, <2>3 DEF Call, Steps, Shas
  <2>5. blob' = blob /\ nodes' = nodes
    BY DEF PickCandidate, store, Aside
  <2>6. Built(p) <= blob[p]
    BY <2>3, StorageAssumption DEF Versions
  <2>7. CallOK(c)'
    BY <1>1, <2>2, <2>3, <2>4, <2>5, <2>6 DEF CallOK, Pending, OnRow, Proving, Call
  <2> HIDE DEF new, n
  <2>8. TypeOK'
    BY <1>1, <2>4, Typed DEF Kinds, IInv, PickCandidate, store, Aside
  <2> QED BY <1>1, <2>4, <2>7, <2>8, OneCallMoves
             DEF PickCandidate, store, Aside, Pending
<1> QED BY <1>2, <1>3, <1>4

LEMMA ProofReadKeeps == ASSUME IInv, NEW c \in Calls, ProofRead(c) PROVE IInv'
<1> DEFINE row == rows[calls[c].node][calls[c].pat]
           new == IF row.status # "confirmed" THEN [calls[c] EXCEPT !.pc = "nothing"]
                  ELSE [calls[c] EXCEPT !.pc = "check", !.prev = row.last]
<1>1. /\ calls[c] \in Call /\ CallOK(c) /\ calls[c].pc = "prove"
      /\ calls \in [Calls -> Call] /\ rows \in [Nodes -> [Patterns -> Rows \cup {None}]]
  BY Typed DEF Kinds, IInv, ProofRead, Goes, At
<1>2. calls[c].node \in Nodes /\ calls[c].pat \in Patterns /\ row # None
  BY <1>1 DEF CallOK, OnRow, Proving
<1>3. row.last \in Times \cup {None}
  BY <1>1, <1>2 DEF Rows
<1>4. new \in Call /\ calls' = [calls EXCEPT ![c] = new]
  <2>1. new \in Call
    BY <1>1, <1>3 DEF Call, Steps
  <2>2. calls' = [calls EXCEPT ![c] = new]
    BY DEF ProofRead, Goes
  <2> QED BY <2>1, <2>2
<1>5. /\ calls'[c].node = calls[c].node /\ calls'[c].pat = calls[c].pat
      /\ calls'[c].sha = calls[c].sha /\ calls'[c].pc \in {"nothing", "check"}
  BY <1>1, <1>4 DEF Call
<1>6. blob' = blob /\ rows' = rows /\ nodes' = nodes
  BY DEF ProofRead, store, Aside
<1>7. CallOK(c)'
  BY <1>1, <1>5, <1>6 DEF CallOK, Pending, OnRow, Proving
<1> HIDE DEF new
<1>8. TypeOK'
  BY <1>1, <1>4, Typed DEF Kinds, IInv, ProofRead, store, Aside
<1> QED BY <1>1, <1>4, <1>7, <1>8, OneCallMoves DEF ProofRead, store, Aside, Pending

LEMMA CheckProofKeeps == ASSUME IInv, NEW c \in Calls, CheckProof(c) PROVE IInv'
<1>1. /\ calls[c] \in Call /\ CallOK(c) /\ calls[c].pc = "check"
      /\ calls \in [Calls -> Call]
  BY Typed DEF Kinds, IInv, CheckProof, At
<1>2. PICK pc \in {"nothing", "success", "strike"} :
         /\ calls' = [calls EXCEPT ![c] = [calls[c] EXCEPT !.pc = pc]]
         /\ pc = "strike" => calls[c].sha # blob[calls[c].pat]
  <2>1. CASE Built(calls[c].pat) = None
    BY <2>1 DEF CheckProof, Goes
  <2>2. CASE Built(calls[c].pat) # None
    <3>1. Built(calls[c].pat) = blob[calls[c].pat]
      BY <2>2 DEF Built
    <3>2. PICK matched \in ProofMatches(calls[c].node, calls[c].pat, calls[c].sha) :
             calls' = [calls EXCEPT ![c] = [calls[c] EXCEPT
                          !.pc = IF matched THEN "success" ELSE "strike"]]
      BY <2>2 DEF CheckProof, Goes
    <3>3. ~ matched => calls[c].sha # blob[calls[c].pat]
      BY <3>1 DEF ProofMatches
    <3> QED BY <3>2, <3>3
  <2> QED BY <2>1, <2>2
<1> DEFINE new == [calls[c] EXCEPT !.pc = pc]
<1>3. new \in Call /\ calls' = [calls EXCEPT ![c] = new]
  BY <1>1, <1>2 DEF Call, Steps
<1>4. CallOK(c)'
  BY <1>1, <1>2, <1>3 DEF CallOK, Pending, OnRow, Proving, Call, CheckProof, store, Aside
<1> HIDE DEF new
<1>5. TypeOK'
  BY <1>1, <1>3, Typed DEF Kinds, IInv, CheckProof, store, Aside
<1> QED BY <1>1, <1>3, <1>4, <1>5, OneCallMoves DEF CheckProof, store, Aside, Pending

LEMMA AggregateKeeps == ASSUME IInv, NEW c \in Calls, Aggregate(c) PROVE IInv'
<1> DEFINE new == [calls[c] EXCEPT !.pc = "proven", !.sum = Confirmed(calls[c].node)]
<1>1. /\ calls[c] \in Call /\ CallOK(c) /\ calls[c].pc = "aggregate"
      /\ calls \in [Calls -> Call] /\ Confirmed(calls[c].node) \subseteq Patterns
  BY Typed DEF Kinds, IInv, Aggregate, Goes, At, Confirmed, Held
<1>2. new \in Call /\ calls' = [calls EXCEPT ![c] = new]
  BY <1>1 DEF Aggregate, Goes, Call, Steps
<1>3. CallOK(c)'
  BY <1>1, <1>2 DEF CallOK, Pending, OnRow, Proving, Call, Aggregate, store, Aside
<1> HIDE DEF new
<1>4. TypeOK'
  BY <1>1, <1>2, Typed DEF Kinds, IInv, Aggregate, store, Aside
<1> QED BY <1>1, <1>2, <1>3, <1>4, OneCallMoves DEF Aggregate, store, Aside, Pending

LEMMA SetProvenKeeps == ASSUME IInv, NEW c \in Calls, SetProven(c) PROVE IInv'
<1> DEFINE new == [calls[c] EXCEPT !.pc = "reward", !.sum = {}]
<1>1. /\ calls[c] \in Call /\ CallOK(c) /\ calls[c].pc = "proven"
      /\ calls \in [Calls -> Call]
  BY Typed DEF Kinds, IInv, SetProven, Goes, At
<1>2. new \in Call /\ calls' = [calls EXCEPT ![c] = new]
  BY <1>1 DEF SetProven, Goes, Call, Steps
<1>3. CallOK(c)'
  BY <1>1, <1>2 DEF CallOK, Pending, OnRow, Proving, Call, SetProven, Aside
<1> HIDE DEF new
<1>4. proven' \in [Nodes -> SUBSET Patterns]
  BY <1>1, Typed DEF Kinds, IInv, SetProven, Call
<1>5. TypeOK'
  BY <1>1, <1>2, <1>4, Typed DEF Kinds, IInv, SetProven, Aside
<1> QED BY <1>1, <1>2, <1>3, <1>5, OneCallMoves DEF SetProven, Aside, Pending

\* The period of a reward lies within the time that has passed.
LEMMA PeriodTyped ==
    ASSUME NEW prev \in Times, now \in Times
    PROVE  LET from == Max({prev, now - CapHours})
           IN from \in Int /\ from >= prev /\ (from = prev \/ from = now - CapHours)
<1>1. CapHours \in Nat /\ prev \in Int /\ now - CapHours \in Int
  BY StorageAssumption DEF Times
<1>2. \E x \in {prev, now - CapHours} : \A y \in {prev, now - CapHours} : x >= y
  BY <1>1
<1> DEFINE from == Max({prev, now - CapHours})
<1>3. from \in {prev, now - CapHours} /\ \A y \in {prev, now - CapHours} : from >= y
  BY <1>2 DEF Max
<1> QED BY <1>1, <1>3

LEMMA RewardKeeps == ASSUME IInv, NEW c \in Calls, Reward(c) PROVE IInv'
<1> DEFINE new == [calls[c] EXCEPT !.pc = "nothing", !.prev = None]
           n == calls[c].node  p == calls[c].pat
           from == Max({calls[c].prev, now - CapHours})
<1>1. /\ calls[c] \in Call /\ CallOK(c) /\ calls[c].pc = "reward"
      /\ calls \in [Calls -> Call] /\ now \in Times
      /\ credits \in [Nodes -> [Patterns -> Seq(Times \X Times)]]
  BY Typed DEF Kinds, IInv, Reward, Goes, At
<1>2. new \in Call /\ calls' = [calls EXCEPT ![c] = new]
  BY <1>1 DEF Reward, Goes, Call, Steps
<1>3. CallOK(c)'
  BY <1>1, <1>2 DEF CallOK, Pending, OnRow, Proving, Call, Reward, Aside
<1> HIDE DEF new
<1>4. credits' \in [Nodes -> [Patterns -> Seq(Times \X Times)]]
  <2>1. CASE calls[c].prev # None /\ now - from >= MinEmit
    <3>1. calls[c].prev \in Times
      BY <1>1, <2>1 DEF Call
    <3>2. from \in Int /\ from >= calls[c].prev
      BY <1>1, <3>1, PeriodTyped
    <3>3. from \in Times
      <4>1. MinEmit \in Nat /\ MaxTime \in Nat
        BY StorageAssumption
      <4> HIDE DEF from
      <4> QED BY <1>1, <2>1, <3>1, <3>2, <4>1 DEF Times
    <3>4. credits' = [credits EXCEPT ![n][p] = Append(@, <<from, now>>)]
      BY <2>1 DEF Reward
    <3>5. n \in Nodes /\ p \in Patterns
      BY <1>1 DEF CallOK, OnRow, Proving
    <3> HIDE DEF from, n, p
    <3>6. credits[n] \in [Patterns -> Seq(Times \X Times)] /\ <<from, now>> \in Times \X Times
      BY <1>1, <3>3, <3>5
    <3>7. Append(credits[n][p], <<from, now>>) \in Seq(Times \X Times)
      BY <3>5, <3>6
    <3> QED BY <1>1, <3>4, <3>5, <3>6, <3>7
  <2>2. CASE ~ (calls[c].prev # None /\ now - from >= MinEmit)
    BY <1>1, <2>2 DEF Reward
  <2> QED BY <2>1, <2>2
<1> HIDE DEF from, n, p
<1>5. TypeOK'
  BY <1>1, <1>2, <1>4, Typed DEF Kinds, IInv, Reward, Aside
<1> QED BY <1>1, <1>2, <1>3, <1>5, OneCallMoves DEF Reward, Aside, Pending

-----------------------------------------------------------------------------
(* The answers, and the node process. *)

LEMMA Freed ==
    ASSUME IInv, NEW c \in Calls, calls' = [calls EXCEPT ![c] = FreeCall]
    PROVE  CallOK(c)' /\ calls' \in [Calls -> Call]
<1>1. calls \in [Calls -> Call]
  BY Typed DEF Kinds, IInv
<1>2. calls'[c].pc = "free" /\ calls' \in [Calls -> Call]
  BY <1>1, IdleTyped DEF FreeCall
<1> QED BY <1>2, Free

\* A client that starts over confirms nothing.
LEMMA ClientReset ==
    ASSUME IInv, NEW n \in Nodes, clients[n].at # "off", nodes' = nodes,
           clients' = [clients EXCEPT ![n] = [OffClient EXCEPT !.at = "idle"]]
    PROVE  /\ clients' \in [Nodes -> Client]
           /\ \A m \in Nodes : clients'[m] # clients[m] => ClientOK(m)'
<1>1. clients \in [Nodes -> Client] /\ ClientOK(n)
  BY Typed DEF Kinds, IInv
<1>2. [OffClient EXCEPT !.at = "idle"] \in Client
  BY IdleTyped DEF Client
<1>3. clients' \in [Nodes -> Client] /\ \A m \in Nodes : m # n => clients'[m] = clients[m]
  BY <1>1, <1>2
<1>4. ClientOK(n)'
  <2>1. clients'[n] = [OffClient EXCEPT !.at = "idle"]
    BY <1>1
  <2> QED BY <1>1, <2>1 DEF ClientOK, OffClient
<1> QED BY <1>3, <1>4

LEMMA AnswerKeeps == ASSUME IInv, NEW c \in Calls, Answer(c) PROVE IInv'
<1>0. PICK n : n = calls[c].node
  OBVIOUS
<1>1. /\ calls[c] \in Call /\ CallOK(c) /\ calls \in [Calls -> Call]
      /\ clients \in [Nodes -> Client] /\ FreeCall \in Call
      /\ blobs \in [Nodes -> SUBSET (Patterns \X Versions)]
  BY IdleTyped, Typed DEF Kinds, IInv
<1>2. CASE Dropped(c)
  <2>1. CallOK(c)' /\ calls' \in [Calls -> Call]
    BY <1>2, Freed DEF Dropped
  <2>2. TypeOK'
    BY <1>2, <2>1, Typed DEF Kinds, IInv, Dropped, store
  <2> QED BY <1>0, <1>1, <1>2, <2>1, <2>2, OneCallMoves DEF Dropped, store, Pending
<1>3. CASE GotNothing(c)
  <2>1. n \in Nodes /\ clients[n].at # "off"
    BY <1>0, <1>1, <1>3 DEF GotNothing, Waiting, CallOK
  <2>2. CallOK(c)' /\ calls' \in [Calls -> Call]
    BY <1>3, Freed DEF GotNothing
  <2>3. /\ clients' \in [Nodes -> Client]
        /\ \A m \in Nodes : clients'[m] # clients[m] => ClientOK(m)'
    BY <1>0, <1>3, <2>1, ClientReset DEF GotNothing, store
  <2>4. TypeOK'
    BY <1>3, <2>2, <2>3, Typed DEF Kinds, IInv, GotNothing, store
  <2> QED BY <1>0, <1>1, <1>3, <2>2, <2>3, <2>4, OneCallMoves DEF GotNothing, store, Pending
<1>4. CASE GotStore(c)
  <2>0. PICK p, v : p = calls[c].pat /\ v = calls[c].sha
    OBVIOUS
  <2> DEFINE client == [at |-> "idle", call |-> None, confirm |-> [pat |-> p, sha |-> v]]
  <2>1. /\ n \in Nodes /\ p \in Patterns /\ v \in Versions /\ rows[n][p] # None
        /\ nodes[n].status # "unknown" /\ calls[c].pc = "stored"
    BY <1>0, <1>1, <1>4, <2>0 DEF GotStore, CallOK, OnRow
  <2>2. CallOK(c)' /\ calls' \in [Calls -> Call]
    BY <1>4, Freed DEF GotStore
  <2>3. client \in Client
    <3>1. [pat |-> p, sha |-> v] \in [pat : Patterns, sha : Versions]
      BY <2>1
    <3> QED BY <3>1 DEF Client
  <2>4. clients' = [clients EXCEPT ![n] = client]
    BY <1>0, <1>4, <2>0 DEF GotStore
  <2> HIDE DEF client
  <2>5. clients' \in [Nodes -> Client] /\ \A m \in Nodes : m # n => clients'[m] = clients[m]
    BY <1>1, <2>3, <2>4
  <2>6. ClientOK(n)'
    <3>1. clients'[n] = client /\ client.confirm.pat = p
      BY <1>1, <2>1, <2>4 DEF client
    <3>2. rows' = rows /\ nodes' = nodes
      BY <1>4 DEF GotStore, store
    <3> QED BY <2>1, <3>1, <3>2 DEF ClientOK
  <2>7. blobs' \in [Nodes -> SUBSET (Patterns \X Versions)]
    BY <1>0, <1>1, <1>4, <2>0, <2>1 DEF GotStore
  <2>8. TypeOK'
    BY <1>4, <2>2, <2>5, <2>7, Typed DEF Kinds, IInv, GotStore, store
  <2>9. ~ Pending(c)
    BY <1>0, <2>1 DEF Pending
  <2> QED BY <1>0, <1>1, <1>4, <2>2, <2>5, <2>6, <2>8, <2>9, OneCallMoves DEF GotStore, store
<1>5. CASE GotChallenge(c) /\ <<calls[c].pat, calls[c].sha>> \in blobs[n]
  <2> DEFINE new == [calls[c] EXCEPT !.pc = "prove"]
  <2>1. new \in Call /\ calls' = [calls EXCEPT ![c] = new] /\ clients' = clients
    BY <1>0, <1>1, <1>5 DEF GotChallenge, Call, Steps
  <2>2. CallOK(c)'
    BY <1>0, <1>1, <1>5, <2>1 DEF CallOK, Pending, OnRow, Proving, Call, GotChallenge, store
  <2> HIDE DEF new
  <2>3. TypeOK'
    BY <1>0, <1>1, <1>5, <2>1, Typed DEF Kinds, IInv, GotChallenge, store
  <2> QED BY <1>0, <1>1, <1>5, <2>1, <2>2, <2>3, OneCallMoves DEF GotChallenge, store, Pending
<1>6. CASE GotChallenge(c) /\ <<calls[c].pat, calls[c].sha>> \notin blobs[n]
  <2>1. n \in Nodes /\ clients[n].at # "off"
    BY <1>0, <1>1, <1>6 DEF GotChallenge, Waiting, CallOK
  <2>2. CallOK(c)' /\ calls' \in [Calls -> Call]
    BY <1>0, <1>6, Freed DEF GotChallenge
  <2>3. /\ clients' \in [Nodes -> Client]
        /\ \A m \in Nodes : clients'[m] # clients[m] => ClientOK(m)'
    BY <1>0, <1>6, <2>1, ClientReset DEF GotChallenge, store
  <2>4. TypeOK'
    BY <1>6, <2>2, <2>3, Typed DEF Kinds, IInv, GotChallenge, store
  <2>5. calls' = [calls EXCEPT ![c] = FreeCall]
    BY <1>0, <1>6 DEF GotChallenge
  <2> QED BY <1>0, <1>1, <1>6, <2>2, <2>3, <2>4, <2>5, OneCallMoves DEF GotChallenge, store, Pending
<1> QED BY <1>2, <1>3, <1>4, <1>5, <1>6 DEF Answer

LEMMA HeartbeatKeeps ==
    ASSUME IInv, NEW n \in Nodes, NEW c \in Calls, Heartbeat(n, c) PROVE IInv'
<1> DEFINE confirm == clients[n].confirm
           call == [FreeCall EXCEPT !.node = n, !.active = nodes[n].status = "active"]
           new == IF confirm = None THEN [call EXCEPT !.pc = "choose"]
                  ELSE [call EXCEPT !.pc = "confirm", !.pat = confirm.pat,
                                    !.sha = confirm.sha]
           client == [at |-> "waiting", call |-> c, confirm |-> None]
<1>1. /\ calls[c].pc = "free" /\ calls \in [Calls -> Call] /\ calls[c] \in Call
      /\ clients \in [Nodes -> Client] /\ clients[n] \in Client
      /\ ClientOK(n) /\ clients[n].at = "idle"
  BY Typed DEF Kinds, IInv, Heartbeat
<1>2. confirm # None => /\ confirm.pat \in Patterns /\ confirm.sha \in Versions
                        /\ rows[n][confirm.pat] # None
  BY <1>1 DEF Client, ClientOK
<1>3. call \in Call /\ call.node = n
  BY IdleTyped DEF Call
<1> HIDE DEF call
<1>4. new \in Call /\ new.node = n /\ new.pc \in {"choose", "confirm"}
  BY <1>2, <1>3 DEF Call, Steps, Shas
<1>5. new.pc = "confirm" => /\ new.pat \in Patterns /\ new.sha \in Versions
                            /\ rows[n][new.pat] # None
  BY <1>2, <1>3 DEF Call
<1>6. calls' = [calls EXCEPT ![c] = new] /\ clients' = [clients EXCEPT ![n] = client]
  BY DEF Heartbeat, call
<1>7. UNCHANGED <<blob, uri, rows, nodes>>
  BY DEF Heartbeat, store
<1> HIDE DEF new
<1>8. CallOK(c)'
  BY <1>1, <1>4, <1>5, <1>6, <1>7 DEF CallOK, Pending, OnRow, Proving, ClientOK
<1>9. client \in Client /\ client.at = "waiting" /\ client.confirm = None
  BY Apart DEF Client
<1> HIDE DEF client
<1>10. /\ clients' \in [Nodes -> Client]
       /\ \A m \in Nodes : clients'[m] # clients[m] => ClientOK(m)'
  BY <1>1, <1>6, <1>7, <1>9 DEF ClientOK
<1>11. TypeOK'
  BY <1>1, <1>4, <1>6, <1>10, Typed DEF Kinds, IInv, Heartbeat, store
<1>12. ~ Pending(c)
  BY <1>1 DEF Pending
<1> QED BY <1>4, <1>6, <1>7, <1>8, <1>10, <1>11, <1>12, OneCallMoves

-----------------------------------------------------------------------------
(* The steps that write an assignment row, a node row or a pattern row. *)

\* A row is written over one of the same hash, or inserted where there is none.
LEMMA RowWritten ==
    ASSUME IInv, NEW n \in Nodes, NEW p \in Patterns, NEW r \in Rows,
           rows' = [rows EXCEPT ![n][p] = r], UNCHANGED <<blob, nodes>>,
           rows[n][p] # None =>
               /\ r.sha = rows[n][p].sha
               /\ rows[n][p].status = "confirmed" => r.status = "confirmed",
           rows[n][p] = None => r.sha <= blob[p]
    PROVE  /\ rows' \in [Nodes -> [Patterns -> Rows \cup {None}]]
           /\ rows'[n][p] = r /\ r # None /\ Grows
           /\ \A m \in Nodes, q \in Patterns : rows[m][q] = None => RowOK(m, q)'
<1>1. rows \in [Nodes -> [Patterns -> Rows \cup {None}]] /\ rows[n] \in [Patterns -> Rows \cup {None}]
  BY Typed DEF Kinds, IInv
<1>2. /\ rows' \in [Nodes -> [Patterns -> Rows \cup {None}]]
      /\ rows'[n][p] = r
      /\ \A m \in Nodes, q \in Patterns : m # n \/ q # p => rows'[m][q] = rows[m][q]
  BY <1>1
<1>3. r # None
  BY StorageAssumption
<1>4. /\ \A m \in Nodes : nodes[m].strikes \in Nat
      /\ \A q \in Patterns : blob[q] \in Nat
  BY StorageAssumption, Typed DEF Kinds, IInv, Versions, Node
<1>5. Grows
  <2>1. \A m \in Nodes, q \in Patterns : rows[m][q] # None =>
          /\ rows'[m][q] # None /\ rows'[m][q].sha = rows[m][q].sha
          /\ rows[m][q].status = "confirmed" => rows'[m][q].status = "confirmed"
    BY <1>2, <1>3
  <2> QED BY <1>4, <2>1 DEF Grows
<1>6. \A m \in Nodes, q \in Patterns : rows[m][q] = None => RowOK(m, q)'
  BY <1>2 DEF RowOK
<1> QED BY <1>2, <1>3, <1>5, <1>6

\* What a step of one call that writes something must show.
LEMMA OneCallWrites ==
    ASSUME IInv, NEW c \in Calls, NEW new \in Call,
           calls' = [calls EXCEPT ![c] = new],
           TypeOK', Grows, CallOK(c)', clients' = clients,
           Pending(c) => \/ Pending(c)' /\ new.node = calls[c].node
                         \/ nodes'[calls[c].node].status = "striked",
           \A n \in Nodes : nodes'[n] # nodes[n] => NodeOK(n)',
           \A n \in Nodes, p \in Patterns : rows[n][p] = None => RowOK(n, p)',
           \A p \in Patterns : uri'[p] # uri[p] => UriOK(p)'
    PROVE  IInv'
<1>1. /\ calls'[c] = new
      /\ \A d \in Calls : d # c => calls'[d] = calls[d]
  BY Typed DEF Kinds, IInv
<1>2. Changes
  BY <1>1 DEF Changes
<1> QED BY <1>2, Settles

LEMMA ConfirmAssignmentKeeps ==
    ASSUME IInv, NEW c \in Calls, ConfirmAssignment(c) PROVE IInv'
<1>0. PICK n, p : n = calls[c].node /\ p = calls[c].pat
  OBVIOUS
<1>1. /\ calls[c] \in Call /\ CallOK(c) /\ calls[c].pc = "confirm"
      /\ calls \in [Calls -> Call] /\ rows \in [Nodes -> [Patterns -> Rows \cup {None}]]
  BY Typed DEF Kinds, IInv, ConfirmAssignment, Goes, At
<1>2. /\ n \in Nodes /\ p \in Patterns /\ rows[n][p] \in Rows /\ rows[n][p] # None
      /\ calls[c].sha \in Versions
  BY <1>0, <1>1 DEF CallOK, OnRow
<1>3. CASE rows[n][p].sha # calls[c].sha
  <2> DEFINE new == [calls[c] EXCEPT !.pc = "choose"]
  <2>1. new \in Call /\ calls' = [calls EXCEPT ![c] = new] /\ rows' = rows
    BY <1>0, <1>1, <1>3 DEF ConfirmAssignment, Goes, Call, Steps
  <2>2. CallOK(c)'
    BY <1>1, <2>1 DEF CallOK, Pending, OnRow, Proving, Call, ConfirmAssignment, Aside
  <2> HIDE DEF new
  <2>3. TypeOK'
    BY <1>1, <2>1, Typed DEF Kinds, IInv, ConfirmAssignment, Aside
  <2> QED BY <1>1, <2>1, <2>2, <2>3, OneCallMoves
             DEF ConfirmAssignment, Aside, Pending
<1>4. CASE rows[n][p].sha = calls[c].sha
  <2> DEFINE new == [calls[c] EXCEPT !.pc = "pattern"]
             r == [rows[n][p] EXCEPT !.status = "confirmed"]
  <2>1. new \in Call /\ calls' = [calls EXCEPT ![c] = new]
    BY <1>0, <1>1, <1>4 DEF ConfirmAssignment, Goes, Call, Steps
  <2>2. r \in Rows /\ r.sha = rows[n][p].sha /\ r.status = "confirmed"
    BY <1>2 DEF Rows
  <2>3. rows' = [rows EXCEPT ![n][p] = r]
    BY <1>0, <1>4 DEF ConfirmAssignment
  <2> HIDE DEF new, r
  <2>4. /\ rows' \in [Nodes -> [Patterns -> Rows \cup {None}]]
        /\ rows'[n][p] = r /\ r # None /\ Grows
        /\ \A m \in Nodes, q \in Patterns : rows[m][q] = None => RowOK(m, q)'
    BY <1>2, <2>2, <2>3, RowWritten DEF ConfirmAssignment, Aside
  <2>5. /\ calls'[c].pc = "pattern" /\ calls'[c].node = n /\ calls'[c].pat = p
        /\ calls'[c].sha = calls[c].sha
    BY <1>0, <1>1, <2>1 DEF Call, new
  <2>6. nodes' = nodes
    BY DEF ConfirmAssignment
  <2>7. CallOK(c)'
    BY <1>0, <1>1, <1>2, <1>4, <2>2, <2>4, <2>5, <2>6
       DEF CallOK, Pending, OnRow, Proving
  <2>8. TypeOK'
    BY <1>1, <2>1, <2>4, Typed DEF Kinds, IInv, ConfirmAssignment, Aside
  <2>9. ~ Pending(c)
    BY <1>1 DEF Pending
  <2> QED BY <2>1, <2>4, <2>7, <2>8, <2>9, OneCallWrites
             DEF ConfirmAssignment, Aside
<1> QED BY <1>3, <1>4

LEMMA StampPatternKeeps == ASSUME IInv, NEW c \in Calls, StampPattern(c) PROVE IInv'
<1>0. PICK n, p, v : n = calls[c].node /\ p = calls[c].pat /\ v = calls[c].sha
  OBVIOUS
<1> DEFINE new == [calls[c] EXCEPT !.pc = "choose"]
           place == [node |-> n, sha |-> v]
<1>1. /\ calls[c] \in Call /\ CallOK(c) /\ calls[c].pc = "stamp"
      /\ calls \in [Calls -> Call]
      /\ uri \in [Patterns -> [node : Nodes, sha : Versions] \cup {None}]
  BY Typed DEF Kinds, IInv, StampPattern, Goes, At
<1>2. /\ n \in Nodes /\ p \in Patterns /\ v \in Versions
      /\ rows[n][p] # None /\ rows[n][p].status = "confirmed" /\ rows[n][p].sha = v
  BY <1>0, <1>1 DEF CallOK, OnRow
<1>3. new \in Call /\ calls' = [calls EXCEPT ![c] = new]
  BY <1>1 DEF StampPattern, Goes, Call, Steps
<1>4. uri' = [uri EXCEPT ![p] = place] /\ UNCHANGED <<blob, rows, nodes>>
  BY <1>0 DEF StampPattern, Aside
<1>5. CallOK(c)' /\ ~ Pending(c)
  BY <1>1, <1>3, <1>4 DEF CallOK, Pending, OnRow, Proving, Call
<1>6. /\ uri' \in [Patterns -> [node : Nodes, sha : Versions] \cup {None}]
      /\ \A q \in Patterns : uri'[q] # uri[q] => q = p /\ uri'[q] = place
  BY <1>1, <1>2, <1>4
<1>7. \A q \in Patterns : uri'[q] # uri[q] => UriOK(q)'
  BY <1>2, <1>4, <1>6 DEF UriOK
<1>8. Grows /\ \A m \in Nodes, q \in Patterns : rows[m][q] = None => RowOK(m, q)'
  <2>1. /\ \A m \in Nodes : nodes[m].strikes \in Nat
        /\ \A q \in Patterns : blob[q] \in Nat
    BY StorageAssumption, Typed DEF Kinds, IInv, Versions, Node
  <2> QED BY <1>4, <2>1 DEF Grows, RowOK
<1> HIDE DEF new, place
<1>9. TypeOK'
  BY <1>1, <1>3, <1>6, Typed DEF Kinds, IInv, StampPattern, Aside
<1> QED BY <1>3, <1>4, <1>5, <1>7, <1>8, <1>9, OneCallWrites DEF StampPattern, Aside

LEMMA CreateRowKeeps == ASSUME IInv, NEW c \in Calls, CreateRow(c) PROVE IInv'
<1>0. PICK n, p, v : n = calls[c].node /\ p = calls[c].pat /\ v = calls[c].sha
  OBVIOUS
<1>1. /\ calls[c] \in Call /\ CallOK(c) /\ calls[c].pc = "create"
      /\ calls \in [Calls -> Call]
  BY Typed DEF Kinds, IInv, CreateRow, Goes, At
<1>2. n \in Nodes /\ p \in Patterns /\ v \in Versions /\ v <= blob[p]
  BY <1>0, <1>1 DEF CallOK
<1>3. CASE rows[n][p] # None
  <2> DEFINE new == [calls[c] EXCEPT !.pc = "nothing"]
  <2>1. new \in Call /\ calls' = [calls EXCEPT ![c] = new] /\ rows' = rows
    BY <1>0, <1>1, <1>3 DEF CreateRow, Goes, Call, Steps
  <2>2. CallOK(c)'
    BY <1>1, <2>1 DEF CallOK, Pending, OnRow, Proving, Call, CreateRow, Aside
  <2> HIDE DEF new
  <2>3. TypeOK'
    BY <1>1, <2>1, Typed DEF Kinds, IInv, CreateRow, Aside
  <2> QED BY <1>1, <2>1, <2>2, <2>3, OneCallMoves DEF CreateRow, Aside, Pending
<1>4. CASE rows[n][p] = None
  <2> DEFINE new == [calls[c] EXCEPT !.pc = "stored"]
  <2>1. new \in Call /\ calls' = [calls EXCEPT ![c] = new]
    BY <1>0, <1>1, <1>4 DEF CreateRow, Goes, Call, Steps
  <2>2. NewRow(v) \in Rows /\ NewRow(v).sha = v
    BY <1>2 DEF NewRow, Rows
  <2>3. rows' = [rows EXCEPT ![n][p] = NewRow(v)]
    BY <1>0, <1>4 DEF CreateRow
  <2> HIDE DEF new
  <2>4. /\ rows' \in [Nodes -> [Patterns -> Rows \cup {None}]]
        /\ rows'[n][p] # None /\ Grows
        /\ \A m \in Nodes, q \in Patterns : rows[m][q] = None => RowOK(m, q)'
    <3>1. UNCHANGED <<blob, nodes>>
      BY DEF CreateRow, Aside
    <3> QED BY <1>2, <1>4, <2>2, <2>3, <3>1, RowWritten
  <2>5. /\ calls'[c].pc = "stored" /\ calls'[c].node = n /\ calls'[c].pat = p
        /\ calls'[c].sha = v
    BY <1>0, <1>1, <2>1 DEF Call, new
  <2>6. nodes' = nodes
    BY DEF CreateRow
  <2>7. CallOK(c)'
    BY <1>0, <1>1, <1>2, <2>4, <2>5, <2>6 DEF CallOK, Pending, OnRow, Proving
  <2>8. TypeOK'
    BY <1>1, <2>1, <2>4, Typed DEF Kinds, IInv, CreateRow, Aside
  <2>9. ~ Pending(c)
    BY <1>1 DEF Pending
  <2> QED BY <2>1, <2>4, <2>7, <2>8, <2>9, OneCallWrites DEF CreateRow, Aside
<1> QED BY <1>3, <1>4

LEMMA RecordSuccessKeeps == ASSUME IInv, NEW c \in Calls, RecordSuccess(c) PROVE IInv'
<1>0. PICK n, p : n = calls[c].node /\ p = calls[c].pat
  OBVIOUS
<1> DEFINE new == [calls[c] EXCEPT !.pc = "aggregate"]
           r == [rows[n][p] EXCEPT !.last = now, !.failures = 0]
<1>1. /\ calls[c] \in Call /\ CallOK(c) /\ calls[c].pc = "success" /\ now \in Times
      /\ calls \in [Calls -> Call] /\ rows \in [Nodes -> [Patterns -> Rows \cup {None}]]
  BY Typed DEF Kinds, IInv, RecordSuccess, Goes, At
<1>2. n \in Nodes /\ p \in Patterns /\ rows[n][p] \in Rows /\ rows[n][p] # None
  BY <1>0, <1>1 DEF CallOK, OnRow, Proving
<1>3. new \in Call /\ calls' = [calls EXCEPT ![c] = new]
  BY <1>1 DEF RecordSuccess, Goes, Call, Steps
<1>4. r \in Rows /\ r.sha = rows[n][p].sha /\ r.status = rows[n][p].status
  BY <1>1, <1>2 DEF Rows
<1>5. rows' = [rows EXCEPT ![n][p] = r]
  <2>1. rows' = [rows EXCEPT ![n][p].last = now, ![n][p].failures = 0]
    BY <1>0 DEF RecordSuccess
  <2> QED BY <1>1, <1>2, <2>1 DEF Rows
<1>6. calls'[c].node = n /\ calls'[c].pat = p /\ calls'[c].sha = calls[c].sha
      /\ calls'[c].pc = "aggregate"
  BY <1>0, <1>1, <1>3 DEF Call
<1> HIDE DEF new, r
<1>7. /\ rows' \in [Nodes -> [Patterns -> Rows \cup {None}]]
      /\ rows'[n][p] = r /\ r # None /\ Grows
      /\ \A m \in Nodes, q \in Patterns : rows[m][q] = None => RowOK(m, q)'
  <2>1. UNCHANGED <<blob, nodes>> /\ rows[n][p].sha = r.sha /\ rows[n][p] \in Rows
    BY <1>2, <1>4 DEF RecordSuccess, Aside
  <2> QED BY <1>2, <1>4, <1>5, <2>1, RowWritten
<1>8. nodes' = nodes
  BY DEF RecordSuccess
<1>9. CallOK(c)' /\ ~ Pending(c)
  BY <1>0, <1>1, <1>2, <1>4, <1>6, <1>7, <1>8 DEF CallOK, Pending, OnRow, Proving
<1>10. TypeOK'
  BY <1>1, <1>3, <1>7, Typed DEF Kinds, IInv, RecordSuccess, Aside
<1> QED BY <1>3, <1>7, <1>9, <1>10, OneCallWrites DEF RecordSuccess, Aside

LEMMA CountFailureKeeps == ASSUME IInv, NEW c \in Calls, CountFailure(c) PROVE IInv'
<1>0. PICK n, p : n = calls[c].node /\ p = calls[c].pat
  OBVIOUS
<1> DEFINE new == [calls[c] EXCEPT !.pc = IF calls[c].active THEN "demote" ELSE "nothing"]
           r == [rows[n][p] EXCEPT !.failures = @ + 1]
<1>1. /\ calls[c] \in Call /\ CallOK(c) /\ calls[c].pc = "failure"
      /\ calls \in [Calls -> Call] /\ rows \in [Nodes -> [Patterns -> Rows \cup {None}]]
  BY Typed DEF Kinds, IInv, CountFailure, Goes, At
<1>2. n \in Nodes /\ p \in Patterns /\ rows[n][p] \in Rows /\ rows[n][p] # None
  BY <1>0, <1>1 DEF CallOK, OnRow, Proving
<1>3. new \in Call /\ calls' = [calls EXCEPT ![c] = new]
  BY <1>1 DEF CountFailure, Goes, Call, Steps
<1>4. r \in Rows /\ r.sha = rows[n][p].sha /\ r.status = rows[n][p].status
  BY <1>2 DEF Rows
<1>5. rows' = [rows EXCEPT ![n][p] = r]
  BY <1>0 DEF CountFailure
<1>6. /\ calls'[c].node = n /\ calls'[c].pat = p /\ calls'[c].sha = calls[c].sha
      /\ calls'[c].active = calls[c].active
      /\ IF calls[c].active THEN calls'[c].pc = "demote" ELSE calls'[c].pc = "nothing"
  BY <1>0, <1>1, <1>3 DEF Call
<1> HIDE DEF new, r
<1>7. /\ rows' \in [Nodes -> [Patterns -> Rows \cup {None}]]
      /\ rows'[n][p] = r /\ r # None /\ Grows
      /\ \A m \in Nodes, q \in Patterns : rows[m][q] = None => RowOK(m, q)'
  <2>1. UNCHANGED <<blob, nodes>> /\ rows[n][p].sha = r.sha /\ rows[n][p] \in Rows
    BY <1>2, <1>4 DEF CountFailure, Aside
  <2> QED BY <1>2, <1>4, <1>5, <2>1, RowWritten
<1>8. nodes' = nodes
  BY DEF CountFailure
<1>9. CallOK(c)'
  BY <1>0, <1>1, <1>2, <1>4, <1>6, <1>7, <1>8 DEF CallOK, Pending, OnRow, Proving
<1>10. Pending(c) => Pending(c)' /\ new.node = calls[c].node
  BY <1>0, <1>1, <1>3, <1>6 DEF Pending
<1>11. TypeOK'
  BY <1>1, <1>3, <1>7, Typed DEF Kinds, IInv, CountFailure, Aside
<1> QED BY <1>3, <1>7, <1>9, <1>10, <1>11, OneCallWrites DEF CountFailure, Aside

\* A node row is written over; strikes and registration are not taken back.
LEMMA NodeWritten ==
    ASSUME IInv, NEW n \in Nodes, NEW new \in Node,
           nodes' = [nodes EXCEPT ![n] = new], UNCHANGED <<blob, rows>>,
           new.strikes >= nodes[n].strikes,
           nodes[n].status # "unknown" => new.status # "unknown",
           nodes[n].status = "striked" => new.status = "striked"
    PROVE  /\ nodes' \in [Nodes -> Node] /\ nodes'[n] = new /\ Grows
           /\ \A m \in Nodes : m # n => nodes'[m] = nodes[m]
           /\ \A m \in Nodes, q \in Patterns : rows[m][q] = None => RowOK(m, q)'
<1>1. nodes \in [Nodes -> Node]
  BY Typed DEF Kinds, IInv
<1>2. /\ nodes' \in [Nodes -> Node] /\ nodes'[n] = new
      /\ \A m \in Nodes : m # n => nodes'[m] = nodes[m]
  BY <1>1
<1>3. /\ \A m \in Nodes : nodes[m].strikes \in Nat
      /\ \A q \in Patterns : blob[q] \in Nat
  BY StorageAssumption, Typed DEF Kinds, IInv, Versions, Node
<1>4. Grows
  BY <1>2, <1>3 DEF Grows
<1> QED BY <1>2, <1>4 DEF RowOK

LEMMA StrikeKeeps == ASSUME IInv, NEW c \in Calls, Strike(c) PROVE IInv'
<1>0. PICK n, p : n = calls[c].node /\ p = calls[c].pat
  OBVIOUS
<1> DEFINE struck == [nodes[n] EXCEPT !.strikes = @ + 1]
           demotes == struck.strikes >= StrikeThreshold /\ struck.status = "active"
           new == [calls[c] EXCEPT !.pc = "failure", !.active = demotes]
<1>1. /\ calls[c] \in Call /\ CallOK(c) /\ calls[c].pc = "strike"
      /\ calls \in [Calls -> Call] /\ nodes \in [Nodes -> Node]
  BY Typed DEF Kinds, IInv, Strike, Goes, At
<1>2. /\ n \in Nodes /\ p \in Patterns /\ calls[c].sha \in Versions
      /\ rows[n][p] # None /\ rows[n][p].sha = calls[c].sha
      /\ rows[n][p].sha # blob[p] /\ nodes[n].status # "unknown"
  BY <1>0, <1>1 DEF CallOK, OnRow, Proving
<1>3. new \in Call /\ calls' = [calls EXCEPT ![c] = new]
  <2>1. demotes \in BOOLEAN
    OBVIOUS
  <2>2. calls' = [calls EXCEPT ![c] = new]
    BY <1>0 DEF Strike, Goes
  <2> HIDE DEF demotes
  <2> QED BY <1>1, <2>1, <2>2 DEF Call, Steps
<1>4. /\ struck \in Node /\ struck.strikes = nodes[n].strikes + 1
      /\ struck.status = nodes[n].status /\ nodes[n].strikes \in Nat
  BY <1>1, <1>2 DEF Node
<1>5. nodes' = [nodes EXCEPT ![n] = struck] /\ UNCHANGED <<blob, rows, uri, clients>>
  BY <1>0 DEF Strike, Aside
<1>6. /\ calls'[c].node = n /\ calls'[c].pat = p /\ calls'[c].sha = calls[c].sha
      /\ calls'[c].active = demotes /\ calls'[c].pc = "failure"
  <2> HIDE DEF demotes
  <2> QED BY <1>0, <1>1, <1>3 DEF Call
<1> HIDE DEF new, struck
<1>7. /\ nodes' \in [Nodes -> Node] /\ nodes'[n] = struck /\ Grows
      /\ \A m \in Nodes : m # n => nodes'[m] = nodes[m]
      /\ \A m \in Nodes, q \in Patterns : rows[m][q] = None => RowOK(m, q)'
  <2>1. struck.strikes >= nodes[n].strikes
    BY <1>4
  <2>2. nodes[n].status # "unknown" => struck.status # "unknown"
    BY <1>4
  <2>3. nodes[n].status = "striked" => struck.status = "striked"
    BY <1>4
  <2>4. UNCHANGED <<blob, rows>>
    BY <1>5
  <2> QED BY <1>2, <1>4, <1>5, <2>1, <2>2, <2>3, <2>4, NodeWritten
<1>8. CallOK(c)'
  BY <1>2, <1>4, <1>5, <1>6, <1>7 DEF CallOK, Pending, OnRow, Proving
<1>9. NodeOK(n)'
  <2>1. NodeOK(n) /\ StrikeThreshold \in Nat \ {0}
    BY <1>2, StorageAssumption DEF IInv
  <2>2. StruckOK(n)'
    BY <1>2, <1>5 DEF StruckOK, Held
  <2>3. nodes'[n].strikes >= StrikeThreshold =>
           nodes'[n].status = "striked" \/ Pending(c)'
    BY <1>2, <1>4, <1>6, <1>7 DEF Pending, Node
  <2>4. nodes'[n].status = "striked" => nodes'[n].strikes >= StrikeThreshold
    BY <1>4, <1>7, <2>1 DEF NodeOK, DemotedOK
  <2> QED BY <1>2, <1>4, <1>6, <1>7, <2>2, <2>3, <2>4 DEF NodeOK, DemotedOK
<1>10. TypeOK'
  BY <1>1, <1>3, <1>7, Typed DEF Kinds, IInv, Strike, Aside
<1>11. ~ Pending(c)
  BY <1>1 DEF Pending
<1> QED BY <1>3, <1>5, <1>7, <1>8, <1>9, <1>10, <1>11, OneCallWrites

LEMMA DemoteKeeps == ASSUME IInv, NEW c \in Calls, Demote(c) PROVE IInv'
<1>0. PICK n : n = calls[c].node
  OBVIOUS
<1> DEFINE out == [nodes[n] EXCEPT !.status = "striked"]
           new == [calls[c] EXCEPT !.pc = "nothing"]
<1>1. /\ calls[c] \in Call /\ CallOK(c) /\ calls[c].pc = "demote"
      /\ calls \in [Calls -> Call] /\ nodes \in [Nodes -> Node]
  BY Typed DEF Kinds, IInv, Demote, Goes, At
<1>2. n \in Nodes /\ nodes[n].strikes >= StrikeThreshold /\ NodeOK(n)
  BY <1>0, <1>1 DEF CallOK, Pending, IInv
<1>3. new \in Call /\ calls' = [calls EXCEPT ![c] = new]
  BY <1>1 DEF Demote, Goes, Call, Steps
<1>4. /\ out \in Node /\ out.strikes = nodes[n].strikes /\ out.status = "striked"
      /\ out.strikes \in Nat
  BY <1>1, <1>2 DEF Node
<1>5. nodes' = [nodes EXCEPT ![n] = out] /\ UNCHANGED <<blob, rows, uri, clients>>
  BY <1>0, <1>1, <1>2 DEF Demote, Aside
<1> HIDE DEF out
<1>6. /\ nodes' \in [Nodes -> Node] /\ nodes'[n] = out /\ Grows
      /\ \A m \in Nodes : m # n => nodes'[m] = nodes[m]
      /\ \A m \in Nodes, q \in Patterns : rows[m][q] = None => RowOK(m, q)'
  <2>1. out.strikes >= nodes[n].strikes
    BY <1>4
  <2>2. nodes[n].status # "unknown" => out.status # "unknown"
    BY <1>4
  <2>3. nodes[n].status = "striked" => out.status = "striked"
    BY <1>4
  <2>4. UNCHANGED <<blob, rows>>
    BY <1>5
  <2> QED BY <1>2, <1>4, <1>5, <2>1, <2>2, <2>3, <2>4, NodeWritten
<1>7. CallOK(c)'
  BY <1>0, <1>1, <1>2, <1>3, <1>4, <1>6 DEF CallOK, Pending, OnRow, Proving, Call
<1> HIDE DEF new
<1>8. TypeOK'
  BY <1>1, <1>3, <1>6, Typed DEF Kinds, IInv, Demote, Aside
<1>9. NodeOK(n)'
  <2>1. StruckOK(n)'
    BY <1>2, <1>4, <1>5, <1>6 DEF NodeOK, StruckOK, Held
  <2> QED BY <1>2, <1>4, <1>6, <2>1 DEF NodeOK, DemotedOK
<1> QED BY <1>0, <1>3, <1>4, <1>5, <1>6, <1>7, <1>8, <1>9, OneCallWrites

-----------------------------------------------------------------------------
(* The steps outside the handlers. *)

\* What a step that leaves the calls, the rows and the patterns must show.
LEMMA Outside ==
    ASSUME IInv, TypeOK', Grows, UNCHANGED <<rows, uri, calls>>,
           \A n \in Nodes : clients'[n] # clients[n] => ClientOK(n)',
           \A n \in Nodes : nodes'[n] # nodes[n] => NodeOK(n)'
    PROVE  IInv'
<1>1. \A n \in Nodes, p \in Patterns : rows[n][p] = None => RowOK(n, p)'
  BY DEF RowOK
<1>2. Changes
  BY <1>1 DEF Changes
<1> QED BY <1>2, Settles

LEMMA Idles ==
    ASSUME IInv, UNCHANGED <<blob, rows, nodes>> PROVE Grows
<1>1. /\ \A m \in Nodes : nodes[m].strikes \in Nat
      /\ \A q \in Patterns : blob[q] \in Nat
  BY StorageAssumption, Typed DEF Kinds, IInv, Versions, Node
<1> QED BY <1>1 DEF Grows

LEMMA RegisterKeeps == ASSUME IInv, NEW n \in Nodes, Register(n) PROVE IInv'
<1>1. /\ nodes \in [Nodes -> Node] /\ clients \in [Nodes -> Client]
      /\ clients[n] \in Client /\ ClientOK(n) /\ NodeOK(n)
  BY Typed DEF Kinds, IInv
<1> DEFINE client == [clients[n] EXCEPT !.at = "idle"]
           node == [nodes[n] EXCEPT !.status = "active"]
<1>2. client \in Client /\ client.confirm = clients[n].confirm
      /\ clients' = [clients EXCEPT ![n] = client]
  BY <1>1 DEF Client, Register
<1> HIDE DEF client
<1>3. /\ clients' \in [Nodes -> Client] /\ clients'[n] = client
      /\ \A m \in Nodes : m # n => clients'[m] = clients[m]
  BY <1>1, <1>2
<1>4. UNCHANGED <<blob, uri, rows, calls, proven, credits, blobs, now, mishaps>>
  BY DEF Register
<1>5. CASE nodes[n].status # "unknown"
  <2>1. nodes' = nodes
    BY <1>5 DEF Register
  <2>2. ClientOK(n)'
    BY <1>1, <1>2, <1>3, <1>4, <1>5, <2>1 DEF ClientOK
  <2>3. TypeOK'
    BY <1>3, <1>4, <2>1, Typed DEF Kinds, IInv
  <2> QED BY <1>3, <1>4, <2>1, <2>2, <2>3, Idles, Outside
<1>6. CASE nodes[n].status = "unknown"
  <2>1. nodes' = [nodes EXCEPT ![n] = node]
    BY <1>1, <1>6 DEF Register
  <2>2. /\ node \in Node /\ node.strikes = nodes[n].strikes /\ node.status = "active"
        /\ node.strikes >= nodes[n].strikes /\ nodes[n].strikes = 0
    BY <1>1, <1>6 DEF Node, NodeOK
  <2> HIDE DEF node
  <2>3. /\ nodes' \in [Nodes -> Node] /\ nodes'[n] = node /\ Grows
        /\ \A m \in Nodes : m # n => nodes'[m] = nodes[m]
    BY <1>4, <1>6, <2>1, <2>2, NodeWritten
  <2>4. ClientOK(n)'
    BY <1>1, <1>2, <1>3, <1>4, <2>2, <2>3 DEF ClientOK
  <2>5. NodeOK(n)'
    <3>1. StrikeThreshold \in Nat \ {0}
      BY StorageAssumption
    <3>2. ~ nodes'[n].strikes > 0 /\ ~ nodes'[n].strikes >= StrikeThreshold
      BY <2>2, <2>3, <3>1
    <3> QED BY <2>2, <2>3, <3>2 DEF NodeOK, StruckOK, DemotedOK
  <2>6. TypeOK'
    BY <1>3, <1>4, <2>3, Typed DEF Kinds, IInv
  <2> QED BY <1>3, <1>4, <2>3, <2>4, <2>5, <2>6, Outside
<1> QED BY <1>5, <1>6

LEMMA MishapKeeps ==
    ASSUME IInv, NEW n \in Nodes, CallFails(n) \/ Restart(n) \/ DiskLoss(n)
    PROVE  IInv'
<1>1. UNCHANGED <<blob, store, calls, now>> /\ mishaps' \in 0..MaxMishaps
  BY Typed, StorageAssumption DEF Kinds, IInv, CallFails, Restart, DiskLoss
<1>2. Grows
  BY <1>1, Idles DEF store
<1>3. /\ clients' \in [Nodes -> Client]
      /\ \A m \in Nodes : clients'[m] # clients[m] => ClientOK(m)'
  <2>1. CASE CallFails(n)
    BY <1>1, <2>1, ClientReset DEF CallFails, store
  <2>2. CASE Restart(n)
    <3>1. clients \in [Nodes -> Client] /\ clients' = [clients EXCEPT ![n] = OffClient]
      BY <2>2, Typed DEF Kinds, IInv, Restart
    <3>2. /\ clients' \in [Nodes -> Client] /\ clients'[n] = OffClient
          /\ \A m \in Nodes : m # n => clients'[m] = clients[m]
      BY <3>1, IdleTyped
    <3>3. ClientOK(n)'
      BY <3>2 DEF ClientOK, OffClient
    <3> QED BY <3>2, <3>3
  <2>3. CASE DiskLoss(n)
    BY <2>3, Typed DEF Kinds, IInv, DiskLoss
  <2> QED BY <2>1, <2>2, <2>3
<1>4. blobs' \in [Nodes -> SUBSET (Patterns \X Versions)]
  BY Typed DEF Kinds, IInv, CallFails, Restart, DiskLoss
<1>5. TypeOK'
  BY <1>1, <1>3, <1>4, Typed DEF Kinds, IInv, store
<1> QED BY <1>1, <1>2, <1>3, <1>5, Outside DEF store

LEMMA SourceChangesKeeps == ASSUME IInv, NEW p \in Patterns, SourceChanges(p) PROVE IInv'
<1>1. blob \in [Patterns -> Versions] /\ blob[p] < MaxVersion /\ MaxVersion \in Nat
  BY StorageAssumption, Typed DEF Kinds, IInv, SourceChanges
<1>2. /\ UNCHANGED <<store, calls, clients, blobs, now, mishaps>>
      /\ blob' = [blob EXCEPT ![p] = @ + 1]
  BY DEF SourceChanges
<1>3. blob' \in [Patterns -> Versions] /\ \A q \in Patterns : blob'[q] >= blob[q]
  BY <1>1, <1>2 DEF Versions
<1>4. \A m \in Nodes : nodes[m].strikes \in Nat
  BY Typed DEF Kinds, IInv, Node
<1>5. Grows
  BY <1>2, <1>3, <1>4 DEF Grows, store
<1>6. TypeOK'
  BY <1>2, <1>3, Typed DEF Kinds, IInv, store
<1> QED BY <1>2, <1>5, <1>6, Outside DEF store

LEMMA TickKeeps == ASSUME IInv, Tick PROVE IInv'
<1>1. UNCHANGED <<blob, store, calls, clients, blobs, mishaps>> /\ now' \in Times
  BY StorageAssumption, Typed DEF Kinds, IInv, Tick, Times
<1>2. TypeOK'
  BY <1>1, Typed DEF Kinds, IInv, store
<1> QED BY <1>1, <1>2, Idles, Outside DEF store

-----------------------------------------------------------------------------
(* The invariant, and what it gives. *)

LEMMA InitHolds == Init => IInv
<1> SUFFICES ASSUME Init PROVE IInv
  OBVIOUS
<1>1. TypeOK
  <2>1. 1 \in Versions /\ 0 \in Times /\ 0 \in 0..MaxMishaps
    BY StorageAssumption DEF Versions, Times
  <2> QED BY <2>1, IdleTyped, Typed DEF Kinds, Init, Node
<1>2. \A c \in Calls : CallOK(c)
  BY DEF Init, FreeCall, CallOK, Pending, OnRow, Proving
<1>3. \A n \in Nodes : ClientOK(n) /\ NodeOK(n)
  <2>1. StrikeThreshold \in Nat \ {0}
    BY StorageAssumption
  <2> QED BY <2>1 DEF Init, OffClient, ClientOK, NodeOK, StruckOK, DemotedOK
<1>4. \A n \in Nodes, p \in Patterns : RowOK(n, p)
  BY DEF Init, RowOK
<1>5. \A p \in Patterns : UriOK(p)
  BY DEF Init, UriOK
<1> QED BY <1>1, <1>2, <1>3, <1>4, <1>5 DEF IInv

LEMMA IdleHolds == IInv /\ UNCHANGED vars => IInv'
<1> SUFFICES ASSUME IInv, UNCHANGED vars PROVE IInv'
  OBVIOUS
<1>1. TypeOK'
  BY Typed DEF Kinds, IInv, vars
<1> QED BY <1>1, Idles, Outside DEF vars

LEMMA NextHolds == IInv /\ [Next]_vars => IInv'
<1> SUFFICES ASSUME IInv, Next PROVE IInv'
  BY IdleHolds
<1>1. CASE \E n \in Nodes : \/ Register(n) \/ CallFails(n) \/ Restart(n) \/ DiskLoss(n)
                            \/ \E c \in Calls : Heartbeat(n, c)
  BY <1>1, RegisterKeeps, MishapKeeps, HeartbeatKeeps
<1>2. CASE \E c \in Calls : HeartbeatStep(c)
  BY <1>2, ConfirmAssignmentKeeps, ReadPatternKeeps, StampPatternKeeps, ChallengeKeeps,
     RedeliverKeeps, CheckCapKeeps, PickCandidateKeeps, CreateRowKeeps DEF HeartbeatStep
<1>3. CASE \E c \in Calls : ProofStep(c)
  BY <1>3, ProofReadKeeps, CheckProofKeeps, StrikeKeeps, CountFailureKeeps, DemoteKeeps,
     RecordSuccessKeeps, AggregateKeeps, SetProvenKeeps, RewardKeeps DEF ProofStep
<1>4. CASE \E c \in Calls : Answer(c)
  BY <1>4, AnswerKeeps
<1>5. CASE (\E p \in Patterns : SourceChanges(p)) \/ Tick
  BY <1>5, SourceChangesKeeps, TickKeeps
<1> QED BY <1>1, <1>2, <1>3, <1>4, <1>5 DEF Next

LEMMA Invariant == Spec => []IInv
BY InitHolds, NextHolds, PTL DEF Spec

\* Every variable keeps values of its kind, and so a handler never works on a
\* null node, pattern or hash.
THEOREM TypeCorrect == Spec => []TypeOK
<1>1. IInv => TypeOK
  BY DEF IInv
<1> QED BY <1>1, Invariant, PTL

\* What a pattern row advertises is a confirmed assignment, for any number of
\* nodes that confirm it at once (storage_assignment.ts:178).
THEOREM UriIsConfirmedCorrect == Spec => []UriIsConfirmed
<1>1. IInv => UriIsConfirmed
  BY DEF IInv, UriOK, UriIsConfirmed
<1> QED BY <1>1, Invariant, PTL

\* A node is struck only after the blob of one of its rows has changed
\* (proof/route.ts:56-67).
THEOREM StruckOnlyByDriftCorrect == Spec => []StruckOnlyByDrift
<1>1. IInv => StruckOnlyByDrift
  BY DEF IInv, NodeOK, StruckOK, StruckOnlyByDrift
<1> QED BY <1>1, Invariant, PTL

\* Nodes are demoted at the threshold and not before it, whatever handlers
\* strike them at once (nodes.ts:131).
THEOREM DemotedAtThresholdCorrect == Spec => []DemotedAtThreshold
<1>1. IInv => DemotedAtThreshold
  BY DEF IInv, NodeOK, DemotedOK, Pending, DemotedAtThreshold
<1> QED BY <1>1, Invariant, PTL

=============================================================================
