------------------------- MODULE PatternTools_proofs -------------------------
(* Proofs about the two modules on PatternTools.  EventDelivery: types, what  *)
(* SKILL.md and the server count, and what the outbox may lose; the inductive *)
(* invariant is DInv.  PatternEvolution: types, the quota of one change a     *)
(* day, what a row marked reverted promises, and when a fixed text is written *)
(* a second time; the inductive invariant is IInv.                            *)
EXTENDS EventDelivery, PatternEvolution, SequenceTheorems, FiniteSetTheorems, TLAPS

(****************************** EventDelivery *******************************)

\* What an agent is at: the event being logged belongs to its invocation, and
\* has a number that no event of the invocation has before it is logged.
AgentStates == [inv : 0..MaxInv, pat : Patterns \cup {None}, n : Nat, done : BOOLEAN,
                ev : Events \cup {None},
                left : {<<>>, LocalWrites, Tail(LocalWrites), Request}]
AgentOK(a) ==
    /\ agent[a].inv = 0 => agent[a] = Idle
    /\ agent[a].inv <= made
    /\ agent[a].inv # 0 => agent[a].pat \in Patterns
    /\ agent[a].left = <<>> <=> agent[a].ev = None
    /\ agent[a].ev # None =>
          /\ agent[a].ev.inv = agent[a].inv /\ agent[a].ev.pat = agent[a].pat
          /\ agent[a].ev.n < agent[a].n
    /\ agent[a].left = <<"outbox">> => agent[a].ev \in logged
    /\ \A e \in logged : e.inv = agent[a].inv =>
          /\ e.n < agent[a].n
          /\ agent[a].left \in {LocalWrites, Request} => e.n < agent[a].ev.n

\* No two agents are at one invocation, and none is logged before it is entered.
AgentsOK ==
    /\ \A a \in Agents : AgentOK(a)
    /\ \A a, b \in Agents : agent[a].inv = agent[b].inv /\ a # b => agent[a].inv = 0
    /\ \A e \in logged : e.inv <= made

\* Where the lines and rows come from.
SourcesOK ==
    /\ \A k \in DOMAIN outbox : outbox[k] \in logged
    /\ \A k \in DOMAIN table : table[k] \in logged
    /\ \A k \in DOMAIN sync.rows : sync.rows[k] \in logged
    /\ \A p \in Patterns :
          /\ \A k \in DOMAIN patLog[p] : patLog[p][k] \in logged /\ patLog[p][k].pat = p
          /\ \A k \in DOMAIN copy[p] : copy[p][k] \in logged /\ copy[p][k].pat = p

\* A run of push_outbox holds the beginning of the file, and what it has
\* pushed are places of its batch that the server has rows of.
PushOK ==
    /\ pusher.pc = "off" => pusher = NoPush
    /\ Len(pusher.lines) <= Len(outbox)
    /\ \A k \in DOMAIN pusher.lines : pusher.lines[k] = outbox[k]
    /\ \A k \in pusher.pushed :
          /\ k \in 1..Batch(pusher.lines) /\ k < pusher.at
          /\ pusher.lines[k] \in ToSet(table)
    /\ pusher.pc # "post" => pusher.pushed = {}

\* The events an agent is through with: logged, and in no agent's hands on the
\* way from the logs to the outbox.
Handed == {e \in logged : \A a \in Agents : agent[a].left = <<"outbox">> => agent[a].ev # e}

\* The places of s, but for those of P, that hold an event of C.
Spots(s, P, C) == {k \in DOMAIN s \ P : s[k] \in C}

\* The rows of the server, and the lines it will be sent, are as many as the
\* events handed over, but for a batch for each mishap.
CountOK ==
    \A C \in SUBSET Events :
        Cardinality(Spots(table, {}, C)) + Cardinality(Spots(outbox, pusher.pushed, C))
            <= Cardinality(Handed \cap C) + BatchMax * mishaps

DInv == DeliveryTypeOK /\ AgentsOK /\ SourcesOK /\ PushOK /\ CountOK /\ CountedOnce

----------------------------------------------------------------------------
(* Places and ranks *)

LEMMA SliceTimes ==
    ASSUME NEW m \in Nat
    PROVE  BatchMax * m \in Nat /\ BatchMax * (m + 1) = BatchMax * m + BatchMax
BY DeliveryAssumption

LEMMA Ranks ==
    ASSUME NEW n \in Nat, NEW S \in SUBSET (1..n)
    PROVE  /\ IsFiniteSet(S) /\ Cardinality(S) \in Nat
           /\ \A i \in S : Cardinality({j \in S : j <= i}) \in 1..Cardinality(S)
           /\ \A i, h \in S : Cardinality({j \in S : j <= i}) = Cardinality({j \in S : j <= h}) => i = h
           /\ \A k \in 1..Cardinality(S) : \E i \in S : Cardinality({j \in S : j <= i}) = k
<1> DEFINE below(i) == {j \in S : j <= i}
           rank(i) == Cardinality(below(i))
<1>1. IsFiniteSet(1..n)
  BY FS_Interval
<1>2. IsFiniteSet(S) /\ Cardinality(S) \in Nat
  BY <1>1, FS_Subset, FS_CardinalityType
<1>3. ASSUME NEW i \in S
      PROVE  rank(i) \in 1..Cardinality(S)
  <2>1. IsFiniteSet(below(i)) /\ rank(i) <= Cardinality(S)
    BY <1>2, FS_Subset, below(i) \subseteq S
  <2>2. rank(i) \in Nat
    BY <2>1, FS_CardinalityType
  <2>3. i \in below(i)
    BY <1>3
  <2>4. rank(i) # 0
    BY <2>1, <2>3, FS_EmptySet
  <2> HIDE DEF below
  <2> QED
    BY <2>1, <2>2, <2>4, <1>2
<1>4. ASSUME NEW i \in S, NEW h \in S, i < h
      PROVE  rank(i) < rank(h)
  <2>0. i \in Nat /\ h \in Nat /\ S \subseteq Nat
    OBVIOUS
  <2>a. \A j \in S : j <= i => j <= h
    BY <1>4, <2>0
  <2>b. h <= h /\ ~(h <= i)
    BY <1>4, <2>0
  <2>1. below(i) \subseteq below(h) /\ h \in below(h) /\ h \notin below(i)
    BY <2>a, <2>b
  <2>2. IsFiniteSet(below(h)) /\ below(i) # below(h)
    BY <1>2, <2>1, FS_Subset, below(h) \subseteq S
  <2>3. rank(i) <= rank(h) /\ rank(i) # rank(h)
    <3> HIDE DEF below
    <3> QED
    BY <2>1, <2>2, FS_Subset
  <2>4. rank(i) \in Nat /\ rank(h) \in Nat
    BY <1>3
  <2> HIDE DEF below
  <2> QED
    BY <2>3, <2>4
<1>5. \A i, h \in S : rank(i) = rank(h) => i = h
  <2> SUFFICES ASSUME NEW i \in S, NEW h \in S, rank(i) = rank(h), i # h
               PROVE  FALSE
    OBVIOUS
  <2>1. i < h \/ h < i
    OBVIOUS
  <2>2. rank(i) \in Nat /\ rank(h) \in Nat
    BY <1>3
  <2>3. rank(i) < rank(h) \/ rank(h) < rank(i)
    BY <2>1, <1>4
  <2> HIDE DEF rank
  <2> QED
    BY <2>2, <2>3
<1>6. ASSUME NEW k \in 1..Cardinality(S)
      PROVE  \E i \in S : rank(i) = k
  <2> DEFINE f == [i \in S |-> rank(i)]
  <2>1. f \in [S -> 1..Cardinality(S)] /\ \A i, h \in S : f[i] = f[h] => i = h
    <3> HIDE DEF rank
    <3> QED
    BY <1>3, <1>5
  <2>2. f \in Injection(S, 1..Cardinality(S))
    <3> HIDE DEF f
    <3> QED
    BY <2>1 DEF Injection, IsInjective
  <2>3. IsFiniteSet(1..Cardinality(S)) /\ Cardinality(1..Cardinality(S)) = Cardinality(S)
    BY <1>2, FS_Interval
  <2>4. f \in Surjection(S, 1..Cardinality(S))
    <3> HIDE DEF f
    <3>1. Cardinality(S) = Cardinality(1..Cardinality(S)) <=> f \in Surjection(S, 1..Cardinality(S))
      BY <2>2, <2>3, FS_Injection
    <3> QED
      BY <2>3, <3>1
  <2>5. PICK i \in S : f[i] = k
    <3> HIDE DEF f
    <3> QED
      BY <2>4, <1>6 DEF Surjection
  <2> QED
    BY <2>5
<1> QED
  BY <1>2, <1>3, <1>5, <1>6

\* Lines(s, S) goes through the places S, each once.
LEMMA LinesFacts ==
    ASSUME NEW E, NEW s \in Seq(E), NEW S \in SUBSET (DOMAIN s)
    PROVE  /\ Lines(s, S) \in Seq(E)
           /\ \E at \in [DOMAIN Lines(s, S) -> S] :
                 /\ \A k, l \in DOMAIN Lines(s, S) : at[k] = at[l] => k = l
                 /\ \A k \in DOMAIN Lines(s, S) : Lines(s, S)[k] = s[at[k]]
                 /\ \A i \in S : \E k \in DOMAIN Lines(s, S) : at[k] = i
<1> DEFINE rank(i) == Cardinality({j \in S : j <= i})
           N == Cardinality(S)
           place(k) == CHOOSE i \in S : rank(i) = k
           at == [k \in 1..N |-> place(k)]
<1>1. Len(s) \in Nat /\ DOMAIN s = 1..Len(s) /\ \A i \in S : s[i] \in E
  BY LenProperties, ElementOfSeq
<1>2. N \in Nat /\ (\A i \in S : rank(i) \in 1..N)
      /\ (\A i, h \in S : rank(i) = rank(h) => i = h)
      /\ (\A k \in 1..N : \E i \in S : rank(i) = k)
  BY <1>1, Ranks
<1>3. Lines(s, S) = [k \in 1..N |-> s[place(k)]]
  BY DEF Lines
<1> HIDE DEF rank, N
<1>4. \A k \in 1..N : place(k) \in S /\ rank(place(k)) = k
  BY <1>2
<1> HIDE DEF place
<1>5. Lines(s, S) \in Seq(E) /\ DOMAIN Lines(s, S) = 1..N
  BY <1>1, <1>2, <1>3, <1>4
<1>6. at \in [1..N -> S] /\ \A k \in 1..N : at[k] = place(k)
  BY <1>4
<1> HIDE DEF at
<1>7. \A k, l \in 1..N : at[k] = at[l] => k = l
  BY <1>4, <1>6
<1>8. \A k \in 1..N : Lines(s, S)[k] = s[at[k]]
  BY <1>3, <1>6
<1>9. \A i \in S : \E k \in 1..N : at[k] = i
  BY <1>2, <1>4, <1>6
<1> DEFINE lines == Lines(s, S)
<1> HIDE DEF lines
<1>10. /\ lines \in Seq(E) /\ at \in [DOMAIN lines -> S]
       /\ \A k, l \in DOMAIN lines : at[k] = at[l] => k = l
       /\ \A k \in DOMAIN lines : lines[k] = s[at[k]]
       /\ \A i \in S : \E k \in DOMAIN lines : at[k] = i
  BY <1>5, <1>6, <1>7, <1>8, <1>9 DEF lines
<1>11. \E f \in [DOMAIN lines -> S] :
          /\ \A k, l \in DOMAIN lines : f[k] = f[l] => k = l
          /\ \A k \in DOMAIN lines : lines[k] = s[f[k]]
          /\ \A i \in S : \E k \in DOMAIN lines : f[k] = i
  BY <1>10
<1> QED
  BY <1>10, <1>11 DEF lines

LEMMA SpotsType ==
    ASSUME NEW E, NEW s \in Seq(E), NEW P, NEW C
    PROVE  IsFiniteSet(Spots(s, P, C)) /\ Cardinality(Spots(s, P, C)) \in Nat
<1>1. Spots(s, P, C) \subseteq 1..Len(s) /\ Len(s) \in Nat
  BY LenProperties DEF Spots
<1>2. IsFiniteSet(1..Len(s))
  BY <1>1, FS_Interval
<1> QED
  BY <1>1, <1>2, FS_Subset, FS_CardinalityType

\* Appending an event adds at most its own place; leaving places out adds none.
LEMMA SpotsAppend ==
    ASSUME NEW E, NEW s \in Seq(E), NEW e \in E, NEW P \in SUBSET (1..Len(s)), NEW C
    PROVE  Cardinality(Spots(Append(s, e), P, C))
             = Cardinality(Spots(s, P, C)) + IF e \in C THEN 1 ELSE 0
<1> DEFINE t == Append(s, e)
           n == Len(s)
<1>1. n \in Nat /\ DOMAIN s = 1..n
  BY LenProperties
<1>2. t \in Seq(E) /\ DOMAIN t = 1..(n + 1) /\ t[n + 1] = e /\ \A k \in 1..n : t[k] = s[k]
  BY <1>1, AppendProperties, LenProperties
<1>3. 1..(n + 1) = (1..n) \cup {n + 1} /\ n + 1 \notin 1..n
  BY <1>1
<1> HIDE DEF t, n
<1>4. P \subseteq 1..n
  BY DEF n
<1>5. n + 1 \notin Spots(s, P, C)
  BY <1>1, <1>3 DEF Spots
<1>6. CASE e \in C
  <2>1. Spots(t, P, C) = Spots(s, P, C) \cup {n + 1}
    BY <1>1, <1>2, <1>3, <1>4, <1>6 DEF Spots
  <2>2. Cardinality(Spots(t, P, C)) = Cardinality(Spots(s, P, C)) + 1
    BY <2>1, <1>5, SpotsType, FS_AddElement
  <2> QED
    BY <2>2, <1>6 DEF t
<1>7. CASE e \notin C
  <2>1. Spots(t, P, C) = Spots(s, P, C)
    BY <1>1, <1>2, <1>3, <1>4, <1>7 DEF Spots
  <2>2. Cardinality(Spots(s, P, C)) \in Nat
    BY SpotsType
  <2> QED
    BY <2>1, <2>2, <1>7 DEF t
<1> QED
  BY <1>6, <1>7

\* Giving the places P back adds at most as many as they are.
LEMMA SpotsWhole ==
    ASSUME NEW E, NEW s \in Seq(E), NEW P, IsFiniteSet(P), NEW C
    PROVE  Cardinality(Spots(s, {}, C)) <= Cardinality(Spots(s, P, C)) + Cardinality(P)
<1>1. Spots(s, {}, C) \subseteq Spots(s, P, C) \cup P
  BY DEF Spots
<1>2. IsFiniteSet(Spots(s, P, C) \cup P)
      /\ Cardinality(Spots(s, P, C) \cup P)
           = Cardinality(Spots(s, P, C)) + Cardinality(P) - Cardinality(Spots(s, P, C) \cap P)
  BY SpotsType, FS_Union
<1>3. Cardinality(Spots(s, {}, C)) <= Cardinality(Spots(s, P, C) \cup P)
  BY <1>1, <1>2, FS_Subset
<1>4. IsFiniteSet(Spots(s, P, C) \cap P)
  BY FS_Subset, Spots(s, P, C) \cap P \subseteq P
<1>5. Cardinality(Spots(s, P, C) \cap P) \in Nat
  BY <1>4, FS_CardinalityType
<1>6. Cardinality(Spots(s, {}, C)) \in Nat /\ Cardinality(Spots(s, P, C)) \in Nat
      /\ Cardinality(P) \in Nat
  BY SpotsType, FS_CardinalityType
<1> QED
  BY <1>2, <1>3, <1>5, <1>6

\* A place that is taken out counts one less.
LEMMA SpotsLess ==
    ASSUME NEW E, NEW s \in Seq(E), NEW P, NEW k \in (DOMAIN s) \ P, NEW C
    PROVE  Cardinality(Spots(s, P, C))
             = Cardinality(Spots(s, P \cup {k}, C)) + IF s[k] \in C THEN 1 ELSE 0
<1>1. k \notin Spots(s, P \cup {k}, C)
  BY DEF Spots
<1>2. IsFiniteSet(Spots(s, P \cup {k}, C)) /\ Cardinality(Spots(s, P \cup {k}, C)) \in Nat
  BY SpotsType
<1>3. CASE s[k] \in C
  <2>1. Spots(s, P, C) = Spots(s, P \cup {k}, C) \cup {k}
    BY <1>3 DEF Spots
  <2>2. Cardinality(Spots(s, P, C)) = Cardinality(Spots(s, P \cup {k}, C)) + 1
    BY <2>1, <1>1, <1>2, FS_AddElement
  <2> QED
    BY <2>2, <1>3
<1>4. CASE s[k] \notin C
  <2>1. Spots(s, P, C) = Spots(s, P \cup {k}, C)
    BY <1>4 DEF Spots
  <2> QED
    BY <2>1, <1>2, <1>4
<1> QED
  BY <1>3, <1>4

\* What Keep leaves are the places not pushed, each once.
LEMMA KeepSpots ==
    ASSUME NEW E, NEW s \in Seq(E), NEW P, NEW C
    PROVE  /\ Keep(s, P) \in Seq(E)
           /\ Cardinality(Spots(Keep(s, P), {}, C)) <= Cardinality(Spots(s, P, C))
           /\ \A k \in DOMAIN Keep(s, P) : \E i \in DOMAIN s : Keep(s, P)[k] = s[i]
           /\ \A i \in (DOMAIN s) \ P : s[i] \in ToSet(Keep(s, P))
<1> DEFINE kept == Keep(s, P)
           S == (DOMAIN s) \ P
<1>1. S \in SUBSET (DOMAIN s) /\ kept = Lines(s, S)
  BY DEF Keep
<1> HIDE DEF kept, S
<1>2. kept \in Seq(E)
  BY <1>1, LinesFacts
<1>3. PICK at \in [DOMAIN kept -> S] :
         /\ \A k, l \in DOMAIN kept : at[k] = at[l] => k = l
         /\ \A k \in DOMAIN kept : kept[k] = s[at[k]]
         /\ \A i \in S : \E k \in DOMAIN kept : at[k] = i
  BY <1>1, LinesFacts
<1>4. Cardinality(Spots(kept, {}, C)) <= Cardinality(Spots(s, P, C))
  <2> DEFINE A == Spots(kept, {}, C)
             B == Spots(s, P, C)
             f == [k \in A |-> at[k]]
  <2>1. A \subseteq DOMAIN kept /\ \A k \in A : kept[k] \in C
    BY DEF Spots
  <2>2. \A i \in S : s[i] \in C => i \in B
    BY DEF Spots, S
  <2> HIDE DEF A, B
  <2>3. f \in [A -> B]
    BY <2>1, <2>2, <1>3
  <2>4. \A k, l \in A : f[k] = f[l] => k = l
    BY <2>1, <1>3
  <2> HIDE DEF f
  <2>5. f \in Injection(A, B)
    BY <2>3, <2>4 DEF Injection, IsInjective
  <2>6. IsFiniteSet(B)
    BY SpotsType DEF B
  <2>7. Cardinality(A) <= Cardinality(B)
    BY <2>5, <2>6, FS_Injection
  <2> QED
    BY <2>7 DEF A, B
<1>5. \A k \in DOMAIN kept : at[k] \in DOMAIN s /\ kept[k] = s[at[k]]
  BY <1>3 DEF S
<1>6. \A i \in S : s[i] \in ToSet(kept)
  BY <1>3 DEF ToSet
<1> QED
  BY <1>2, <1>4, <1>5, <1>6 DEF kept, S

----------------------------------------------------------------------------
(* The agents *)

LEMMA Lefts ==
    /\ Tail(LocalWrites) = <<"outbox">> /\ Tail(<<"outbox">>) = <<>> /\ Tail(Request) = <<>>
    /\ Head(LocalWrites) = "logs" /\ Head(<<"outbox">>) = "outbox" /\ Head(Request) = "post"
    /\ LocalWrites # <<>> /\ Request # <<>> /\ <<"outbox">> # <<>>
    /\ LocalWrites # <<"outbox">> /\ Request # <<"outbox">> /\ LocalWrites # Request
<1>1. Tail(LocalWrites) = <<"outbox">>
  BY DEF LocalWrites
<1>2. Tail(<<"outbox">>) = <<>> /\ Tail(Request) = <<>>
  BY DEF Request
<1>3. Head(LocalWrites) = "logs" /\ Head(<<"outbox">>) = "outbox" /\ Head(Request) = "post"
  BY DEF LocalWrites, Request
<1>4. LocalWrites # <<>> /\ Request # <<>> /\ <<"outbox">> # <<>>
  BY DEF LocalWrites, Request
<1>5. LocalWrites # <<"outbox">>
  BY DEF LocalWrites
<1>6. Request # <<"outbox">> /\ LocalWrites # Request
  BY <1>3
<1> QED
  BY <1>1, <1>2, <1>3, <1>4, <1>5, <1>6

LEMMA AgentTypes ==
    ASSUME DeliveryTypeOK, AgentsOK, NEW a \in Agents
    PROVE  /\ agent \in [Agents -> AgentStates] /\ agent[a] \in AgentStates
           /\ agent[a].inv \in Nat /\ agent[a].n \in Nat /\ made \in Nat
           /\ agent[a].left \in {<<>>, <<"outbox">>, LocalWrites, Request}
           /\ agent[a].left # <<>> => /\ agent[a].inv # 0 /\ agent[a].pat \in Patterns
                                      /\ agent[a].ev \in Events /\ agent[a].ev # None
                                      /\ agent[a].ev.inv = agent[a].inv
                                      /\ agent[a].ev.pat = agent[a].pat
                                      /\ agent[a].ev.n \in Nat
           /\ InBody(a) => agent[a].inv # 0 /\ agent[a].pat \in Patterns /\ agent[a].left = <<>>
<1>1. agent \in [Agents -> AgentStates] /\ made \in Nat
  BY DeliveryAssumption DEF DeliveryTypeOK, AgentStates
<1>2. agent[a] \in AgentStates
  BY <1>1
<1>3. agent[a].inv \in Nat /\ agent[a].n \in Nat /\ agent[a].ev \in Events \cup {None}
      /\ agent[a].left \in {<<>>, <<"outbox">>, LocalWrites, Request}
  <2>1. agent[a].inv \in 0..MaxInv /\ agent[a].n \in Nat /\ agent[a].ev \in Events \cup {None}
    BY <1>2 DEF AgentStates
  <2>2. agent[a].left \in {<<>>, LocalWrites, Tail(LocalWrites), Request}
    BY <1>2 DEF AgentStates
  <2>3. agent[a].inv \in Nat
    BY <2>1, DeliveryAssumption
  <2> QED
    BY <2>1, <2>2, <2>3, Lefts
<1>4. ASSUME agent[a].left # <<>>
      PROVE  /\ agent[a].ev # None /\ agent[a].ev \in Events
             /\ agent[a].ev.inv = agent[a].inv /\ agent[a].ev.pat = agent[a].pat
  BY <1>3, <1>4 DEF AgentsOK, AgentOK
<1>5. ASSUME agent[a].left # <<>>
      PROVE  agent[a].inv # 0 /\ agent[a].pat \in Patterns /\ agent[a].ev.n \in Nat
  BY <1>4, <1>5 DEF Events
<1>6. ASSUME InBody(a)
      PROVE  agent[a].inv # 0 /\ agent[a].pat \in Patterns /\ agent[a].left = <<>>
  BY <1>6 DEF InBody, AgentsOK, AgentOK
<1> QED
  BY <1>1, <1>2, <1>3, <1>4, <1>5, <1>6

\* A step of one agent that leaves it as an agent may be leaves all of them so.
LEMMA OneAgent ==
    ASSUME DeliveryTypeOK, AgentsOK, NEW a \in Agents,
           NEW r \in AgentStates, agent' = [agent EXCEPT ![a] = r], AgentOK(a)',
           r.inv \in {0, agent[a].inv, made + 1},
           made' \in Nat, made <= made', r.inv <= made',
           logged \subseteq logged', logged' \subseteq Events,
           \A e \in logged' \ logged : e.inv = agent[a].inv
    PROVE  AgentsOK' /\ agent' \in [Agents -> AgentStates]
<1>1. agent \in [Agents -> AgentStates] /\ made \in Nat
      /\ \A b \in Agents : agent[b].inv \in Nat /\ agent[b].inv <= made
  BY AgentTypes DEF AgentsOK, AgentOK
<1>2. agent' \in [Agents -> AgentStates] /\ agent'[a] = r
      /\ \A b \in Agents \ {a} : agent'[b] = agent[b]
  BY <1>1
<1>3. \A e \in logged' : e.inv # 0
  BY DeliveryAssumption DEF Events
<1>4. ASSUME NEW b \in Agents, b # a
      PROVE  AgentOK(b)'
  <2>1. \A e \in logged' \ logged : e.inv # agent[b].inv
    BY <1>3, <1>4 DEF AgentsOK
  <2>2. AgentOK(b) /\ agent'[b] = agent[b]
    BY <1>2, <1>4 DEF AgentsOK
  <2>3. agent'[b].inv <= made'
    BY <2>2, <1>1
  <2>4. \A e \in logged' : e.inv = agent[b].inv =>
           /\ e.n < agent[b].n
           /\ agent[b].left \in {LocalWrites, Request} => e.n < agent[b].ev.n
    BY <2>1, <2>2 DEF AgentOK
  <2> QED
    BY <2>2, <2>3, <2>4 DEF AgentOK
<1>5. ASSUME NEW b \in Agents, NEW c \in Agents, agent'[b].inv = agent'[c].inv, b # c
      PROVE  agent'[b].inv = 0
  <2>1. \A d \in Agents \ {a} : agent'[d].inv = agent[d].inv /\ agent[d].inv # made + 1
    BY <1>1, <1>2
  <2> QED
    BY <2>1, <1>2, <1>5 DEF AgentsOK
<1>6. ASSUME NEW e \in logged'
      PROVE  e.inv <= made'
  <2>1. e.inv <= made
    BY <1>1, <1>6 DEF AgentsOK
  <2>2. e.inv \in Nat
    BY <1>6, DeliveryAssumption DEF Events
  <2> QED
    BY <2>1, <2>2, <1>1
<1> QED
  BY <1>2, <1>4, <1>5, <1>6 DEF AgentsOK

LEMMA IdleType ==
    Idle \in AgentStates /\ Idle.inv = 0 /\ Idle.left = <<>> /\ Idle.ev = None
BY DeliveryAssumption DEF Idle, AgentStates

\* An agent that is through with its invocation.
LEMMA AgentRests ==
    ASSUME DeliveryTypeOK, AgentsOK, NEW a \in Agents,
           agent' = [agent EXCEPT ![a] = Idle], made' = made,
           logged \subseteq logged', logged' \subseteq Events,
           \A e \in logged' \ logged : e.inv = agent[a].inv
    PROVE  AgentsOK' /\ agent' \in [Agents -> AgentStates]
<1>1. agent \in [Agents -> AgentStates] /\ made \in Nat
  BY AgentTypes
<1>2. agent'[a] = Idle
  BY <1>1
<1>3. \A e \in logged' : e.inv # 0
  BY DeliveryAssumption DEF Events
<1>4. AgentOK(a)'
  BY <1>1, <1>2, <1>3, IdleType, Lefts DEF AgentOK
<1>5. Idle.inv \in {0, agent[a].inv, made + 1} /\ made' \in Nat /\ made <= made'
      /\ Idle.inv <= made'
  BY <1>1, IdleType
<1> QED
  BY <1>4, <1>5, IdleType, OneAgent

\* An agent that sets out to log the next event of the invocation inv.
LEMMA AgentLogs ==
    ASSUME DeliveryTypeOK, AgentsOK, NEW a \in Agents,
           NEW inv \in AgentStates, NEW phase \in Phases, NEW ok \in BOOLEAN \cup {None},
           Log(a, inv, phase, ok),
           made' \in made..MaxInv, inv.inv # 0, inv.inv <= made', inv.pat \in Patterns,
           inv.inv \in {agent[a].inv, made + 1},
           logged \subseteq logged', logged' \subseteq Events,
           \A e \in logged' \ logged : e.inv = agent[a].inv,
           \A e \in logged' : e.inv = inv.inv => e.n < inv.n
    PROVE  /\ AgentsOK' /\ agent' \in [Agents -> AgentStates]
           /\ agent' = [agent EXCEPT ![a] = agent'[a]] /\ agent'[a].left # <<"outbox">>
<1> DEFINE ev == Event(inv.inv, inv.pat, inv.n, phase, ok)
           r == [inv EXCEPT !.ev = ev, !.left = Files(a), !.n = @ + 1]
<1>1. agent \in [Agents -> AgentStates] /\ made \in Nat /\ MaxInv \in Nat
  BY AgentTypes, DeliveryAssumption
<1>2. inv.inv \in 1..MaxInv /\ inv.n \in Nat /\ inv.n + 1 \in Nat
  BY <1>1 DEF AgentStates
<1>3. ev \in Events /\ ev.inv = inv.inv /\ ev.pat = inv.pat /\ ev.n = inv.n
  BY <1>2 DEF Event, Events
<1>4. ev # None
  BY <1>3, DeliveryAssumption
<1>5. Files(a) \in {LocalWrites, Request}
  BY DEF Files
<1>6. agent' = [agent EXCEPT ![a] = r]
  BY DEF Log
<1> HIDE DEF ev
<1>7. /\ r.inv = inv.inv /\ r.pat = inv.pat /\ r.n = inv.n + 1 /\ r.done = inv.done
      /\ r.ev = ev /\ r.left = Files(a)
  BY DEF AgentStates
<1>8. r \in AgentStates
  BY <1>2, <1>3, <1>5 DEF AgentStates
<1> HIDE DEF r
<1>9. agent'[a] = r
  BY <1>1, <1>6
<1>10. r.left # <<>> /\ r.left # <<"outbox">> /\ r.inv # 0 /\ r.ev # None
  BY <1>4, <1>5, <1>7, Lefts
<1>11. \A e \in logged' : e.inv = r.inv => e.n < r.n /\ e.n < r.ev.n
  BY <1>2, <1>3, <1>7 DEF Events
<1>12. r.ev.n < r.n /\ r.ev.inv = r.inv /\ r.ev.pat = r.pat
  BY <1>2, <1>3, <1>7
<1>13. AgentOK(a)'
  <2>1. r.inv <= made' /\ r.pat \in Patterns
    BY <1>7
  <2> QED
    BY <2>1, <1>9, <1>10, <1>11, <1>12 DEF AgentOK
<1>14. made' \in Nat /\ made <= made' /\ r.inv <= made' /\ r.inv \in {0, agent[a].inv, made + 1}
  BY <1>1, <1>7
<1>15. AgentsOK' /\ agent' \in [Agents -> AgentStates]
  BY <1>6, <1>8, <1>13, <1>14, OneAgent
<1> QED
  BY <1>6, <1>9, <1>10, <1>15

----------------------------------------------------------------------------
(* What growing logs preserve *)

\* The invocations of a pattern with an outcome, and those with a success.
Ended(p) == {e.inv : e \in {f \in {e \in logged : e.pat = p} : IsOutcome(f)}}
Succeeded(p) == {e.inv : e \in {f \in {e \in logged : e.pat = p} : f.ok = TRUE}}

LEMMA EndedType ==
    ASSUME logged \subseteq Events, NEW p
    PROVE  /\ IsFiniteSet(Ended(p)) /\ Cardinality(Ended(p)) \in Nat
           /\ IsFiniteSet(Succeeded(p)) /\ Cardinality(Succeeded(p)) \in Nat
<1>1. Ended(p) \subseteq 1..MaxInv /\ Succeeded(p) \subseteq 1..MaxInv
  BY DEF Ended, Succeeded, Events
<1>2. IsFiniteSet(1..MaxInv)
  BY DeliveryAssumption, FS_Interval
<1>3. IsFiniteSet(Ended(p)) /\ IsFiniteSet(Succeeded(p))
  BY <1>1, <1>2, FS_Subset
<1> QED
  BY <1>3, FS_CardinalityType

LEMMA CountedOnceIs ==
    CountedOnce <=> \A p \in Patterns :
        /\ skill[p].invoked <= Cardinality(Ended(p))
        /\ skill[p].success <= Cardinality(Succeeded(p))
BY DEF CountedOnce, Ended, Succeeded

LEMMA CountedOnceIsNext ==
    CountedOnce' <=> \A p \in Patterns :
        /\ skill'[p].invoked <= Cardinality(Ended(p)')
        /\ skill'[p].success <= Cardinality(Succeeded(p)')
BY DEF CountedOnce, Ended, Succeeded

LEMMA EndedGrows ==
    ASSUME logged \subseteq logged', logged' \subseteq Events, NEW p
    PROVE  /\ Cardinality(Ended(p)) <= Cardinality(Ended(p)')
           /\ Cardinality(Succeeded(p)) <= Cardinality(Succeeded(p)')
           /\ Cardinality(Ended(p)') \in Nat /\ Cardinality(Succeeded(p)') \in Nat
<1>1. Ended(p)' \subseteq 1..MaxInv /\ Succeeded(p)' \subseteq 1..MaxInv
  BY DEF Ended, Succeeded, Events
<1>2. IsFiniteSet(1..MaxInv)
  BY DeliveryAssumption, FS_Interval
<1>3. IsFiniteSet(Ended(p)') /\ IsFiniteSet(Succeeded(p)')
  BY <1>1, <1>2, FS_Subset
<1>4. Ended(p) \subseteq Ended(p)' /\ Succeeded(p) \subseteq Succeeded(p)'
  BY DEF Ended, Succeeded
<1> QED
  BY <1>3, <1>4, FS_Subset, FS_CardinalityType

LEMMA CountedStays ==
    ASSUME DeliveryTypeOK, CountedOnce, skill' = skill,
           logged \subseteq logged', logged' \subseteq Events
    PROVE  CountedOnce'
<1> SUFFICES ASSUME NEW p \in Patterns
             PROVE  /\ skill[p].invoked <= Cardinality(Ended(p)')
                    /\ skill[p].success <= Cardinality(Succeeded(p)')
  BY CountedOnceIsNext
<1> DEFINE i == skill[p].invoked
           o == skill[p].success
           m == Cardinality(Ended(p))
           n == Cardinality(Succeeded(p))
           mm == Cardinality(Ended(p)')
           nn == Cardinality(Succeeded(p)')
<1>1. i \in Nat /\ o \in Nat
  BY DEF DeliveryTypeOK
<1>2. i <= m /\ o <= n
  BY CountedOnceIs
<1>3. m <= mm /\ n <= nn /\ mm \in Nat /\ nn \in Nat
  BY EndedGrows
<1>4. m \in Nat /\ n \in Nat
  BY EndedType DEF DeliveryTypeOK
<1> HIDE DEF i, o, m, n, mm, nn
<1>5. i <= mm /\ o <= nn
  BY <1>1, <1>2, <1>3, <1>4
<1> QED
  BY <1>5 DEF i, o, mm, nn

\* An agent that does not enter the step between the two files keeps no event
\* back that was handed over before.
LEMMA HandedGrows ==
    ASSUME DeliveryTypeOK, NEW a \in Agents, agent' = [agent EXCEPT ![a] = agent'[a]],
           agent'[a].left = <<"outbox">> => agent'[a].ev \notin logged,
           logged \subseteq logged'
    PROVE  Handed \subseteq Handed'
<1>1. \A b \in Agents : b # a => agent'[b] = agent[b]
  BY DEF DeliveryTypeOK
<1> QED
  BY <1>1 DEF Handed

\* The numbers of CountOK.
LEMMA CountTypes ==
    ASSUME DeliveryTypeOK, NEW C
    PROVE  /\ Cardinality(Spots(table, {}, C)) \in Nat
           /\ Cardinality(Spots(outbox, pusher.pushed, C)) \in Nat
           /\ IsFiniteSet(Handed \cap C) /\ Cardinality(Handed \cap C) \in Nat
           /\ BatchMax * mishaps \in Nat
<1>1. IsFiniteSet(Handed \cap C)
  BY FS_Subset, Handed \cap C \subseteq logged DEF DeliveryTypeOK, Handed
<1>2. table \in Seq(Events) /\ outbox \in Seq(Events) /\ mishaps \in Nat
  BY DEF DeliveryTypeOK
<1> QED
  BY <1>1, <1>2, SpotsType, SliceTimes, FS_CardinalityType

\* What is handed over stays so.
LEMMA HandedCount ==
    ASSUME Handed \subseteq Handed', logged' \subseteq Events, IsFiniteSet(logged'), NEW C
    PROVE  /\ Cardinality(Handed \cap C) <= Cardinality(Handed' \cap C)
           /\ Cardinality(Handed' \cap C) \in Nat
<1>1. IsFiniteSet(Handed' \cap C)
  BY FS_Subset, Handed' \cap C \subseteq logged' DEF Handed
<1> QED
  BY <1>1, FS_Subset, FS_CardinalityType, Handed \cap C \subseteq Handed' \cap C

\* Each mishap is worth a batch.
LEMMA SlackGrows ==
    ASSUME DeliveryTypeOK, mishaps' \in {mishaps, mishaps + 1}
    PROVE  /\ BatchMax * mishaps \in Nat /\ BatchMax * mishaps' \in Nat
           /\ BatchMax * mishaps <= BatchMax * mishaps'
           /\ mishaps' = mishaps + 1 => BatchMax * mishaps' = BatchMax * mishaps + BatchMax
<1> DEFINE m == BatchMax * mishaps
           mm == BatchMax * mishaps'
<1>1. mishaps \in Nat /\ BatchMax \in Nat
  BY DeliveryAssumption DEF DeliveryTypeOK
<1>2. m \in Nat /\ BatchMax * (mishaps + 1) = m + BatchMax
  BY <1>1, SliceTimes
<1>3. mishaps' = mishaps \/ mishaps' = mishaps + 1
  OBVIOUS
<1>4. mm = m \/ mm = m + BatchMax
  BY <1>2, <1>3
<1>5. mishaps' = mishaps + 1 => mm = m + BatchMax
  BY <1>2
<1> HIDE DEF m, mm
<1>6. mm \in Nat /\ m <= mm
  BY <1>1, <1>2, <1>4
<1> QED
  BY <1>2, <1>5, <1>6 DEF m, mm

\* A step in which the rows and lines grow by no more than what is handed over
\* and the mishaps allow.
LEMMA CountKept ==
    ASSUME DeliveryTypeOK, CountOK, DeliveryTypeOK', Handed \subseteq Handed',
           UNCHANGED <<table, outbox, pusher.pushed>>, mishaps' \in {mishaps, mishaps + 1}
    PROVE  CountOK'
<1> SUFFICES ASSUME NEW C \in SUBSET Events
             PROVE  Cardinality(Spots(table, {}, C)) + Cardinality(Spots(outbox, pusher.pushed, C))
                      <= Cardinality(Handed' \cap C) + BatchMax * mishaps'
  BY DEF CountOK, Spots
<1> DEFINE t == Cardinality(Spots(table, {}, C))
           l == Cardinality(Spots(outbox, pusher.pushed, C))
           h == Cardinality(Handed \cap C)
           hh == Cardinality(Handed' \cap C)
           m == BatchMax * mishaps
           mm == BatchMax * mishaps'
<1>1. t \in Nat /\ l \in Nat /\ h \in Nat /\ m \in Nat /\ t + l <= h + m
  BY CountTypes DEF CountOK
<1>2. h <= hh /\ hh \in Nat
  BY HandedCount DEF DeliveryTypeOK
<1>3. m <= mm /\ mm \in Nat
  BY SlackGrows
<1> HIDE DEF t, l, h, hh, m, mm
<1>4. t + l <= hh + mm
  BY <1>1, <1>2, <1>3
<1> QED
  BY <1>4 DEF t, l, hh, mm

----------------------------------------------------------------------------
(* The steps of an agent *)

\* No step of an agent touches the tools.
LEMMA QuietAgent ==
    ASSUME DInv, NEW a \in Agents, agent' = [agent EXCEPT ![a] = agent'[a]],
           AgentsOK', agent' \in [Agents -> AgentStates], agent'[a].left # <<"outbox">>,
           UNCHANGED <<logged, patLog, outbox, table, pusher, tools>>,
           made' \in made..MaxInv, mishaps' \in {mishaps, mishaps + 1}
    PROVE  DInv'
<1>1. UNCHANGED <<logged, patLog, outbox, table, pusher, copy, sync, skill>>
  BY DEF tools
<1>2. made' \in 0..MaxInv /\ mishaps' \in Nat
  BY DeliveryAssumption DEF DInv, DeliveryTypeOK
<1>3. DeliveryTypeOK'
  BY <1>1, <1>2 DEF DInv, DeliveryTypeOK, AgentStates
<1>4. SourcesOK' /\ PushOK'
  BY <1>1 DEF DInv, SourcesOK, PushOK
<1>5. Handed \subseteq Handed'
  BY <1>1, HandedGrows DEF DInv
<1>6. CountOK'
  BY <1>1, <1>3, <1>5, CountKept DEF DInv
<1>7. CountedOnce'
  BY <1>1, <1>3, CountedStays DEF DInv, DeliveryTypeOK
<1> QED
  BY <1>3, <1>4, <1>6, <1>7 DEF DInv

LEMMA EnterKeeps ==
    ASSUME DInv, NEW a \in Agents, NEW p \in Patterns, Enter(a, p)
    PROVE  DInv'
<1> DEFINE inv == [Idle EXCEPT !.inv = made + 1, !.pat = p]
<1>1. made \in Nat /\ made + 1 \in 1..MaxInv /\ made' = made + 1 /\ made' \in made..MaxInv
  BY DeliveryAssumption DEF Enter, DInv, DeliveryTypeOK
<1>2. inv \in AgentStates /\ inv.inv = made + 1 /\ inv.pat = p
  <2>1. Idle \in AgentStates
    BY IdleType
  <2>2. made + 1 \in 0..MaxInv
    BY <1>1
  <2> QED
    BY <2>1, <2>2 DEF AgentStates
<1>3. Log(a, inv, "loaded", None)
  BY <1>1 DEF Enter
<1> HIDE DEF inv
<1>4. UNCHANGED <<logged, patLog, outbox, table, pusher, tools, mishaps>>
  BY DEF Enter
<1>5. \A e \in logged' : e.inv # inv.inv
  <2>1. \A e \in logged' : e.inv <= made /\ e.inv \in Nat
    BY <1>4, DeliveryAssumption DEF DInv, AgentsOK, DeliveryTypeOK, Events
  <2> QED
    BY <2>1, <1>1, <1>2
<1>6. /\ AgentsOK' /\ agent' \in [Agents -> AgentStates]
      /\ agent' = [agent EXCEPT ![a] = agent'[a]] /\ agent'[a].left # <<"outbox">>
  <2>1. logged' \subseteq Events /\ logged \subseteq logged' /\ logged' \ logged = {}
    BY <1>4 DEF DInv, DeliveryTypeOK
  <2>2. "loaded" \in Phases /\ None \in BOOLEAN \cup {None}
    BY DEF Phases
  <2>3. inv.inv # 0 /\ inv.inv <= made' /\ inv.inv \in {agent[a].inv, made + 1}
    BY <1>1, <1>2
  <2> QED
    BY <1>1, <1>2, <1>3, <1>5, <2>1, <2>2, <2>3, AgentLogs DEF DInv
<1> QED
  BY <1>1, <1>4, <1>6, QuietAgent

\* Inside the body, and when a write fails: the next event of the invocation.
LEMMA LogsMore ==
    ASSUME DeliveryTypeOK, AgentsOK, NEW a \in Agents, agent[a].inv # 0,
           NEW phase \in Phases, NEW ok \in BOOLEAN \cup {None},
           Log(a, agent[a], phase, ok), made' = made,
           logged' \in {logged, logged \cup {agent[a].ev}},
           logged' # logged => agent[a].left # <<>>
    PROVE  /\ AgentsOK' /\ agent' \in [Agents -> AgentStates]
           /\ agent' = [agent EXCEPT ![a] = agent'[a]] /\ agent'[a].left # <<"outbox">>
<1>1. agent[a] \in AgentStates /\ agent[a].pat \in Patterns /\ agent[a].inv <= made
      /\ agent[a].inv \in Nat /\ made \in Nat
  BY AgentTypes DEF AgentsOK, AgentOK
<1>2. made' \in made..MaxInv
  BY DeliveryAssumption DEF DeliveryTypeOK
<1>3. agent[a].left # <<>> =>
         agent[a].ev \in Events /\ agent[a].ev.inv = agent[a].inv /\ agent[a].ev.n < agent[a].n
  BY AgentTypes DEF AgentsOK, AgentOK
<1>4. logged \subseteq logged' /\ logged' \subseteq Events
      /\ \A e \in logged' \ logged : e.inv = agent[a].inv
  BY <1>3 DEF DeliveryTypeOK
<1>5. \A e \in logged' : e.inv = agent[a].inv => e.n < agent[a].n
  BY <1>3 DEF AgentsOK, AgentOK
<1>6. agent[a].inv <= made' /\ agent[a].inv \in {agent[a].inv, made + 1}
  BY <1>1
<1> QED
  BY <1>1, <1>2, <1>4, <1>5, <1>6, AgentLogs

LEMMA RecordOutcomeKeeps ==
    ASSUME DInv, NEW a \in Agents, NEW ok \in BOOLEAN, RecordOutcome(a, ok)
    PROVE  DInv'
<1>1. agent[a].inv # 0 /\ Log(a, agent[a], "completed", ok) /\ made' = made
      /\ UNCHANGED <<logged, patLog, outbox, table, pusher, tools, mishaps>>
  BY DEF RecordOutcome, InBody
<1>2. "completed" \in Phases /\ made' \in made..MaxInv
  BY <1>1, DeliveryAssumption DEF Phases, DInv, DeliveryTypeOK
<1>3. /\ AgentsOK' /\ agent' \in [Agents -> AgentStates]
      /\ agent' = [agent EXCEPT ![a] = agent'[a]] /\ agent'[a].left # <<"outbox">>
  BY <1>1, <1>2, LogsMore DEF DInv
<1> QED
  BY <1>1, <1>2, <1>3, QuietAgent

LEMMA GoesIdle ==
    ASSUME DeliveryTypeOK, AgentsOK, NEW a \in Agents,
           agent' = [agent EXCEPT ![a] = Idle], made' = made,
           logged' \in {logged, logged \cup {agent[a].ev}},
           logged' # logged => agent[a].left # <<>>
    PROVE  /\ AgentsOK' /\ agent' \in [Agents -> AgentStates]
           /\ agent' = [agent EXCEPT ![a] = agent'[a]] /\ agent'[a].left # <<"outbox">>
<1>1. agent[a].left # <<>> => agent[a].ev \in Events /\ agent[a].ev.inv = agent[a].inv
  BY AgentTypes
<1>2. logged \subseteq logged' /\ logged' \subseteq Events
      /\ \A e \in logged' \ logged : e.inv = agent[a].inv
  BY <1>1 DEF DeliveryTypeOK
<1>3. AgentsOK' /\ agent' \in [Agents -> AgentStates]
  BY <1>2, AgentRests
<1>4. agent'[a] = Idle /\ agent \in [Agents -> AgentStates]
  BY AgentTypes
<1> QED
  BY <1>3, <1>4, IdleType, Lefts

LEMMA ExitKeeps ==
    ASSUME DInv, NEW a \in Agents, NEW raised \in BOOLEAN, Exit(a, raised)
    PROVE  DInv'
<1>1. agent[a].inv # 0 /\ made' = made
      /\ UNCHANGED <<logged, patLog, outbox, table, pusher, tools, mishaps>>
  BY DEF Exit, InBody
<1>2. {"completed", "errored"} \subseteq Phases /\ made' \in made..MaxInv
  BY <1>1, DeliveryAssumption DEF Phases, DInv, DeliveryTypeOK
<1>3. /\ AgentsOK' /\ agent' \in [Agents -> AgentStates]
      /\ agent' = [agent EXCEPT ![a] = agent'[a]] /\ agent'[a].left # <<"outbox">>
  <2>1. CASE agent' = [agent EXCEPT ![a] = Idle]
    BY <1>1, <2>1, GoesIdle DEF DInv
  <2>2. CASE Log(a, agent[a], "errored", FALSE)
    BY <1>1, <1>2, <2>2, LogsMore DEF DInv
  <2>3. CASE Log(a, agent[a], "completed", None)
    BY <1>1, <1>2, <2>3, LogsMore DEF DInv
  <2> QED
    BY <2>1, <2>2, <2>3 DEF Exit
<1> QED
  BY <1>1, <1>2, <1>3, QuietAgent

LEMMA AgentDiesKeeps ==
    ASSUME DInv, NEW a \in Agents, AgentDies(a)
    PROVE  DInv'
<1>1. agent' = [agent EXCEPT ![a] = Idle] /\ made' = made
      /\ UNCHANGED <<logged, patLog, outbox, table, pusher, tools>> /\ mishaps' = mishaps + 1
  BY DEF AgentDies, Mishap
<1>2. made' \in made..MaxInv
  BY <1>1, DeliveryAssumption DEF DInv, DeliveryTypeOK
<1>3. /\ AgentsOK' /\ agent' \in [Agents -> AgentStates]
      /\ agent' = [agent EXCEPT ![a] = agent'[a]] /\ agent'[a].left # <<"outbox">>
  BY <1>1, GoesIdle DEF DInv
<1> QED
  BY <1>1, <1>2, <1>3, QuietAgent

\* What a failed write leads to.
LEMMA FailureTurns ==
    ASSUME DeliveryTypeOK, AgentsOK, NEW a \in Agents, agent[a].left # <<>>,
           agent' = [agent EXCEPT ![a] = AfterFailure(a, @)], made' = made,
           logged' \in {logged, logged \cup {agent[a].ev}}
    PROVE  /\ AgentsOK' /\ agent' \in [Agents -> AgentStates]
           /\ agent' = [agent EXCEPT ![a] = agent'[a]] /\ agent'[a].left # <<"outbox">>
<1>1. agent \in [Agents -> AgentStates] /\ agent[a].inv # 0
  BY AgentTypes
<1>2. agent' = [agent EXCEPT ![a] = AfterFailure(a, agent[a])]
  OBVIOUS
<1>3. CASE AfterFailure(a, agent[a]) = Idle
  BY <1>2, <1>3, GoesIdle
<1>4. CASE Log(a, agent[a], "errored", FALSE)
  <2>1. "errored" \in Phases /\ FALSE \in BOOLEAN \cup {None}
    BY DEF Phases
  <2> QED
    BY <1>1, <1>4, <2>1, LogsMore
<1> QED
  BY <1>2, <1>3, <1>4 DEF AfterFailure, Log

\* A write that worked: the invocation goes on to the second file, to its body
\* or to its end.
LEMMA WriteTurns ==
    ASSUME DeliveryTypeOK, AgentsOK, NEW a \in Agents, agent[a].left # <<>>,
           agent' = [agent EXCEPT ![a] = AfterWrite(agent[a])], made' = made,
           logged' \in {logged, logged \cup {agent[a].ev}},
           agent[a].left \in {LocalWrites, Request} => logged' = logged \cup {agent[a].ev}
    PROVE  /\ AgentsOK' /\ agent' \in [Agents -> AgentStates]
           /\ agent' = [agent EXCEPT ![a] = agent'[a]]
           /\ agent'[a].left = <<"outbox">> =>
                 agent[a].left = LocalWrites /\ agent'[a].ev = agent[a].ev
<1> DEFINE inv == agent[a]
<1>1. /\ agent \in [Agents -> AgentStates] /\ inv \in AgentStates
      /\ inv.inv # 0 /\ inv.pat \in Patterns /\ inv.ev \in Events /\ inv.ev # None
      /\ inv.ev.inv = inv.inv /\ inv.ev.pat = inv.pat /\ inv.ev.n \in Nat
      /\ inv.n \in Nat /\ inv.inv \in Nat /\ made \in Nat
      /\ inv.left \in {<<"outbox">>, LocalWrites, Request}
  BY AgentTypes
<1>2. AgentOK(a)
  BY DEF AgentsOK
<1>3. inv.inv <= made /\ inv.ev.n < inv.n
  BY <1>1, <1>2 DEF AgentOK
<1>4. /\ logged \subseteq logged' /\ logged' \subseteq Events
      /\ \A e \in logged' \ logged : e.inv = agent[a].inv
      /\ \A e \in logged' : e.inv = inv.inv => e.n < inv.n
  BY <1>1, <1>2, <1>3 DEF DeliveryTypeOK, AgentOK
<1>5. CASE inv.left = LocalWrites
  <2> DEFINE r == [inv EXCEPT !.left = <<"outbox">>]
  <2>1. agent' = [agent EXCEPT ![a] = r]
    BY <1>5, Lefts DEF AfterWrite
  <2>2. /\ r.inv = inv.inv /\ r.pat = inv.pat /\ r.n = inv.n /\ r.ev = inv.ev
        /\ r.left = <<"outbox">>
    BY <1>1 DEF AgentStates
  <2>3. r \in AgentStates
    <3>1. <<"outbox">> \in {<<>>, LocalWrites, Tail(LocalWrites), Request}
      BY Lefts
    <3> QED
      BY <1>1, <3>1 DEF AgentStates
  <2> HIDE DEF r
  <2>4. agent'[a] = r
    BY <1>1, <2>1
  <2>5. inv.ev \in logged'
    BY <1>5
  <2>6. AgentOK(a)'
    <3> HIDE DEF inv
    <3>1. r.inv # 0 /\ r.inv <= made' /\ r.pat \in Patterns /\ r.left # <<>> /\ r.ev # None
      BY <1>1, <1>3, <2>2, Lefts
    <3>2. r.ev.inv = r.inv /\ r.ev.pat = r.pat /\ r.ev.n < r.n /\ r.ev \in logged'
      BY <1>1, <1>3, <2>2, <2>5
    <3>3. \A e \in logged' : e.inv = r.inv => e.n < r.n
      BY <1>4, <2>2
    <3>4. r.left \notin {LocalWrites, Request}
      BY <2>2, Lefts
    <3> QED
      BY <2>4, <3>1, <3>2, <3>3, <3>4 DEF AgentOK
  <2>7. r.inv \in {0, agent[a].inv, made + 1} /\ made' \in Nat /\ made <= made' /\ r.inv <= made'
    BY <1>1, <1>3, <2>2
  <2>8. AgentsOK' /\ agent' \in [Agents -> AgentStates]
    BY <1>4, <2>1, <2>3, <2>6, <2>7, OneAgent
  <2> QED
    BY <1>5, <2>1, <2>2, <2>4, <2>8
<1>6. CASE inv.left # LocalWrites
  <2>1. Tail(inv.left) = <<>>
    BY <1>1, <1>6, Lefts
  <2>2. CASE Exiting(inv)
    <3>1. agent' = [agent EXCEPT ![a] = Idle]
      BY <2>1, <2>2 DEF AfterWrite
    <3> QED
      BY <3>1, GoesIdle
  <2>3. CASE ~Exiting(inv)
    <3> DEFINE r == [inv EXCEPT !.ev = None, !.left = <<>>, !.done = IsOutcome(inv.ev)]
    <3>1. agent' = [agent EXCEPT ![a] = r]
      BY <2>1, <2>3 DEF AfterWrite
    <3>2. /\ r.inv = inv.inv /\ r.pat = inv.pat /\ r.n = inv.n /\ r.ev = None
          /\ r.left = <<>>
      BY <1>1 DEF AgentStates
    <3>3. r \in AgentStates
      <4>1. IsOutcome(inv.ev) \in BOOLEAN
        BY DEF IsOutcome
      <4> QED
        BY <1>1, <4>1 DEF AgentStates
    <3> HIDE DEF r
    <3>4. agent'[a] = r
      BY <1>1, <3>1
    <3>5. AgentOK(a)'
      <4> HIDE DEF inv
      <4>1. r.inv # 0 /\ r.inv <= made' /\ r.pat \in Patterns
        BY <1>1, <1>3, <3>2
      <4>2. \A e \in logged' : e.inv = r.inv => e.n < r.n
        BY <1>4, <3>2
      <4>3. r.left \notin {LocalWrites, Request} /\ r.left # <<"outbox">>
        BY <3>2, Lefts
      <4> QED
        BY <3>2, <3>4, <4>1, <4>2, <4>3 DEF AgentOK
    <3>6. r.inv \in {0, agent[a].inv, made + 1} /\ made' \in Nat /\ made <= made' /\ r.inv <= made'
      BY <1>1, <1>3, <3>2
    <3>7. AgentsOK' /\ agent' \in [Agents -> AgentStates]
      BY <1>4, <3>1, <3>3, <3>5, <3>6, OneAgent
    <3> QED
      BY <3>1, <3>2, <3>4, <3>7, Lefts
  <2> QED
    BY <2>2, <2>3
<1> QED
  BY <1>5, <1>6

\* The event in an agent's hands is not logged before its first write, and once
\* on its way to the outbox it is in the hands of no other.
LEMMA InHands ==
    ASSUME DeliveryTypeOK, AgentsOK, NEW a \in Agents, agent[a].left # <<>>
    PROVE  /\ agent[a].left \in {LocalWrites, Request} => agent[a].ev \notin logged
           /\ \A b \in Agents : b # a /\ agent[b].left # <<>> => agent[b].ev # agent[a].ev
<1>1. ASSUME agent[a].left \in {LocalWrites, Request}
      PROVE  agent[a].ev \notin logged
  <2>1. agent[a].ev.inv = agent[a].inv /\ agent[a].ev.n \in Nat
    BY AgentTypes
  <2>2. \A e \in logged : e.inv = agent[a].inv => e.n < agent[a].ev.n
    BY <1>1 DEF AgentsOK, AgentOK
  <2> QED
    BY <2>1, <2>2
<1>2. ASSUME NEW b \in Agents, b # a, agent[b].left # <<>>
      PROVE  agent[b].ev # agent[a].ev
  <2>1. agent[a].ev.inv = agent[a].inv /\ agent[b].ev.inv = agent[b].inv /\ agent[a].inv # 0
    BY <1>2, AgentTypes
  <2>2. agent[a].inv # agent[b].inv
    BY <1>2, <2>1 DEF AgentsOK
  <2> QED
    BY <2>1, <2>2
<1> QED
  BY <1>1, <1>2

\* What a step that stores or appends the event e keeps, if it hands e over.
LEMMA CountWithOne ==
    ASSUME DeliveryTypeOK, CountOK, logged' \subseteq Events, IsFiniteSet(logged'),
           NEW e \in Events, Handed \cup {e} \subseteq Handed', e \notin Handed,
           mishaps' \in {mishaps, mishaps + 1}, NEW C \in SUBSET Events
    PROVE  Cardinality(Spots(table, {}, C)) + Cardinality(Spots(outbox, pusher.pushed, C))
             + (IF e \in C THEN 1 ELSE 0) <= Cardinality(Handed' \cap C) + BatchMax * mishaps'
<1> DEFINE t == Cardinality(Spots(table, {}, C))
           l == Cardinality(Spots(outbox, pusher.pushed, C))
           h == Cardinality(Handed \cap C)
           hh == Cardinality(Handed' \cap C)
           m == BatchMax * mishaps
           mm == BatchMax * mishaps'
           one == IF e \in C THEN 1 ELSE 0
<1>1. t \in Nat /\ l \in Nat /\ h \in Nat /\ m \in Nat /\ t + l <= h + m
  BY CountTypes DEF CountOK
<1>2. h + one <= hh /\ hh \in Nat
  <2>1. Handed' \cap C \subseteq logged'
    BY DEF Handed
  <2>2. IsFiniteSet(Handed' \cap C) /\ hh \in Nat
    BY <2>1, FS_Subset, FS_CardinalityType
  <2>3. CASE e \in C
    <3>1. IsFiniteSet(Handed \cap C) /\ e \notin Handed \cap C
      BY CountTypes
    <3>2. IsFiniteSet((Handed \cap C) \cup {e}) /\ Cardinality((Handed \cap C) \cup {e}) = h + 1
      BY <3>1, FS_AddElement
    <3>3. (Handed \cap C) \cup {e} \subseteq Handed' \cap C
      BY <2>3
    <3>4. Cardinality((Handed \cap C) \cup {e}) <= hh
      BY <2>2, <3>3, FS_Subset
    <3> QED
      BY <2>2, <2>3, <3>2, <3>4
  <2>4. CASE e \notin C
    <3>1. h <= hh
      BY <2>2, FS_Subset, Handed \cap C \subseteq Handed' \cap C
    <3> QED
      BY <1>1, <2>2, <2>4, <3>1
  <2> QED
    BY <2>3, <2>4
<1>3. m <= mm /\ mm \in Nat
  BY SlackGrows
<1>4. one \in Nat
  OBVIOUS
<1> HIDE DEF t, l, h, hh, m, mm, one
<1>5. t + l + one <= hh + mm
  BY <1>1, <1>2, <1>3, <1>4
<1> QED
  BY <1>5 DEF t, l, hh, mm, one

LEMMA PushedPlaces ==
    ASSUME DeliveryTypeOK, PushOK
    PROVE  /\ Len(pusher.lines) \in Nat /\ DOMAIN pusher.lines = 1..Len(pusher.lines)
           /\ Len(outbox) \in Nat /\ DOMAIN outbox = 1..Len(outbox)
           /\ Len(pusher.lines) <= Len(outbox)
           /\ Batch(pusher.lines) \in Nat /\ Batch(pusher.lines) <= Len(pusher.lines)
           /\ Batch(pusher.lines) <= BatchMax
           /\ pusher.pushed \in SUBSET (1..Len(outbox)) /\ IsFiniteSet(pusher.pushed)
           /\ Cardinality(pusher.pushed) \in Nat /\ Cardinality(pusher.pushed) <= BatchMax
<1> DEFINE n == Len(pusher.lines)
           m == Len(outbox)
           b == Batch(pusher.lines)
<1>1. pusher.lines \in Seq(Events) /\ outbox \in Seq(Events)
  BY DEF DeliveryTypeOK
<1>2. n \in Nat /\ DOMAIN pusher.lines = 1..n /\ m \in Nat /\ DOMAIN outbox = 1..m /\ n <= m
  BY <1>1, LenProperties DEF PushOK
<1>3. BatchMax \in Nat
  BY DeliveryAssumption
<1>4. b \in Nat /\ b <= n /\ b <= BatchMax
  BY <1>2, <1>3 DEF Batch
<1>5. pusher.pushed \subseteq 1..b
  BY DEF PushOK
<1>6. IsFiniteSet(1..b) /\ Cardinality(1..b) = b
  BY <1>4, FS_Interval
<1>7. IsFiniteSet(pusher.pushed) /\ Cardinality(pusher.pushed) <= b
      /\ Cardinality(pusher.pushed) \in Nat
  BY <1>5, <1>6, FS_Subset, FS_CardinalityType
<1> HIDE DEF n, m, b
<1>8. pusher.pushed \subseteq 1..m /\ Cardinality(pusher.pushed) <= BatchMax
  BY <1>2, <1>3, <1>4, <1>5, <1>7
<1> QED
  BY <1>2, <1>4, <1>7, <1>8 DEF n, m, b

\* An event that reaches the server, with or without an answer.
LEMMA PostedKeeps ==
    ASSUME DInv, NEW a \in Agents, agent[a].left = Request,
           AgentsOK', agent' \in [Agents -> AgentStates],
           agent' = [agent EXCEPT ![a] = agent'[a]], agent'[a].left # <<"outbox">>,
           made' = made, mishaps' \in {mishaps, mishaps + 1},
           logged' = logged \cup {agent[a].ev}, table' = Append(table, agent[a].ev),
           UNCHANGED <<patLog, outbox, pusher, copy, sync, skill>>
    PROVE  DInv'
<1> DEFINE e == agent[a].ev
<1>1. e \in Events /\ e \notin logged
      /\ \A b \in Agents : b # a /\ agent[b].left # <<>> => agent[b].ev # e
  BY AgentTypes, InHands, Lefts DEF DInv
<1>2. logged' \subseteq Events /\ IsFiniteSet(logged') /\ logged \subseteq logged'
  BY <1>1, FS_AddElement DEF DInv, DeliveryTypeOK
<1>3. table \in Seq(Events) /\ table' \in Seq(Events)
  BY <1>1, AppendProperties DEF DInv, DeliveryTypeOK
<1>4. mishaps' \in Nat
  BY DEF DInv, DeliveryTypeOK
<1>5. DeliveryTypeOK'
  BY <1>2, <1>3, <1>4 DEF DInv, DeliveryTypeOK, AgentStates
<1>6. /\ Len(table) \in Nat /\ DOMAIN table = 1..Len(table)
      /\ DOMAIN table' = 1..(Len(table) + 1) /\ table'[Len(table) + 1] = e
      /\ \A k \in 1..Len(table) : table'[k] = table[k]
  BY <1>1, <1>3, AppendProperties, LenProperties
<1>7. SourcesOK'
  <2>1. \A k \in DOMAIN table' : table'[k] \in logged'
    BY <1>6 DEF DInv, SourcesOK
  <2> QED
    BY <1>2, <2>1 DEF DInv, SourcesOK
<1>8. PushOK'
  <2>1. ToSet(table) \subseteq ToSet(table')
    BY <1>6 DEF ToSet
  <2> QED
    BY <2>1 DEF DInv, PushOK
<1>9. Handed \cup {e} \subseteq Handed' /\ e \notin Handed
  <2>1. Handed \subseteq Handed' /\ e \notin Handed
    BY <1>1, <1>2, HandedGrows DEF DInv, Handed
  <2>2. \A b \in Agents : agent'[b].left = <<"outbox">> => agent'[b].ev # e
    BY <1>1, Lefts DEF DInv, DeliveryTypeOK
  <2> QED
    BY <2>1, <2>2 DEF Handed
<1>10. CountOK'
  <2> SUFFICES ASSUME NEW C \in SUBSET Events
               PROVE  Cardinality(Spots(table', {}, C))
                        + Cardinality(Spots(outbox, pusher.pushed, C))
                        <= Cardinality(Handed' \cap C) + BatchMax * mishaps'
    BY DEF CountOK, Spots
  <2>1. Cardinality(Spots(table', {}, C))
          = Cardinality(Spots(table, {}, C)) + IF e \in C THEN 1 ELSE 0
    <3>1. {} \in SUBSET (1..Len(table))
      OBVIOUS
    <3> QED
      BY <1>1, <1>3, <3>1, SpotsAppend
  <2>2. Cardinality(Spots(table, {}, C)) + Cardinality(Spots(outbox, pusher.pushed, C))
          + (IF e \in C THEN 1 ELSE 0) <= Cardinality(Handed' \cap C) + BatchMax * mishaps'
    BY <1>1, <1>2, <1>9, CountWithOne DEF DInv
  <2>3. Cardinality(Spots(table, {}, C)) \in Nat
        /\ Cardinality(Spots(outbox, pusher.pushed, C)) \in Nat
    BY CountTypes DEF DInv
  <2> DEFINE t == Cardinality(Spots(table, {}, C))
             tt == Cardinality(Spots(table', {}, C))
             l == Cardinality(Spots(outbox, pusher.pushed, C))
             one == IF e \in C THEN 1 ELSE 0
             bound == Cardinality(Handed' \cap C) + BatchMax * mishaps'
  <2>4. tt = t + one /\ t + l + one <= bound /\ t \in Nat /\ l \in Nat /\ one \in Nat
    BY <2>1, <2>2, <2>3
  <2> HIDE DEF t, tt, l, one, bound
  <2>5. tt + l = t + l + one
    BY <2>4
  <2>6. tt + l <= bound
    BY <2>4, <2>5
  <2> QED
    BY <2>6 DEF tt, l, bound
<1>11. CountedOnce'
  BY <1>2, CountedStays DEF DInv
<1> QED
  BY <1>5, <1>7, <1>8, <1>10, <1>11 DEF DInv

\* The first write: the event is in the pattern's log, not handed over yet.
LEMMA LogsKeeps ==
    ASSUME DInv, NEW a \in Agents, Write(a), agent[a].left = LocalWrites
    PROVE  DInv'
<1> DEFINE e == agent[a].ev
           p == agent[a].pat
<1>1. /\ agent' = [agent EXCEPT ![a] = AfterWrite(agent[a])]
      /\ logged' = logged \cup {e} /\ patLog' = [patLog EXCEPT ![p] = Append(@, e)]
      /\ UNCHANGED <<made, outbox, table, pusher, copy, sync, skill, mishaps>>
  BY Lefts DEF Write, tools
<1>2. e \in Events /\ e \notin logged /\ e.pat = p /\ p \in Patterns
  BY AgentTypes, InHands, Lefts DEF DInv
<1>3. /\ AgentsOK' /\ agent' \in [Agents -> AgentStates]
      /\ agent' = [agent EXCEPT ![a] = agent'[a]]
      /\ agent'[a].left = <<"outbox">> => agent'[a].ev = agent[a].ev
  BY <1>1, Lefts, WriteTurns DEF DInv
<1>4. logged' \subseteq Events /\ IsFiniteSet(logged') /\ logged \subseteq logged'
  BY <1>1, <1>2, FS_AddElement DEF DInv, DeliveryTypeOK
<1>5. patLog \in [Patterns -> Seq(Events)] /\ patLog' \in [Patterns -> Seq(Events)]
      /\ patLog'[p] = Append(patLog[p], e) /\ patLog[p] \in Seq(Events)
      /\ \A q \in Patterns : q # p => patLog'[q] = patLog[q]
  <2>1. patLog \in [Patterns -> Seq(Events)] /\ patLog[p] \in Seq(Events)
    BY <1>2 DEF DInv, DeliveryTypeOK
  <2>2. Append(patLog[p], e) \in Seq(Events)
    BY <1>2, <2>1, AppendProperties
  <2> HIDE DEF e, p
  <2> QED
    BY <1>1, <1>2, <2>1, <2>2
<1>6. DeliveryTypeOK'
  <2> HIDE DEF e, p
  <2>1. \A f \in {patLog', copy'} : f \in [Patterns -> Seq(Events)]
    BY <1>1, <1>5 DEF DInv, DeliveryTypeOK
  <2> QED
    BY <1>1, <1>3, <1>4, <2>1 DEF DInv, DeliveryTypeOK, AgentStates
<1>7. SourcesOK'
  <2>1. ASSUME NEW k \in DOMAIN patLog'[p]
        PROVE  patLog'[p][k] \in logged' /\ patLog'[p][k].pat = p
    <3>1. \/ k \in DOMAIN patLog[p] /\ patLog'[p][k] = patLog[p][k]
          \/ patLog'[p][k] = e
      BY <1>2, <1>5, <2>1, AppendProperties, LenProperties
    <3> QED
      BY <1>1, <1>2, <3>1 DEF DInv, SourcesOK
  <2> HIDE DEF e, p
  <2> QED
    BY <1>1, <1>4, <1>5, <2>1 DEF DInv, SourcesOK
<1>8. PushOK'
  BY <1>1 DEF DInv, PushOK
<1>9. Handed \subseteq Handed'
  BY <1>2, <1>3, <1>4, HandedGrows DEF DInv
<1>10. CountOK'
  BY <1>1, <1>6, <1>9, CountKept DEF DInv
<1>11. CountedOnce'
  BY <1>1, <1>4, CountedStays DEF DInv
<1> QED
  BY <1>3, <1>6, <1>7, <1>8, <1>10, <1>11 DEF DInv

\* The second write: the event is in the outbox and handed over.
LEMMA OutboxKeeps ==
    ASSUME DInv, NEW a \in Agents, Write(a), agent[a].left = <<"outbox">>
    PROVE  DInv'
<1> DEFINE e == agent[a].ev
<1>1. /\ agent' = [agent EXCEPT ![a] = AfterWrite(agent[a])]
      /\ outbox' = Append(outbox, e)
      /\ UNCHANGED <<made, logged, patLog, table, pusher, copy, sync, skill, mishaps>>
  BY Lefts DEF Write, tools
<1>2. e \in Events /\ e \in logged
      /\ \A b \in Agents : b # a /\ agent[b].left # <<>> => agent[b].ev # e
  BY AgentTypes, InHands, Lefts DEF DInv, AgentsOK, AgentOK
<1>3. /\ AgentsOK' /\ agent' \in [Agents -> AgentStates]
      /\ agent' = [agent EXCEPT ![a] = agent'[a]]
      /\ agent'[a].left # <<"outbox">>
  BY <1>1, Lefts, WriteTurns DEF DInv
<1>4. outbox \in Seq(Events) /\ outbox' \in Seq(Events)
  BY <1>1, <1>2, AppendProperties DEF DInv, DeliveryTypeOK
<1>5. DeliveryTypeOK'
  BY <1>1, <1>3, <1>4 DEF DInv, DeliveryTypeOK, AgentStates
<1>6. /\ Len(outbox) \in Nat /\ DOMAIN outbox = 1..Len(outbox)
      /\ DOMAIN outbox' = 1..(Len(outbox) + 1) /\ outbox'[Len(outbox) + 1] = e
      /\ Len(outbox') = Len(outbox) + 1
      /\ \A k \in 1..Len(outbox) : outbox'[k] = outbox[k]
  BY <1>1, <1>2, <1>4, AppendProperties, LenProperties
<1>7. SourcesOK'
  <2>1. \A k \in DOMAIN outbox' : outbox'[k] \in logged'
    BY <1>1, <1>2, <1>6 DEF DInv, SourcesOK
  <2> QED
    BY <1>1, <2>1 DEF DInv, SourcesOK
<1>8. PushOK'
  <2> DEFINE n == Len(pusher.lines)
             m == Len(outbox)
  <2>1. n \in Nat /\ n <= m /\ DOMAIN pusher.lines = 1..n
    BY PushedPlaces DEF DInv
  <2> HIDE DEF n, m
  <2>2. n <= m + 1 /\ \A k \in 1..n : k \in 1..m
    BY <2>1, <1>6 DEF m
  <2>3. Len(pusher.lines) <= Len(outbox')
    BY <2>2, <1>6 DEF n, m
  <2>4. \A k \in DOMAIN pusher.lines : pusher.lines[k] = outbox'[k]
    BY <2>1, <2>2, <1>6 DEF DInv, PushOK, m
  <2> QED
    BY <1>1, <2>3, <2>4 DEF DInv, PushOK
<1>9. Handed \cup {e} \subseteq Handed' /\ e \notin Handed
  <2>1. Handed \subseteq Handed'
    BY <1>1, <1>3, HandedGrows DEF DInv
  <2>2. \A b \in Agents : b # a => agent'[b] = agent[b]
    BY <1>3 DEF DInv, DeliveryTypeOK
  <2>3. \A b \in Agents : agent'[b].left = <<"outbox">> => agent'[b].ev # e
    BY <1>2, <1>3, <2>2, Lefts
  <2> QED
    BY <1>1, <1>2, <2>1, <2>3 DEF Handed
<1>10. CountOK'
  <2> SUFFICES ASSUME NEW C \in SUBSET Events
               PROVE  Cardinality(Spots(table, {}, C))
                        + Cardinality(Spots(outbox', pusher.pushed, C))
                        <= Cardinality(Handed' \cap C) + BatchMax * mishaps'
    BY <1>1 DEF CountOK, Spots
  <2>1. Cardinality(Spots(outbox', pusher.pushed, C))
          = Cardinality(Spots(outbox, pusher.pushed, C)) + IF e \in C THEN 1 ELSE 0
    <3>1. pusher.pushed \in SUBSET (1..Len(outbox))
      BY PushedPlaces DEF DInv
    <3> QED
      BY <1>1, <1>2, <1>4, <3>1, SpotsAppend
  <2>2. Cardinality(Spots(table, {}, C)) + Cardinality(Spots(outbox, pusher.pushed, C))
          + (IF e \in C THEN 1 ELSE 0) <= Cardinality(Handed' \cap C) + BatchMax * mishaps'
    <3>1. logged' \subseteq Events /\ IsFiniteSet(logged')
      BY <1>5 DEF DeliveryTypeOK
    <3> QED
      BY <1>1, <1>2, <1>9, <3>1, CountWithOne DEF DInv
  <2>3. Cardinality(Spots(table, {}, C)) \in Nat
        /\ Cardinality(Spots(outbox, pusher.pushed, C)) \in Nat
    BY CountTypes DEF DInv
  <2> DEFINE t == Cardinality(Spots(table, {}, C))
             l == Cardinality(Spots(outbox, pusher.pushed, C))
             ll == Cardinality(Spots(outbox', pusher.pushed, C))
             one == IF e \in C THEN 1 ELSE 0
             bound == Cardinality(Handed' \cap C) + BatchMax * mishaps'
  <2>4. ll = l + one /\ t + l + one <= bound /\ t \in Nat /\ l \in Nat /\ one \in Nat
    BY <2>1, <2>2, <2>3
  <2> HIDE DEF t, l, ll, one, bound
  <2>5. t + ll = t + l + one
    BY <2>4
  <2>6. t + ll <= bound
    BY <2>4, <2>5
  <2> QED
    BY <2>6 DEF t, ll, bound
<1>11. CountedOnce'
  BY <1>1, CountedStays DEF DInv, DeliveryTypeOK
<1> QED
  BY <1>3, <1>5, <1>7, <1>8, <1>10, <1>11 DEF DInv

LEMMA WriteKeeps ==
    ASSUME DInv, NEW a \in Agents, Write(a)
    PROVE  DInv'
<1>1. agent[a].left \in {<<"outbox">>, LocalWrites, Request} /\ agent[a].left # <<>>
  BY AgentTypes DEF Write, DInv
<1>2. CASE agent[a].left = Request
  <2>1. /\ agent' = [agent EXCEPT ![a] = AfterWrite(agent[a])] /\ made' = made
        /\ logged' = logged \cup {agent[a].ev} /\ table' = Append(table, agent[a].ev)
        /\ UNCHANGED <<patLog, outbox, pusher, copy, sync, skill, mishaps>>
    BY <1>2, Lefts DEF Write, tools
  <2>2. /\ AgentsOK' /\ agent' \in [Agents -> AgentStates]
        /\ agent' = [agent EXCEPT ![a] = agent'[a]] /\ agent'[a].left # <<"outbox">>
    BY <1>1, <1>2, <2>1, Lefts, WriteTurns DEF DInv
  <2> QED
    BY <1>2, <2>1, <2>2, PostedKeeps
<1> QED
  BY <1>1, <1>2, LogsKeeps, OutboxKeeps

LEMMA WriteFailsKeeps ==
    ASSUME DInv, NEW a \in Agents, WriteFails(a)
    PROVE  DInv'
<1>1. /\ agent' = [agent EXCEPT ![a] = AfterFailure(a, @)] /\ agent[a].left # <<>>
      /\ made' = made /\ mishaps' = mishaps + 1
      /\ UNCHANGED <<patLog, outbox, pusher, copy, sync, skill>>
  BY DEF WriteFails, Mishap, tools
<1>2. made' \in made..MaxInv
  BY <1>1, DeliveryAssumption DEF DInv, DeliveryTypeOK
<1>3. CASE UNCHANGED <<logged, table>>
  <2>1. /\ AgentsOK' /\ agent' \in [Agents -> AgentStates]
        /\ agent' = [agent EXCEPT ![a] = agent'[a]] /\ agent'[a].left # <<"outbox">>
    BY <1>1, <1>3, FailureTurns DEF DInv
  <2>2. UNCHANGED tools
    BY <1>1 DEF tools
  <2> QED
    BY <1>1, <1>2, <1>3, <2>1, <2>2, QuietAgent
<1>4. CASE /\ Head(agent[a].left) = "post"
           /\ logged' = logged \cup {agent[a].ev} /\ table' = Append(table, agent[a].ev)
  <2>1. /\ AgentsOK' /\ agent' \in [Agents -> AgentStates]
        /\ agent' = [agent EXCEPT ![a] = agent'[a]] /\ agent'[a].left # <<"outbox">>
    BY <1>1, <1>4, FailureTurns DEF DInv
  <2>2. agent[a].left = Request
    BY <1>1, <1>4, AgentTypes, Lefts DEF DInv
  <2> QED
    BY <1>1, <1>4, <2>1, <2>2, PostedKeeps
<1> QED
  BY <1>3, <1>4 DEF WriteFails

----------------------------------------------------------------------------
(* The steps of push_outbox *)

LEMMA SdkStays ==
    ASSUME AgentsOK, UNCHANGED sdk
    PROVE  /\ AgentsOK' /\ Handed' = Handed
           /\ UNCHANGED made /\ UNCHANGED agent /\ UNCHANGED logged /\ UNCHANGED patLog
BY DEF sdk, AgentsOK, AgentOK, Handed

\* A step that leaves the files and the table, and at most ends the run.
LEMMA QuietPush ==
    ASSUME DInv, UNCHANGED <<sdk, outbox, table, tools>>, PushOK',
           pusher' \in [pc : {"off", "probe", "post", "rewrite"}, lines : Seq(Events),
                        at : Nat \ {0}, pushed : SUBSET Nat],
           pusher'.pushed = pusher.pushed, mishaps' \in {mishaps, mishaps + 1}
    PROVE  DInv'
<1>1. AgentsOK' /\ Handed' = Handed /\ UNCHANGED <<made, agent, logged, patLog>>
  BY SdkStays DEF DInv
<1>2. UNCHANGED <<copy, sync, skill>>
  BY DEF tools
<1>3. mishaps' \in Nat
  BY DEF DInv, DeliveryTypeOK
<1>4. DeliveryTypeOK'
  BY <1>1, <1>2, <1>3 DEF DInv, DeliveryTypeOK
<1>5. SourcesOK'
  BY <1>1, <1>2 DEF DInv, SourcesOK
<1>6. CountOK'
  BY <1>1, <1>4, CountKept DEF DInv
<1>7. CountedOnce'
  BY <1>1, <1>2, CountedStays DEF DInv, DeliveryTypeOK
<1> QED
  BY <1>1, <1>4, <1>5, <1>6, <1>7 DEF DInv

LEMMA NoPushType ==
    /\ NoPush \in [pc : {"off", "probe", "post", "rewrite"}, lines : Seq(Events),
                   at : Nat \ {0}, pushed : SUBSET Nat]
    /\ NoPush.lines = <<>> /\ NoPush.pushed = {} /\ NoPush.pc = "off"
    /\ Len(NoPush.lines) = 0 /\ DOMAIN NoPush.lines = {}
<1>1. <<>> \in Seq(Events) /\ Len(<<>>) = 0 /\ DOMAIN <<>> = {}
  BY EmptySeq
<1> QED
  BY <1>1 DEF NoPush

LEMMA NoPushOK ==
    ASSUME DeliveryTypeOK, outbox' \in Seq(Events), pusher' = NoPush
    PROVE  PushOK'
<1>1. Len(outbox') \in Nat
  BY LenProperties
<1> QED
  BY <1>1, NoPushType DEF PushOK

LEMMA ReadOutboxKeeps ==
    ASSUME DInv, ReadOutbox
    PROVE  DInv'
<1>1. /\ pusher = NoPush /\ pusher' = [NoPush EXCEPT !.pc = "probe", !.lines = outbox]
      /\ UNCHANGED <<sdk, outbox, table, tools, mishaps>>
  BY DEF ReadOutbox, DInv, PushOK
<1>2. outbox \in Seq(Events) /\ Len(outbox) \in Nat
  BY LenProperties DEF DInv, DeliveryTypeOK
<1>3. /\ pusher'.pc = "probe" /\ pusher'.lines = outbox /\ pusher'.pushed = {}
      /\ pusher' \in [pc : {"off", "probe", "post", "rewrite"}, lines : Seq(Events),
                      at : Nat \ {0}, pushed : SUBSET Nat]
  BY <1>1, <1>2, NoPushType
<1>4. PushOK'
  BY <1>1, <1>2, <1>3 DEF PushOK
<1> QED
  BY <1>1, <1>3, <1>4, NoPushType, QuietPush

LEMMA ProbeKeeps ==
    ASSUME DInv, Probe
    PROVE  DInv'
<1>1. pusher.pc = "probe" /\ pusher.pushed = {} /\ UNCHANGED <<sdk, outbox, table, tools>>
  BY DEF Probe, DInv, PushOK
<1>2. CASE pusher' = [pusher EXCEPT !.pc = "post"] /\ UNCHANGED mishaps
  <2>1. /\ pusher'.pc = "post" /\ pusher'.lines = pusher.lines /\ pusher'.pushed = {}
        /\ pusher' \in [pc : {"off", "probe", "post", "rewrite"}, lines : Seq(Events),
                        at : Nat \ {0}, pushed : SUBSET Nat]
    BY <1>1, <1>2 DEF DInv, DeliveryTypeOK
  <2>2. PushOK'
    BY <1>1, <2>1 DEF DInv, PushOK
  <2> QED
    BY <1>1, <1>2, <2>1, <2>2, QuietPush
<1>3. CASE pusher' = NoPush /\ Mishap
  <2>1. PushOK'
    BY <1>1, <1>3, NoPushOK DEF DInv, DeliveryTypeOK
  <2>2. mishaps' = mishaps + 1
    BY <1>3 DEF Mishap
  <2> QED
    BY <1>1, <1>3, <2>1, <2>2, NoPushType, QuietPush
<1> QED
  BY <1>2, <1>3 DEF Probe

\* A run that dies forgets what it has pushed: those lines will be sent again.
LEMMA PusherDiesKeeps ==
    ASSUME DInv, PusherDies
    PROVE  DInv'
<1>1. pusher' = NoPush /\ mishaps' = mishaps + 1 /\ UNCHANGED <<sdk, outbox, table, tools>>
  BY DEF PusherDies, Mishap
<1>2. AgentsOK' /\ Handed' = Handed /\ UNCHANGED <<made, agent, logged, patLog>>
      /\ UNCHANGED <<copy, sync, skill>>
  BY <1>1, SdkStays DEF DInv, tools
<1>3. mishaps' \in Nat
  BY <1>1 DEF DInv, DeliveryTypeOK
<1>4. DeliveryTypeOK'
  BY <1>1, <1>2, <1>3, NoPushType DEF DInv, DeliveryTypeOK
<1>5. SourcesOK'
  BY <1>1, <1>2 DEF DInv, SourcesOK
<1>6. PushOK'
  BY <1>1, NoPushOK DEF DInv, DeliveryTypeOK
<1>7. CountOK'
  <2> SUFFICES ASSUME NEW C \in SUBSET Events
               PROVE  Cardinality(Spots(table, {}, C)) + Cardinality(Spots(outbox, {}, C))
                        <= Cardinality(Handed \cap C) + BatchMax * mishaps'
    BY <1>1, <1>2, NoPushType DEF CountOK, Spots
  <2> DEFINE t == Cardinality(Spots(table, {}, C))
             l == Cardinality(Spots(outbox, pusher.pushed, C))
             ll == Cardinality(Spots(outbox, {}, C))
             h == Cardinality(Handed \cap C)
             m == BatchMax * mishaps
             mm == BatchMax * mishaps'
             q == Cardinality(pusher.pushed)
  <2>1. t \in Nat /\ l \in Nat /\ h \in Nat /\ m \in Nat /\ t + l <= h + m
    BY CountTypes DEF DInv, CountOK
  <2>2. ll <= l + q
    BY PushedPlaces, SpotsWhole DEF DInv, DeliveryTypeOK
  <2>3. mm = m + BatchMax
    BY <1>1, SlackGrows DEF DInv
  <2>4. q \in Nat /\ q <= BatchMax
    BY PushedPlaces DEF DInv
  <2>5. ll \in Nat /\ BatchMax \in Nat
    BY SpotsType, DeliveryAssumption DEF DInv, DeliveryTypeOK
  <2> HIDE DEF t, l, ll, h, m, mm, q
  <2>6. t + ll <= h + mm
    BY <2>1, <2>2, <2>3, <2>4, <2>5
  <2> QED
    BY <2>6 DEF t, ll, h, mm
<1>8. CountedOnce'
  BY <1>2, CountedStays DEF DInv, DeliveryTypeOK
<1> QED
  BY <1>2, <1>4, <1>5, <1>6, <1>7, <1>8 DEF DInv

\* The new file holds the lines of the run that are not pushed.
LEMMA RewriteKeeps ==
    ASSUME DInv, Rewrite
    PROVE  DInv'
<1> DEFINE lines == pusher.lines
           pushed == pusher.pushed
<1>1. pusher' = NoPush /\ outbox' = Keep(lines, pushed)
      /\ UNCHANGED <<sdk, table, tools, mishaps>>
  BY DEF Rewrite
<1>2. AgentsOK' /\ Handed' = Handed /\ UNCHANGED <<made, agent, logged, patLog>>
      /\ UNCHANGED <<copy, sync, skill>>
  BY <1>1, SdkStays DEF DInv, tools
<1>3. lines \in Seq(Events) /\ outbox \in Seq(Events)
  BY DEF DInv, DeliveryTypeOK
<1>4. /\ outbox' \in Seq(Events)
      /\ \A k \in DOMAIN outbox' : \E i \in DOMAIN lines : outbox'[k] = lines[i]
  BY <1>1, <1>3, KeepSpots
<1>5. DeliveryTypeOK'
  BY <1>1, <1>2, <1>4, NoPushType DEF DInv, DeliveryTypeOK
<1>6. /\ DOMAIN lines \subseteq DOMAIN outbox
      /\ \A i \in DOMAIN lines : lines[i] = outbox[i]
  <2>1. DOMAIN lines = 1..Len(lines) /\ DOMAIN outbox = 1..Len(outbox)
        /\ Len(lines) <= Len(outbox) /\ Len(lines) \in Nat /\ Len(outbox) \in Nat
    BY PushedPlaces DEF DInv
  <2>2. 1..Len(lines) \subseteq 1..Len(outbox)
    BY <2>1
  <2> QED
    BY <2>1, <2>2 DEF DInv, PushOK
<1>7. SourcesOK'
  <2>1. \A k \in DOMAIN outbox' : outbox'[k] \in logged'
    BY <1>2, <1>4, <1>6 DEF DInv, SourcesOK
  <2> QED
    BY <1>1, <1>2, <2>1 DEF DInv, SourcesOK
<1>8. PushOK'
  BY <1>1, <1>4, NoPushOK DEF DInv
<1>9. CountOK'
  <2> SUFFICES ASSUME NEW C \in SUBSET Events
               PROVE  Cardinality(Spots(table, {}, C)) + Cardinality(Spots(outbox', {}, C))
                        <= Cardinality(Handed \cap C) + BatchMax * mishaps
    BY <1>1, <1>2, NoPushType DEF CountOK, Spots
  <2> DEFINE t == Cardinality(Spots(table, {}, C))
             l == Cardinality(Spots(outbox, pushed, C))
             n == Cardinality(Spots(lines, pushed, C))
             ll == Cardinality(Spots(outbox', {}, C))
             bound == Cardinality(Handed \cap C) + BatchMax * mishaps
  <2>1. t \in Nat /\ l \in Nat /\ t + l <= bound /\ bound \in Nat
    BY CountTypes DEF DInv, CountOK
  <2>2. ll <= n
    BY <1>1, <1>3, KeepSpots
  <2>3. n <= l
    <3>1. Spots(lines, pushed, C) \subseteq Spots(outbox, pushed, C)
      BY <1>6 DEF Spots
    <3>2. IsFiniteSet(Spots(outbox, pushed, C))
      BY <1>3, SpotsType
    <3> QED
      BY <3>1, <3>2, FS_Subset
  <2>4. n \in Nat /\ ll \in Nat
    BY <1>3, <1>4, SpotsType
  <2> HIDE DEF t, l, n, ll, bound
  <2>5. t + ll <= bound
    BY <2>1, <2>2, <2>3, <2>4
  <2> QED
    BY <2>5 DEF t, ll, bound
<1>10. CountedOnce'
  BY <1>2, CountedStays DEF DInv, DeliveryTypeOK
<1> QED
  BY <1>2, <1>5, <1>7, <1>8, <1>9, <1>10 DEF DInv

\* A row that the server has stored.
LEMMA RowStored ==
    ASSUME DInv, NEW e \in logged, table' = Append(table, e)
    PROVE  /\ table' \in Seq(Events) /\ ToSet(table) \cup {e} \subseteq ToSet(table')
           /\ \A k \in DOMAIN table' : table'[k] \in logged
           /\ \A C : Cardinality(Spots(table', {}, C))
                       = Cardinality(Spots(table, {}, C)) + IF e \in C THEN 1 ELSE 0
<1>1. e \in Events /\ table \in Seq(Events)
  BY DEF DInv, DeliveryTypeOK
<1>2. /\ table' \in Seq(Events)
      /\ Len(table) \in Nat /\ DOMAIN table = 1..Len(table)
      /\ DOMAIN table' = 1..(Len(table) + 1) /\ table'[Len(table) + 1] = e
      /\ \A k \in 1..Len(table) : table'[k] = table[k]
  BY <1>1, AppendProperties, LenProperties
<1>3. ToSet(table) \cup {e} \subseteq ToSet(table')
  BY <1>2 DEF ToSet
<1>4. \A k \in DOMAIN table' : table'[k] \in logged
  BY <1>2 DEF DInv, SourcesOK
<1>5. ASSUME NEW C
      PROVE  Cardinality(Spots(table', {}, C))
               = Cardinality(Spots(table, {}, C)) + IF e \in C THEN 1 ELSE 0
  <2>1. {} \in SUBSET (1..Len(table))
    OBVIOUS
  <2> QED
    BY <1>1, <2>1, SpotsAppend
<1> QED
  BY <1>2, <1>3, <1>4, <1>5

LEMMA PostKeeps ==
    ASSUME DInv, Post
    PROVE  DInv'
<1> DEFINE lines == pusher.lines
           at == pusher.at
           e == lines[at]
           Runs == [pc : {"off", "probe", "post", "rewrite"}, lines : Seq(Events),
                    at : Nat \ {0}, pushed : SUBSET Nat]
<1>1. pusher.pc = "post" /\ at <= Batch(lines) /\ UNCHANGED <<sdk, outbox, tools>>
  BY DEF Post
<1>2. AgentsOK' /\ Handed' = Handed /\ UNCHANGED <<made, agent, logged, patLog>>
      /\ UNCHANGED <<copy, sync, skill>>
  BY <1>1, SdkStays DEF DInv, tools
<1>3. pusher \in Runs /\ at \in Nat /\ at # 0
  BY DEF DInv, DeliveryTypeOK
<1>4. at \in 1..Batch(lines) /\ at \in DOMAIN lines /\ at \in DOMAIN outbox
  BY <1>1, <1>3, PushedPlaces DEF DInv
<1>5. e = outbox[at] /\ e \in logged /\ outbox \in Seq(Events)
  BY <1>4 DEF DInv, PushOK, SourcesOK, DeliveryTypeOK
<1>6. at \notin pusher.pushed
  BY <1>3 DEF DInv, PushOK
<1>7. CASE /\ Stored(e) /\ UNCHANGED mishaps
           /\ pusher' = [pusher EXCEPT !.at = @ + 1, !.pushed = @ \cup {pusher.at}]
  <2>1. table' = Append(table, e)
    BY <1>7 DEF Stored
  <2>2. /\ table' \in Seq(Events) /\ ToSet(table) \cup {e} \subseteq ToSet(table')
        /\ \A k \in DOMAIN table' : table'[k] \in logged
        /\ \A C : Cardinality(Spots(table', {}, C))
                    = Cardinality(Spots(table, {}, C)) + IF e \in C THEN 1 ELSE 0
    BY <1>5, <2>1, RowStored
  <2>3. /\ pusher' \in Runs /\ pusher'.pc = "post" /\ pusher'.lines = lines
        /\ pusher'.at = at + 1 /\ pusher'.pushed = pusher.pushed \cup {at}
    <3>1. PICK m, P : m = at + 1 /\ P = pusher.pushed \cup {at}
      OBVIOUS
    <3>2. pusher' = [pusher EXCEPT !.at = m, !.pushed = P]
      BY <1>7, <3>1
    <3>3. m \in Nat \ {0} /\ P \in SUBSET Nat
      BY <1>3, <3>1
    <3>4. pusher' \in Runs /\ pusher'.pc = pusher.pc /\ pusher'.lines = lines
          /\ pusher'.at = m /\ pusher'.pushed = P
      BY <1>3, <3>2, <3>3
    <3> QED
      BY <1>1, <3>1, <3>4
  <2>4. DeliveryTypeOK'
    BY <1>1, <1>2, <1>7, <2>2, <2>3 DEF DInv, DeliveryTypeOK
  <2>5. SourcesOK'
    BY <1>1, <1>2, <2>2 DEF DInv, SourcesOK
  <2>6. PushOK'
    <3>1. \A k \in pusher.pushed : k \in 1..Batch(lines) /\ k < at + 1 /\ lines[k] \in ToSet(table')
      <4>1. \A k \in pusher.pushed : k \in 1..Batch(lines) /\ k < at /\ lines[k] \in ToSet(table)
        BY DEF DInv, PushOK
      <4>2. Batch(lines) \in Nat
        BY PushedPlaces DEF DInv
      <4> QED
        BY <1>3, <2>2, <4>1, <4>2
    <3>2. at \in 1..Batch(lines) /\ at < at + 1 /\ lines[at] \in ToSet(table')
      BY <1>3, <1>4, <2>2
    <3> QED
      BY <1>1, <2>3, <3>1, <3>2 DEF DInv, PushOK
  <2>7. CountOK'
    <3> SUFFICES ASSUME NEW C \in SUBSET Events
                 PROVE  Cardinality(Spots(table', {}, C))
                          + Cardinality(Spots(outbox, pusher.pushed \cup {at}, C))
                          <= Cardinality(Handed \cap C) + BatchMax * mishaps
      BY <1>1, <1>2, <1>7, <2>3 DEF CountOK, Spots
    <3> DEFINE t == Cardinality(Spots(table, {}, C))
               tt == Cardinality(Spots(table', {}, C))
               l == Cardinality(Spots(outbox, pusher.pushed, C))
               ll == Cardinality(Spots(outbox, pusher.pushed \cup {at}, C))
               one == IF e \in C THEN 1 ELSE 0
               bound == Cardinality(Handed \cap C) + BatchMax * mishaps
    <3>1. t \in Nat /\ l \in Nat /\ t + l <= bound /\ bound \in Nat
      BY CountTypes DEF DInv, CountOK
    <3>2. tt = t + one
      BY <2>2
    <3>3. l = ll + one
      BY <1>4, <1>5, <1>6, SpotsLess
    <3>4. ll \in Nat /\ one \in Nat
      BY <1>5, SpotsType
    <3> HIDE DEF t, tt, l, ll, one, bound
    <3>5. tt + ll <= bound
      BY <3>1, <3>2, <3>3, <3>4
    <3> QED
      BY <3>5 DEF tt, ll, bound
  <2>8. CountedOnce'
    BY <1>2, CountedStays DEF DInv, DeliveryTypeOK
  <2> QED
    BY <1>2, <2>4, <2>5, <2>6, <2>7, <2>8 DEF DInv
<1>8. CASE /\ Mishap /\ (Stored(e) \/ UNCHANGED table)
           /\ pusher' = IF pusher.pushed = {} THEN [pusher EXCEPT !.pc = "rewrite"]
                        ELSE [pusher EXCEPT !.at = @ + 1]
  <2>1. mishaps' = mishaps + 1 /\ mishaps' \in Nat
    BY <1>8 DEF Mishap, DInv, DeliveryTypeOK
  <2>2. /\ pusher' \in Runs /\ pusher'.lines = lines /\ pusher'.pushed = pusher.pushed
        /\ pusher'.pc # "post" => pusher'.pushed = {}
        /\ pusher'.pc # "off"
        /\ pusher'.at \in {at, at + 1}
    BY <1>1, <1>3, <1>8
  <2>3. PushOK' /\ DeliveryTypeOK' /\ SourcesOK'
        /\ \A C : Cardinality(Spots(table', {}, C)) <= Cardinality(Spots(table, {}, C)) + 1
    <3>1. /\ table' \in Seq(Events) /\ ToSet(table) \subseteq ToSet(table')
          /\ \A k \in DOMAIN table' : table'[k] \in logged
          /\ \A C : Cardinality(Spots(table', {}, C)) <= Cardinality(Spots(table, {}, C)) + 1
      <4>1. CASE Stored(e)
        <5>1. table' = Append(table, e)
          BY <4>1 DEF Stored
        <5>2. /\ table' \in Seq(Events) /\ ToSet(table) \subseteq ToSet(table')
              /\ \A k \in DOMAIN table' : table'[k] \in logged
              /\ \A C : Cardinality(Spots(table', {}, C))
                          = Cardinality(Spots(table, {}, C)) + IF e \in C THEN 1 ELSE 0
          BY <1>5, <5>1, RowStored
        <5>3. \A C : Cardinality(Spots(table, {}, C)) \in Nat
          BY CountTypes DEF DInv
        <5> QED
          BY <5>2, <5>3
      <4>2. CASE UNCHANGED table
        <5>1. \A C : Cardinality(Spots(table, {}, C)) \in Nat
          BY CountTypes DEF DInv
        <5> QED
          BY <4>2, <5>1 DEF DInv, DeliveryTypeOK, SourcesOK
      <4> QED
        BY <1>8, <4>1, <4>2
    <3>2. DeliveryTypeOK'
      BY <1>1, <1>2, <2>1, <2>2, <3>1 DEF DInv, DeliveryTypeOK
    <3>3. SourcesOK'
      BY <1>1, <1>2, <3>1 DEF DInv, SourcesOK
    <3>4. \A k \in pusher.pushed : k < pusher'.at
      <4>1. \A k \in pusher.pushed : k \in 1..Batch(lines) /\ k < at
        BY DEF DInv, PushOK
      <4>2. Batch(lines) \in Nat
        BY PushedPlaces DEF DInv
      <4> QED
        BY <1>3, <2>2, <4>1, <4>2
    <3>5. PushOK'
      BY <1>1, <2>2, <3>1, <3>4 DEF DInv, PushOK
    <3> QED
      BY <3>1, <3>2, <3>3, <3>5
  <2>4. CountOK'
    <3> SUFFICES ASSUME NEW C \in SUBSET Events
                 PROVE  Cardinality(Spots(table', {}, C))
                          + Cardinality(Spots(outbox, pusher.pushed, C))
                          <= Cardinality(Handed \cap C) + BatchMax * mishaps'
      BY <1>1, <1>2, <2>2 DEF CountOK, Spots
    <3> DEFINE t == Cardinality(Spots(table, {}, C))
               tt == Cardinality(Spots(table', {}, C))
               l == Cardinality(Spots(outbox, pusher.pushed, C))
               h == Cardinality(Handed \cap C)
               m == BatchMax * mishaps
               mm == BatchMax * mishaps'
    <3>1. t \in Nat /\ l \in Nat /\ h \in Nat /\ m \in Nat /\ t + l <= h + m
      BY CountTypes DEF DInv, CountOK
    <3>2. tt <= t + 1
      BY <2>3
    <3>3. mm = m + BatchMax
      BY <2>1, SlackGrows DEF DInv
    <3>4. tt \in Nat
      BY <2>3, SpotsType DEF DeliveryTypeOK
    <3>5. BatchMax \in Nat /\ BatchMax >= 1
      BY DeliveryAssumption
    <3> HIDE DEF t, tt, l, h, m, mm
    <3>6. tt + l <= h + mm
      BY <3>1, <3>2, <3>3, <3>4, <3>5
    <3> QED
      BY <3>6 DEF tt, l, h, mm
  <2>5. CountedOnce'
    BY <1>2, CountedStays DEF DInv, DeliveryTypeOK
  <2> QED
    BY <1>2, <2>3, <2>4, <2>5 DEF DInv
<1> QED
  BY <1>7, <1>8 DEF Post

----------------------------------------------------------------------------
(* The steps of sync_server_metrics *)

\* The copies and the run that writes them concern SourcesOK only.
LEMMA QuietSync ==
    ASSUME DInv, UNCHANGED <<sdk, outbox, table, pusher, skill>>,
           copy' \in [Patterns -> Seq(Events)],
           sync' \in [pc : {"off", "files"} \cup Patterns, rows : Seq(Events),
                      todo : SUBSET Patterns],
           mishaps' \in {mishaps, mishaps + 1},
           \A k \in DOMAIN sync'.rows : sync'.rows[k] \in logged,
           \A p \in Patterns : \A k \in DOMAIN copy'[p] :
               copy'[p][k] \in logged /\ copy'[p][k].pat = p
    PROVE  DInv'
<1>1. AgentsOK' /\ Handed' = Handed /\ UNCHANGED <<made, agent, logged, patLog>>
  BY SdkStays DEF DInv
<1>2. mishaps' \in Nat
  BY DEF DInv, DeliveryTypeOK
<1>3. DeliveryTypeOK'
  BY <1>1, <1>2 DEF DInv, DeliveryTypeOK
<1>4. SourcesOK' /\ PushOK'
  BY <1>1 DEF DInv, SourcesOK, PushOK
<1>5. CountOK'
  BY <1>1, <1>3, CountKept DEF DInv
<1>6. CountedOnce'
  BY <1>1, CountedStays DEF DInv, DeliveryTypeOK
<1> QED
  BY <1>1, <1>3, <1>4, <1>5, <1>6 DEF DInv

LEMMA SyncTypes ==
    ASSUME DInv
    PROVE  /\ copy \in [Patterns -> Seq(Events)]
           /\ sync \in [pc : {"off", "files"} \cup Patterns, rows : Seq(Events),
                        todo : SUBSET Patterns]
           /\ \A k \in DOMAIN sync.rows : sync.rows[k] \in logged
           /\ \A p \in Patterns : \A k \in DOMAIN copy[p] :
                 copy[p][k] \in logged /\ copy[p][k].pat = p
           /\ NoSync \in [pc : {"off", "files"} \cup Patterns, rows : Seq(Events),
                          todo : SUBSET Patterns]
           /\ DOMAIN NoSync.rows = {}
<1>1. <<>> \in Seq(Events) /\ DOMAIN <<>> = {}
  BY EmptySeq
<1> QED
  BY <1>1 DEF DInv, DeliveryTypeOK, SourcesOK, NoSync

LEMMA DumpKeeps ==
    ASSUME DInv, Dump
    PROVE  DInv'
<1>1. /\ sync' = [pc |-> "files", rows |-> table, todo |-> {e.pat : e \in ToSet(table)}]
      /\ UNCHANGED <<sdk, outbox, table, pusher, copy, skill, mishaps>>
  BY DEF Dump
<1>2. table \in Seq(Events) /\ \A k \in DOMAIN table : table[k] \in logged /\ table[k] \in Events
  BY DEF DInv, DeliveryTypeOK, SourcesOK
<1>3. \A e \in ToSet(table) : e.pat \in Patterns
  BY <1>2 DEF ToSet, Events
<1>4. sync' \in [pc : {"off", "files"} \cup Patterns, rows : Seq(Events), todo : SUBSET Patterns]
      /\ sync'.rows = table
  BY <1>1, <1>2, <1>3
<1> QED
  BY <1>1, <1>2, <1>4, SyncTypes, QuietSync

LEMMA TruncateKeeps ==
    ASSUME DInv, NEW p \in Patterns, Truncate(p)
    PROVE  DInv'
<1>1. /\ copy' = [copy EXCEPT ![p] = <<>>] /\ sync' = [sync EXCEPT !.pc = p]
      /\ UNCHANGED <<sdk, outbox, table, pusher, skill, mishaps>>
  BY DEF Truncate
<1>2. <<>> \in Seq(Events) /\ DOMAIN <<>> = {}
  BY EmptySeq
<1>3. copy' \in [Patterns -> Seq(Events)] /\ copy'[p] = <<>>
      /\ \A q \in Patterns : q # p => copy'[q] = copy[q]
  BY <1>1, <1>2, SyncTypes
<1>4. sync' \in [pc : {"off", "files"} \cup Patterns, rows : Seq(Events), todo : SUBSET Patterns]
      /\ sync'.rows = sync.rows
  BY <1>1, SyncTypes
<1>5. \A q \in Patterns : \A k \in DOMAIN copy'[q] : copy'[q][k] \in logged /\ copy'[q][k].pat = q
  BY <1>2, <1>3, SyncTypes
<1> QED
  BY <1>1, <1>3, <1>4, <1>5, SyncTypes, QuietSync

LEMMA FillKeeps ==
    ASSUME DInv, NEW p \in Patterns, Fill(p)
    PROVE  DInv'
<1> DEFINE rows == sync.rows
           S == {k \in DOMAIN rows : rows[k].pat = p}
           mine == Lines(rows, S)
<1>1. /\ copy' = [copy EXCEPT ![p] = mine]
      /\ sync' = NoSync \/ sync' = [sync EXCEPT !.pc = "files", !.todo = @ \ {p}]
      /\ UNCHANGED <<sdk, outbox, table, pusher, skill, mishaps>>
  BY DEF Fill
<1>2. rows \in Seq(Events) /\ \A k \in DOMAIN rows : rows[k] \in logged
  BY SyncTypes
<1>3. S \in SUBSET (DOMAIN rows) /\ \A k \in S : rows[k] \in logged /\ rows[k].pat = p
  BY <1>2
<1> HIDE DEF S, rows
<1>4. mine \in Seq(Events) /\ \A k \in DOMAIN mine : mine[k] \in logged /\ mine[k].pat = p
  <2>1. mine \in Seq(Events)
        /\ \E at \in [DOMAIN mine -> S] : \A k \in DOMAIN mine : mine[k] = rows[at[k]]
    BY <1>2, <1>3, LinesFacts
  <2> QED
    BY <1>3, <2>1
<1> HIDE DEF mine
<1>5. copy' \in [Patterns -> Seq(Events)] /\ copy'[p] = mine
      /\ \A q \in Patterns : q # p => copy'[q] = copy[q]
  BY <1>1, <1>4, SyncTypes
<1>6. \A q \in Patterns : \A k \in DOMAIN copy'[q] : copy'[q][k] \in logged /\ copy'[q][k].pat = q
  BY <1>4, <1>5, SyncTypes
<1>7. /\ sync' \in [pc : {"off", "files"} \cup Patterns, rows : Seq(Events), todo : SUBSET Patterns]
      /\ \A k \in DOMAIN sync'.rows : sync'.rows[k] \in logged
  <2>1. CASE sync' = NoSync
    BY <2>1, SyncTypes
  <2>2. CASE sync' = [sync EXCEPT !.pc = "files", !.todo = @ \ {p}]
    BY <2>2, SyncTypes
  <2> QED
    BY <1>1, <2>1, <2>2
<1> QED
  BY <1>1, <1>5, <1>6, <1>7, QuietSync

LEMMA SyncDiesKeeps ==
    ASSUME DInv, SyncDies
    PROVE  DInv'
<1>1. sync' = NoSync /\ mishaps' = mishaps + 1
      /\ UNCHANGED <<sdk, outbox, table, pusher, copy, skill>>
  BY DEF SyncDies, Mishap
<1> QED
  BY <1>1, SyncTypes, QuietSync

----------------------------------------------------------------------------
(* The aggregator *)

LEMMA Largest ==
    ASSUME NEW n \in Nat, NEW S \in SUBSET (1..n), S # {}
    PROVE  \E m \in S : \A j \in S : j <= m
<1> DEFINE below(i) == {j \in S : j <= i}
<1>1. IsFiniteSet(S) /\ Cardinality(S) \in Nat
      /\ \A k \in 1..Cardinality(S) : \E i \in S : Cardinality(below(i)) = k
  BY Ranks
<1> HIDE DEF below
<1>2. Cardinality(S) # 0
  BY <1>1, FS_EmptySet
<1>3. PICK m \in S : Cardinality(below(m)) = Cardinality(S)
  BY <1>1, <1>2
<1>4. below(m) \subseteq S
  BY DEF below
<1>5. below(m) = S
  BY <1>1, <1>3, <1>4, FS_Subset
<1> QED
  BY <1>5 DEF below

\* What is counted of events of one pattern that are all logged.
LEMMA Aggregated ==
    ASSUME DInv, NEW p, NEW evs \in Seq(Events),
           \A k \in DOMAIN evs : evs[k] \in logged /\ evs[k].pat = p
    PROVE  /\ Aggregate(evs).invoked \in Nat
           /\ Aggregate(evs).invoked <= Cardinality(Ended(p))
           /\ Aggregate(evs).success \in Nat
           /\ Aggregate(evs).success <= Cardinality(Succeeded(p))
<1> DEFINE good == {i \in Paired(evs) : LastOutcome(evs, i) = TRUE}
<1>1. IsFiniteSet(Ended(p)) /\ IsFiniteSet(Succeeded(p))
  BY EndedType DEF DInv, DeliveryTypeOK
<1>2. Len(evs) \in Nat /\ DOMAIN evs = 1..Len(evs)
  BY LenProperties
<1>3. Paired(evs) \subseteq Ended(p)
  BY DEF Paired, Ended, ToSet
<1>4. good \subseteq Succeeded(p)
  <2> SUFFICES ASSUME NEW i \in Paired(evs), LastOutcome(evs, i) = TRUE
               PROVE  i \in Succeeded(p)
    OBVIOUS
  <2> DEFINE of == {k \in DOMAIN evs : evs[k].inv = i /\ IsOutcome(evs[k])}
             m == CHOOSE k \in of : \A j \in of : j <= k
  <2>1. of # {}
    BY DEF Paired, ToSet
  <2>2. of \in SUBSET (1..Len(evs))
    BY <1>2
  <2>3. LastOutcome(evs, i) = evs[m].ok
    BY DEF LastOutcome
  <2> HIDE DEF of
  <2>4. m \in of
    BY <1>2, <2>1, <2>2, Largest
  <2> HIDE DEF m
  <2>5. evs[m] \in logged /\ evs[m].pat = p /\ evs[m].inv = i /\ evs[m].ok = TRUE
    BY <2>3, <2>4 DEF of
  <2> QED
    BY <2>5 DEF Succeeded
<1>5. Aggregate(evs).invoked = Cardinality(Paired(evs))
      /\ Aggregate(evs).success = Cardinality(good)
  BY DEF Aggregate
<1> HIDE DEF good
<1> QED
  BY <1>1, <1>3, <1>4, <1>5, FS_Subset, FS_CardinalityType

LEMMA AggregateKeeps ==
    ASSUME DInv, NEW p \in Patterns, AggregateOne(p)
    PROVE  DInv'
<1> DEFINE evs == LocalEvents(p) \o copy[p]
           n == Aggregate(evs).invoked
           o == IF Rated(evs) THEN Aggregate(evs).success ELSE skill[p].success
<1>1. /\ UNCHANGED <<sdk, outbox, table, pusher, copy, sync, mishaps>>
      /\ skill' = skill
         \/ skill' = [skill EXCEPT ![p].invoked = n, ![p].success = o]
  BY DEF AggregateOne
<1>2. AgentsOK' /\ Handed' = Handed /\ UNCHANGED <<made, agent, logged, patLog>>
  BY <1>1, SdkStays DEF DInv
<1>3. skill \in [Patterns -> [invoked : Nat, success : Nat]]
  BY DEF DInv, DeliveryTypeOK
<1>4. n \in Nat /\ n <= Cardinality(Ended(p)) /\ o \in Nat /\ o <= Cardinality(Succeeded(p))
  <2>1. LocalEvents(p) \in Seq(Events)
        /\ \A k \in DOMAIN LocalEvents(p) :
             LocalEvents(p)[k] \in logged /\ LocalEvents(p)[k].pat = p
    <3>1. <<>> \in Seq(Events) /\ DOMAIN <<>> = {}
      BY EmptySeq
    <3>2. patLog[p] \in Seq(Events)
          /\ \A k \in DOMAIN patLog[p] : patLog[p][k] \in logged /\ patLog[p][k].pat = p
      BY DEF DInv, DeliveryTypeOK, SourcesOK
    <3> QED
      BY <3>1, <3>2 DEF LocalEvents
  <2>2. copy[p] \in Seq(Events)
        /\ \A k \in DOMAIN copy[p] : copy[p][k] \in logged /\ copy[p][k].pat = p
    BY SyncTypes
  <2>3. /\ evs \in Seq(Events)
        /\ \A k \in DOMAIN evs : evs[k] \in logged /\ evs[k].pat = p
    <3> DEFINE s == LocalEvents(p)
               c == copy[p]
    <3> HIDE DEF s, c
    <3>1. s \in Seq(Events) /\ c \in Seq(Events)
      BY <2>1, <2>2 DEF s, c
    <3>2. /\ s \o c \in Seq(Events)
          /\ \A k \in DOMAIN (s \o c) :
                \/ k \in DOMAIN s /\ (s \o c)[k] = s[k]
                \/ k - Len(s) \in DOMAIN c /\ (s \o c)[k] = c[k - Len(s)]
      BY <3>1, ConcatProperties, LenProperties
    <3>3. \A k \in DOMAIN s : s[k] \in logged /\ s[k].pat = p
      BY <2>1 DEF s
    <3>4. \A k \in DOMAIN c : c[k] \in logged /\ c[k].pat = p
      BY <2>2 DEF c
    <3>5. \A k \in DOMAIN (s \o c) : (s \o c)[k] \in logged /\ (s \o c)[k].pat = p
      BY <3>2, <3>3, <3>4
    <3> QED
      BY <3>2, <3>5 DEF s, c
  <2> HIDE DEF evs
  <2>4. /\ n \in Nat /\ n <= Cardinality(Ended(p))
        /\ Aggregate(evs).success \in Nat
        /\ Aggregate(evs).success <= Cardinality(Succeeded(p))
    BY <2>3, Aggregated
  <2>5. skill[p].success \in Nat /\ skill[p].success <= Cardinality(Succeeded(p))
    BY <1>3, CountedOnceIs DEF DInv
  <2> QED
    BY <2>4, <2>5
<1> HIDE DEF n, o
<1>5. /\ skill' \in [Patterns -> [invoked : Nat, success : Nat]]
      /\ \A q \in Patterns : \/ skill'[q] = skill[q]
                             \/ q = p /\ skill'[q].invoked = n /\ skill'[q].success = o
  <2>1. CASE skill' = skill
    BY <2>1, <1>3
  <2>2. CASE skill' = [skill EXCEPT ![p].invoked = n, ![p].success = o]
    BY <2>2, <1>3, <1>4
  <2> QED
    BY <1>1, <2>1, <2>2
<1>6. DeliveryTypeOK'
  BY <1>1, <1>2, <1>5 DEF DInv, DeliveryTypeOK
<1>7. SourcesOK' /\ PushOK'
  BY <1>1, <1>2 DEF DInv, SourcesOK, PushOK
<1>8. CountOK'
  BY <1>1, <1>2, <1>6, CountKept DEF DInv
<1>9. CountedOnce'
  <2> SUFFICES ASSUME NEW q \in Patterns
               PROVE  /\ skill'[q].invoked <= Cardinality(Ended(q)')
                      /\ skill'[q].success <= Cardinality(Succeeded(q)')
    BY CountedOnceIsNext
  <2>1. Ended(q)' = Ended(q) /\ Succeeded(q)' = Succeeded(q)
    BY <1>2 DEF Ended, Succeeded
  <2>2. skill[q].invoked <= Cardinality(Ended(q)) /\ skill[q].success <= Cardinality(Succeeded(q))
    BY CountedOnceIs DEF DInv
  <2> QED
    BY <1>4, <1>5, <2>1, <2>2
<1> QED
  BY <1>2, <1>6, <1>7, <1>8, <1>9 DEF DInv

----------------------------------------------------------------------------
LEMMA InitDInv == DeliveryInit => DInv
<1> SUFFICES ASSUME DeliveryInit
             PROVE  DInv
  OBVIOUS
<1>1. /\ made = 0 /\ agent = [a \in Agents |-> Idle] /\ logged = {}
      /\ patLog = [p \in Patterns |-> <<>>] /\ copy = [p \in Patterns |-> <<>>]
      /\ outbox = <<>> /\ table = <<>> /\ pusher = NoPush /\ sync = NoSync
      /\ skill = [p \in Patterns |-> [invoked |-> 0, success |-> 0]] /\ mishaps = 0
  BY DEF DeliveryInit
<1>2. <<>> \in Seq(Events) /\ DOMAIN <<>> = {} /\ Len(<<>>) = 0
  BY EmptySeq
<1>3. IsFiniteSet({}) /\ Cardinality({}) = 0
  BY FS_EmptySet
<1>4. agent \in [Agents -> AgentStates] /\ \A a \in Agents : agent[a] = Idle
  BY <1>1, IdleType
<1>5. NoSync.rows = <<>>
      /\ NoSync \in [pc : {"off", "files"} \cup Patterns, rows : Seq(Events), todo : SUBSET Patterns]
  BY <1>2 DEF NoSync
<1>6. patLog \in [Patterns -> Seq(Events)] /\ copy \in [Patterns -> Seq(Events)]
      /\ skill \in [Patterns -> [invoked : Nat, success : Nat]] /\ made \in 0..MaxInv
  BY <1>1, <1>2, DeliveryAssumption
<1>7. DeliveryTypeOK
  BY <1>1, <1>2, <1>3, <1>4, <1>5, <1>6, NoPushType DEF DeliveryTypeOK, AgentStates
<1>8. AgentsOK
  <2>1. ASSUME NEW a \in Agents
        PROVE  AgentOK(a)
    <3>1. /\ agent[a] = Idle /\ agent[a].inv = 0 /\ agent[a].left = <<>> /\ agent[a].ev = None
          /\ logged = {} /\ made = 0
      BY <1>1, <1>4, IdleType
    <3>2. <<>> # <<"outbox">>
      BY Lefts
    <3> QED
      BY <3>1, <3>2 DEF AgentOK
  <2> QED
    BY <1>1, <1>4, <2>1, IdleType DEF AgentsOK
<1>9. SourcesOK /\ PushOK
  BY <1>1, <1>2, <1>5, NoPushType DEF SourcesOK, PushOK
<1>10. CountOK
  <2> SUFFICES ASSUME NEW C \in SUBSET Events
               PROVE  Cardinality(Spots(table, {}, C))
                        + Cardinality(Spots(outbox, pusher.pushed, C))
                        <= Cardinality(Handed \cap C) + BatchMax * mishaps
    BY DEF CountOK
  <2>1. Spots(table, {}, C) = {} /\ Spots(outbox, pusher.pushed, C) = {}
    BY <1>1, <1>2 DEF Spots
  <2>2. Cardinality(Handed \cap C) \in Nat /\ BatchMax * mishaps \in Nat
    BY <1>7, CountTypes
  <2> DEFINE h == Cardinality(Handed \cap C)
             m == BatchMax * mishaps
  <2>3. h \in Nat /\ m \in Nat
    BY <2>2
  <2> HIDE DEF h, m
  <2>4. 0 + 0 <= h + m
    BY <2>3
  <2> QED
    BY <1>3, <2>1, <2>4 DEF h, m
<1>11. CountedOnce
  <2> SUFFICES ASSUME NEW p \in Patterns
               PROVE  /\ skill[p].invoked <= Cardinality(Ended(p))
                      /\ skill[p].success <= Cardinality(Succeeded(p))
    BY CountedOnceIs
  <2>1. skill[p].invoked = 0 /\ skill[p].success = 0
    BY <1>1
  <2>2. Cardinality(Ended(p)) \in Nat /\ Cardinality(Succeeded(p)) \in Nat
    BY <1>7, EndedType DEF DeliveryTypeOK
  <2> QED
    BY <2>1, <2>2
<1> QED
  BY <1>7, <1>8, <1>9, <1>10, <1>11 DEF DInv

LEMMA DeliveryStutters ==
    ASSUME DInv, UNCHANGED deliveryVars
    PROVE  DInv'
<1>1. /\ UNCHANGED <<sdk, outbox, table, pusher, skill>>
      /\ copy' = copy /\ sync' = sync /\ mishaps' = mishaps
  BY DEF deliveryVars, sdk
<1> QED
  BY <1>1, SyncTypes, QuietSync

LEMMA DeliveryKeeps ==
    ASSUME DInv, DeliveryNext
    PROVE  DInv'
<1>1. CASE AgentStep
  <2> PICK a \in Agents :
         \/ \E p \in Patterns : Enter(a, p)
         \/ \E ok \in BOOLEAN : RecordOutcome(a, ok) \/ Exit(a, ok)
         \/ Write(a) \/ WriteFails(a) \/ AgentDies(a)
    BY <1>1 DEF AgentStep
  <2> QED
    BY EnterKeeps, RecordOutcomeKeeps, ExitKeeps, WriteKeeps, WriteFailsKeeps, AgentDiesKeeps
<1>2. CASE PushStep
  BY <1>2, ReadOutboxKeeps, ProbeKeeps, PostKeeps, RewriteKeeps, PusherDiesKeeps DEF PushStep
<1>3. CASE SyncStep
  BY <1>3, DumpKeeps, SyncDiesKeeps, TruncateKeeps, FillKeeps DEF SyncStep
<1>4. CASE \E p \in Patterns : AggregateOne(p)
  BY <1>4, AggregateKeeps
<1> QED
  BY <1>1, <1>2, <1>3, <1>4 DEF DeliveryNext

LEMMA DeliveryInductive == DeliverySpec => []DInv
<1>1. DInv /\ [DeliveryNext]_deliveryVars => DInv'
  BY DeliveryKeeps, DeliveryStutters
<1> QED
  BY <1>1, InitDInv, PTL DEF DeliverySpec

\* The files, the table and the locals of the programs keep their types, for
\* any agents, patterns and bounds.
THEOREM DeliveryTypeCorrect == DeliverySpec => []DeliveryTypeOK
<1>1. DInv => DeliveryTypeOK
  BY DEF DInv
<1> QED
  BY <1>1, DeliveryInductive, PTL

\* SKILL.md never counts an invocation twice or a success that was not
\* recorded, however often its rows were posted, copied and read.
THEOREM CountedOnceCorrect == DeliverySpec => []CountedOnce
<1>1. DInv => CountedOnce
  BY DEF DInv
<1> QED
  BY <1>1, DeliveryInductive, PTL

\* For each pattern, the rows with a property are as many as the logged events
\* with it, but for a batch for each mishap.
LEMMA RowsBounded ==
    ASSUME DInv, NEW C \in SUBSET Events
    PROVE  Cardinality({k \in DOMAIN table : table[k] \in C})
             <= Cardinality(logged \cap C) + BatchMax * mishaps
<1> DEFINE t == Cardinality(Spots(table, {}, C))
           l == Cardinality(Spots(outbox, pusher.pushed, C))
           h == Cardinality(Handed \cap C)
           g == Cardinality(logged \cap C)
           m == BatchMax * mishaps
<1>1. t \in Nat /\ l \in Nat /\ h \in Nat /\ m \in Nat /\ t + l <= h + m
  BY CountTypes DEF DInv, CountOK
<1>2. h <= g /\ g \in Nat
  <2>1. IsFiniteSet(logged \cap C)
    BY FS_Subset, logged \cap C \subseteq logged DEF DInv, DeliveryTypeOK
  <2> QED
    BY <2>1, FS_Subset, FS_CardinalityType, Handed \cap C \subseteq logged \cap C DEF Handed
<1>3. {k \in DOMAIN table : table[k] \in C} = Spots(table, {}, C)
  BY DEF Spots
<1> HIDE DEF t, l, h, g, m
<1>4. t <= g + m
  BY <1>1, <1>2
<1> QED
  BY <1>3, <1>4 DEF t, g, m

LEMMA DInvBounds == DInv => OvercountBounded
<1> SUFFICES ASSUME DInv, NEW p \in Patterns
             PROVE  LET mine == {e \in logged : e.pat = p}
                        slack == BatchMax * mishaps IN
                    /\ ServerMetrics(p).events <= Cardinality(mine) + slack
                    /\ ServerMetrics(p).invoked
                         <= Cardinality({e \in mine : e.phase = "loaded"}) + slack
                    /\ ServerMetrics(p).success
                         <= Cardinality({e \in mine : e.ok = TRUE}) + slack
  BY DEF OvercountBounded
<1> DEFINE A == {e \in Events : e.pat = p}
           B == {e \in Events : e.pat = p /\ e.phase = "loaded"}
           C == {e \in Events : e.pat = p /\ e.ok = TRUE}
           mine == {e \in logged : e.pat = p}
           rows == {k \in DOMAIN table : table[k].pat = p}
<1>1. logged \subseteq Events /\ \A k \in DOMAIN table : table[k] \in Events
  BY DEF DInv, DeliveryTypeOK, SourcesOK
<1>2. /\ logged \cap A = mine /\ logged \cap B = {e \in mine : e.phase = "loaded"}
      /\ logged \cap C = {e \in mine : e.ok = TRUE}
  BY <1>1
<1>3. /\ {k \in DOMAIN table : table[k] \in A} = rows
      /\ {k \in DOMAIN table : table[k] \in B} = {k \in rows : table[k].phase = "loaded"}
      /\ {k \in DOMAIN table : table[k] \in C} = {k \in rows : table[k].ok = TRUE}
  BY <1>1
<1>4. /\ A \in SUBSET Events /\ B \in SUBSET Events /\ C \in SUBSET Events
      /\ ServerMetrics(p).events = Cardinality(rows)
      /\ ServerMetrics(p).invoked = Cardinality({k \in rows : table[k].phase = "loaded"})
      /\ ServerMetrics(p).success = Cardinality({k \in rows : table[k].ok = TRUE})
  BY DEF ServerMetrics
<1> HIDE DEF A, B, C
<1>5. Cardinality(rows) <= Cardinality(mine) + BatchMax * mishaps
  BY <1>2, <1>3, <1>4, RowsBounded
<1>6. Cardinality({k \in rows : table[k].phase = "loaded"})
        <= Cardinality({e \in mine : e.phase = "loaded"}) + BatchMax * mishaps
  BY <1>2, <1>3, <1>4, RowsBounded
<1>7. Cardinality({k \in rows : table[k].ok = TRUE})
        <= Cardinality({e \in mine : e.ok = TRUE}) + BatchMax * mishaps
  BY <1>2, <1>3, <1>4, RowsBounded
<1> QED
  BY <1>4, <1>5, <1>6, <1>7

\* The server's numbers exceed the truth by at most one batch for each run
\* that died and each answer that was lost, whatever the size of a batch.
THEOREM OvercountBoundedCorrect == DeliverySpec => []OvercountBounded
BY DInvBounds, DeliveryInductive, PTL

\* A line of the outbox that is gone after a step: what the rewrite drops of
\* its own lines is on the server, so only what was appended since the read
\* may vanish.
OnlyRacedGoes ==
    \A e \in ToSet(outbox) \ ToSet(outbox') :
        e \in ToSet(table) \/ e \notin ToSet(pusher.lines)

LEMMA RewriteDrops ==
    ASSUME DInv, Rewrite
    PROVE  OnlyRacedGoes
<1> SUFFICES ASSUME NEW e \in ToSet(pusher.lines), e \notin ToSet(outbox')
             PROVE  e \in ToSet(table)
  BY DEF OnlyRacedGoes
<1>1. PICK k \in DOMAIN pusher.lines : e = pusher.lines[k]
  BY DEF ToSet
<1>2. pusher.lines \in Seq(Events) /\ outbox' = Keep(pusher.lines, pusher.pushed)
  BY DEF DInv, DeliveryTypeOK, Rewrite
<1>3. k \in pusher.pushed
  BY <1>1, <1>2, KeepSpots
<1> QED
  BY <1>1, <1>3 DEF DInv, PushOK

LEMMA OutboxGrows ==
    ASSUME DInv, DeliveryNext, ~Rewrite
    PROVE  ToSet(outbox) \subseteq ToSet(outbox')
<1>1. ASSUME UNCHANGED outbox
      PROVE  ToSet(outbox) \subseteq ToSet(outbox')
  BY <1>1 DEF ToSet
<1>2. ASSUME NEW a \in Agents, Write(a)
      PROVE  ToSet(outbox) \subseteq ToSet(outbox')
  <2>1. CASE outbox' = Append(outbox, agent[a].ev)
    <3>1. outbox \in Seq(Events) /\ Len(outbox) \in Nat /\ DOMAIN outbox = 1..Len(outbox)
      BY LenProperties DEF DInv, DeliveryTypeOK
    <3>2. agent[a].ev \in Events
      BY <1>2, AgentTypes DEF Write, DInv
    <3>3. DOMAIN outbox' = 1..(Len(outbox) + 1) /\ \A k \in 1..Len(outbox) : outbox'[k] = outbox[k]
      BY <2>1, <3>1, <3>2, AppendProperties, LenProperties
    <3>4. 1..Len(outbox) \subseteq 1..(Len(outbox) + 1)
      BY <3>1
    <3> QED
      BY <3>1, <3>3, <3>4 DEF ToSet
  <2>2. CASE UNCHANGED outbox
    BY <1>1, <2>2
  <2> QED
    BY <1>2, <2>1, <2>2 DEF Write
<1>3. CASE AgentStep
  <2> PICK a \in Agents :
         \/ \E p \in Patterns : Enter(a, p)
         \/ \E ok \in BOOLEAN : RecordOutcome(a, ok) \/ Exit(a, ok)
         \/ Write(a) \/ WriteFails(a) \/ AgentDies(a)
    BY <1>3 DEF AgentStep
  <2> QED
    BY <1>1, <1>2 DEF Enter, RecordOutcome, Exit, WriteFails, AgentDies
<1>4. CASE PushStep
  BY <1>1, <1>4 DEF PushStep, ReadOutbox, Probe, Post, PusherDies
<1>5. CASE SyncStep
  BY <1>1, <1>5 DEF SyncStep, Dump, SyncDies, Truncate, Fill
<1>6. CASE \E p \in Patterns : AggregateOne(p)
  BY <1>1, <1>6 DEF AggregateOne
<1> QED
  BY <1>3, <1>4, <1>5, <1>6 DEF DeliveryNext

\* The rewrite of the outbox loses only lines that raced it.
THEOREM OnlyRacedVanishCorrect == DeliverySpec => OnlyRacedVanish
<1>1. DInv /\ [DeliveryNext]_deliveryVars => [OnlyRacedGoes]_deliveryVars
  <2> SUFFICES ASSUME DInv, DeliveryNext
               PROVE  OnlyRacedGoes
    OBVIOUS
  <2>1. CASE Rewrite
    BY <2>1, RewriteDrops
  <2>2. CASE ~Rewrite
    BY <2>2, OutboxGrows DEF OnlyRacedGoes
  <2> QED
    BY <2>1, <2>2
<1> QED
  BY <1>1, DeliveryInductive, PTL DEF DeliverySpec, OnlyRacedVanish, OnlyRacedGoes

----------------------------------------------------------------------------
(***************************** PatternEvolution *****************************)

Recipes == {"R-CONFIG", "R-ADD-AP", "R-PROMOTE"}
Steps == {"off", "rollback", "revert", "reverted", "recipes", "commit", "staged",
          "ship", "log"}

Good == {p \in [gap : Gaps \cup {None}, recipe : Recipes, target : Targets \cup {None}] :
            p.recipe = "R-CONFIG" => p.target = Settings}
Row == [day : Nat, target : Targets, recipe : Recipes, sha : Nat,
        gap : Gaps \cup {None}, reverted : BOOLEAN]

Newest == Len(edits)
RowGone(k) == \A t \in Patterns :
                 commits[log[k].sha].plus \cap (file[t] \cup index[t] \cup head[t]) = {}

\* The rows of the log and the proposals.
LogOK ==
    /\ log \in Seq(Row)
    /\ \A k \in DOMAIN log : log[k].day <= day
ProposalsOK == proposals # None => proposals \subseteq Good

\* What the locals of a run mean: the rows still to look at are due; the row
\* being reverted is a promotion, and gone once git has answered; from writing
\* to logging, the newest edit is the one of the recipe at hand.
RunOK ==
    /\ run \in [pc : Steps, due : SUBSET (DOMAIN log), todo : SUBSET Good,
                row : Nat, cur : Good \cup {None}, sha : Nat]
    /\ \A k \in run.due : log[k].day + RollbackAge < day
    /\ run.pc \in {"revert", "reverted"} =>
          /\ run.row \in DOMAIN log /\ Promotion(run.row)
          /\ log[run.row].day + RollbackAge < day
    /\ run.pc = "reverted" => RowGone(run.row)
    /\ run.pc \in {"commit", "staged", "ship", "log"} =>
          /\ run.cur \in Good /\ run.cur.target \in Targets
          /\ Newest # 0 /\ edits[Newest].target = run.cur.target
    /\ run.pc = "commit" => Newest \in file[run.cur.target] \ head[run.cur.target]
    /\ run.pc = "staged" => Newest \in index[run.cur.target] \ head[run.cur.target]
    /\ run.pc \in {"ship", "log"} =>
          run.sha \in DOMAIN commits /\ Newest \in commits[run.sha].plus

\* An edit is in no file but its target, and no commit adds what it takes out.
Placed == \A t \in Targets : \A e \in file[t] \cup index[t] \cup head[t] : edits[e].target = t
Apart == \A i \in DOMAIN commits : commits[i].plus \cap commits[i].minus = {}

\* A text that no promotion wrote is where it was written, or the commit of a
\* promotion has taken it along.
FixedKept ==
    \A e \in Edits : edits[e].recipe # "R-PROMOTE" => e \in file[edits[e].target] \/ Adopted(e)

\* The commit of a logged row ends with the row's own edit, which is not
\* younger than the row, and every later edit of its target is.
Own(k, e) == e \in commits[log[k].sha].plus /\ \A f \in commits[log[k].sha].plus : f <= e
Spaced ==
    /\ \A e \in Edits : edits[e].day <= day
    /\ \A k \in DOMAIN log : \A e \in Edits : Own(k, e) =>
          /\ edits[e].target = log[k].target /\ edits[e].day <= log[k].day
          /\ \A f \in Edits : f > e /\ edits[f].target = log[k].target
                                => edits[f].day > log[k].day

IInv == /\ TypeOK /\ LogOK /\ ProposalsOK /\ RunOK
        /\ Placed /\ Apart /\ FixedKept /\ Spaced /\ FixedTextsOnce

LEMMA InitIInv == Init => IInv
BY EvolutionAssumption
   DEF Init, Off, IInv, TypeOK, LogOK, ProposalsOK, RunOK, Placed, Apart, FixedKept, Spaced,
       FixedTextsOnce, Steps, Edits, Logged

LEMMA RowTypes ==
    ASSUME IInv, NEW k \in DOMAIN log
    PROVE  /\ log[k] \in Row /\ log[k].target \in Targets /\ log[k].day \in Nat
           /\ log[k].sha \in DOMAIN commits
<1>1. log[k] \in Row
  BY DEF IInv, LogOK
<1> QED
  BY <1>1 DEF Row, IInv, TypeOK

LEMMA EditTypes ==
    ASSUME IInv, NEW e \in Edits
    PROVE  edits[e].day \in Nat /\ edits[e].target \in Targets /\ edits[e].recipe \in Recipes
<1> DEFINE S == [target : Targets, day : 0..MaxDay,
                 recipe : {"R-CONFIG", "R-ADD-AP", "R-PROMOTE"}]
<1>1. edits \in Seq(S)
  BY DEF IInv, TypeOK
<1>2. edits[e] \in S
  <2> HIDE DEF S
  <2> QED
    BY <1>1 DEF Edits
<1> QED
  BY <1>2 DEF Recipes

LEMMA TextTypes ==
    ASSUME IInv
    PROVE  /\ file \in [Targets -> SUBSET Edits] /\ index \in [Targets -> SUBSET Edits]
           /\ head \in [Targets -> SUBSET Edits] /\ server \in [Targets -> SUBSET Edits]
           /\ Settings \in Targets /\ Patterns \subseteq Targets
BY DEF IInv, TypeOK, Targets

LEMMA CommitTypes ==
    ASSUME IInv, NEW i \in DOMAIN commits
    PROVE  /\ commits[i].plus \subseteq Edits /\ commits[i].minus \subseteq Edits
           /\ commits[i].plus \cap commits[i].minus = {}
<1> DEFINE S == [plus : SUBSET Edits, minus : SUBSET Edits]
<1>1. commits \in Seq(S)
  BY DEF IInv, TypeOK
<1>2. commits[i] \in S
  <2> HIDE DEF S
  <2> QED
    BY <1>1
<1> QED
  BY <1>2 DEF IInv, Apart

\* Commits are never rewritten, and of a row only its mark.
Grown ==
    /\ \A i \in DOMAIN commits : i \in DOMAIN commits' /\ commits'[i] = commits[i]
    /\ \A k \in DOMAIN log :
          /\ k \in DOMAIN log' /\ log'[k].recipe = log[k].recipe
          /\ log'[k].gap = log[k].gap /\ log'[k].sha = log[k].sha

\* A fixed text leaves its file only with a commit of a promotion.
LEMMA FixedStays ==
    ASSUME IInv, edits' = edits, Grown,
           \A t \in Targets : \A e \in file[t] : e \in file'[t] \/ Adopted(e)
    PROVE  FixedKept' /\ FixedTextsOnce'
<1>1. ASSUME NEW e \in Edits, Adopted(e) PROVE Adopted(e)'
  <2>1. PICK k \in DOMAIN log : Promotion(k) /\ e \in commits[log[k].sha].plus
    BY <1>1 DEF Adopted
  <2>2. k \in DOMAIN log' /\ Promotion(k)' /\ e \in commits'[log'[k].sha].plus
    BY <2>1, RowTypes DEF Grown, Promotion
  <2> QED
    BY <2>2 DEF Adopted
<1>2. \A e \in Edits : edits[e].target \in Targets
  BY EditTypes
<1> QED
  BY <1>1, <1>2 DEF IInv, FixedKept, FixedTextsOnce, Edits

-----------------------------------------------------------------------------
(* The steps of a run that leave files, commits and log alone.              *)

LEMMA RepoKept ==
    ASSUME IInv, UNCHANGED <<day, repo>>, ProposalsOK', RunOK'
    PROVE  IInv'
<1>1. /\ day' = day /\ edits' = edits /\ file' = file /\ index' = index /\ head' = head
      /\ origin' = origin /\ server' = server /\ unmerged' = unmerged
      /\ commits' = commits /\ log' = log
  BY DEF repo
<1>2. TypeOK'
  BY <1>1 DEF IInv, TypeOK, RunOK, Steps, Edits
<1>3. LogOK' /\ Placed' /\ Apart'
  BY <1>1 DEF IInv, LogOK, Placed, Apart
<1>4. Spaced'
  BY <1>1 DEF IInv, Spaced, Edits, Own
<1>5. FixedKept' /\ FixedTextsOnce'
  BY <1>1, FixedStays DEF Grown
<1> QED
  BY <1>2, <1>3, <1>4, <1>5 DEF IInv

LEMMA ProposeKeeps ==
    ASSUME IInv, NEW gaps \in GrowthGaps, NEW signals \in ContentSignals,
           NEW clusters \in ActiveClusters, Propose(gaps, signals, clusters)
    PROVE  IInv'
<1>1. \A g \in gaps : ForGap(g) \in Good
  BY EvolutionAssumption DEF GrowthGaps, ForGap, Proposal, Good, Recipes, Targets
<1>2. ForArticle(signals) \subseteq Good
  BY EvolutionAssumption DEF ForArticle, Proposal, Good, Recipes, Targets
<1>3. \A key \in clusters : ForCluster(key) \in Good
  BY EvolutionAssumption DEF ForCluster, Proposal, Good, Recipes, Targets
<1>4. ProposalsOK'
  BY <1>1, <1>2, <1>3 DEF Propose, ProposalsOK
<1>5. RunOK'
  BY DEF Propose, repo, IInv, RunOK, RowGone, Promotion, Newest
<1> QED
  BY <1>4, <1>5, RepoKept DEF Propose

LEMMA RunKeeps ==
    ASSUME IInv, UNCHANGED <<day, proposals, repo>>, RunOK'
    PROVE  IInv'
BY RepoKept DEF IInv, ProposalsOK

LEMMA OffKeeps ==
    ASSUME IInv, UNCHANGED <<day, proposals, repo>>, run' = Off
    PROVE  IInv'
<1>1. RunOK'
  BY EvolutionAssumption DEF repo, IInv, RunOK, Off, Steps
<1> QED
  BY <1>1, RunKeeps

LEMMA StartApplyKeeps == ASSUME IInv, StartApply PROVE IInv'
<1>1. RunOK'
  BY DEF StartApply, repo, IInv, RunOK, Off, Steps, Due, LogOK
<1> QED
  BY <1>1, RunKeeps DEF StartApply

LEMMA CheckRowKeeps ==
    ASSUME IInv, NEW k \in run.due, CheckRow(k)
    PROVE  IInv'
<1>1. k \in DOMAIN log /\ k \in Nat /\ log[k].day + RollbackAge < day
  BY DEF IInv, RunOK, LogOK
<1>2. log' = log /\ day' = day /\ run.pc = "rollback"
  BY DEF CheckRow, repo
<1>3. ASSUME Promotion(k), run' = [run EXCEPT !.pc = "revert", !.due = @ \ {k}, !.row = k]
      PROVE  RunOK'
  <2>1. run'.pc = "revert" /\ run'.row = k /\ run'.due = run.due \ {k}
    BY <1>3 DEF IInv, RunOK
  <2> QED
    BY <1>1, <1>2, <1>3, <2>1 DEF IInv, RunOK, Steps, Promotion
<1>4. ASSUME run' = [run EXCEPT !.due = @ \ {k}]
      PROVE  RunOK'
  <2>1. run'.pc = "rollback" /\ run'.due = run.due \ {k}
    BY <1>2, <1>4 DEF IInv, RunOK
  <2> QED
    BY <1>2, <1>4, <2>1 DEF IInv, RunOK
<1>5. RunOK'
  <2>1. CASE Promotion(k) /\ run' = [run EXCEPT !.pc = "revert", !.due = @ \ {k}, !.row = k]
    BY <1>3, <2>1
  <2>2. CASE run' = [run EXCEPT !.due = @ \ {k}]
    BY <1>4, <2>2
  <2> QED
    BY <2>1, <2>2 DEF CheckRow
<1> QED
  BY <1>5, RunKeeps DEF CheckRow

LEMMA RevertUnloggedKeeps == ASSUME IInv, RevertUnlogged PROVE IInv'
<1>1. RunOK'
  BY DEF RevertUnlogged, repo, IInv, RunOK, Steps
<1> QED
  BY <1>1, RunKeeps DEF RevertUnlogged

LEMMA LoadProposalsKeeps == ASSUME IInv, LoadProposals PROVE IInv'
<1>1. CASE run' = Off
  BY <1>1, OffKeeps DEF LoadProposals
<1>2. CASE run' = [run EXCEPT !.pc = "recipes", !.todo = proposals] /\ proposals # None
  <2>1. RunOK'
    BY <1>2 DEF LoadProposals, repo, IInv, RunOK, ProposalsOK, Steps
  <2> QED
    BY <2>1, RunKeeps DEF LoadProposals
<1> QED
  BY <1>1, <1>2 DEF LoadProposals

LEMMA SkipRecipeKeeps ==
    ASSUME IInv, NEW p \in run.todo, SkipRecipe(p)
    PROVE  IInv'
<1>1. RunOK'
  BY DEF SkipRecipe, repo, IInv, RunOK, Steps
<1> QED
  BY <1>1, RunKeeps DEF SkipRecipe

-----------------------------------------------------------------------------
(* Reverts.                                                                 *)

\* A commit undone in the files of ts: they keep their types, nothing but what
\* the commit added goes, and where it is undone all of that goes.
LEMMA UndoneIs ==
    ASSUME IInv, NEW i \in DOMAIN commits, NEW text \in [Targets -> SUBSET Edits], NEW ts,
           \A t \in Targets : \A e \in text[t] : edits[e].target = t
    PROVE  LET c == commits[i]
               new == [t \in Targets |-> IF t \in ts THEN Undone(c, t, text[t]) ELSE text[t]]
           IN /\ new \in [Targets -> SUBSET Edits]
              /\ \A t \in Targets : \A e \in new[t] : edits[e].target = t
              /\ \A t \in Targets : text[t] \ c.plus \subseteq new[t]
              /\ Touched(c) \subseteq ts => \A t \in Targets : new[t] \cap c.plus = {}
<1>1. /\ commits[i].plus \subseteq Edits /\ commits[i].minus \subseteq Edits
      /\ commits[i].plus \cap commits[i].minus = {}
  BY CommitTypes
<1>2. ASSUME Touched(commits[i]) \subseteq ts, NEW t \in Targets, t \notin ts, NEW e \in text[t]
      PROVE  e \notin commits[i].plus
  BY <1>2 DEF Touched
<1> QED
  BY <1>1, <1>2 DEF Undone, Of

\* What is taken out is of the commit of a promotion.
LEMMA GitRevertKeeps == ASSUME IInv, GitRevert PROVE IInv'
<1> DEFINE c == commits[log[run.row].sha]
           undo(text, ts) == [t \in Targets |-> IF t \in ts THEN Undone(c, t, text[t]) ELSE text[t]]
<1>1. /\ run.row \in DOMAIN log /\ Promotion(run.row)
      /\ log[run.row].day + RollbackAge < day /\ log[run.row].sha \in DOMAIN commits
  BY RowTypes DEF GitRevert, IInv, RunOK
<1>2. /\ day' = day /\ edits' = edits /\ commits' = commits /\ log' = log
      /\ origin' = origin /\ server' = server /\ proposals' = proposals
  BY DEF GitRevert
<1>3. /\ file \in [Targets -> SUBSET Edits] /\ index \in [Targets -> SUBSET Edits]
      /\ head \in [Targets -> SUBSET Edits]
      /\ \A t \in Targets : \A e \in file[t] \cup index[t] \cup head[t] : edits[e].target = t
      /\ file = [t \in Targets |-> file[t]] /\ index = [t \in Targets |-> index[t]]
      /\ head = [t \in Targets |-> head[t]]
  BY TextTypes DEF IInv, Placed
<1>4. ASSUME NEW text \in {file, index, head}, NEW ts
      PROVE  /\ undo(text, ts) \in [Targets -> SUBSET Edits]
             /\ \A t \in Targets : \A e \in undo(text, ts)[t] : edits[e].target = t
             /\ \A t \in Targets : text[t] \ c.plus \subseteq undo(text, ts)[t]
             /\ Touched(c) \subseteq ts => \A t \in Targets : undo(text, ts)[t] \cap c.plus = {}
  <2>1. /\ text \in [Targets -> SUBSET Edits]
        /\ \A t \in Targets : \A e \in text[t] : edits[e].target = t
    BY <1>3
  <2> QED
    BY <1>1, <2>1, UndoneIs
<1>5. undo(file, {}) = file /\ undo(index, {}) = index /\ undo(head, {}) = head
  BY <1>3
<1>6. PICK fs, hs :
        /\ file' = undo(file, fs) /\ index' = undo(index, fs) /\ head' = undo(head, hs)
        /\ unmerged' \subseteq unmerged \cup Touched(c)
        /\ \/ fs = Touched(c) /\ hs = Touched(c) /\ run' = [run EXCEPT !.pc = "reverted"]
           \/ NotReverted
  <2>1. CASE /\ file' = undo(file, Touched(c)) /\ index' = undo(index, Touched(c))
             /\ head' = undo(head, Touched(c)) /\ unmerged' = unmerged
             /\ run' = [run EXCEPT !.pc = "reverted"]
    BY <2>1
  <2>2. CASE /\ unmerged' \subseteq Touched(c) /\ head' = head /\ NotReverted
             /\ file' = undo(file, Touched(c) \ unmerged')
             /\ index' = undo(index, Touched(c) \ unmerged')
    <3>1. /\ head' = undo(head, {}) /\ unmerged' \subseteq unmerged \cup Touched(c)
      BY <1>5, <2>2
    <3> HIDE DEF undo, c
    <3> QED
      BY <2>2, <3>1
  <2>3. CASE UNCHANGED <<file, index, head, unmerged>> /\ NotReverted
    <3>1. /\ file' = undo(file, {}) /\ index' = undo(index, {}) /\ head' = undo(head, {})
          /\ unmerged' \subseteq unmerged \cup Touched(c)
      BY <1>5, <2>3
    <3> HIDE DEF undo, c
    <3> QED
      BY <2>3, <3>1
  <2>4. \/ /\ file' = undo(file, Touched(c)) /\ index' = undo(index, Touched(c))
           /\ head' = undo(head, Touched(c)) /\ unmerged' = unmerged
           /\ run' = [run EXCEPT !.pc = "reverted"]
        \/ /\ unmerged' \subseteq Touched(c) /\ head' = head /\ NotReverted
           /\ file' = undo(file, Touched(c) \ unmerged')
           /\ index' = undo(index, Touched(c) \ unmerged')
        \/ UNCHANGED <<file, index, head, unmerged>> /\ NotReverted
    BY DEF GitRevert
  <2> HIDE DEF undo, c
  <2> QED
    BY <2>1, <2>2, <2>3, <2>4
<1>7. Touched(c) \subseteq Targets
  BY <1>1, CommitTypes, EditTypes DEF Touched
<1> HIDE DEF undo
<1>8. /\ file' \in [Targets -> SUBSET Edits] /\ index' \in [Targets -> SUBSET Edits]
      /\ head' \in [Targets -> SUBSET Edits] /\ unmerged' \subseteq Targets
  BY <1>4, <1>6, <1>7 DEF IInv, TypeOK
<1>9. RunOK'
  <2>1. CASE fs = Touched(c) /\ hs = Touched(c) /\ run' = [run EXCEPT !.pc = "reverted"]
    <3>1. \A t \in Targets : c.plus \cap (file'[t] \cup index'[t] \cup head'[t]) = {}
      BY <1>4, <1>6, <2>1
    <3>2. RowGone(run.row)'
      BY <1>2, <2>1, <3>1 DEF RowGone, Targets, IInv, RunOK
    <3> QED
      BY <1>1, <1>2, <2>1, <3>2 DEF IInv, RunOK, Steps, Promotion
  <2>2. CASE NotReverted
    BY <1>2, <2>2 DEF NotReverted, IInv, RunOK, Steps
  <2> QED
    BY <1>6, <2>1, <2>2
<1>10. TypeOK'
  BY <1>2, <1>8, <1>9 DEF IInv, TypeOK, Edits, RunOK, Steps
<1>11. Placed'
  BY <1>2, <1>4, <1>6 DEF Placed
<1>12. FixedKept' /\ FixedTextsOnce'
  <2>1. \A t \in Targets : \A e \in file[t] : e \in file'[t] \/ Adopted(e)
    BY <1>1, <1>4, <1>6 DEF Adopted
  <2> QED
    BY <1>2, <2>1, FixedStays DEF Grown
<1>13. Spaced' /\ Apart' /\ LogOK' /\ ProposalsOK'
  BY <1>2 DEF IInv, Spaced, Own, Edits, Apart, LogOK, ProposalsOK
<1> QED
  BY <1>9, <1>10, <1>11, <1>12, <1>13 DEF IInv

\* The row is a promotion, due, and git has taken its edits out.
LEMMA LogRevertKeeps == ASSUME IInv, LogRevert PROVE IInv'
<1>1. /\ day' = day /\ edits' = edits /\ commits' = commits /\ file' = file
      /\ index' = index /\ head' = head /\ origin' = origin /\ server' = server
      /\ unmerged' = unmerged /\ proposals' = proposals
      /\ run' = [run EXCEPT !.pc = "rollback"]
  BY DEF LogRevert
<1>2. /\ run.row \in DOMAIN log /\ Promotion(run.row) /\ RowGone(run.row)
      /\ log[run.row].day + RollbackAge < day
  BY DEF LogRevert, IInv, RunOK
<1>3. /\ log' \in Seq(Row) /\ DOMAIN log' = DOMAIN log
      /\ \A k \in DOMAIN log :
            /\ log'[k].day = log[k].day /\ log'[k].target = log[k].target
            /\ log'[k].recipe = log[k].recipe /\ log'[k].sha = log[k].sha
            /\ log'[k].gap = log[k].gap
            /\ k # run.row => log'[k].reverted = log[k].reverted
  <2> DEFINE old == log[run.row]
             new == [old EXCEPT !.reverted = TRUE]
  <2>1. log \in Seq(Row) /\ old \in Row /\ log' = [log EXCEPT ![run.row] = new]
    BY <1>2 DEF LogRevert, IInv, LogOK
  <2>2. /\ new \in Row /\ new.day = old.day /\ new.target = old.target
        /\ new.recipe = old.recipe /\ new.sha = old.sha /\ new.gap = old.gap
    BY <2>1 DEF Row
  <2> HIDE DEF new
  <2> QED
    BY <1>2, <2>1, <2>2
<1>4. LogOK'
  BY <1>1, <1>3 DEF IInv, LogOK
<1>5. RunOK'
  BY <1>1, <1>3 DEF IInv, RunOK, Steps
<1>6. TypeOK'
  BY <1>1, <1>3, <1>5 DEF IInv, TypeOK, Edits, RunOK, Steps
<1>7. Placed' /\ Apart' /\ ProposalsOK'
  BY <1>1 DEF IInv, Placed, Apart, ProposalsOK
<1>8. Spaced'
  BY <1>1, <1>3 DEF IInv, Spaced, Own, Edits
<1>9. FixedKept' /\ FixedTextsOnce'
  BY <1>1, <1>3, FixedStays DEF Grown
<1> QED
  BY <1>4, <1>5, <1>6, <1>7, <1>8, <1>9 DEF IInv

-----------------------------------------------------------------------------
(* Edits, commits and rows.                                                 *)

\* A new edit has a number of its own, and no row of its target is of today.
LEMMA WriteRecipeKeeps ==
    ASSUME IInv, NEW p \in run.todo, WriteRecipe(p)
    PROVE  IInv'
<1> DEFINE new == [target |-> p.target, recipe |-> p.recipe, day |-> day]
<1>1. /\ day' = day /\ proposals' = proposals /\ index' = index /\ head' = head
      /\ origin' = origin /\ server' = server /\ unmerged' = unmerged /\ commits' = commits /\ log' = log
      /\ edits' = Append(edits, new)
      /\ file' = [file EXCEPT ![p.target] = @ \cup {Len(edits')}]
      /\ run' = [run EXCEPT !.pc = "commit", !.todo = @ \ {p}, !.cur = p]
      /\ ~ChangedToday(p) /\ Writable(p)
  BY DEF WriteRecipe
<1>2. p \in Good /\ p.target \in Targets /\ p.recipe \in Recipes
  <2>1. p \in Good
    BY DEF IInv, RunOK
  <2>2. p.recipe \in Recipes /\ p.target \in Targets \cup {None}
    BY <2>1 DEF Good
  <2>3. p.target # None
    BY <1>1, <2>1, <2>2, EvolutionAssumption DEF Writable, apply_r_config, apply_r_add_ap, apply_r_promote, Good, Targets
  <2> QED
    BY <2>1, <2>2, <2>3
<1>3. /\ Len(edits') = Len(edits) + 1 /\ Len(edits) \in Nat
      /\ Edits' = Edits \cup {Len(edits')} /\ Len(edits') \notin Edits
      /\ edits'[Len(edits')] = new /\ \A e \in Edits : edits'[e] = edits[e]
  <2> HIDE DEF new
  <2>1. edits \in Seq([target : Targets, day : 0..MaxDay, recipe : Recipes])
    BY DEF IInv, TypeOK, Recipes
  <2> QED
    BY <1>1, <2>1 DEF Edits
<1>4. /\ file \in [Targets -> SUBSET Edits] /\ head \in [Targets -> SUBSET Edits]
      /\ index \in [Targets -> SUBSET Edits]
      /\ \A i \in DOMAIN commits : commits[i].plus \subseteq Edits
  BY TextTypes, CommitTypes
<1>5. TypeOK'
  <2>1. new \in [target : Targets, day : 0..MaxDay, recipe : {"R-CONFIG", "R-ADD-AP", "R-PROMOTE"}]
    BY <1>2 DEF IInv, TypeOK, Recipes
  <2> HIDE DEF new
  <2>2. edits' \in Seq([target : Targets, day : 0..MaxDay,
                       recipe : {"R-CONFIG", "R-ADD-AP", "R-PROMOTE"}])
    BY <1>1, <2>1 DEF IInv, TypeOK
  <2>3. /\ file' \in [Targets -> SUBSET Edits'] /\ head' \in [Targets -> SUBSET Edits']
        /\ index' \in [Targets -> SUBSET Edits']
    BY <1>1, <1>2, <1>3, <1>4
  <2>4. server' \in [Targets -> SUBSET Edits'] /\ origin' \subseteq Edits'
    BY <1>1, <1>3 DEF IInv, TypeOK
  <2>5. commits' \in Seq([plus : SUBSET Edits', minus : SUBSET Edits'])
    <3>1. [plus : SUBSET Edits, minus : SUBSET Edits]
            \subseteq [plus : SUBSET Edits', minus : SUBSET Edits']
      BY <1>3
    <3>2. commits \in Seq([plus : SUBSET Edits, minus : SUBSET Edits]) /\ commits' = commits
      BY <1>1 DEF IInv, TypeOK
    <3> HIDE DEF new
    <3> DEFINE S == [plus : SUBSET Edits, minus : SUBSET Edits]
               T == [plus : SUBSET Edits', minus : SUBSET Edits']
    <3>3. S \subseteq T /\ commits \in Seq(S)
      BY <3>1, <3>2
    <3> HIDE DEF S, T
    <3>4. commits \in Seq(T)
      BY <3>3
    <3> QED
      BY <3>2, <3>4 DEF T
  <2>6. run'.pc = "commit"
    BY <1>1 DEF IInv, RunOK
  <2> QED
    BY <1>1, <2>2, <2>3, <2>4, <2>5, <2>6 DEF IInv, TypeOK
<1>6. RunOK'
  <2>1. Len(edits') \in file'[p.target] \ head'[p.target]
    BY <1>1, <1>2, <1>3, <1>4
  <2>2. edits'[Len(edits')].target = p.target
    BY <1>3
  <2> HIDE DEF new
  <2>3. /\ run' \in [pc : Steps, due : SUBSET (DOMAIN log), todo : SUBSET Good,
                     row : Nat, cur : Good \cup {None}, sha : Nat]
        /\ run'.pc = "commit" /\ run'.cur = p /\ run'.due = run.due
    BY <1>1, <1>2 DEF IInv, RunOK, Steps
  <2> QED
    BY <1>1, <1>2, <1>3, <2>1, <2>2, <2>3 DEF IInv, RunOK, Newest
<1>7. FixedKept' /\ FixedTextsOnce'
  <2>1. \A e \in Edits : Adopted(e) => Adopted(e)'
    BY <1>1 DEF Adopted, Promotion
  <2>2. \A e \in Edits : edits[e].target = p.target /\ edits[e].recipe = p.recipe
                         => p.recipe = "R-PROMOTE" \/ Adopted(e)
    BY <1>1 DEF Writable, apply_r_config, apply_r_add_ap, apply_r_promote,
                  Present, IInv, FixedKept
  <2>3. \A e \in Edits : e # Len(edits') /\ edits[e].target \in Targets
    BY <1>3, EditTypes
  <2>4. ASSUME NEW e \in Edits', edits'[e].recipe # "R-PROMOTE"
        PROVE  e \in file'[edits'[e].target] \/ Adopted(e)'
    <3>1. CASE e \in Edits
      BY <1>1, <1>2, <1>3, <1>4, <2>1, <2>3, <2>4, <3>1 DEF IInv, FixedKept
    <3>2. CASE e = Len(edits')
      BY <1>1, <1>2, <1>3, <1>4, <3>2
    <3> QED
      BY <1>3, <3>1, <3>2
  <2>5. ASSUME NEW e \in Edits', NEW f \in Edits', e < f, edits'[e].target = edits'[f].target,
               edits'[e].recipe = edits'[f].recipe, edits'[e].recipe # "R-PROMOTE"
        PROVE  Adopted(e)'
    <3>0. e \in Edits
      BY <1>3, <2>5 DEF Edits
    <3>1. CASE f \in Edits
      BY <1>3, <2>1, <2>5, <3>0, <3>1 DEF IInv, FixedTextsOnce
    <3>2. CASE f = Len(edits')
      BY <1>3, <2>1, <2>2, <2>5, <3>0, <3>2
    <3> QED
      BY <1>3, <3>1, <3>2
  <2> QED
    BY <2>4, <2>5 DEF FixedKept, FixedTextsOnce
<1>8. Placed'
  <2>1. ASSUME NEW t \in Targets, NEW e \in file'[t] \cup index'[t] \cup head'[t]
        PROVE  edits'[e].target = t
    <3>1. CASE e \in Edits
      <4>1. e \in file[t] \cup index[t] \cup head[t]
        BY <1>1, <1>2, <1>3, <1>4, <2>1, <3>1
      <4> QED
        BY <1>3, <3>1, <4>1 DEF IInv, Placed
    <3>2. CASE e \notin Edits
      <4>1. t = p.target /\ e = Len(edits')
        BY <1>1, <1>2, <1>3, <1>4, <2>1, <3>2
      <4> QED
        BY <1>3, <4>1
    <3> QED
      BY <3>1, <3>2
  <2> QED
    BY <2>1 DEF Placed
<1>9. Apart'
  BY <1>1 DEF IInv, Apart
<1>10. Spaced'
  <2>1. \A e \in Edits' : edits'[e].day <= day
    BY <1>3 DEF IInv, Spaced, TypeOK
  <2>2. SUFFICES ASSUME NEW k \in DOMAIN log, NEW e \in Edits', Own(k, e)'
        PROVE  /\ edits'[e].target = log[k].target /\ edits'[e].day <= log[k].day
               /\ \A f \in Edits' : f > e /\ edits'[f].target = log[k].target
                                       => edits'[f].day > log[k].day
    BY <1>1, <2>1 DEF Spaced
  <2>3. e \in Edits /\ Own(k, e)
    <3>1. log[k].sha \in DOMAIN commits
      BY DEF IInv, TypeOK
    <3> QED
      BY <1>1, <1>4, <2>2, <3>1 DEF Own
  <2>4. /\ edits[e].target = log[k].target /\ edits[e].day <= log[k].day
        /\ \A f \in Edits : f > e /\ edits[f].target = log[k].target
                               => edits[f].day > log[k].day
    BY <2>3 DEF IInv, Spaced
  <2>5. log[k].target = p.target => log[k].day < day
    <3>1. log[k].day \in Nat /\ log[k].day <= day /\ day \in Nat
      BY RowTypes DEF IInv, LogOK, TypeOK
    <3> QED
      BY <1>1, <3>1 DEF ChangedToday
  <2> QED
    BY <1>3, <2>3, <2>4, <2>5
<1> QED
  BY <1>1, <1>5, <1>6, <1>7, <1>8, <1>9, <1>10 DEF IInv, LogOK, ProposalsOK

\* The index takes the newest edit from the file.
LEMMA StageKeeps == ASSUME IInv, Stage PROVE IInv'
<1> DEFINE t == run.cur.target
<1>1. /\ day' = day /\ proposals' = proposals /\ edits' = edits /\ file' = file
      /\ head' = head /\ origin' = origin /\ server' = server /\ log' = log
      /\ commits' = commits /\ run.pc = "commit" /\ unmerged' = unmerged \ {t}
      /\ index' = [index EXCEPT ![t] = file[t]] /\ run' = [run EXCEPT !.pc = "staged"]
  BY DEF Stage, Cur
<1>2. t \in Targets /\ Newest \in file[t] \ head[t]
  BY <1>1 DEF IInv, RunOK
<1>3. index' \in [Targets -> SUBSET Edits] /\ index'[t] = file[t]
      /\ \A x \in Targets : index'[x] \subseteq index[x] \cup file[x]
  BY <1>1, <1>2, TextTypes
<1>4. RunOK'
  <2>1. /\ run' \in [pc : Steps, due : SUBSET (DOMAIN log), todo : SUBSET Good,
                     row : Nat, cur : Good \cup {None}, sha : Nat]
        /\ run'.pc = "staged" /\ run'.cur = run.cur /\ run'.due = run.due
    BY <1>1 DEF IInv, RunOK, Steps
  <2> QED
    BY <1>1, <1>2, <1>3, <2>1 DEF IInv, RunOK, Newest
<1>5. TypeOK'
  BY <1>1, <1>3, <1>4 DEF IInv, TypeOK, Edits, RunOK, Steps
<1>6. Placed'
  BY <1>1, <1>3 DEF IInv, Placed
<1>7. FixedKept' /\ FixedTextsOnce'
  BY <1>1, FixedStays DEF Grown
<1> QED
  BY <1>1, <1>4, <1>5, <1>6, <1>7 DEF IInv, LogOK, ProposalsOK, Apart, Spaced, Own, Edits

\* The new commit holds the newest edit; the older commits stay as they are.
LEMMA CommitKeeps == ASSUME IInv, Commit PROVE IInv'
<1> DEFINE t == run.cur.target
           new == Staged
<1>1. /\ day' = day /\ proposals' = proposals /\ edits' = edits /\ file' = file
      /\ index' = index /\ unmerged' = unmerged
      /\ origin' = origin /\ server' = server /\ log' = log /\ run.pc = "staged"
      /\ commits' = Append(commits, new)
      /\ head' = [x \in Targets |-> IF x \in RepoOf(t) THEN index[x] ELSE head[x]]
      /\ run' = [run EXCEPT !.pc = "ship", !.sha = Len(commits')]
  BY DEF Commit, Cur, NewSha
<1>2. t \in Targets /\ Newest \in index[t] \ head[t] /\ t \in RepoOf(t) /\ RepoOf(t) \subseteq Targets
  BY <1>1 DEF IInv, RunOK, RepoOf, Targets
<1>3. /\ index \in [Targets -> SUBSET Edits] /\ head \in [Targets -> SUBSET Edits]
      /\ commits \in Seq([plus : SUBSET Edits, minus : SUBSET Edits])
  BY TextTypes DEF IInv, TypeOK
<1>4. /\ new \in [plus : SUBSET Edits, minus : SUBSET Edits] /\ Newest \in new.plus
      /\ new.plus \cap new.minus = {}
  <2>1. new = [plus |-> UNION {index[x] \ head[x] : x \in RepoOf(t)},
               minus |-> UNION {head[x] \ index[x] : x \in RepoOf(t)}]
    BY DEF Staged, Cur
  <2>2. UNION {index[x] \ head[x] : x \in RepoOf(t)} \subseteq Edits
        /\ UNION {head[x] \ index[x] : x \in RepoOf(t)} \subseteq Edits
    BY <1>2, <1>3
  <2>3. Newest \in UNION {index[x] \ head[x] : x \in RepoOf(t)}
    BY <1>2
  <2>4. ASSUME NEW e \in UNION {index[x] \ head[x] : x \in RepoOf(t)},
               e \in UNION {head[x] \ index[x] : x \in RepoOf(t)}
        PROVE  FALSE
    <3>1. PICK x \in RepoOf(t) : e \in index[x] \ head[x]
      OBVIOUS
    <3>2. PICK y \in RepoOf(t) : e \in head[y] \ index[y]
      BY <2>4
    <3>3. x = edits[e].target /\ y = edits[e].target
      BY <1>2, <3>1, <3>2 DEF IInv, Placed
    <3> QED
      BY <3>1, <3>2, <3>3
  <2> HIDE DEF new
  <2> QED
    BY <2>1, <2>2, <2>3, <2>4
<1> HIDE DEF new
<1>5. /\ commits' \in Seq([plus : SUBSET Edits, minus : SUBSET Edits]) /\ Len(commits') \in Nat
      /\ Len(commits') \in DOMAIN commits' /\ DOMAIN commits' = DOMAIN commits \cup {Len(commits')}
      /\ commits'[Len(commits')] = new /\ DOMAIN commits \subseteq DOMAIN commits'
      /\ \A i \in DOMAIN commits : commits'[i] = commits[i]
  <2> DEFINE S == [plus : SUBSET Edits, minus : SUBSET Edits]
  <2>1. commits \in Seq(S) /\ new \in S
    BY <1>3, <1>4
  <2> HIDE DEF S
  <2>2. /\ commits' \in Seq(S) /\ Len(commits') \in Nat
        /\ Len(commits') \in DOMAIN commits' /\ DOMAIN commits' = DOMAIN commits \cup {Len(commits')}
        /\ commits'[Len(commits')] = new /\ DOMAIN commits \subseteq DOMAIN commits'
        /\ \A i \in DOMAIN commits : commits'[i] = commits[i]
    BY <1>1, <2>1
  <2> QED
    BY <2>2 DEF S
<1>6. head' \in [Targets -> SUBSET Edits]
      /\ \A x \in Targets : head'[x] \subseteq head[x] \cup index[x]
  BY <1>1, <1>3
<1>7. \A k \in DOMAIN log : log[k].sha \in DOMAIN commits
  BY RowTypes
<1>8. RunOK'
  <2>1. /\ run' \in [pc : Steps, due : SUBSET (DOMAIN log), todo : SUBSET Good,
                     row : Nat, cur : Good \cup {None}, sha : Nat]
        /\ run'.pc = "ship" /\ run'.cur = run.cur /\ run'.due = run.due
        /\ run'.sha = Len(commits')
    <3>1. run' = [run EXCEPT !.pc = "ship", !.sha = Len(commits')] /\ Len(commits') \in Nat
      BY <1>1, <1>5
    <3> QED
      BY <3>1 DEF IInv, RunOK, Steps
  <2> QED
    BY <1>1, <1>2, <1>4, <1>5, <2>1 DEF IInv, RunOK, Newest
<1>9. TypeOK'
  BY <1>1, <1>5, <1>6, <1>7, <1>8 DEF IInv, TypeOK, Edits, RunOK, Steps
<1>10. Placed' /\ Apart'
  BY <1>1, <1>4, <1>5, <1>6 DEF IInv, Placed, Apart
<1>11. FixedKept' /\ FixedTextsOnce'
  BY <1>1, <1>5, FixedStays DEF Grown
<1>12. Spaced'
  <2>1. \A k \in DOMAIN log : \A e \in Edits : Own(k, e)' => Own(k, e)
    BY <1>1, <1>5, <1>7 DEF Own
  <2> QED
    BY <1>1, <2>1 DEF IInv, Spaced, Edits
<1> QED
  BY <1>1, <1>8, <1>9, <1>10, <1>11, <1>12 DEF IInv, LogOK, ProposalsOK

\* Shipping changes what others see and nothing of the repository.
LEMMA ShipKeeps == ASSUME IInv, Ship PROVE IInv'
<1>1. /\ day' = day /\ proposals' = proposals /\ edits' = edits /\ file' = file
      /\ index' = index /\ head' = head /\ unmerged' = unmerged /\ commits' = commits /\ log' = log
      /\ run.pc = "ship" /\ run' = [run EXCEPT !.pc = "log"]
  BY DEF Ship
<1>2. /\ file \in [Targets -> SUBSET Edits] /\ head \in [Targets -> SUBSET Edits]
      /\ server \in [Targets -> SUBSET Edits] /\ origin \subseteq Edits
      /\ Settings \in Targets
  BY DEF IInv, TypeOK, Targets
<1>3. run.cur.target \in Targets
  BY <1>1 DEF IInv, RunOK
<1>4. origin' \subseteq Edits /\ server' \in [Targets -> SUBSET Edits]
  <2>1. PICK done \in SUBSET {"rsync", "push", "redeploy"} :
          /\ origin' = IF Cur.target = Settings /\ "push" \in done
                       THEN head[Settings] ELSE origin
          /\ server' =
               [server EXCEPT ![Cur.target] =
                   IF Cur.target = Settings
                   THEN IF "redeploy" \in done THEN origin' ELSE @
                   ELSE IF "rsync" \in done THEN file[Cur.target] ELSE @]
    BY DEF Ship
  <2>2. origin' \subseteq Edits
    BY <1>2, <2>1
  <2> QED
    BY <1>2, <1>3, <2>1, <2>2 DEF Cur
<1>5. RunOK'
  BY <1>1 DEF IInv, RunOK, Steps, Newest, RowGone, Promotion
<1>6. TypeOK'
  BY <1>1, <1>4, <1>5 DEF IInv, TypeOK, Edits, RunOK, Steps
<1>7. FixedKept' /\ FixedTextsOnce'
  BY <1>1, FixedStays DEF Grown
<1> QED
  BY <1>1, <1>5, <1>6, <1>7
     DEF IInv, LogOK, ProposalsOK, Placed, Apart, Edits, Spaced, Own

\* The row of the newest edit: it has no later edit to be spaced from.
LEMMA LogApplyKeeps == ASSUME IInv, LogApply PROVE IInv'
<1> DEFINE row == [day |-> day, target |-> run.cur.target, recipe |-> run.cur.recipe,
                   sha |-> run.sha, gap |-> run.cur.gap, reverted |-> FALSE]
           n == Len(log) + 1
<1>1. /\ day' = day /\ proposals' = proposals /\ edits' = edits /\ file' = file
      /\ index' = index /\ head' = head /\ origin' = origin /\ server' = server
      /\ unmerged' = unmerged /\ commits' = commits /\ run.pc = "log"
      /\ log' = Append(log, row)
      /\ run' = [run EXCEPT !.pc = "recipes", !.cur = None, !.sha = 0]
  BY DEF LogApply, Cur
<1>2. /\ run.cur \in Good /\ run.cur.target \in Targets /\ Newest # 0
      /\ edits[Newest].target = run.cur.target
      /\ run.sha \in DOMAIN commits /\ Newest \in commits[run.sha].plus
  BY <1>1 DEF IInv, RunOK
<1>3. /\ row \in Row /\ row.day = day /\ row.target = run.cur.target
      /\ row.recipe = run.cur.recipe /\ row.sha = run.sha /\ ~row.reverted
  <2>1. day \in Nat /\ run.sha \in Nat
    BY DEF IInv, TypeOK, RunOK
  <2>2. run.cur.recipe \in Recipes /\ run.cur.gap \in Gaps \cup {None}
    BY <1>2 DEF Good
  <2> QED
    BY <1>2, <2>1, <2>2 DEF Row
<1> HIDE DEF row
<1>5. /\ log' \in Seq(Row) /\ DOMAIN log' = DOMAIN log \cup {n} /\ log'[n] = row
      /\ \A k \in DOMAIN log : k # n /\ log'[k] = log[k]
  BY <1>1, <1>3 DEF IInv, LogOK
<1>6. LogOK'
  <2>1. row.day <= day
    BY <1>3 DEF IInv, TypeOK
  <2> QED
    BY <1>1, <1>5, <2>1 DEF IInv, LogOK
<1>7. RunOK'
  <2>1. /\ run' \in [pc : Steps, due : SUBSET (DOMAIN log), todo : SUBSET Good,
                     row : Nat, cur : Good \cup {None}, sha : Nat]
        /\ run'.pc = "recipes" /\ run'.due = run.due
    BY <1>1 DEF IInv, RunOK, Steps
  <2> QED
    BY <1>1, <1>5, <2>1 DEF IInv, RunOK
<1>8. TypeOK'
  BY <1>1, <1>2, <1>3, <1>5, <1>7 DEF IInv, TypeOK, Edits, RunOK, Steps
<1>9. FixedKept' /\ FixedTextsOnce'
  BY <1>1, <1>5, FixedStays DEF Grown
<1>10. Spaced'
  <2>1. \A e \in Edits : (e \in commits[run.sha].plus /\ \A f \in commits[run.sha].plus : f <= e)
                         => e = Newest
    BY <1>2 DEF Edits, Newest
  <2>2. edits[Newest].day <= day /\ \A f \in Edits : ~(f > Newest)
    BY <1>2 DEF Edits, Newest, IInv, Spaced, TypeOK
  <2> QED
    BY <1>1, <1>2, <1>3, <1>5, <2>1, <2>2 DEF IInv, Spaced, Own, Edits
<1> QED
  BY <1>1, <1>6, <1>7, <1>8, <1>9, <1>10
     DEF IInv, ProposalsOK, Placed, Apart

\* What was due stays due, and what was before today is before tomorrow.
LEMMA NextDayKeeps == ASSUME IInv, NextDay PROVE IInv'
<1>1. /\ day' = day + 1 /\ day \in Nat /\ day' \in 0..MaxDay
      /\ proposals' = proposals /\ edits' = edits /\ file' = file
      /\ index' = index /\ head' = head /\ origin' = origin /\ server' = server /\ run' = run
      /\ unmerged' = unmerged /\ commits' = commits /\ log' = log
  BY EvolutionAssumption DEF NextDay, repo, IInv, TypeOK
<1>2. \A k \in DOMAIN log : log[k].day \in Nat
  BY RowTypes
<1>3. \A e \in Edits : edits[e].day \in Nat
  BY EditTypes
<1>4. RunOK'
  <2>1. \A k \in DOMAIN log : log[k].day + RollbackAge < day => log[k].day + RollbackAge < day'
    BY <1>1, <1>2, EvolutionAssumption
  <2> QED
    BY <1>1, <2>1 DEF IInv, RunOK, Newest, RowGone, Promotion
<1>5. LogOK'
  BY <1>1, <1>2 DEF IInv, LogOK
<1>6. Spaced'
  BY <1>1, <1>3 DEF IInv, Spaced, Own, Edits
<1>7. FixedKept' /\ FixedTextsOnce'
  BY <1>1, FixedStays DEF Grown
<1> QED
  BY <1>1, <1>4, <1>5, <1>6, <1>7
     DEF IInv, TypeOK, ProposalsOK, Placed, Apart, Edits

-----------------------------------------------------------------------------
LEMMA NextKeeps == ASSUME IInv, Next PROVE IInv'
<1>1. CASE \E gaps \in GrowthGaps, signals \in ContentSignals, clusters \in ActiveClusters :
              Propose(gaps, signals, clusters)
  BY <1>1, ProposeKeeps
<1>2. CASE ApplyStep
  <2>1. CommitFails \/ EndApply \/ Die
          => UNCHANGED <<day, proposals, repo>> /\ run' = Off
    BY DEF CommitFails, EndApply, Die
  <2> QED
    BY <1>2, <2>1, OffKeeps, StartApplyKeeps, CheckRowKeeps, GitRevertKeeps,
       LogRevertKeeps, RevertUnloggedKeeps, LoadProposalsKeeps, WriteRecipeKeeps, SkipRecipeKeeps,
       StageKeeps, CommitKeeps, ShipKeeps, LogApplyKeeps
       DEF ApplyStep
<1>3. CASE NextDay
  BY <1>3, NextDayKeeps
<1> QED
  BY <1>1, <1>2, <1>3 DEF Next

LEMMA StutterKeeps == ASSUME IInv, UNCHANGED vars PROVE IInv'
<1>1. UNCHANGED <<day, proposals, repo>> /\ run' = run
  BY DEF vars, repo
<1>2. RunOK'
  BY <1>1 DEF repo, IInv, RunOK, Newest, RowGone, Promotion
<1> QED
  BY <1>1, <1>2, RunKeeps

LEMMA Inductive == Spec => []IInv
<1>1. IInv /\ [Next]_vars => IInv'
  BY NextKeeps, StutterKeeps
<1> QED
  BY InitIInv, <1>1, PTL DEF Spec

\* Days, files, commits and rows keep their types for every set of gaps,
\* patterns and clusters, whatever fails or dies: in particular every row of
\* the log names a commit there is (apply_evolutions.main).
THEOREM TypeCorrect == Spec => []TypeOK
BY Inductive, PTL DEF IInv

\* The quota of one change of a target a day holds for the edits themselves,
\* for any number of runs, proposals, failures and deaths, over midnight too
\* (apply_evolutions._changed_today, _log_apply).
THEOREM OneChangeADayCorrect == Spec => []OneChangeADay
<1>1. ASSUME IInv PROVE OneChangeADay
  <2> SUFFICES ASSUME NEW e \in Edits, NEW f \in Edits, e < f,
                      edits[e].target = edits[f].target, edits[e].day = edits[f].day,
                      Logged(e)
               PROVE  FALSE
    BY DEF OneChangeADay
  <2>1. PICK k \in DOMAIN log : Own(k, e)
    BY DEF Logged, Own
  <2>2. edits[e].day <= log[k].day /\ edits[f].day > log[k].day
    BY <1>1, <2>1 DEF IInv, Spaced, Edits
  <2>3. edits[e].day \in Nat /\ log[k].day \in Nat
    BY <1>1, EditTypes, RowTypes
  <2> QED
    BY <2>2, <2>3
<1> QED
  BY <1>1, Inductive, PTL

\* A row is marked reverted only when it is a promotion that was due and nothing
\* its commit added is left in the files, the index or the last commit, whatever
\* comes between the revert and the mark (apply_evolutions.check_rollbacks).
THEOREM RevertedIsGoneCorrect == Spec => RevertedIsGone
<1> DEFINE Marked(k) ==
        log'[k].reverted /\ ~log[k].reverted =>
          /\ Promotion(k) /\ Due(k)
          /\ \A t \in Patterns : commits[log[k].sha].plus \cap (file[t] \cup index[t] \cup head[t]) = {}
<1>1. ASSUME IInv, Next, NEW k \in DOMAIN log PROVE Marked(k)
  <2>1. CASE LogRevert
    <3>1. k # run.row => log'[k] = log[k]
      BY <2>1 DEF LogRevert
    <3>2. Promotion(run.row) /\ log[run.row].day + RollbackAge < day /\ RowGone(run.row)
      BY <1>1, <2>1 DEF LogRevert, IInv, RunOK
    <3> QED
      BY <3>1, <3>2 DEF Due, RowGone
  <2>2. CASE LogApply
    <3>1. log \in Seq(Row) /\ \E row : log' = Append(log, row)
      BY <1>1, <2>2 DEF LogApply, IInv, LogOK
    <3> QED
      BY <3>1
  <2>3. CASE ~LogRevert /\ ~LogApply
    <3>1. log' = log
      BY <1>1, <2>3 DEF Next, ApplyStep, Propose, StartApply, GitRevert, RevertUnlogged, LoadProposals,
             Stage, Commit, CommitFails, Ship, EndApply, Die, CheckRow, WriteRecipe, SkipRecipe, NextDay, repo
    <3> QED
      BY <3>1
  <2> QED
    BY <2>1, <2>2, <2>3
<1>2. IInv /\ [Next]_vars => [\A k \in DOMAIN log : Marked(k)]_vars
  BY <1>1
<1> QED
  BY <1>2, Inductive, PTL DEF Spec, RevertedIsGone

\* A setting or an anti-pattern is written a second time only when the commit of
\* a promotion had taken the first along: no other revert takes it out, and a run
\* that died between writing and committing is not repeated (apply_r_config,
\* apply_r_add_ap).
THEOREM FixedTextsOnceCorrect == Spec => []FixedTextsOnce
BY Inductive, PTL DEF IInv
=============================================================================
