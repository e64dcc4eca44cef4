----------------------- MODULE EvidenceLedger_proofs -----------------------
(***************************************************************************)
(* Proofs about EvidenceLedger for every set of invocations, accounts and  *)
(* payloads: the types, the ceiling of every account, the agreement of the *)
(* rows with each other and with the signed log, and finality; that the    *)
(* running counters implement SharedBudget; and that an audit passes.      *)
(***************************************************************************)
EXTENDS EvidenceLedger, FiniteSetTheorems, TLAPS

\* A reservation has a state when it has a row.
RowHasState == \A i \in Invocations : payload[i] = None <=> state[i] = "none"

LedgerInv == TypeOK /\ RowHasState /\ WithinCeiling /\ RowsAgree /\ LogTellsAll

\* What the rows are about is typed (assumption on Calls).
LEMMA CallType ==
    ASSUME NEW c \in Calls
    PROVE  /\ c.invocation \in Invocations
           /\ c.limits \in [DOMAIN c.limits -> Nat]
           /\ DOMAIN c.limits \subseteq Accounts
           /\ DOMAIN c.bindings \subseteq Scopes
           /\ c.bindings \in [DOMAIN c.bindings -> Objects]
           /\ c.amount \in Nat
           /\ c # None
           /\ \A a \in DOMAIN c.limits : TermsOf(c, a) \in Terms /\ TermsOf(c, a) # None
<1>1. /\ c.invocation \in Invocations
      /\ c.limits \in [DOMAIN c.limits -> Nat]
      /\ DOMAIN c.limits \subseteq Accounts
      /\ DOMAIN c.bindings \subseteq Scopes
      /\ c.bindings \in [DOMAIN c.bindings -> Objects]
      /\ c.amount \in Nat
      /\ c.currency \in Currencies
      /\ c # None
  BY EvidenceLedgerAssumption
<1>2. ASSUME NEW a \in DOMAIN c.limits
      PROVE  TermsOf(c, a) \in Terms /\ TermsOf(c, a) # None
  <2>1. c.limits[a] \in Nat
    BY <1>1
  <2>2. TermsOf(c, a) \in Terms
    BY <1>1, <2>1 DEF TermsOf, Terms
  <2> QED BY <2>2, EvidenceLedgerAssumption
<1> QED BY <1>1, <1>2

\* What an append leaves of the log: the old events at their places, and one more.
LEMMA AppendFacts ==
    ASSUME NEW S, NEW log \in Seq(S), NEW e \in S
    PROVE  /\ Append(log, e) \in Seq(S)
           /\ Len(log) \in Nat
           /\ DOMAIN log = 1 .. Len(log)
           /\ DOMAIN Append(log, e) = 1 .. Len(log) + 1
           /\ \A n \in DOMAIN log : Append(log, e)[n] = log[n] /\ log[n] \in S
           /\ Append(log, e)[Len(log) + 1] = e
  OBVIOUS

LEMMA InitInv == Init => LedgerInv
<1> SUFFICES ASSUME Init PROVE LedgerInv
  OBVIOUS
<1>1. TypeOK
  BY DEF Init, TypeOK
<1>2. RowHasState /\ WithinCeiling /\ RowsAgree
  BY DEF Init, RowHasState, WithinCeiling, RowsAgree
<1>3. LogTellsAll
  BY DEF Init, LogTellsAll, ReservationsLogged, SettlementsLogged, LoggedOnce
<1> QED BY <1>1, <1>2, <1>3 DEF LedgerInv

-----------------------------------------------------------------------------
(* reserve *)

LEMMA ReserveType ==
    ASSUME LedgerInv, NEW c \in Calls, NEW checkpoint, Reserve(c, checkpoint)
    PROVE  /\ terms' \in [Accounts -> Terms \cup {None}]
           /\ reserved' \in [Accounts -> Int]
           /\ spent' \in [Accounts -> Nat]
           /\ payload' \in [Invocations -> Calls \cup {None}]
           /\ state' \in [Invocations -> {"none", "reserved", "consume", "release"}]
           /\ consumed' \in [Invocations -> Nat]
           /\ bound' \in [Scopes -> Objects \cup {None}]
           /\ events' \in Seq(Event)
<1> USE DEF LedgerInv, TypeOK
<1>1. terms' \in [Accounts -> Terms \cup {None}]
  BY CallType DEF Reserve, Reservable
<1>2. reserved' \in [Accounts -> Int]
  BY CallType DEF Reserve, Reservable
<1>3. bound' \in [Scopes -> Objects \cup {None}]
  BY CallType DEF Reserve, Reservable
<1>4. events' \in Seq(Event)
  BY AppendFacts DEF Reserve, Reservable, Logged, Event
<1>5. /\ payload' \in [Invocations -> Calls \cup {None}]
      /\ state' \in [Invocations -> {"none", "reserved", "consume", "release"}]
      /\ spent' \in [Accounts -> Nat]
      /\ consumed' \in [Invocations -> Nat]
  BY CallType DEF Reserve, Reservable
<1> QED BY <1>1, <1>2, <1>3, <1>4, <1>5

LEMMA ReserveRows ==
    ASSUME LedgerInv, NEW c \in Calls, NEW checkpoint, Reserve(c, checkpoint)
    PROVE  RowHasState' /\ WithinCeiling' /\ RowsAgree'
<1> USE DEF LedgerInv, TypeOK
<1>1. RowHasState'
  BY CallType DEF Reserve, Reservable, RowHasState
<1>2. ASSUME NEW a \in Accounts
      PROVE  IF terms'[a] = None THEN reserved'[a] = 0 /\ spent'[a] = 0
             ELSE reserved'[a] + spent'[a] <= terms'[a].ceiling
  <2>1. CASE a \in DOMAIN c.limits
    <3>1. terms'[a] = TermsOf(c, a) /\ terms'[a] # None
      BY <2>1, CallType DEF Reserve, Reservable
    <3>2. terms'[a].ceiling = c.limits[a]
      BY <3>1 DEF TermsOf
    <3>3. reserved'[a] = reserved[a] + c.amount /\ spent'[a] = spent[a]
      BY <2>1 DEF Reserve, Reservable
    <3>4. reserved[a] + spent[a] + c.amount <= c.limits[a]
      BY <2>1 DEF Reserve, Reservable, WithinBudget
    <3>5. /\ reserved[a] \in Int /\ spent[a] \in Int /\ c.amount \in Int
          /\ c.limits[a] \in Int
      BY <2>1, CallType
    <3> QED BY <3>1, <3>2, <3>3, <3>4, <3>5
  <2>2. CASE a \notin DOMAIN c.limits
    <3>1. terms'[a] = terms[a] /\ reserved'[a] = reserved[a] /\ spent'[a] = spent[a]
      BY <2>2 DEF Reserve, Reservable
    <3> QED BY <3>1 DEF WithinCeiling
  <2> QED BY <2>1, <2>2
<1>3. ASSUME NEW i \in Invocations, payload'[i] # None
      PROVE  /\ \A j \in Invocations \ {i} :
                    payload'[j] # None => payload'[j].nonce # payload'[i].nonce
             /\ \A s \in DOMAIN payload'[i].bindings : bound'[s] = payload'[i].bindings[s]
             /\ \A a \in DOMAIN payload'[i].limits : terms'[a] = TermsOf(payload'[i], a)
  <2>1. /\ payload'[c.invocation] = c
        /\ \A j \in Invocations \ {c.invocation} : payload'[j] = payload[j]
    BY CallType DEF Reserve, Reservable
  <2>2. \A j \in Invocations : payload[j] # None => payload[j].nonce # c.nonce
    BY DEF Reserve, Reservable, NonceFree
  <2>3. CASE i = c.invocation
    <3>1. payload'[i] = c
      BY <2>1, <2>3
    <3>2. \A j \in Invocations \ {i} : payload'[j] # None => payload'[j].nonce # payload'[i].nonce
      BY <2>1, <2>2, <2>3
    <3>3. \A s \in DOMAIN c.bindings : bound'[s] = c.bindings[s]
      BY CallType DEF Reserve, Reservable
    <3>4. \A a \in DOMAIN c.limits : terms'[a] = TermsOf(c, a)
      BY CallType DEF Reserve, Reservable
    <3> QED BY <3>1, <3>2, <3>3, <3>4
  <2>4. CASE i # c.invocation
    <3>1. payload'[i] = payload[i] /\ payload[i] \in Calls
      BY <2>1, <2>4, <1>3
    <3>2. ASSUME NEW j \in Invocations \ {i}, payload'[j] # None
          PROVE  payload'[j].nonce # payload'[i].nonce
      <4>1. CASE j = c.invocation
        BY <4>1, <2>1, <2>2, <3>1, <1>3
      <4>2. CASE j # c.invocation
        <5>1. payload'[j] = payload[j]
          BY <4>2, <2>1
        <5>2. i \in {k \in Invocations : payload[k] # None}
          BY <1>3, <3>1
        <5> QED BY <5>1, <5>2, <3>1, <3>2 DEF RowsAgree
      <4> QED BY <4>1, <4>2
    <3>3. ASSUME NEW s \in DOMAIN payload[i].bindings
          PROVE  bound'[s] = payload[i].bindings[s]
      <4>1. bound[s] = payload[i].bindings[s] /\ s \in Scopes /\ bound[s] # None
        BY <1>3, <3>1, CallType, EvidenceLedgerAssumption DEF RowsAgree
      <4>2. s \in DOMAIN c.bindings => c.bindings[s] = bound[s]
        BY <4>1 DEF Reserve, Reservable, Bindable
      <4> QED BY <4>1, <4>2 DEF Reserve, Reservable
    <3>4. ASSUME NEW a \in DOMAIN payload[i].limits
          PROVE  terms'[a] = TermsOf(payload[i], a)
      <4>1. terms[a] = TermsOf(payload[i], a) /\ a \in Accounts /\ terms[a] # None
        BY <1>3, <3>1, CallType DEF RowsAgree
      <4>2. a \in DOMAIN c.limits => TermsOf(c, a) = terms[a]
        BY <4>1 DEF Reserve, Reservable, WithinBudget
      <4> QED BY <4>1, <4>2 DEF Reserve, Reservable
    <3> QED BY <3>1, <3>2, <3>3, <3>4
  <2> QED BY <2>3, <2>4
<1>4. WithinCeiling'
  BY <1>2 DEF WithinCeiling
<1>5. RowsAgree'
  BY <1>3 DEF RowsAgree, TermsOf
<1> QED BY <1>1, <1>4, <1>5

LEMMA ReserveLog ==
    ASSUME LedgerInv, NEW c \in Calls, NEW checkpoint, Reserve(c, checkpoint)
    PROVE  LogTellsAll'
<1> USE DEF LedgerInv, TypeOK
<1> DEFINE e == [action |-> "reserve", payload |-> c]
           last == Len(events) + 1
<1>1. e \in Event /\ events' = Append(events, e)
  BY DEF Reserve, Reservable, Logged, Event
<1>2. /\ last \in Nat \ {0} /\ DOMAIN events = 1 .. last - 1 /\ DOMAIN events' = 1 .. last
      /\ events'[last] = e
      /\ \A n \in DOMAIN events : n \in DOMAIN events' /\ events'[n] = events[n] /\ events[n] \in Event
  <2>1. events \in Seq(Event)
    OBVIOUS
  <2> HIDE DEF e
  <2> QED BY <1>1, <2>1, AppendFacts
<1>3. /\ payload[c.invocation] = None /\ state[c.invocation] = "none"
      /\ payload'[c.invocation] = c /\ state'[c.invocation] = "reserved"
      /\ \A i \in Invocations \ {c.invocation} : payload'[i] = payload[i] /\ state'[i] = state[i]
      /\ consumed' = consumed
  BY CallType DEF Reserve, Reservable, RowHasState
<1> HIDE DEF last
<1>4. ReservationsLogged'
  <2> SUFFICES ASSUME NEW i \in Invocations, payload'[i] # None
               PROVE  \E n \in DOMAIN events' :
                          events'[n] = [action |-> "reserve", payload |-> payload'[i]]
    BY DEF ReservationsLogged
  <2>1. CASE i = c.invocation
    <3>1. last \in DOMAIN events' /\ events'[last] = e
      BY <1>2
    <3>2. e = [action |-> "reserve", payload |-> payload'[i]]
      BY <2>1, <1>3
    <3> QED BY <3>1, <3>2
  <2>2. CASE i # c.invocation
    <3>1. PICK n \in DOMAIN events : events[n] = [action |-> "reserve", payload |-> payload[i]]
      BY <2>2, <1>3 DEF LogTellsAll, ReservationsLogged
    <3> QED BY <3>1, <2>2, <1>2, <1>3
  <2> QED BY <2>1, <2>2
<1>5. SettlementsLogged'
  <2> SUFFICES ASSUME NEW i \in Invocations, state'[i] \in {"consume", "release"}
               PROVE  \E m, n \in DOMAIN events' :
                        /\ m < n
                        /\ events'[m] = [action |-> "reserve", payload |-> payload'[i]]
                        /\ events'[n] = [action |-> state'[i], invocation |-> i,
                                         amount |-> consumed'[i]]
    BY DEF SettlementsLogged
  <2>1. i # c.invocation
    BY <1>3
  <2>2. PICK m \in DOMAIN events, n \in DOMAIN events :
             /\ m < n
             /\ events[m] = [action |-> "reserve", payload |-> payload[i]]
             /\ events[n] = [action |-> state[i], invocation |-> i, amount |-> consumed[i]]
    BY <2>1, <1>3 DEF LogTellsAll, SettlementsLogged
  <2> QED BY <2>1, <2>2, <1>2, <1>3
<1>6. LoggedOnce'
  <2>1. ASSUME NEW n \in DOMAIN events
        PROVE  /\ Subject(events[n]) \in Invocations \ {c.invocation}
               /\ Reserves(events[n]) => payload'[Subject(events[n])] = events[n].payload
               /\ Settles(events[n]) => state'[Subject(events[n])] = events[n].action
    <3>1. events[n] \in Event
      BY <1>2
    <3>2. CASE Reserves(events[n])
      <4>1. events[n].payload \in Calls
        BY <3>1, <3>2 DEF Event, Reserves
      <4>2. payload[Subject(events[n])] = events[n].payload
        BY <3>2 DEF LogTellsAll, LoggedOnce
      <4>3. Subject(events[n]) \in Invocations
        BY <4>1, <3>2, CallType DEF Subject
      <4>4. Subject(events[n]) # c.invocation
        BY <4>1, <4>2, <1>3, CallType
      <4> QED BY <4>2, <4>3, <4>4, <3>2, <1>3 DEF Reserves, Settles
    <3>3. CASE ~Reserves(events[n])
      <4>1. events[n].action \in {"consume", "release"} /\ events[n].invocation \in Invocations
        BY <3>1, <3>3 DEF Event, Reserves
      <4>2. state[Subject(events[n])] = events[n].action
        BY <3>3 DEF LogTellsAll, LoggedOnce, Reserves, Settles
      <4>3. Subject(events[n]) = events[n].invocation
        BY <3>3 DEF Subject
      <4> QED BY <4>1, <4>2, <4>3, <3>3, <1>3 DEF Settles, Reserves
    <3> QED BY <3>2, <3>3
  <2>2. Reserves(e) /\ ~Settles(e) /\ Subject(e) = c.invocation /\ e.payload = c
    BY DEF Reserves, Settles, Subject
  <2> HIDE DEF e
  <2> SUFFICES ASSUME NEW n \in DOMAIN events'
               PROVE  /\ Reserves(events'[n]) => payload'[Subject(events'[n])] = events'[n].payload
                      /\ Settles(events'[n]) => state'[Subject(events'[n])] = events'[n].action
                      /\ \A m \in DOMAIN events' :
                            /\ Subject(events'[m]) = Subject(events'[n])
                            /\ Reserves(events'[m]) <=> Reserves(events'[n])
                            => m = n
    BY DEF LoggedOnce, Reserves, Settles, Subject
  <2>3. \A m \in DOMAIN events' : m = last \/ m \in DOMAIN events
    BY <1>2
  <2>4. \A m \in DOMAIN events : Subject(events'[m]) # c.invocation
    BY <2>1, <1>2
  <2>5. CASE n = last
    BY <2>5, <2>2, <2>3, <2>4, <1>2, <1>3
  <2>6. CASE n \in DOMAIN events
    <3>1. \A m \in DOMAIN events :
              /\ Subject(events[m]) = Subject(events[n])
              /\ Reserves(events[m]) <=> Reserves(events[n])
              => m = n
      BY <2>6 DEF LogTellsAll, LoggedOnce
    <3>2. events'[n] = events[n] /\ Subject(events[n]) # c.invocation
      BY <2>6, <2>1, <1>2
    <3>3. ASSUME NEW m \in DOMAIN events', Subject(events'[m]) = Subject(events'[n]),
                 Reserves(events'[m]) <=> Reserves(events'[n])
          PROVE  m = n
      <4>1. m # last
        BY <3>2, <3>3, <2>2, <1>2
      <4>2. m \in DOMAIN events /\ events'[m] = events[m]
        BY <4>1, <2>3, <1>2
      <4> QED BY <4>2, <3>1, <3>2, <3>3
    <3> QED BY <3>2, <3>3, <2>6, <2>1
  <2> QED BY <2>3, <2>5, <2>6
<1> QED BY <1>4, <1>5, <1>6 DEF LogTellsAll

-----------------------------------------------------------------------------
(* finish *)

\* What finish reads: an open reservation has a row, typed and charged to
\* accounts opened under its terms.
LEMMA OpenRow ==
    ASSUME LedgerInv, NEW i \in Invocations, Open(i)
    PROVE  /\ payload[i] \in Calls
           /\ payload[i].amount \in Nat
           /\ DOMAIN payload[i].limits \subseteq Accounts
           /\ \A a \in DOMAIN payload[i].limits : terms[a] # None
<1>1. payload[i] # None /\ payload[i] \in Calls
  BY DEF LedgerInv, TypeOK, RowHasState, Open
<1>2. \A a \in DOMAIN payload[i].limits : terms[a] = TermsOf(payload[i], a)
  BY <1>1 DEF LedgerInv, RowsAgree
<1> QED BY <1>1, <1>2, CallType

LEMMA FinishType ==
    ASSUME LedgerInv, NEW i \in Invocations, NEW action \in {"consume", "release"},
           NEW amount \in Amounts, Finish(i, action, amount)
    PROVE  /\ terms' \in [Accounts -> Terms \cup {None}]
           /\ reserved' \in [Accounts -> Int]
           /\ spent' \in [Accounts -> Nat]
           /\ payload' \in [Invocations -> Calls \cup {None}]
           /\ state' \in [Invocations -> {"none", "reserved", "consume", "release"}]
           /\ consumed' \in [Invocations -> Nat]
           /\ bound' \in [Scopes -> Objects \cup {None}]
           /\ events' \in Seq(Event)
<1> USE DEF LedgerInv, TypeOK
<1>1. amount \in Nat
  BY EvidenceLedgerAssumption
<1>2. Open(i) /\ payload[i].amount \in Nat
  BY OpenRow DEF Finish
<1>3. reserved' \in [Accounts -> Int] /\ spent' \in [Accounts -> Nat]
  BY <1>1, <1>2 DEF Finish
<1>4. events' \in Seq(Event)
  <2>1. [action |-> action, invocation |-> i, amount |-> amount] \in Event
    BY <1>1 DEF Event
  <2> QED BY <2>1, AppendFacts DEF Finish, Logged
<1>5. /\ state' \in [Invocations -> {"none", "reserved", "consume", "release"}]
      /\ consumed' \in [Invocations -> Nat]
      /\ UNCHANGED <<terms, payload, bound>>
  BY <1>1 DEF Finish
<1> QED BY <1>3, <1>4, <1>5

LEMMA FinishRows ==
    ASSUME LedgerInv, NEW i \in Invocations, NEW action \in {"consume", "release"},
           NEW amount \in Amounts, Finish(i, action, amount)
    PROVE  RowHasState' /\ WithinCeiling' /\ RowsAgree'
<1> USE DEF LedgerInv, TypeOK
<1>1. /\ amount \in Nat /\ Open(i) /\ payload[i].amount \in Nat /\ amount <= payload[i].amount
      /\ UNCHANGED <<terms, payload, bound>>
  BY OpenRow, EvidenceLedgerAssumption DEF Finish
<1>2. RowHasState'
  BY <1>1 DEF Finish, RowHasState, Open
<1>3. ASSUME NEW a \in Accounts
      PROVE  IF terms'[a] = None THEN reserved'[a] = 0 /\ spent'[a] = 0
             ELSE reserved'[a] + spent'[a] <= terms'[a].ceiling
  <2>1. CASE a \in DOMAIN payload[i].limits
    <3>1. terms[a] # None /\ terms[a].ceiling \in Nat
      BY <2>1, <1>1, OpenRow DEF Terms
    <3>2. reserved[a] + spent[a] <= terms[a].ceiling
      BY <3>1 DEF WithinCeiling
    <3>3. /\ reserved'[a] = reserved[a] - payload[i].amount
          /\ spent'[a] = spent[a] + amount
      BY <2>1 DEF Finish
    <3>4. reserved[a] \in Int /\ spent[a] \in Int
      OBVIOUS
    <3> QED BY <3>1, <3>2, <3>3, <3>4, <1>1
  <2>2. CASE a \notin DOMAIN payload[i].limits
    <3>1. reserved'[a] = reserved[a] /\ spent'[a] = spent[a]
      BY <2>2 DEF Finish
    <3> QED BY <3>1, <1>1 DEF WithinCeiling
  <2> QED BY <2>1, <2>2
<1>4. WithinCeiling'
  BY <1>3 DEF WithinCeiling
<1>5. RowsAgree'
  BY <1>1 DEF RowsAgree, TermsOf
<1> QED BY <1>2, <1>4, <1>5

LEMMA FinishLog ==
    ASSUME LedgerInv, NEW i \in Invocations, NEW action \in {"consume", "release"},
           NEW amount \in Amounts, Finish(i, action, amount)
    PROVE  LogTellsAll'
<1> USE DEF LedgerInv, TypeOK
<1> DEFINE e == [action |-> action, invocation |-> i, amount |-> amount]
           last == Len(events) + 1
<1>1. e \in Event /\ events' = Append(events, e)
  BY EvidenceLedgerAssumption DEF Finish, Logged, Event
<1>2. /\ last \in Nat \ {0} /\ DOMAIN events = 1 .. last - 1 /\ DOMAIN events' = 1 .. last
      /\ events'[last] = e
      /\ \A n \in DOMAIN events : n \in DOMAIN events' /\ events'[n] = events[n] /\ events[n] \in Event
  <2>1. events \in Seq(Event)
    OBVIOUS
  <2> HIDE DEF e
  <2> QED BY <1>1, <2>1, AppendFacts
<1>3. /\ state[i] = "reserved" /\ payload[i] # None
      /\ state'[i] = action /\ consumed'[i] = amount
      /\ \A j \in Invocations \ {i} : state'[j] = state[j] /\ consumed'[j] = consumed[j]
      /\ payload' = payload
  BY DEF Finish, Open, RowHasState
<1> HIDE DEF last
<1>4. ReservationsLogged'
  <2> SUFFICES ASSUME NEW j \in Invocations, payload[j] # None
               PROVE  \E n \in DOMAIN events' :
                          events'[n] = [action |-> "reserve", payload |-> payload[j]]
    BY <1>3 DEF ReservationsLogged
  <2>1. PICK n \in DOMAIN events : events[n] = [action |-> "reserve", payload |-> payload[j]]
    BY DEF LogTellsAll, ReservationsLogged
  <2> QED BY <2>1, <1>2
<1>5. SettlementsLogged'
  <2> SUFFICES ASSUME NEW j \in Invocations, state'[j] \in {"consume", "release"}
               PROVE  \E m, n \in DOMAIN events' :
                        /\ m < n
                        /\ events'[m] = [action |-> "reserve", payload |-> payload[j]]
                        /\ events'[n] = [action |-> state'[j], invocation |-> j,
                                         amount |-> consumed'[j]]
    BY <1>3 DEF SettlementsLogged
  <2>1. CASE j = i
    <3>1. PICK m \in DOMAIN events : events[m] = [action |-> "reserve", payload |-> payload[i]]
      BY <1>3 DEF LogTellsAll, ReservationsLogged
    <3>2. m < last /\ last \in DOMAIN events' /\ events'[last] = e
      BY <1>2
    <3> QED BY <2>1, <3>1, <3>2, <1>2, <1>3
  <2>2. CASE j # i
    <3>1. state'[j] = state[j] /\ consumed'[j] = consumed[j]
      BY <2>2, <1>3
    <3>2. PICK m \in DOMAIN events, n \in DOMAIN events :
               /\ m < n
               /\ events[m] = [action |-> "reserve", payload |-> payload[j]]
               /\ events[n] = [action |-> state[j], invocation |-> j, amount |-> consumed[j]]
      BY <3>1 DEF LogTellsAll, SettlementsLogged
    <3> QED BY <3>1, <3>2, <1>2
  <2> QED BY <2>1, <2>2
<1>6. LoggedOnce'
  <2>1. ASSUME NEW n \in DOMAIN events
        PROVE  /\ Reserves(events[n]) => payload[Subject(events[n])] = events[n].payload
               /\ Settles(events[n]) => /\ Subject(events[n]) # i
                                        /\ state'[Subject(events[n])] = events[n].action
    <3>1. events[n] \in Event
      BY <1>2
    <3>2. CASE Reserves(events[n])
      BY <3>2 DEF LogTellsAll, LoggedOnce, Reserves, Settles
    <3>3. CASE ~Reserves(events[n])
      <4>1. events[n].action \in {"consume", "release"} /\ events[n].invocation \in Invocations
        BY <3>1, <3>3 DEF Event, Reserves
      <4>2. state[Subject(events[n])] = events[n].action
        BY <3>3 DEF LogTellsAll, LoggedOnce, Reserves, Settles
      <4>3. Subject(events[n]) = events[n].invocation
        BY <3>3 DEF Subject
      <4> QED BY <4>1, <4>2, <4>3, <3>3, <1>3
    <3> QED BY <3>2, <3>3
  <2>2. ~Reserves(e) /\ Settles(e) /\ Subject(e) = i /\ e.action = action
    BY DEF Reserves, Settles, Subject
  <2> HIDE DEF e
  <2> SUFFICES ASSUME NEW n \in DOMAIN events'
               PROVE  /\ Reserves(events'[n]) => payload[Subject(events'[n])] = events'[n].payload
                      /\ Settles(events'[n]) => state'[Subject(events'[n])] = events'[n].action
                      /\ \A m \in DOMAIN events' :
                            /\ Subject(events'[m]) = Subject(events'[n])
                            /\ Reserves(events'[m]) <=> Reserves(events'[n])
                            => m = n
    BY <1>3 DEF LoggedOnce, Reserves, Settles, Subject
  <2>3. \A m \in DOMAIN events' : m = last \/ m \in DOMAIN events
    BY <1>2
  <2>4. \A m \in DOMAIN events : Reserves(events'[m]) \/ Subject(events'[m]) # i
    BY <2>1, <1>2 DEF Reserves, Settles
  <2>5. CASE n = last
    BY <2>5, <2>2, <2>3, <2>4, <1>2, <1>3
  <2>6. CASE n \in DOMAIN events
    <3>1. \A m \in DOMAIN events :
              /\ Subject(events[m]) = Subject(events[n])
              /\ Reserves(events[m]) <=> Reserves(events[n])
              => m = n
      BY <2>6 DEF LogTellsAll, LoggedOnce
    <3>2. events'[n] = events[n] /\ (Reserves(events[n]) \/ Subject(events[n]) # i)
      BY <2>6, <2>4, <1>2
    <3>3. ASSUME NEW m \in DOMAIN events', Subject(events'[m]) = Subject(events'[n]),
                 Reserves(events'[m]) <=> Reserves(events'[n])
          PROVE  m = n
      <4>1. m # last
        BY <3>2, <3>3, <2>2, <1>2
      <4>2. m \in DOMAIN events /\ events'[m] = events[m]
        BY <4>1, <2>3, <1>2
      <4> QED BY <4>2, <3>1, <3>2, <3>3
    <3> QED BY <3>2, <3>3, <2>6, <2>1
  <2> QED BY <2>3, <2>5, <2>6
<1> QED BY <1>4, <1>5, <1>6 DEF LogTellsAll

-----------------------------------------------------------------------------
(* The theorems *)

\* The audit steps touch neither the tables nor what they are about.
LEMMA TablesKept ==
    ASSUME LedgerInv, UNCHANGED tables
    PROVE  /\ RowHasState' /\ WithinCeiling' /\ RowsAgree' /\ LogTellsAll'
           /\ terms' \in [Accounts -> Terms \cup {None}]
           /\ reserved' \in [Accounts -> Int]
           /\ spent' \in [Accounts -> Nat]
           /\ payload' \in [Invocations -> Calls \cup {None}]
           /\ state' \in [Invocations -> {"none", "reserved", "consume", "release"}]
           /\ consumed' \in [Invocations -> Nat]
           /\ bound' \in [Scopes -> Objects \cup {None}]
           /\ events' \in Seq(Event)
<1> USE DEF tables, accounts, reservations
<1>1. RowHasState' /\ WithinCeiling' /\ RowsAgree'
  BY DEF LedgerInv, RowHasState, WithinCeiling, RowsAgree, TermsOf
<1>2. ReservationsLogged' /\ SettlementsLogged' /\ LoggedOnce'
  BY DEF LedgerInv, LogTellsAll, ReservationsLogged, SettlementsLogged, LoggedOnce,
         Reserves, Settles, Subject
<1> QED BY <1>1, <1>2 DEF LedgerInv, LogTellsAll, TypeOK

\* A step changes the tables by one reserve, by one finish, or not at all.
LEMMA StepInv == LedgerInv /\ [Next]_vars => LedgerInv'
<1> SUFFICES ASSUME LedgerInv, [Next]_vars PROVE LedgerInv'
  OBVIOUS
<1>1. ASSUME NEW c \in Calls, NEW checkpoint \in Exported, Reserve(c, checkpoint),
             UNCHANGED auditor
      PROVE  LedgerInv'
  BY <1>1, ReserveType, ReserveRows, ReserveLog DEF LedgerInv, TypeOK, auditor
<1>2. ASSUME NEW i \in Invocations, NEW action \in {"consume", "release"},
             NEW amount \in Amounts, Finish(i, action, amount), UNCHANGED auditor
      PROVE  LedgerInv'
  BY <1>2, FinishType, FinishRows, FinishLog DEF LedgerInv, TypeOK, auditor
<1>3. ASSUME NEW checkpoint \in Exported, AuditBegin(checkpoint)
      PROVE  LedgerInv'
  <2>1. checkpoint \in Seq(Event)
    <3>1. <<>> \in Seq(Event) /\ events \in Seq(Event)
      BY DEF LedgerInv, TypeOK
    <3> QED BY <3>1 DEF Exported
  <2> QED BY <1>3, <2>1, TablesKept DEF LedgerInv, TypeOK, AuditBegin
<1>4. CASE AuditEnd
  <2>1. verdict' \in {"none", "ok", "INVALID", "UNAVAILABLE"}
    BY <1>4 DEF AuditEnd, Audit
  <2> QED BY <1>4, <2>1, TablesKept DEF LedgerInv, TypeOK, AuditEnd
<1>5. CASE UNCHANGED vars
  BY <1>5, TablesKept DEF LedgerInv, TypeOK, vars, auditor
<1> QED BY <1>1, <1>2, <1>3, <1>4, <1>5 DEF Next

THEOREM LedgerCorrect == Spec => []LedgerInv
<1> QED BY InitInv, StepInv, PTL DEF Spec

\* Every variable keeps its type: TypeOK of the ledger tables and the auditor.
THEOREM TypeCorrect == Spec => []TypeOK
<1>1. LedgerInv => TypeOK
  BY DEF LedgerInv
<1> QED BY <1>1, LedgerCorrect, PTL

\* No interleaving of reserve and finish overruns an account's ceiling.
THEOREM WithinCeilingCorrect == Spec => []WithinCeiling
<1>1. LedgerInv => WithinCeiling
  BY DEF LedgerInv
<1> QED BY <1>1, LedgerCorrect, PTL

\* Nonces, authority bindings and account terms agree across all reservations.
THEOREM RowsAgreeCorrect == Spec => []RowsAgree
<1>1. LedgerInv => RowsAgree
  BY DEF LedgerInv
<1> QED BY <1>1, LedgerCorrect, PTL

\* The signed log and the reservation rows tell one story.
THEOREM LogTellsAllCorrect == Spec => []LogTellsAll
<1>1. LedgerInv => LogTellsAll
  BY DEF LedgerInv
<1> QED BY <1>1, LedgerCorrect, PTL

\* A settled reservation never changes, nor does a recorded payload.
THEOREM SettledIsFinalCorrect == Spec => SettledIsFinal
<1> DEFINE Kept == \A i \in Invocations :
                      /\ payload[i] # None => payload'[i] = payload[i]
                      /\ state[i] \in {"consume", "release"} =>
                             state'[i] = state[i] /\ consumed'[i] = consumed[i]
<1>1. LedgerInv /\ [Next]_vars => [Kept]_vars
  <2> SUFFICES ASSUME LedgerInv, Next PROVE Kept
    OBVIOUS
  <2>1. ASSUME NEW c \in Calls, NEW checkpoint \in Exported, Reserve(c, checkpoint)
        PROVE  Kept
    BY <2>1, CallType DEF Reserve, Reservable, LedgerInv, TypeOK, RowHasState
  <2>2. ASSUME NEW i \in Invocations, NEW action \in {"consume", "release"},
               NEW amount \in Amounts, Finish(i, action, amount)
        PROVE  Kept
    BY <2>2 DEF Finish, Open, LedgerInv, TypeOK
  <2>3. ASSUME UNCHANGED tables PROVE Kept
    BY <2>3 DEF tables, reservations
  <2> QED BY <2>1, <2>2, <2>3 DEF Next, AuditBegin, AuditEnd
<1> QED BY <1>1, LedgerCorrect, PTL DEF Spec, SettledIsFinal

-----------------------------------------------------------------------------
(***************************************************************************)
(* Facts about folds.  The sums of charges and the replay of the log are    *)
(* folds over finite sets, and MapThenFoldSet is a recursive function       *)
(* picked by CHOOSE: each fact needs that the function exists (Exists) and  *)
(* is determined (Agree).  Both are shown by taking a smallest set that     *)
(* would refute them: subsets of a finite set are well founded under strict *)
(* inclusion.  The facts are the same for the two folds, so they are stated *)
(* for a fold k, a "sum" or a "replay".                                     *)
(***************************************************************************)

Pick(S) == CHOOSE x \in S : TRUE
Undo(e, r) == Redo(r, e)
Total(f, S) == MapThenFoldSet(+, 0, LAMBDA i : f[i], Pick, S)
Redone(log, S) == MapThenFoldSet(Undo, Blank, LAMBDA i : log[i], Max, S)
Fold(k, f, S) == IF k = "sum" THEN Total(f, S) ELSE Redone(f, S)

\* What is done with the value of an element and the rest, what the empty set
\* folds to, and the element that comes first.
Op(k, v, w) == IF k = "sum" THEN v + w ELSE Undo(v, w)
Base(k) == IF k = "sum" THEN 0 ELSE Blank
First(k, S) == IF k = "sum" THEN Pick(S) ELSE Max(S)

\* One round of the recursion, and what a function is that solves it on S.
Step(k, f, g, s) ==
    IF s = {} THEN Base(k) ELSE Op(k, f[First(k, s)], g[s \ {First(k, s)}])
Iterates(k, f, g, S) == g = [s \in SUBSET S |-> Step(k, f, g, s)]

\* An element of every nonempty part of S comes first in it.
Chooses(k, S) == \A T \in SUBSET S : T # {} => First(k, T) \in T

\* Values of V may be taken in any order.
Commutes(k, V) == /\ Base(k) \in V
                  /\ \A v, w \in V : Op(k, v, w) \in V
                  /\ \A u, v, w \in V : Op(k, u, Op(k, v, w)) = Op(k, v, Op(k, u, w))

\* A nonempty set of subsets of a finite set has a minimal member.
LEMMA Smallest ==
    ASSUME NEW S, IsFiniteSet(S), NEW Bad \in SUBSET (SUBSET S), Bad # {}
    PROVE  \E T \in Bad : \A U \in SUBSET T : U # T => U \notin Bad
<1>1. IsWellFoundedOn(StrictSubsetOrdering(S), SUBSET S)
  BY FS_StrictSubsetOrderingWellFounded, FS_FiniteSubsetsOfFinite
<1>2. PICK T \in Bad : \A U \in Bad : <<U, T>> \notin StrictSubsetOrdering(S)
  BY <1>1, WFMin
<1>3. ASSUME NEW U \in SUBSET T, U # T, U \in Bad PROVE FALSE
  <2>1. <<U, T>> \in (SUBSET S) \X (SUBSET S) /\ U \subseteq T
    BY <1>3
  <2>2. <<U, T>> \in StrictSubsetOrdering(S)
    BY <2>1, <1>3 DEF StrictSubsetOrdering
  <2> QED BY <1>2, <1>3, <2>2
<1> QED BY <1>3

\* Two solutions of the recursion agree on S when the values do.
LEMMA Agree ==
    ASSUME NEW k \in {"sum", "replay"},
           NEW S, IsFiniteSet(S), Chooses(k, S), NEW f, NEW e, NEW g, NEW h, NEW A, NEW B,
           Iterates(k, f, g, A), Iterates(k, e, h, B), S \subseteq A, S \subseteq B,
           \A x \in S : f[x] = e[x]
    PROVE  g[S] = h[S]
<1> DEFINE Bad == {T \in SUBSET S : g[T] # h[T]}
<1>1. SUFFICES ASSUME Bad # {} PROVE FALSE
  OBVIOUS
<1>2. PICK T \in Bad : \A U \in SUBSET T : U # T => U \notin Bad
  <2>1. Bad \in SUBSET (SUBSET S)
    OBVIOUS
  <2> HIDE DEF Bad
  <2> QED BY <1>1, <2>1, Smallest
<1>3. T \in SUBSET A /\ T \in SUBSET B /\ T \subseteq S
  OBVIOUS
<1>4. g[T] = Step(k, f, g, T) /\ h[T] = Step(k, e, h, T)
  BY <1>3 DEF Iterates
<1>5. CASE T = {}
  BY <1>2, <1>4, <1>5 DEF Step
<1>6. CASE T # {}
  <2>1. First(k, T) \in T
    BY <1>3, <1>6 DEF Chooses
  <2>2. g[T \ {First(k, T)}] = h[T \ {First(k, T)}]
    BY <2>1, <1>2, <1>3
  <2>3. f[First(k, T)] = e[First(k, T)]
    BY <2>1, <1>3
  <2> QED BY <1>2, <1>4, <1>6, <2>2, <2>3 DEF Step
<1> QED BY <1>5, <1>6

\* The recursion has a solution on every finite set.
LEMMA Exists ==
    ASSUME NEW k \in {"sum", "replay"},
           NEW S, IsFiniteSet(S), Chooses(k, S), NEW f
    PROVE  \E g : Iterates(k, f, g, S)
<1> DEFINE Bad == {T \in SUBSET S : ~ \E g : Iterates(k, f, g, T)}
<1>1. SUFFICES ASSUME Bad # {} PROVE FALSE
  OBVIOUS
<1>2. PICK T \in Bad : \A U \in SUBSET T : U # T => U \notin Bad
  <2>1. Bad \in SUBSET (SUBSET S)
    OBVIOUS
  <2> HIDE DEF Bad
  <2> QED BY <1>1, <2>1, Smallest
<1>3. T \subseteq S
  OBVIOUS
<1> DEFINE it(U) == CHOOSE g : Iterates(k, f, g, U)
           g == [s \in SUBSET T |-> IF s = {} THEN Base(k)
                     ELSE Op(k, f[First(k, s)], it(s \ {First(k, s)})[s \ {First(k, s)}])]
<1>4. ASSUME NEW U \in SUBSET T, U # T PROVE Iterates(k, f, it(U), U)
  BY <1>2, <1>3, <1>4
<1>5. ASSUME NEW U \in SUBSET T, U # T PROVE g[U] = it(U)[U]
  <2>0. U \in SUBSET U /\ it(U)[U] = Step(k, f, it(U), U)
    <3>1. Iterates(k, f, it(U), U)
      BY <1>4, <1>5
    <3> HIDE DEF it
    <3> QED BY <3>1 DEF Iterates
  <2>1. CASE U = {}
    BY <2>0, <2>1 DEF Step
  <2>2. CASE U # {}
    <3> DEFINE V == U \ {First(k, U)}
    <3>1. First(k, U) \in U /\ V \subseteq T /\ V # T /\ V \subseteq U /\ IsFiniteSet(V) /\ Chooses(k, V)
      BY <1>3, <2>2, FS_Subset DEF Chooses
    <3>2. Iterates(k, f, it(U), U) /\ Iterates(k, f, it(V), V)
      BY <3>1, <1>4, <1>5
    <3>3. it(U)[V] = it(V)[V]
      <4> HIDE DEF V, it
      <4> QED BY <3>1, <3>2, Agree
    <3>4. g[U] = Op(k, f[First(k, U)], it(V)[V])
      BY <2>2
    <3>5. it(U)[U] = Op(k, f[First(k, U)], it(U)[V])
      <4> HIDE DEF it
      <4> QED BY <2>0, <2>2 DEF Step
    <3> QED BY <3>3, <3>4, <3>5
  <2> QED BY <2>1, <2>2
<1>6. Iterates(k, f, g, T)
  <2>1. ASSUME NEW s \in SUBSET T PROVE g[s] = Step(k, f, g, s)
    <3>1. CASE s = {}
      BY <3>1 DEF Step
    <3>2. CASE s # {}
      <4> DEFINE V == s \ {First(k, s)}
      <4>1. First(k, s) \in s /\ V \in SUBSET T /\ V # T
        BY <1>3, <3>2 DEF Chooses
      <4>2. g[V] = it(V)[V]
        <5> HIDE DEF V, g, it
        <5> QED BY <4>1, <1>5
      <4>3. g[s] = Op(k, f[First(k, s)], it(V)[V])
        BY <3>2
      <4> HIDE DEF g, it
      <4> QED BY <4>2, <4>3, <3>2 DEF Step
    <3> QED BY <3>1, <3>2
  <2> QED BY <2>1 DEF Iterates
<1> HIDE DEF g
<1> QED BY <1>2, <1>6

\* The fold of a set is the value of such a solution.
LEMMA FoldIs ==
    ASSUME NEW k \in {"sum", "replay"},
           NEW S, IsFiniteSet(S), Chooses(k, S), NEW f
    PROVE  \E g : Iterates(k, f, g, S) /\ Fold(k, f, S) = g[S]
<1>1. PICK g : Iterates(k, f, g, S)
  BY Exists
<1>2. CASE k = "sum"
  <2> DEFINE Is(h) == h = [s \in SUBSET S |-> IF s = {} THEN 0 ELSE f[Pick(s)] + h[s \ {Pick(s)}]]
             it == CHOOSE h : Is(h)
  <2>1. \A h : Is(h) <=> Iterates(k, f, h, S)
    BY <1>2 DEF Iterates, Step, Base, Op, First
  <2>2. Fold(k, f, S) = it[S]
    BY <1>2 DEF Fold, Total, MapThenFoldSet
  <2> HIDE DEF Is
  <2> QED BY <1>1, <2>1, <2>2
<1>3. CASE k = "replay"
  <2> DEFINE Is(h) == h = [s \in SUBSET S |-> IF s = {} THEN Blank ELSE Undo(f[Max(s)], h[s \ {Max(s)}])]
             it == CHOOSE h : Is(h)
  <2>1. \A h : Is(h) <=> Iterates(k, f, h, S)
    BY <1>3 DEF Iterates, Step, Base, Op, First
  <2>2. Fold(k, f, S) = it[S]
    BY <1>3 DEF Fold, Redone, MapThenFoldSet
  <2> HIDE DEF Is
  <2> QED BY <1>1, <2>1, <2>2
<1> QED BY <1>2, <1>3

\* The fold of nothing.
LEMMA FoldEmpty ==
    ASSUME NEW k \in {"sum", "replay"}, NEW f, Chooses(k, {})
    PROVE  Fold(k, f, {}) = Base(k)
<1>1. PICK g : Iterates(k, f, g, {}) /\ Fold(k, f, {}) = g[{}]
  BY FoldIs, FS_EmptySet
<1> QED BY <1>1 DEF Iterates, Step

\* The fold of a set is one operation on the fold of the rest.
LEMMA FoldRest ==
    ASSUME NEW k \in {"sum", "replay"},
           NEW S, IsFiniteSet(S), Chooses(k, S), S # {}, NEW f
    PROVE  Fold(k, f, S) = Op(k, f[First(k, S)], Fold(k, f, S \ {First(k, S)}))
<1> DEFINE R == S \ {First(k, S)}
<1>1. PICK g : Iterates(k, f, g, S) /\ Fold(k, f, S) = g[S]
  BY FoldIs
<1>2. IsFiniteSet(R) /\ Chooses(k, R) /\ R \subseteq S
  BY FS_Subset DEF Chooses
<1>3. PICK h : Iterates(k, f, h, R) /\ Fold(k, f, R) = h[R]
  <2> HIDE DEF R
  <2> QED BY <1>2, FoldIs
<1>4. g[R] = h[R]
  <2> HIDE DEF R
  <2> QED BY <1>1, <1>2, <1>3, Agree
<1>5. g[S] = Op(k, f[First(k, S)], g[R])
  BY <1>1 DEF Iterates, Step
<1> QED BY <1>1, <1>3, <1>4, <1>5

\* The fold depends on nothing but the values of the elements.
LEMMA FoldSame ==
    ASSUME NEW k \in {"sum", "replay"},
           NEW S, IsFiniteSet(S), Chooses(k, S), NEW f, NEW e, \A x \in S : f[x] = e[x]
    PROVE  Fold(k, f, S) = Fold(k, e, S)
<1>1. PICK g : Iterates(k, f, g, S) /\ Fold(k, f, S) = g[S]
  BY FoldIs
<1>2. PICK h : Iterates(k, e, h, S) /\ Fold(k, e, S) = h[S]
  BY FoldIs
<1> QED BY <1>1, <1>2, Agree

\* The fold of a set stays in the type W of the results.
LEMMA FoldType ==
    ASSUME NEW k \in {"sum", "replay"},
           NEW S, IsFiniteSet(S), Chooses(k, S), NEW f, NEW V, NEW W, Base(k) \in W,
           \A v \in V, w \in W : Op(k, v, w) \in W, \A x \in S : f[x] \in V
    PROVE  Fold(k, f, S) \in W
<1> DEFINE Bad == {T \in SUBSET S : Fold(k, f, T) \notin W}
<1>1. SUFFICES ASSUME Bad # {} PROVE FALSE
  OBVIOUS
<1>2. PICK T \in Bad : \A U \in SUBSET T : U # T => U \notin Bad
  <2>1. Bad \in SUBSET (SUBSET S)
    OBVIOUS
  <2> HIDE DEF Bad
  <2> QED BY <1>1, <2>1, Smallest
<1>3. T \subseteq S /\ IsFiniteSet(T) /\ Chooses(k, T)
  BY FS_Subset DEF Chooses
<1>4. T # {}
  BY <1>2, <1>3, FoldEmpty
<1> DEFINE R == T \ {First(k, T)}
<1>5. First(k, T) \in T /\ R \in SUBSET T /\ R # T
  BY <1>3, <1>4 DEF Chooses
<1>6. Fold(k, f, T) = Op(k, f[First(k, T)], Fold(k, f, R))
  BY <1>3, <1>4, FoldRest
<1>7. Fold(k, f, R) \in W
  BY <1>2, <1>3, <1>5
<1> HIDE DEF R
<1> QED BY <1>2, <1>3, <1>5, <1>6, <1>7

\* When operations commute, any element may be taken out first.
LEMMA FoldAny ==
    ASSUME NEW k \in {"sum", "replay"},
           NEW S, IsFiniteSet(S), Chooses(k, S), NEW f, NEW V, Commutes(k, V),
           \A x \in S : f[x] \in V, NEW x \in S
    PROVE  Fold(k, f, S) = Op(k, f[x], Fold(k, f, S \ {x}))
<1> DEFINE Bad == {T \in SUBSET S : \E y \in T : Fold(k, f, T) # Op(k, f[y], Fold(k, f, T \ {y}))}
<1>1. SUFFICES ASSUME Bad # {} PROVE FALSE
  OBVIOUS
<1>2. PICK T \in Bad : \A U \in SUBSET T : U # T => U \notin Bad
  <2>1. Bad \in SUBSET (SUBSET S)
    OBVIOUS
  <2> HIDE DEF Bad
  <2> QED BY <1>1, <2>1, Smallest
<1>3. T \subseteq S /\ IsFiniteSet(T) /\ Chooses(k, T) /\ T # {}
  BY FS_Subset DEF Chooses
<1>4. PICK y \in T : Fold(k, f, T) # Op(k, f[y], Fold(k, f, T \ {y}))
  BY <1>2
<1> DEFINE z == First(k, T)
           rest == (T \ {y}) \ {z}
<1>5. z \in T /\ Fold(k, f, T) = Op(k, f[z], Fold(k, f, T \ {z}))
  BY <1>3, FoldRest DEF Chooses
<1>6. y # z
  BY <1>4, <1>5
<1> HIDE DEF z
<1>7. Fold(k, f, T \ {z}) = Op(k, f[y], Fold(k, f, rest))
  <2>1. T \ {z} \in SUBSET T /\ T \ {z} # T /\ T \ {z} \in SUBSET S /\ y \in T \ {z}
    BY <1>3, <1>5, <1>6
  <2>2. Fold(k, f, T \ {z}) = Op(k, f[y], Fold(k, f, (T \ {z}) \ {y}))
    BY <2>1, <1>2
  <2>3. (T \ {z}) \ {y} = rest
    OBVIOUS
  <2> QED BY <2>2, <2>3
<1>8. Fold(k, f, T \ {y}) = Op(k, f[z], Fold(k, f, rest))
  <2>1. T \ {y} \in SUBSET T /\ T \ {y} # T /\ T \ {y} \in SUBSET S /\ z \in T \ {y}
    BY <1>3, <1>5, <1>6
  <2> QED BY <2>1, <1>2
<1>9. Fold(k, f, rest) \in V
  <2>1. rest \subseteq S /\ IsFiniteSet(rest) /\ Chooses(k, rest)
    BY <1>3, FS_Subset DEF Chooses
  <2> HIDE DEF rest
  <2> QED BY <2>1, FoldType DEF Commutes
<1>10. f[y] \in V /\ f[z] \in V
  BY <1>3, <1>4, <1>5
<1> HIDE DEF rest
<1>11. Op(k, f[y], Op(k, f[z], Fold(k, f, rest))) = Op(k, f[z], Op(k, f[y], Fold(k, f, rest)))
  BY <1>9, <1>10 DEF Commutes
<1> QED BY <1>4, <1>5, <1>7, <1>8, <1>11

-----------------------------------------------------------------------------
(***************************************************************************)
(* The refinement: the counters are the sums of the charges that the rows  *)
(* record, so reserve grants no more than SharedBudget would.              *)
(***************************************************************************)

LEMMA AnyChoice == \A S : Chooses("sum", S)
  BY DEF Chooses, First, Pick

LEMMA TotalEmpty == \A f : Total(f, {}) = 0
<1>1. \A f : Fold("sum", f, {}) = Base("sum")
  BY AnyChoice, FoldEmpty
<1> QED BY <1>1 DEF Fold, Base

LEMMA TotalType ==
    ASSUME NEW S, IsFiniteSet(S), NEW f, \A x \in S : f[x] \in Int
    PROVE  Total(f, S) \in Int
<1>1. Base("sum") \in Int /\ \A v, w \in Int : Op("sum", v, w) \in Int
  BY DEF Base, Op
<1>2. Fold("sum", f, S) \in Int
  BY <1>1, AnyChoice, FoldType
<1> QED BY <1>2 DEF Fold

LEMMA TotalSame ==
    ASSUME NEW S, IsFiniteSet(S), NEW f, NEW g, \A x \in S : f[x] = g[x]
    PROVE  Total(f, S) = Total(g, S)
<1>1. Fold("sum", f, S) = Fold("sum", g, S)
  BY AnyChoice, FoldSame
<1> QED BY <1>1 DEF Fold

LEMMA TotalAny ==
    ASSUME NEW S, IsFiniteSet(S), NEW f, \A x \in S : f[x] \in Int, NEW x \in S
    PROVE  Total(f, S) = f[x] + Total(f, S \ {x})
<1>1. Commutes("sum", Int)
  BY DEF Commutes, Op, Base
<1>2. Fold("sum", f, S) = Op("sum", f[x], Fold("sum", f, S \ {x}))
  BY <1>1, AnyChoice, FoldAny
<1> QED BY <1>2 DEF Fold, Op

\* A value that changes changes the sum by as much.
LEMMA TotalPut ==
    ASSUME NEW S, IsFiniteSet(S), NEW x \in S, NEW f, NEW g,
           \A y \in S : f[y] \in Int /\ g[y] \in Int, \A y \in S \ {x} : g[y] = f[y]
    PROVE  Total(g, S) = Total(f, S) - f[x] + g[x]
<1> DEFINE R == S \ {x}
<1>1. IsFiniteSet(R) /\ R \subseteq S
  BY FS_Subset
<1>2. Total(f, S) = f[x] + Total(f, R) /\ Total(g, S) = g[x] + Total(g, R)
  BY TotalAny
<1>3. Total(g, R) = Total(f, R) /\ Total(f, R) \in Int
  <2>1. Total(g, R) = Total(f, R)
    <3>1. \A y \in R : g[y] = f[y]
      OBVIOUS
    <3> HIDE DEF R
    <3> QED BY <1>1, <3>1, TotalSame
  <2>2. Total(f, R) \in Int
    <3>1. \A y \in R : f[y] \in Int
      OBVIOUS
    <3> HIDE DEF R
    <3> QED BY <1>1, <3>1, TotalType
  <2> QED BY <2>1, <2>2
<1> HIDE DEF R
<1> QED BY <1>2, <1>3

\* Smaller values of fewer elements add up to no more.
LEMMA TotalLess ==
    ASSUME NEW T, IsFiniteSet(T), NEW S \in SUBSET T, NEW f, NEW g,
           \A x \in T : g[x] \in Nat, \A x \in S : f[x] \in Int /\ f[x] <= g[x]
    PROVE  Total(f, S) <= Total(g, T)
<1> DEFINE Less(U) == Total(f, U \cap S) <= Total(g, U)
           Bad == {U \in SUBSET T : ~Less(U)}
<1>1. ASSUME Bad # {} PROVE FALSE
  <2>1. PICK U \in Bad : \A V \in SUBSET U : V # U => V \notin Bad
    <3>1. Bad \in SUBSET (SUBSET T)
      OBVIOUS
    <3> HIDE DEF Bad
    <3> QED BY <1>1, <3>1, Smallest
  <2>2. U \subseteq T /\ ~Less(U)
    BY <2>1
  <2>3. U # {}
    <3>1. ASSUME U = {} PROVE FALSE
      <4>1. Total(f, {}) = 0 /\ Total(g, {}) = 0
        BY TotalEmpty
      <4>2. U \cap S = {}
        BY <3>1
      <4> QED BY <2>2, <3>1, <4>1, <4>2
    <3> QED BY <3>1
  <2>4. PICK x \in U : TRUE
    BY <2>3
  <2>5. Less(U \ {x})
    <3>1. U \ {x} \in SUBSET U /\ U \ {x} # U
      BY <2>4
    <3>2. U \ {x} \notin Bad
      BY <2>1, <3>1
    <3> QED BY <2>2, <3>2
  <2>6. IsFiniteSet(U) /\ IsFiniteSet(U \cap S) /\ IsFiniteSet(U \ {x}) /\ IsFiniteSet((U \ {x}) \cap S)
    <3>1. U \cap S \subseteq T /\ U \ {x} \subseteq T /\ (U \ {x}) \cap S \subseteq T
      BY <2>2
    <3> QED BY <2>2, <3>1, FS_Subset
  <2>7. /\ Total(g, U) = g[x] + Total(g, U \ {x})
        /\ Total(g, U \ {x}) \in Int /\ g[x] \in Nat
    BY <2>2, <2>4, <2>6, TotalAny, TotalType
  <2>8. Total(f, (U \ {x}) \cap S) \in Int
    BY <2>6, TotalType
  <2>9. CASE x \in S
    <3>1. (U \cap S) \ {x} = (U \ {x}) \cap S
      OBVIOUS
    <3>2. Total(f, U \cap S) = f[x] + Total(f, (U \ {x}) \cap S)
      BY <2>4, <2>6, <2>9, <3>1, TotalAny
    <3> QED BY <2>2, <2>5, <2>7, <2>8, <2>9, <3>2
  <2>10. CASE x \notin S
    <3>1. U \cap S = (U \ {x}) \cap S
      BY <2>10
    <3> QED BY <2>2, <2>5, <2>7, <2>8, <3>1
  <2> QED BY <2>9, <2>10
<1>2. Less(T) /\ T \cap S = S
  BY <1>1
<1> QED BY <1>2

Rows == {i \in Invocations : payload[i] # None}
Charge == [i \in Invocations |-> IF state[i] = "reserved" THEN payload[i].amount ELSE consumed[i]]
On(a) == {i \in Rows : a \in DOMAIN payload[i].limits}

\* The counters of an account add up to what its rows hold or have spent.
CountersAddUp ==
    /\ IsFiniteSet(Rows)
    /\ \A a \in Accounts : reserved[a] + spent[a] = Total(Charge, On(a))

BudgetInv == LedgerInv /\ CountersAddUp

LEMMA ChargedIs == \A a : Budget!Charged(a) = Total(Charge, On(a))
  BY DEF Budget!Charged, Budget!Chargers, Budget!Granted, Budget!MapThenSumSet,
         Budget!MapThenFoldSet, MapThenFoldSet, Total, Pick, Rows, Charge, On

LEMMA InitAddsUp == Init => CountersAddUp
<1> SUFFICES ASSUME Init PROVE CountersAddUp
  OBVIOUS
<1>1. Rows = {} /\ \A a : On(a) = {}
  BY DEF Init, Rows, On
<1>2. Total(Charge, {}) = 0
  BY TotalEmpty
<1>3. ASSUME NEW a \in Accounts PROVE reserved[a] + spent[a] = Total(Charge, On(a))
  <2>1. On(a) = {} /\ reserved[a] = 0 /\ spent[a] = 0
    BY <1>1 DEF Init
  <2> QED BY <1>2, <2>1
<1>4. IsFiniteSet(Rows)
  BY <1>1, FS_EmptySet
<1> QED BY <1>3, <1>4 DEF CountersAddUp

LEMMA ChargeType ==
    ASSUME LedgerInv
    PROVE  /\ DOMAIN Charge = Invocations
           /\ \A i \in Invocations : Charge[i] \in Int
           /\ \A a \in Accounts : reserved[a] \in Int /\ spent[a] \in Int
  BY CallType DEF LedgerInv, TypeOK, RowHasState, Charge

LEMMA ReserveAddsUp ==
    ASSUME BudgetInv, NEW c \in Calls, NEW checkpoint, Reserve(c, checkpoint)
    PROVE  CountersAddUp'
<1> DEFINE n == c.invocation
<1>1. /\ n \in Invocations /\ payload[n] = None /\ c \in Calls /\ c # None /\ c.amount \in Int
      /\ payload' = [payload EXCEPT ![n] = c]
      /\ state' = [state EXCEPT ![n] = "reserved"]
      /\ UNCHANGED <<spent, consumed>>
      /\ reserved' = [a \in Accounts |->
                         IF a \in DOMAIN c.limits THEN reserved[a] + c.amount ELSE reserved[a]]
  BY CallType DEF Reserve, Reservable
<1>2. LedgerInv /\ CountersAddUp /\ payload \in [Invocations -> Calls \cup {None}]
      /\ state \in [Invocations -> {"none", "reserved", "consume", "release"}]
  BY DEF BudgetInv, LedgerInv, TypeOK
<1> HIDE DEF n
<1>3. Rows' = Rows \cup {n} /\ IsFiniteSet(Rows) /\ n \notin Rows /\ Rows \subseteq Invocations
  BY <1>1, <1>2 DEF Rows, CountersAddUp
<1>4. /\ Charge'[n] = c.amount
      /\ \A i \in Rows : Charge'[i] = Charge[i] /\ Charge[i] \in Int
  BY <1>1, <1>2, <1>3, ChargeType DEF Charge
<1>5. ASSUME NEW a \in Accounts
      PROVE  reserved'[a] + spent'[a] = Total(Charge', On(a)')
  <2>1. /\ IsFiniteSet(On(a)) /\ n \notin On(a) /\ On(a) \subseteq Rows
        /\ reserved[a] + spent[a] = Total(Charge, On(a))
        /\ reserved[a] \in Int /\ spent[a] \in Int /\ Total(Charge, On(a)) \in Int
    <3>1. On(a) \subseteq Rows
      BY DEF On
    <3>2. IsFiniteSet(On(a)) /\ n \notin On(a)
      BY <3>1, <1>3, FS_Subset
    <3> QED BY <3>1, <3>2, <1>2, ChargeType DEF CountersAddUp
  <2>2. CASE a \in DOMAIN c.limits
    <3>1. On(a)' = On(a) \cup {n}
      BY <1>1, <1>2, <1>3, <2>2 DEF On, Rows
    <3>2. \A y \in On(a) : Charge[y] \in Int /\ Charge'[y] = Charge[y]
      BY <1>4, <2>1
    <3>3. Total(Charge', On(a) \cup {n}) = Total(Charge, On(a)) + c.amount
      <4>1. PICK D, f, g : D = On(a) /\ f = Charge /\ g = Charge'
        OBVIOUS
      <4>2. /\ IsFiniteSet(D) /\ n \notin D
            /\ \A y \in D : f[y] \in Int /\ g[y] = f[y]
            /\ g[n] = c.amount /\ g[n] \in Int
        BY <4>1, <3>2, <2>1, <1>1, <1>4
      <4>3. Total(g, D \cup {n}) = Total(f, D) + g[n]
        <5>1. IsFiniteSet(D \cup {n}) /\ (D \cup {n}) \ {n} = D
          BY <4>2, FS_AddElement
        <5>2. n \in D \cup {n} /\ \A y \in D \cup {n} : g[y] \in Int
          BY <4>2
        <5>3. Total(g, D \cup {n}) = g[n] + Total(g, D)
          BY <5>1, <5>2, TotalAny
        <5>4. Total(g, D) = Total(f, D)
          BY <4>2, TotalSame
        <5>5. Total(f, D) \in Int
          BY <4>2, TotalType
        <5> QED BY <4>2, <5>3, <5>4, <5>5
      <4> QED BY <4>1, <4>2, <4>3
    <3> QED BY <3>1, <3>3, <2>1, <2>2, <1>1
  <2>3. CASE a \notin DOMAIN c.limits
    <3>1. On(a)' = On(a)
      BY <1>1, <1>2, <1>3, <2>3 DEF On, Rows
    <3>2. Total(Charge', On(a)) = Total(Charge, On(a))
      BY <1>4, <2>1, TotalSame
    <3> QED BY <3>1, <3>2, <2>1, <2>3, <1>1
  <2> QED BY <2>2, <2>3
<1>6. IsFiniteSet(Rows')
  BY <1>3, FS_AddElement
<1> QED BY <1>5, <1>6 DEF CountersAddUp

LEMMA FinishAddsUp ==
    ASSUME BudgetInv, NEW i \in Invocations, NEW action \in {"consume", "release"},
           NEW amount \in Amounts, Finish(i, action, amount)
    PROVE  CountersAddUp'
<1>1. LedgerInv /\ CountersAddUp /\ state \in [Invocations -> {"none", "reserved", "consume", "release"}]
      /\ consumed \in [Invocations -> Nat]
  BY DEF BudgetInv, LedgerInv, TypeOK
<1>2. /\ state[i] = "reserved" /\ payload[i] \in Calls /\ payload[i] # None
      /\ payload[i].amount \in Int /\ amount \in Int /\ payload' = payload
      /\ state' = [state EXCEPT ![i] = action] /\ consumed' = [consumed EXCEPT ![i] = amount]
  BY <1>1, OpenRow, CallType, EvidenceLedgerAssumption DEF Finish, Open
<1>3. /\ reserved' = [a \in Accounts |-> IF a \in DOMAIN payload[i].limits
                                         THEN reserved[a] - payload[i].amount ELSE reserved[a]]
      /\ spent' = [a \in Accounts |-> IF a \in DOMAIN payload[i].limits
                                      THEN spent[a] + amount ELSE spent[a]]
  BY DEF Finish
<1>4. Rows' = Rows /\ i \in Rows /\ IsFiniteSet(Rows) /\ Rows \subseteq Invocations
      /\ \A a : On(a)' = On(a)
  BY <1>1, <1>2 DEF Rows, On, CountersAddUp
<1>5. /\ Charge[i] = payload[i].amount /\ Charge'[i] = amount
      /\ \A j \in Invocations \ {i} : Charge'[j] = Charge[j]
      /\ \A j \in Invocations : Charge[j] \in Int
  BY <1>1, <1>2, ChargeType DEF Charge
<1>6. ASSUME NEW a \in Accounts
      PROVE  reserved'[a] + spent'[a] = Total(Charge', On(a))
  <2>1. /\ IsFiniteSet(On(a)) /\ On(a) \subseteq Invocations
        /\ reserved[a] + spent[a] = Total(Charge, On(a))
        /\ reserved[a] \in Int /\ spent[a] \in Int /\ Total(Charge, On(a)) \in Int
    <3>1. On(a) \subseteq Rows
      BY DEF On
    <3>2. IsFiniteSet(On(a)) /\ On(a) \subseteq Invocations
      BY <3>1, <1>4, FS_Subset
    <3> QED BY <3>2, <1>1, ChargeType DEF CountersAddUp
  <2>2. CASE a \in DOMAIN payload[i].limits
    <3>1. i \in On(a)
      BY <1>4, <2>2 DEF On
    <3>2. \A y \in On(a) : Charge[y] \in Int /\ Charge'[y] \in Int
      BY <1>2, <1>5, <2>1
    <3>3. \A y \in On(a) \ {i} : Charge'[y] = Charge[y]
      BY <1>5, <2>1
    <3>4. Total(Charge', On(a)) = Total(Charge, On(a)) - Charge[i] + Charge'[i]
      BY <2>1, <3>1, <3>2, <3>3, TotalPut
    <3> QED BY <3>4, <2>1, <2>2, <1>2, <1>3, <1>5
  <2>3. CASE a \notin DOMAIN payload[i].limits
    <3>1. \A y \in On(a) : Charge'[y] = Charge[y]
      BY <1>5, <2>1, <2>3 DEF On
    <3>2. Total(Charge', On(a)) = Total(Charge, On(a))
      BY <3>1, <2>1, TotalSame
    <3> QED BY <3>2, <2>1, <2>3, <1>3
  <2> QED BY <2>2, <2>3
<1> QED BY <1>4, <1>6 DEF CountersAddUp

LEMMA TablesKeepSums == CountersAddUp /\ UNCHANGED tables => CountersAddUp'
  BY DEF tables, accounts, reservations, CountersAddUp, Rows, Charge, On

LEMMA StepAddsUp == BudgetInv /\ [Next]_vars => CountersAddUp'
<1> SUFFICES ASSUME BudgetInv, [Next]_vars PROVE CountersAddUp'
  OBVIOUS
<1>1. UNCHANGED tables => CountersAddUp'
  BY TablesKeepSums DEF BudgetInv
<1> QED BY <1>1, ReserveAddsUp, FinishAddsUp DEF Next, AuditBegin, AuditEnd, vars

LEMMA BudgetInvariant == Spec => []BudgetInv
<1>1. Init => CountersAddUp
  BY InitAddsUp
<1>2. LedgerInv /\ CountersAddUp /\ [Next]_vars => CountersAddUp'
  BY StepAddsUp DEF BudgetInv
<1>3. LedgerInv /\ CountersAddUp <=> BudgetInv
  BY DEF BudgetInv
<1> QED BY <1>1, <1>2, <1>3, LedgerCorrect, PTL DEF Spec

LEMMA InitGrants == Init => Budget!Init
  BY DEF Init, Budget!Init

\* What reserve checks and writes is a grant.
LEMMA ReserveGrants ==
    ASSUME BudgetInv, NEW c \in Calls, NEW checkpoint, Reserve(c, checkpoint)
    PROVE  Budget!Grant(c)
<1> DEFINE n == c.invocation
<1>1. /\ LedgerInv
      /\ payload \in [Invocations -> Calls \cup {None}]
      /\ state \in [Invocations -> {"none", "reserved", "consume", "release"}]
      /\ consumed \in [Invocations -> Nat]
  BY DEF BudgetInv, LedgerInv, TypeOK
<1>2. /\ payload[n] = None /\ NonceFree(c) /\ WithinBudget(c)
      /\ payload' = [payload EXCEPT ![n] = c]
      /\ state' = [state EXCEPT ![n] = "reserved"]
      /\ consumed' = consumed
  BY DEF Reserve, Reservable
<1>3. n \in Invocations /\ DOMAIN c.limits \subseteq Accounts /\ c.amount \in Int
  BY CallType
<1>4. \A i \in Budget!Granted : payload[i].nonce # c.nonce
  BY <1>2 DEF Budget!Granted, NonceFree
<1>5. ASSUME NEW a \in DOMAIN c.limits
      PROVE  /\ \A i \in Budget!Chargers(a) : payload[i].limits[a] = c.limits[a]
             /\ Budget!Charged(a) + c.amount <= c.limits[a]
  <2>1. ASSUME NEW i \in Budget!Chargers(a) PROVE payload[i].limits[a] = c.limits[a]
    <3>1. i \in Invocations /\ payload[i] # None /\ a \in DOMAIN payload[i].limits
      BY DEF Budget!Chargers, Budget!Granted
    <3>2. terms[a] = TermsOf(payload[i], a)
      BY <1>1, <3>1 DEF LedgerInv, RowsAgree
    <3>3. terms[a] # None
      BY <1>1, <3>1, <3>2, CallType
    <3>4. terms[a] = TermsOf(c, a)
      BY <1>2, <3>3 DEF WithinBudget
    <3> QED BY <3>2, <3>4 DEF TermsOf
  <2>2. reserved[a] + spent[a] = Budget!Charged(a)
    BY <1>3, ChargedIs DEF BudgetInv, CountersAddUp
  <2>3. reserved[a] + spent[a] + c.amount <= c.limits[a]
    BY <1>2 DEF WithinBudget
  <2> QED BY <2>1, <2>2, <2>3
<1>6. {i \in Invocations : state'[i] = "reserved"}
        = {i \in Invocations : state[i] = "reserved"} \cup {n}
  BY <1>1, <1>2, <1>3
<1>7. [i \in Invocations |-> IF state'[i] = "reserved" THEN payload'[i].amount ELSE consumed'[i]]
        = [[i \in Invocations |-> IF state[i] = "reserved" THEN payload[i].amount ELSE consumed[i]]
              EXCEPT ![n] = c.amount]
  BY <1>1, <1>2, <1>3
<1> QED BY <1>2, <1>4, <1>5, <1>6, <1>7 DEF Budget!Grant

\* What finish checks and writes settles a grant.
LEMMA FinishSettles ==
    ASSUME BudgetInv, NEW i \in Invocations, NEW action \in {"consume", "release"},
           NEW amount \in Amounts, Finish(i, action, amount)
    PROVE  i \in {j \in Invocations : state[j] = "reserved"} /\ Budget!Settle(i)
<1> DEFINE charge == [j \in Invocations |->
                         IF state[j] = "reserved" THEN payload[j].amount ELSE consumed[j]]
<1>1. /\ LedgerInv
      /\ state \in [Invocations -> {"none", "reserved", "consume", "release"}]
      /\ consumed \in [Invocations -> Nat]
  BY DEF BudgetInv, LedgerInv, TypeOK
<1>2. /\ state[i] = "reserved" /\ payload[i].amount \in Nat
      /\ amount \in Nat /\ amount <= payload[i].amount
      /\ payload' = payload
      /\ state' = [state EXCEPT ![i] = action] /\ consumed' = [consumed EXCEPT ![i] = amount]
  BY <1>1, OpenRow, EvidenceLedgerAssumption DEF Finish, Open
<1>3. {j \in Invocations : state'[j] = "reserved"}
        = {j \in Invocations : state[j] = "reserved"} \ {i}
  BY <1>1, <1>2
<1>4. [j \in Invocations |-> IF state'[j] = "reserved" THEN payload'[j].amount ELSE consumed'[j]]
        = [charge EXCEPT ![i] = amount]
  BY <1>1, <1>2
<1>5. amount \in 0 .. charge[i]
  BY <1>2
<1> QED BY <1>2, <1>3, <1>4, <1>5 DEF Budget!Settle

LEMMA TablesKeepBudget == UNCHANGED tables => UNCHANGED Budget!budget
  BY DEF tables, reservations, Budget!budget

LEMMA StepGrants ==
    BudgetInv /\ [Next]_vars => [Budget!Next]_(Budget!budget)
<1> SUFFICES ASSUME BudgetInv, [Next]_vars
             PROVE  Budget!Next \/ UNCHANGED Budget!budget
  OBVIOUS
<1>1. UNCHANGED tables => UNCHANGED Budget!budget
  BY TablesKeepBudget
<1> QED BY <1>1, ReserveGrants, FinishSettles DEF Next, AuditBegin, AuditEnd, vars, Budget!Next

\* The ledger, with its counters, tables, log and audits, does nothing that
\* SharedBudget does not do: on every account the charges of all invocations
\* stay within the limit each of them was granted under.
THEOREM ImplementsBudgetCorrect == Spec => ImplementsBudget
<1> QED BY InitGrants, StepGrants, BudgetInvariant, PTL DEF Spec, ImplementsBudget, Budget!Spec

-----------------------------------------------------------------------------
(***************************************************************************)
(* The audit: replaying the log gives the stored tables, after every       *)
(* reserve and every finish.                                               *)
(***************************************************************************)

\* A nonempty finite set of integers has a greatest element.
LEMMA MaxIn ==
    ASSUME NEW S \in SUBSET Int, IsFiniteSet(S), S # {}
    PROVE  Max(S) \in S /\ \A x \in S : Max(S) >= x
<1> DEFINE HasMax(T) == \E m \in T : \A x \in T : m >= x
           Bad == {T \in SUBSET S : T # {} /\ ~HasMax(T)}
<1>1. ASSUME Bad # {} PROVE FALSE
  <2>1. PICK T \in Bad : \A U \in SUBSET T : U # T => U \notin Bad
    <3>1. Bad \in SUBSET (SUBSET S)
      OBVIOUS
    <3> HIDE DEF Bad
    <3> QED BY <1>1, <3>1, Smallest
  <2>2. PICK x \in T : TRUE
    OBVIOUS
  <2> DEFINE U == T \ {x}
  <2>3. CASE U = {}
    <3>1. \A y \in T : x >= y
      BY <2>2, <2>3
    <3> QED BY <2>2, <3>1
  <2>4. CASE U # {}
    <3>1. U \in SUBSET T /\ U # T /\ U \in SUBSET S
      OBVIOUS
    <3>2. U \notin Bad
      BY <2>1, <3>1
    <3>3. PICK m \in U : \A y \in U : m >= y
      BY <2>4, <3>1, <3>2
    <3>4. CASE m >= x
      <4>1. \A y \in T : m >= y
        BY <3>3, <3>4
      <4> QED BY <4>1
    <3>5. CASE ~(m >= x)
      <4>1. \A y \in T : x >= y
        BY <3>3, <3>5
      <4> QED BY <4>1
    <3> QED BY <3>4, <3>5
  <2> QED BY <2>3, <2>4
<1>2. \E m \in S : \A x \in S : m >= x
  BY <1>1
<1> QED BY <1>2 DEF Max

LEMMA MaxChooses ==
    ASSUME NEW n \in Nat
    PROVE  Chooses("replay", 1 .. n) /\ IsFiniteSet(1 .. n)
<1>1. IsFiniteSet(1 .. n)
  BY FS_Interval
<1>2. ASSUME NEW T \in SUBSET (1 .. n), T # {} PROVE Max(T) \in T
  <2>1. T \in SUBSET Int
    OBVIOUS
  <2>2. IsFiniteSet(T)
    BY <1>1, FS_Subset
  <2> QED BY <2>1, <2>2, <1>2, MaxIn
<1> QED BY <1>1, <1>2 DEF Chooses, First

LEMMA ReplayIs == \A log : Replay(log) = Fold("replay", log, DOMAIN log)
  BY DEF Replay, FoldLeft, MapThenFoldSet, Fold, Redone, Undo

\* An audit begins with empty tables, and takes each event as it comes.
LEMMA ReplayEmpty == Replay(<<>>) = Blank
<1>1. DOMAIN <<>> = {} /\ Chooses("replay", {})
  <2>1. 1 .. 0 = {}
    OBVIOUS
  <2> QED BY <2>1, MaxChooses
<1>2. Fold("replay", <<>>, {}) = Base("replay")
  BY <1>1, FoldEmpty
<1> QED BY <1>1, <1>2, ReplayIs DEF Base

LEMMA ReplayAppend ==
    ASSUME NEW T, NEW log \in Seq(T), NEW e \in T
    PROVE  Replay(Append(log, e)) = Redo(Replay(log), e)
<1> DEFINE more == Append(log, e)
           n == Len(log)
<1>1. /\ n \in Nat /\ DOMAIN log = 1 .. n /\ DOMAIN more = 1 .. n + 1 /\ more[n + 1] = e
      /\ \A i \in 1 .. n : more[i] = log[i]
  BY AppendFacts
<1> HIDE DEF more, n
<1>2. Max(1 .. n + 1) = n + 1
  <2>1. IsFiniteSet(1 .. n + 1)
    BY <1>1, FS_Interval
  <2>2. 1 .. n + 1 \in SUBSET Int /\ n + 1 \in 1 .. n + 1
    BY <1>1
  <2>3. Max(1 .. n + 1) \in 1 .. n + 1 /\ \A x \in 1 .. n + 1 : Max(1 .. n + 1) >= x
    BY <2>1, <2>2, MaxIn
  <2> QED BY <2>2, <2>3, <1>1
<1>3. /\ Chooses("replay", 1 .. n + 1) /\ IsFiniteSet(1 .. n + 1)
      /\ Chooses("replay", 1 .. n) /\ IsFiniteSet(1 .. n)
      /\ 1 .. n + 1 # {} /\ (1 .. n + 1) \ {n + 1} = 1 .. n
  <2>1. n + 1 \in Nat /\ n + 1 \in 1 .. n + 1
    BY <1>1
  <2>2. (1 .. n + 1) \ {n + 1} = 1 .. n
    BY <1>1
  <2>3. 1 .. n + 1 # {}
    BY <2>1
  <2> QED BY <2>1, <2>2, <2>3, <1>1, MaxChooses
<1>4. Fold("replay", more, 1 .. n + 1) = Undo(more[n + 1], Fold("replay", more, 1 .. n))
  <2>1. Fold("replay", more, 1 .. n + 1)
          = Undo(more[Max(1 .. n + 1)], Fold("replay", more, (1 .. n + 1) \ {Max(1 .. n + 1)}))
    <3> DEFINE top == First("replay", 1 .. n + 1)
    <3>1. Fold("replay", more, 1 .. n + 1)
            = Op("replay", more[top], Fold("replay", more, (1 .. n + 1) \ {top}))
      BY <1>3, FoldRest
    <3> QED BY <3>1 DEF First, Op
  <2> QED BY <2>1, <1>2, <1>3
<1>5. Fold("replay", more, 1 .. n) = Fold("replay", log, 1 .. n)
  BY <1>1, <1>3, FoldSame
<1>6. Replay(more) = Undo(e, Replay(log))
  BY <1>1, <1>4, <1>5, ReplayIs
<1> QED BY <1>6 DEF Undo, more

\* The replay of the log gives the stored tables and finds nothing wrong; and
\* the snapshot that a standalone audit has pinned is such a pair.
Stored == [terms |-> terms, reserved |-> reserved, spent |-> spent, payload |-> payload,
           state |-> state, consumed |-> consumed, bound |-> bound, ok |-> TRUE]
LogGivesTables == Replay(events) = Stored
ReadsWell ==
    /\ reading # None => Audit(reading.seen, reading.checkpoint) = "ok"
    /\ verdict \in {"none", "ok"}

AuditInv == LedgerInv /\ LogGivesTables /\ ReadsWell

LEMMA InitReplay == Init => LogGivesTables /\ ReadsWell
<1> SUFFICES ASSUME Init PROVE LogGivesTables /\ ReadsWell
  OBVIOUS
<1>1. Replay(events) = Blank
  BY ReplayEmpty DEF Init
<1>2. Blank = Stored
  BY DEF Init, Blank, Stored
<1> QED BY <1>1, <1>2 DEF Init, LogGivesTables, ReadsWell

\* What redoing a reserve makes of the tables is what reserve made of them.
LEMMA ReserveReplays ==
    ASSUME LedgerInv, LogGivesTables, NEW c \in Calls, NEW checkpoint, Reserve(c, checkpoint)
    PROVE  LogGivesTables'
<1> DEFINE e == [action |-> "reserve", payload |-> c]
           n == c.invocation
           owns == DOMAIN c.limits
<1>1. e \in Event /\ events' = Append(events, e) /\ events \in Seq(Event)
  BY DEF Reserve, Reservable, Logged, Event, LedgerInv, TypeOK
<1>2. Replay(events') = RedoReserve(Stored, c)
  <2>1. Replay(events') = Redo(Stored, e)
    <3> HIDE DEF e
    <3> QED BY <1>1, ReplayAppend DEF LogGivesTables
  <2> QED BY <2>1 DEF Redo
<1>3. /\ terms \in [Accounts -> Terms \cup {None}] /\ reserved \in [Accounts -> Int]
      /\ bound \in [Scopes -> Objects \cup {None}]
      /\ spent \in [Accounts -> Nat]
  BY DEF LedgerInv, TypeOK
<1>4. owns \subseteq Accounts /\ c.amount \in Int /\ DOMAIN c.bindings \subseteq Scopes
  BY CallType
<1>5. /\ payload[n] = None /\ NonceFree(c) /\ Bindable(c) /\ WithinBudget(c)
      /\ bound' = [s \in Scopes |-> IF s \in DOMAIN c.bindings THEN c.bindings[s] ELSE bound[s]]
      /\ terms' = [a \in Accounts |-> IF a \in owns THEN TermsOf(c, a) ELSE terms[a]]
      /\ reserved' = [a \in Accounts |->
                         IF a \in owns THEN reserved[a] + c.amount ELSE reserved[a]]
      /\ payload' = [payload EXCEPT ![n] = c]
      /\ state' = [state EXCEPT ![n] = "reserved"]
      /\ UNCHANGED <<spent, consumed>>
  BY DEF Reserve, Reservable
<1> DEFINE holds == [a \in Accounts |-> reserved[a] + (IF a \in owns THEN c.amount ELSE 0)]
           opens == [a \in Accounts |->
                       IF a \in owns /\ terms[a] = None
                       THEN [currency |-> c.currency, ceiling |-> c.limits[a]] ELSE terms[a]]
           fits == /\ payload[n] = None
                   /\ \A i \in Invocations : payload[i] # None => payload[i].nonce # c.nonce
                   /\ \A s \in DOMAIN c.bindings : bound[s] \in {None, c.bindings[s]}
                   /\ \A a \in owns :
                         /\ terms[a] # None =>
                               terms[a] = [currency |-> c.currency, ceiling |-> c.limits[a]]
                         /\ holds[a] + spent[a] <= c.limits[a]
<1>6. RedoReserve(Stored, c) =
        [terms |-> opens, reserved |-> holds, spent |-> spent,
         payload |-> [payload EXCEPT ![n] = c], state |-> [state EXCEPT ![n] = "reserved"],
         consumed |-> consumed,
         bound |-> [s \in Scopes |-> IF s \in DOMAIN c.bindings THEN c.bindings[s] ELSE bound[s]],
         ok |-> TRUE /\ fits]
  BY DEF RedoReserve, Stored
<1>7. holds = reserved'
  BY <1>3, <1>4, <1>5
<1>8. opens = terms'
  BY <1>3, <1>4, <1>5 DEF WithinBudget, TermsOf
<1>9. fits
  <2>1. ASSUME NEW a \in owns PROVE holds[a] + spent[a] <= c.limits[a]
    <3>1. a \in Accounts /\ holds[a] = reserved[a] + c.amount
      BY <1>4
    <3>2. reserved[a] \in Int /\ spent[a] \in Int
      BY <3>1, <1>3
    <3>3. reserved[a] + spent[a] + c.amount <= c.limits[a]
      BY <1>5 DEF WithinBudget
    <3>4. c.limits[a] \in Int
      BY CallType
    <3> QED BY <3>1, <3>2, <3>3, <3>4, <1>4
  <2>2. \A a \in owns : terms[a] # None =>
            terms[a] = [currency |-> c.currency, ceiling |-> c.limits[a]]
    BY <1>5 DEF WithinBudget, TermsOf
  <2> HIDE DEF holds
  <2> QED BY <2>1, <2>2, <1>5 DEF NonceFree, Bindable
<1> HIDE DEF holds, opens, fits, n, owns
<1>10. RedoReserve(Stored, c) = Stored'
  BY <1>5, <1>6, <1>7, <1>8, <1>9 DEF Stored
<1> QED BY <1>2, <1>10 DEF LogGivesTables

\* The same for a finish.
LEMMA FinishReplays ==
    ASSUME LedgerInv, LogGivesTables, NEW i \in Invocations,
           NEW action \in {"consume", "release"}, NEW amount \in Amounts,
           Finish(i, action, amount)
    PROVE  LogGivesTables'
<1> DEFINE e == [action |-> action, invocation |-> i, amount |-> amount]
           c == payload[i]
<1>1. e \in Event /\ events' = Append(events, e) /\ events \in Seq(Event)
  BY EvidenceLedgerAssumption DEF Finish, Logged, Event, LedgerInv, TypeOK
<1>2. Replay(events') = RedoFinish(Stored, e)
  <2>1. Replay(events') = Redo(Stored, e)
    <3> HIDE DEF e
    <3> QED BY <1>1, ReplayAppend DEF LogGivesTables
  <2> QED BY <2>1 DEF Redo
<1>3. /\ state[i] = "reserved" /\ amount <= c.amount /\ (action = "release" => amount = 0)
      /\ reserved' = [a \in Accounts |-> IF a \in DOMAIN c.limits
                                         THEN reserved[a] - c.amount ELSE reserved[a]]
      /\ spent' = [a \in Accounts |-> IF a \in DOMAIN c.limits THEN spent[a] + amount ELSE spent[a]]
      /\ state' = [state EXCEPT ![i] = action]
      /\ consumed' = [consumed EXCEPT ![i] = amount]
      /\ UNCHANGED <<terms, payload, bound>>
  BY DEF Finish, Open
<1>4. c # None
  BY OpenRow, CallType DEF Finish
<1>5. RedoFinish(Stored, e) =
        [terms |-> terms,
         reserved |-> [a \in Accounts |-> IF a \in DOMAIN c.limits
                                         THEN reserved[a] - c.amount ELSE reserved[a]],
         spent |-> [a \in Accounts |-> IF a \in DOMAIN c.limits THEN spent[a] + amount ELSE spent[a]],
         payload |-> payload, state |-> [state EXCEPT ![i] = action],
         consumed |-> [consumed EXCEPT ![i] = amount], bound |-> bound,
         ok |-> TRUE /\ state[i] = "reserved" /\ amount <= c.amount
                     /\ (action = "release" => amount = 0)]
  BY <1>4 DEF RedoFinish, Stored
<1> HIDE DEF c
<1>6. RedoFinish(Stored, e) = Stored'
  BY <1>3, <1>5 DEF Stored
<1> QED BY <1>2, <1>6 DEF LogGivesTables

\* A log extends itself, and the empty log.
LEMMA OwnPrefix ==
    ASSUME NEW T, NEW log \in Seq(T)
    PROVE  IsPrefix(log, log) /\ IsPrefix(<<>>, log)
<1>1. SubSeq(<<>>, 1, Len(<<>>)) = SubSeq(log, 1, Len(<<>>))
  OBVIOUS
<1>2. Len(log) <= Len(log) /\ Len(<<>>) <= Len(log)
  OBVIOUS
<1> QED BY <1>1, <1>2 DEF IsPrefix

\* An audit of the stored tables passes, and so no writer is ever refused by it.
LEMMA AuditOk ==
    ASSUME LedgerInv, LogGivesTables, NEW checkpoint \in Exported
    PROVE  Audit(Snapshot, checkpoint) = "ok"
<1>1. Snapshot.events = events
  BY DEF Snapshot
<1>2. Audited(Snapshot)
  <2>1. Stored.ok
    BY DEF Stored
  <2>2. \A f \in DOMAIN Stored \ {"ok"} : Snapshot[f] = Stored[f]
    BY DEF Snapshot, Stored
  <2> QED BY <1>1, <2>1, <2>2 DEF Audited, LogGivesTables
<1>3. IsPrefix(checkpoint, events)
  BY OwnPrefix DEF Exported, LedgerInv, TypeOK
<1> QED BY <1>1, <1>2, <1>3 DEF Audit

LEMMA StepReplays == AuditInv /\ [Next]_vars => LogGivesTables' /\ ReadsWell'
<1> SUFFICES ASSUME AuditInv, [Next]_vars PROVE LogGivesTables' /\ ReadsWell'
  OBVIOUS
<1> USE DEF AuditInv
<1>1. UNCHANGED tables => LogGivesTables'
  BY DEF tables, accounts, reservations, LogGivesTables, Stored
<1>2. UNCHANGED auditor => ReadsWell'
  BY DEF auditor, ReadsWell
<1>3. ASSUME NEW checkpoint \in Exported, AuditBegin(checkpoint) PROVE ReadsWell'
  <2>1. reading' = [seen |-> Snapshot, checkpoint |-> checkpoint] /\ verdict' = "none"
    BY <1>3 DEF AuditBegin
  <2>2. Audit(Snapshot, checkpoint) = "ok"
    BY AuditOk
  <2> QED BY <2>1, <2>2 DEF ReadsWell
<1>4. CASE AuditEnd
  <2>1. reading' = None /\ verdict' = "ok"
    BY <1>4 DEF AuditEnd, ReadsWell
  <2>2. ReadsWell'
    BY <2>1 DEF ReadsWell
  <2> QED BY <1>1, <1>4, <2>2 DEF AuditEnd
<1> QED BY <1>1, <1>2, <1>3, <1>4, ReserveReplays, FinishReplays
        DEF Next, AuditBegin, AuditEnd, vars

LEMMA AuditInvariant == Spec => []AuditInv
<1>1. Init => LogGivesTables /\ ReadsWell
  BY InitReplay
<1>2. LedgerInv /\ LogGivesTables /\ ReadsWell /\ [Next]_vars => LogGivesTables' /\ ReadsWell'
  BY StepReplays DEF AuditInv
<1>3. LedgerInv /\ LogGivesTables /\ ReadsWell <=> AuditInv
  BY DEF AuditInv
<1> QED BY <1>1, <1>2, <1>3, LedgerCorrect, PTL DEF Spec

\* The audit accepts every ledger that reserve and finish have written, and a
\* standalone audit raises no false alarm whatever was committed since it began.
THEOREM AuditsPassCorrect == Spec => []AuditsPass
<1>1. AuditInv => AuditsPass
  BY AuditOk DEF AuditInv, AuditsPass, ReadsWell, Exported
<1> QED BY <1>1, AuditInvariant, PTL
=============================================================================
