----------------------- MODULE PatternEconomy_proofs -----------------------
(***************************************************************************)
(* Proofs about PatternEconomy for every set of jobs, contacts, patterns   *)
(* and feedback requests: types, one grant per user, no queued reuse that  *)
(* pays the author of the intent, and no reward without its success.       *)
(***************************************************************************)
EXTENDS PatternEconomy, FiniteSetTheorems, TLAPS

\* What the stage of a job says about the pattern it is at work on: the creator
\* that was read is the creator that is paid, since creators never change.
StageFits(j) ==
    /\ stage[j] \in {"write", "fresh"} =>
          /\ kind[j] \in Queued /\ reused[j] # None /\ seen[j] # None
          /\ seen[j].row.creator = pattern[reused[j]].creator
    /\ stage[j] = "payReuse" =>
          /\ reused[j] # None
          /\ pattern[reused[j]].creator # None
          /\ kind[j] \in Queued => pattern[reused[j]].creator # AuthorOf[j]
    /\ stage[j] = "payCreation" =>
          reused[j] = None /\ pattern[j] # None /\ pattern[j].creator # None
    /\ pattern[j] # None => stage[j] \in {"payCreation", "done"}

PatternOfStage == \A j \in Jobs : StageFits(j)

\* The execution that feedback speaks of reused a pattern that exists.
FeedbackKnows ==
    \A f \in Feedbacks : asked[f] # None =>
        /\ asked[f].reuse # None => pattern[asked[f].reuse] # None
        /\ asked[f].step = "bump" => asked[f].reuse # None

\* Whoever is about to be paid has an account.
Known(j) == step[j] \in {"grant", "record"} => Payee(j) \in accounts
PayeeKnown == \A j \in Jobs : Known(j)

\* A user who is about to be granted has not been, and by one request only.
GrantsOpen ==
    \A j \in Jobs : step[j] = "grant" =>
        /\ stage[j] = "charge"
        /\ \A e \in events : e.type = "system_grant" => e.to # <<AuthorOf[j], "user">>
        /\ \A i \in Jobs : step[i] = "grant" /\ AuthorOf[i] = AuthorOf[j] => i = j

EconomyInv ==
    TypeOK /\ PatternOfStage /\ FeedbackKnows /\ PayeeKnown /\ GrantsOpen
           /\ GrantedOnce /\ NoSelfReward

\* The part of TypeOK that is about jobs.
JobType ==
    /\ kind \in [Jobs -> Kinds]
    /\ stage \in [Jobs -> Stage]
    /\ step \in [Jobs -> {"idle", "find", "create", "grant", "record"}]
    /\ \A j \in Jobs : step[j] # "idle" <=> stage[j] \in Paying
    /\ todo \in [Jobs -> Seq(Contacts)]
    /\ \A j \in Jobs : todo[j] # <<>> <=> stage[j] = "payProvider"
    /\ reused \in [Jobs -> Patterns \cup {None}]
    /\ seen \in [Jobs -> Reading \cup {None}]

-----------------------------------------------------------------------------
(* Data.                                                                   *)

LEMMA SeqFacts ==
    ASSUME NEW S, NEW s \in Seq(S), s # <<>>
    PROVE  Head(s) \in S /\ Tail(s) \in Seq(S)
OBVIOUS

LEMMA NewRowType ==
    ASSUME NEW k \in Kinds, NEW c \in Contacts \cup {None}, NEW sec \in Nat
    PROVE  NewRow(k, c, sec) \in Row /\ NewRow(k, c, sec).creator = c
BY DEF NewRow, Row

LEMMA ReuseType ==
    ASSUME NEW row \in Row, NEW s \in Reading, NEW e \in BOOLEAN
    PROVE  Reuse(row, s, e) \in Row /\ Reuse(row, s, e).creator = row.creator
<1>1. s.row \in Row /\ s.when \in Nat
  BY DEF Reading
<1>2. WindowCount(s) \in Nat
  BY <1>1 DEF WindowCount, Row
<1>3. CoolUntil(s) \in Nat \cup {-1}
  <2>1. s.row.until \in Nat \cup {-1}
    BY <1>1 DEF Row
  <2>2. s.when + Cooldown \in Nat
    BY <1>1, EconomyAssumption
  <2> QED BY <2>1, <2>2 DEF CoolUntil
<1>4. (IF NewWindow(s) THEN s.when ELSE s.row.started) \in Nat \cup {-1}
  BY <1>1 DEF Row
<1>5. /\ row.reuses + 1 \in Nat /\ row.adapted + 1 \in Nat
      /\ (IF e THEN row.good + 1 ELSE row.good) \in Nat
  BY DEF Row
<1> QED BY <1>2, <1>3, <1>4, <1>5 DEF Reuse, Row

\* What the database counters alone make of a row.
LEMMA CounterType ==
    ASSUME NEW row \in Row, NEW n \in Nat
    PROVE  /\ [row EXCEPT !.reuses = @ + 1] \in Row
           /\ [row EXCEPT !.good = @ + 1] \in Row
           /\ [row EXCEPT !.fresh = @ + 1, !.freshSum = @ + n] \in Row
           /\ [row EXCEPT !.reuses = @ + 1].creator = row.creator
           /\ [row EXCEPT !.good = @ + 1].creator = row.creator
           /\ [row EXCEPT !.fresh = @ + 1, !.freshSum = @ + n].creator = row.creator
<1>1. [row EXCEPT !.reuses = @ + 1] \in Row /\ [row EXCEPT !.reuses = @ + 1].creator = row.creator
  BY DEF Row
<1>2. [row EXCEPT !.good = @ + 1] \in Row /\ [row EXCEPT !.good = @ + 1].creator = row.creator
  BY DEF Row
<1>3. row.fresh + 1 \in Nat /\ row.freshSum + n \in Nat
  BY DEF Row
<1>4. /\ [row EXCEPT !.fresh = @ + 1, !.freshSum = @ + n] \in Row
      /\ [row EXCEPT !.fresh = @ + 1, !.freshSum = @ + n].creator = row.creator
  BY <1>3 DEF Row
<1> QED BY <1>1, <1>2, <1>4

-----------------------------------------------------------------------------
(* Frames: what a step does not concern.                                   *)

\* The jobs of S stay as they are.
Rest(S) == \A i \in S : /\ stage'[i] = stage[i] /\ step'[i] = step[i]
                        /\ todo'[i] = todo[i] /\ reused'[i] = reused[i]
                        /\ seen'[i] = seen[i]

\* Patterns stay, with their creators; the jobs of S make none.
CreatorsStay(S) ==
    /\ \A p \in Patterns : pattern[p] # None =>
          pattern'[p] # None /\ pattern'[p].creator = pattern[p].creator
    /\ \A i \in S : pattern'[i] # None => pattern[i] # None

LEMMA RestFits ==
    ASSUME EconomyInv, NEW S \in SUBSET Jobs, Rest(S), CreatorsStay(S), kind' = kind
    PROVE  \A i \in S : StageFits(i)'
<1> SUFFICES ASSUME NEW i \in S PROVE StageFits(i)'
  OBVIOUS
<1>1. /\ stage'[i] = stage[i] /\ reused'[i] = reused[i] /\ seen'[i] = seen[i]
      /\ kind'[i] = kind[i] /\ i \in Jobs /\ i \in Patterns
      /\ StageFits(i)
      /\ reused[i] # None => reused[i] \in Patterns /\ pattern[reused[i]] # None
  BY DEF Rest, EconomyInv, PatternOfStage, TypeOK, Patterns
<1> QED BY <1>1 DEF StageFits, CreatorsStay

LEMMA RestKnown ==
    ASSUME EconomyInv, NEW S \in SUBSET Jobs, Rest(S), CreatorsStay(S),
           accounts \subseteq accounts'
    PROVE  \A i \in S : Known(i)'
<1> SUFFICES ASSUME NEW i \in S, step'[i] \in {"grant", "record"}
             PROVE  Payee(i)' \in accounts'
  BY DEF Known
<1>1. /\ stage'[i] = stage[i] /\ step'[i] = step[i] /\ todo'[i] = todo[i]
      /\ reused'[i] = reused[i] /\ i \in Jobs
      /\ StageFits(i) /\ Known(i)
      /\ reused[i] # None => reused[i] \in Patterns /\ pattern[reused[i]] # None
      /\ stage[i] \in Paying
  BY DEF Rest, EconomyInv, PatternOfStage, PayeeKnown, TypeOK
<1>2. Payee(i)' = Payee(i)
  <2>1. CASE stage[i] \in {"charge", "payProvider"}
    BY <1>1, <2>1 DEF Payee
  <2>2. CASE stage[i] \in {"payReuse", "payCreation"}
    <3>1. Subject(i)' = Subject(i)
      BY <1>1 DEF Subject
    <3>2. Subject(i) \in Patterns /\ pattern[Subject(i)] # None
      BY <1>1, <2>2 DEF Subject, StageFits, Patterns
    <3> QED BY <1>1, <2>2, <3>1, <3>2 DEF Payee, CreatorsStay
  <2> QED BY <1>1, <2>1, <2>2 DEF Paying
<1> QED BY <1>1, <1>2 DEF Known

\* A step with which nobody begins a grant and no grant event is made.
LEMMA RestGrants ==
    ASSUME EconomyInv,
           \A i \in Jobs : step'[i] = "grant" => step[i] = "grant" /\ stage'[i] = stage[i],
           \A e \in events' : e.type = "system_grant" => e \in events
    PROVE  GrantsOpen' /\ GrantedOnce'
BY DEF EconomyInv, GrantsOpen, GrantedOnce

LEMMA InitInv == Init => EconomyInv
<1> SUFFICES ASSUME Init PROVE EconomyInv
  OBVIOUS
<1>1. TypeOK
  BY DEF Init, TypeOK, Stage, Paying, Accounts
<1>2. PatternOfStage
  BY DEF Init, PatternOfStage, StageFits, Patterns
<1>3. FeedbackKnows /\ PayeeKnown /\ GrantsOpen
  BY DEF Init, FeedbackKnows, PayeeKnown, Known, GrantsOpen
<1>4. GrantedOnce /\ NoSelfReward
  BY DEF Init, GrantedOnce, NoSelfReward
<1> QED BY <1>1, <1>2, <1>3, <1>4 DEF EconomyInv

-----------------------------------------------------------------------------
(* Steps between the stages, before the pattern of a job is known.         *)

LEMMA EnterType ==
    ASSUME JobType, NEW j \in Jobs, NEW s \in Stage \ {"payProvider"}, Enter(j, s),
           todo[j] = <<>>, UNCHANGED <<kind, todo, reused, seen>>
    PROVE  JobType'
BY DEF JobType, Enter, Paying

LEMMA BeginInv ==
    ASSUME EconomyInv, NEW j \in Jobs, Submit(j) \/ Execute(j) \/ Commit(j) \/ Settle(j)
    PROVE  EconomyInv'
<1> USE DEF EconomyInv
<1>1. UNCHANGED <<kind, now, reused, seen, accepted, asked, pattern, accounts, funds, events>>
  BY DEF Submit, Execute, Commit, Settle, credit, feedback
<1>2. mishaps' = mishaps
  BY DEF Submit, Execute, Commit, Settle
<1>3. Rest(Jobs \ {j}) /\ CreatorsStay(Jobs)
  BY <1>1 DEF Submit, Execute, Commit, Settle, Enter, Rest, CreatorsStay, TypeOK
<1>4. stage'[j] \in {"charge", "find", "settle", "payProvider"} /\ step'[j] \in {"idle", "find"}
  BY DEF Submit, Execute, Commit, Settle, Enter, TypeOK
<1>5. pattern[j] = None
  BY DEF PatternOfStage, StageFits, Submit, Execute, Commit, Settle, TypeOK, Patterns
<1>6. JobType'
  <2>1. JobType /\ (stage[j] \in {"absent", "open", "commit", "settle"} => todo[j] = <<>>)
    BY DEF JobType, TypeOK
  <2>2. CASE Submit(j) \/ Execute(j)
    BY <2>1, <2>2, EnterType DEF Submit, Execute, Stage, Paying
  <2>3. CASE Commit(j) \/ Settle(j)
    <3>1. ProvidersOf[j] \in Seq(Contacts) /\ ProvidersOf[j] # <<>>
      BY EconomyAssumption
    <3>2. CASE /\ Enter(j, "payProvider")
               /\ todo' = [todo EXCEPT ![j] = ProvidersOf[j]]
      BY <1>1, <2>1, <3>1, <3>2 DEF Enter, JobType, Stage, Paying
    <3>3. CASE Enter(j, "settle") /\ todo' = [todo EXCEPT ![j] = <<>>]
      BY <1>1, <2>1, <3>3 DEF Enter, JobType, Stage, Paying
    <3> QED BY <2>3, <3>2, <3>3 DEF Commit, Settle
  <2> QED BY <2>2, <2>3
<1>7. TypeOK'
  BY <1>1, <1>2, <1>6 DEF TypeOK, JobType
<1>8. PatternOfStage'
  <2>1. \A i \in Jobs \ {j} : StageFits(i)'
    BY <1>1, <1>3, RestFits DEF CreatorsStay
  <2>2. StageFits(j)'
    BY <1>1, <1>4, <1>5 DEF StageFits
  <2> QED BY <2>1, <2>2 DEF PatternOfStage
<1>9. FeedbackKnows' /\ NoSelfReward'
  BY <1>1 DEF FeedbackKnows, NoSelfReward
<1>10. PayeeKnown'
  <2>1. \A i \in Jobs \ {j} : Known(i)'
    BY <1>1, <1>3, RestKnown DEF CreatorsStay
  <2> QED BY <1>4, <2>1 DEF PayeeKnown, Known
<1>11. GrantsOpen' /\ GrantedOnce'
  BY <1>1, <1>3, <1>4, RestGrants DEF Rest
<1> QED BY <1>7, <1>8, <1>9, <1>10, <1>11

LEMMA FindReusableInv == ASSUME EconomyInv, NEW j \in Jobs, FindReusable(j) PROVE EconomyInv'
<1> USE DEF EconomyInv
<1>1. PICK p \in Patterns \cup {None} : /\ reused' = [reused EXCEPT ![j] = p]
                                        /\ p # None => pattern[p] # None
  BY DEF FindReusable, Best, Usable
<1>2. /\ stage[j] = "find" /\ Enter(j, "commit")
      /\ UNCHANGED <<kind, now, todo, seen, accepted, asked, pattern, accounts, funds, events, mishaps>>
  BY DEF FindReusable, credit, feedback
<1>3. Rest(Jobs \ {j}) /\ CreatorsStay(Jobs)
  BY <1>1, <1>2 DEF Enter, Rest, CreatorsStay, TypeOK
<1>4. stage'[j] = "commit" /\ step'[j] = "idle"
  BY <1>2 DEF Enter, TypeOK, Paying
<1>5. TypeOK'
  <2>1. JobType'
    BY <1>1, <1>2 DEF Enter, JobType, TypeOK, Stage, Paying
  <2>2. \A i \in Jobs : reused'[i] # None => pattern'[reused'[i]] # None
    BY <1>1, <1>2 DEF TypeOK
  <2> QED BY <1>2, <2>1, <2>2 DEF TypeOK, JobType
<1>6. PatternOfStage'
  <2>1. \A i \in Jobs \ {j} : StageFits(i)'
    BY <1>2, <1>3, RestFits DEF CreatorsStay
  <2>2. pattern[j] = None
    BY <1>2 DEF PatternOfStage, StageFits
  <2>3. StageFits(j)'
    BY <1>2, <1>4, <2>2 DEF StageFits
  <2> QED BY <2>1, <2>3 DEF PatternOfStage
<1>7. FeedbackKnows' /\ NoSelfReward'
  BY <1>2 DEF FeedbackKnows, NoSelfReward
<1>8. PayeeKnown'
  <2>1. \A i \in Jobs \ {j} : Known(i)'
    BY <1>2, <1>3, RestKnown DEF CreatorsStay
  <2> QED BY <1>4, <2>1 DEF PayeeKnown, Known
<1>9. GrantsOpen' /\ GrantedOnce'
  BY <1>2, <1>3, <1>4, RestGrants DEF Rest
<1> QED BY <1>5, <1>6, <1>7, <1>8, <1>9

-----------------------------------------------------------------------------
(* Payments.                                                               *)

\* A payee is a person in the role the payment is made to.
LEMMA PayeeType ==
    ASSUME EconomyInv, NEW j \in Jobs, stage[j] \in Paying
    PROVE  /\ Payee(j) \in Accounts
           /\ stage[j] = "charge" => Payee(j) = <<AuthorOf[j], "user">>
           /\ stage[j] = "payReuse" /\ kind[j] \in Queued => Payee(j)[1] # AuthorOf[j]
<1> USE DEF EconomyInv
<1>1. CASE stage[j] = "charge"
  BY <1>1, EconomyAssumption DEF Payee, Accounts, OwnerType
<1>2. CASE stage[j] = "payProvider"
  <2>1. todo[j] \in Seq(Contacts) /\ todo[j] # <<>>
    BY <1>2 DEF TypeOK
  <2>2. Head(todo[j]) \in Contacts
    BY <2>1, SeqFacts
  <2> QED BY <1>2, <2>2 DEF Payee, Accounts, OwnerType
<1>3. CASE stage[j] \in {"payReuse", "payCreation"}
  <2>1. StageFits(j)
    BY DEF PatternOfStage
  <2>2. /\ Subject(j) \in Patterns
        /\ pattern[Subject(j)] # None /\ pattern[Subject(j)].creator # None
    BY <1>3, <2>1 DEF Subject, StageFits, Patterns, TypeOK
  <2>3. pattern[Subject(j)].creator \in Contacts
    BY <2>2 DEF TypeOK, Row
  <2>4. Payee(j) = <<pattern[Subject(j)].creator, "pattern_creator">>
    BY <1>3 DEF Payee
  <2>5. stage[j] = "payReuse" /\ kind[j] \in Queued => pattern[Subject(j)].creator # AuthorOf[j]
    BY <2>1 DEF StageFits, Subject
  <2> QED BY <1>3, <2>3, <2>4, <2>5 DEF Accounts, OwnerType
<1> QED BY <1>1, <1>2, <1>3 DEF Paying

\* The end of a payment moves on to a stage at which no pattern is known.
LEMMA EndPaymentType ==
    ASSUME EconomyInv, NEW j \in Jobs, stage[j] \in Paying, EndPayment(j),
           UNCHANGED <<kind, reused, seen>>
    PROVE  /\ JobType' /\ Rest(Jobs \ {j})
           /\ stage'[j] \in {"open", "payProvider", "pattern", "done"}
           /\ pattern[j] # None => stage'[j] = "done"
           /\ step'[j] \in {"idle", "find"}
<1> USE DEF EconomyInv
<1>1. JobType
  BY DEF JobType, TypeOK
<1>2. Rest(Jobs \ {j})
  BY DEF EndPayment, Enter, Rest, TypeOK
<1>3. StageFits(j)
  BY DEF PatternOfStage
<1>4. CASE stage[j] # "payProvider"
  <2>1. todo[j] = <<>>
    BY <1>4 DEF TypeOK
  <2>2. todo' = todo
    BY <2>1 DEF EndPayment, TypeOK
  <2>3. CASE stage[j] = "charge"
    <3>1. Enter(j, "open")
      BY <2>3 DEF EndPayment
    <3>2. JobType'
      BY <1>1, <2>1, <2>2, <3>1, EnterType DEF Stage, Paying
    <3> QED BY <1>1, <1>2, <1>3, <2>3, <3>1, <3>2 DEF JobType, Enter, StageFits, Paying
  <2>4. CASE stage[j] # "charge"
    <3>1. Enter(j, "done")
      BY <1>4, <2>4 DEF EndPayment
    <3>2. JobType'
      BY <1>1, <2>1, <2>2, <3>1, EnterType DEF Stage, Paying
    <3> QED BY <1>1, <1>2, <3>1, <3>2 DEF JobType, Enter, Paying
  <2> QED BY <2>3, <2>4
<1>5. CASE stage[j] = "payProvider"
  <2>1. todo[j] \in Seq(Contacts) /\ todo[j] # <<>>
    BY <1>5 DEF TypeOK
  <2>2. Tail(todo[j]) \in Seq(Contacts)
    BY <2>1, SeqFacts
  <2>3. todo' = [todo EXCEPT ![j] = Tail(todo[j])]
    BY <2>1 DEF EndPayment, TypeOK
  <2>4. pattern[j] = None
    BY <1>3, <1>5 DEF StageFits
  <2>5. CASE Tail(todo[j]) # <<>>
    <3>1. Enter(j, "payProvider")
      BY <1>5, <2>5 DEF EndPayment
    <3> QED BY <1>1, <1>2, <2>2, <2>3, <2>4, <2>5, <3>1 DEF JobType, Enter, Stage, Paying
  <2>6. CASE Tail(todo[j]) = <<>>
    <3>1. Enter(j, "pattern")
      BY <1>5, <2>6 DEF EndPayment
    <3> QED BY <1>1, <1>2, <2>2, <2>3, <2>4, <2>6, <3>1 DEF JobType, Enter, Stage, Paying
  <2> QED BY <2>5, <2>6
<1> QED BY <1>4, <1>5

\* Whatever it made of the account, the end of a payment keeps what is not
\* about accounts and events.
LEMMA EndPaymentInv ==
    ASSUME EconomyInv, NEW j \in Jobs, stage[j] \in Paying, EndPayment(j),
           UNCHANGED <<kind, reused, seen, accepted, asked, pattern, accounts>>,
           \A e \in events' : e.type = "system_grant" => e \in events
    PROVE  /\ JobType' /\ PatternOfStage' /\ FeedbackKnows' /\ PayeeKnown'
           /\ GrantsOpen' /\ GrantedOnce'
<1> USE DEF EconomyInv
<1>1. /\ JobType' /\ Rest(Jobs \ {j}) /\ CreatorsStay(Jobs \ {j})
      /\ stage'[j] \in {"open", "payProvider", "pattern", "done"}
      /\ pattern[j] # None => stage'[j] = "done"
      /\ step'[j] \in {"idle", "find"}
  BY EndPaymentType DEF CreatorsStay
<1>2. PatternOfStage'
  <2>1. \A i \in Jobs \ {j} : StageFits(i)'
    BY <1>1, RestFits
  <2>2. StageFits(j)'
    BY <1>1 DEF StageFits
  <2> QED BY <2>1, <2>2 DEF PatternOfStage
<1>3. PayeeKnown'
  <2>1. \A i \in Jobs \ {j} : Known(i)'
    BY <1>1, RestKnown
  <2> QED BY <1>1, <2>1 DEF PayeeKnown, Known
<1>4. GrantsOpen' /\ GrantedOnce'
  BY <1>1, RestGrants DEF Rest
<1>5. FeedbackKnows'
  BY DEF FeedbackKnows
<1> QED BY <1>1, <1>2, <1>3, <1>4, <1>5

LEMMA UnpaidInv ==
    ASSUME EconomyInv, NEW j \in Jobs, CreateCollides(j) \/ PayFails(j)
    PROVE  EconomyInv'
<1> USE DEF EconomyInv
<1>1. /\ stage[j] \in Paying /\ EndPayment(j) /\ mishaps' \in Nat
      /\ UNCHANGED <<kind, now, reused, seen, accepted, asked, pattern, accounts, funds, events>>
  BY DEF CreateCollides, PayFails, At, Mishap, credit, feedback, TypeOK
<1>2. /\ JobType' /\ PatternOfStage' /\ FeedbackKnows' /\ PayeeKnown'
      /\ GrantsOpen' /\ GrantedOnce'
  BY <1>1, EndPaymentInv
<1>3. TypeOK' /\ NoSelfReward'
  BY <1>1, <1>2 DEF TypeOK, JobType, NoSelfReward
<1> QED BY <1>2, <1>3

\* recordEvent keeps the types and adds one event.
LEMMA RecordEventType ==
    ASSUME EconomyInv, NEW j \in Jobs, stage[j] \in Paying, Payee(j) \in accounts,
           NEW type \in EventType, RecordEvent(j, type)
    PROVE  /\ funds' \in [Accounts -> [balance : Int, earned : Nat, spent : Nat]]
           /\ events' = events \cup {[type |-> type, to |-> Payee(j), job |-> j]}
           /\ events' \subseteq [type : EventType, to : accounts, job : Jobs]
<1> USE DEF EconomyInv
<1>1. Payee(j) \in Accounts /\ Amount[type] \in Int
  BY PayeeType, EconomyAssumption
<1>2. Credit(Amount[type]) \in Nat /\ Debit(Amount[type]) \in Nat
  BY <1>1 DEF Credit, Debit
<1>3. funds[Payee(j)] \in [balance : Int, earned : Nat, spent : Nat]
  BY <1>1 DEF TypeOK
<1>4. [balance |-> funds[Payee(j)].balance + Amount[type],
       earned |-> funds[Payee(j)].earned + Credit(Amount[type]),
       spent |-> funds[Payee(j)].spent + Debit(Amount[type])]
         \in [balance : Int, earned : Nat, spent : Nat]
  BY <1>1, <1>2, <1>3
<1>5. funds' \in [Accounts -> [balance : Int, earned : Nat, spent : Nat]]
  BY <1>4 DEF RecordEvent, TypeOK
<1>6. events' = events \cup {[type |-> type, to |-> Payee(j), job |-> j]}
  BY DEF RecordEvent
<1>7. events' \subseteq [type : EventType, to : accounts, job : Jobs]
  BY <1>6 DEF TypeOK
<1> QED BY <1>5, <1>6, <1>7

LEMMA PayInv == ASSUME EconomyInv, NEW j \in Jobs, Pay(j) PROVE EconomyInv'
<1> USE DEF EconomyInv
<1>1. /\ stage[j] \in Paying /\ step[j] = "record" /\ EndPayment(j)
      /\ RecordEvent(j, Purpose(j))
      /\ UNCHANGED <<kind, now, reused, seen, accepted, asked, pattern, accounts, mishaps>>
  BY DEF Pay, At, feedback
<1>2. /\ Purpose(j) \in EventType \ {"system_grant"}
      /\ Purpose(j) = "pattern_reuse_reward" => stage[j] = "payReuse"
  BY <1>1 DEF Purpose, EventType, Paying
<1>3. Payee(j) \in accounts
  BY <1>1 DEF PayeeKnown, Known
<1>4. /\ funds' \in [Accounts -> [balance : Int, earned : Nat, spent : Nat]]
      /\ events' = events \cup {[type |-> Purpose(j), to |-> Payee(j), job |-> j]}
      /\ events' \subseteq [type : EventType, to : accounts, job : Jobs]
  BY <1>1, <1>2, <1>3, RecordEventType
<1>5. \A e \in events' : e.type = "system_grant" => e \in events
  BY <1>2, <1>4
<1>6. /\ JobType' /\ PatternOfStage' /\ FeedbackKnows' /\ PayeeKnown'
      /\ GrantsOpen' /\ GrantedOnce'
  BY <1>1, <1>5, EndPaymentInv
<1>7. TypeOK'
  BY <1>1, <1>4, <1>6 DEF TypeOK, JobType
<1>8. NoSelfReward'
  <2>1. stage[j] = "payReuse" /\ kind[j] \in Queued => Payee(j)[1] # AuthorOf[j]
    BY <1>1, PayeeType
  <2> QED BY <1>1, <1>2, <1>4, <2>1 DEF NoSelfReward
<1> QED BY <1>6, <1>7, <1>8

LEMMA GrantInv == ASSUME EconomyInv, NEW j \in Jobs, Grant(j) PROVE EconomyInv'
<1> USE DEF EconomyInv
<1>1. /\ stage[j] = "charge" /\ step[j] = "grant"
      /\ RecordEvent(j, "system_grant")
      /\ step' = [step EXCEPT ![j] = "record"]
      /\ UNCHANGED <<kind, now, stage, todo, reused, seen, accepted, asked, pattern, accounts, mishaps>>
  BY DEF Grant, At, feedback, GrantsOpen
<1>2. Payee(j) \in accounts /\ Payee(j) = <<AuthorOf[j], "user">>
  BY <1>1, PayeeType DEF PayeeKnown, Known, Paying
<1>3. /\ funds' \in [Accounts -> [balance : Int, earned : Nat, spent : Nat]]
      /\ events' = events \cup {[type |-> "system_grant", to |-> Payee(j), job |-> j]}
      /\ events' \subseteq [type : EventType, to : accounts, job : Jobs]
  BY <1>1, <1>2, RecordEventType DEF EventType, Paying
<1>4. JobType'
  BY <1>1 DEF TypeOK, JobType, Paying
<1>5. TypeOK'
  BY <1>1, <1>3, <1>4 DEF TypeOK, JobType
<1>6. Rest(Jobs \ {j}) /\ CreatorsStay(Jobs)
  BY <1>1 DEF Rest, CreatorsStay, TypeOK
<1>7. PatternOfStage'
  BY <1>1 DEF PatternOfStage, StageFits
<1>8. FeedbackKnows'
  BY <1>1 DEF FeedbackKnows
<1>9. PayeeKnown'
  <2>1. \A i \in Jobs \ {j} : Known(i)'
    BY <1>1, <1>6, RestKnown DEF CreatorsStay
  <2>2. Known(j)'
    BY <1>1, <1>2 DEF Known, Payee
  <2> QED BY <2>1, <2>2 DEF PayeeKnown
<1>10. GrantsOpen'
  <2> SUFFICES ASSUME NEW i \in Jobs, step'[i] = "grant"
               PROVE  /\ stage'[i] = "charge"
                      /\ \A e \in events' : e.type = "system_grant" => e.to # <<AuthorOf[i], "user">>
                      /\ \A k \in Jobs : step'[k] = "grant" /\ AuthorOf[k] = AuthorOf[i] => k = i
    BY DEF GrantsOpen
  <2>1. i # j /\ step[i] = "grant"
    BY <1>1 DEF TypeOK
  <2>2. AuthorOf[i] # AuthorOf[j]
    BY <1>1, <2>1 DEF GrantsOpen
  <2>3. \A e \in events' : e.type = "system_grant" => e.to # <<AuthorOf[i], "user">>
    BY <1>2, <1>3, <2>1, <2>2 DEF GrantsOpen
  <2>4. \A k \in Jobs : step'[k] = "grant" => step[k] = "grant"
    BY <1>1 DEF TypeOK
  <2> QED BY <1>1, <2>1, <2>3, <2>4 DEF GrantsOpen
<1>11. GrantedOnce'
  BY <1>1, <1>2, <1>3 DEF GrantedOnce, GrantsOpen
<1>12. NoSelfReward'
  BY <1>1, <1>3 DEF NoSelfReward
<1> QED BY <1>5, <1>7, <1>8, <1>9, <1>10, <1>11, <1>12

LEMMA FindAccountInv == ASSUME EconomyInv, NEW j \in Jobs, FindAccount(j) PROVE EconomyInv'
<1> USE DEF EconomyInv
<1>1. /\ stage[j] \in Paying /\ step[j] = "find"
      /\ step' = [step EXCEPT ![j] = IF Payee(j) \in accounts THEN "record" ELSE "create"]
      /\ UNCHANGED <<kind, now, stage, todo, reused, seen, accepted, asked, pattern,
                     accounts, funds, events, mishaps>>
  BY DEF FindAccount, At, feedback, credit
<1>2. TypeOK'
  BY <1>1 DEF TypeOK
<1>3. PatternOfStage' /\ FeedbackKnows' /\ NoSelfReward'
  BY <1>1 DEF PatternOfStage, StageFits, FeedbackKnows, NoSelfReward
<1>4. PayeeKnown'
  <2>1. \A i \in Jobs : Payee(i)' = Payee(i)
    BY <1>1 DEF Payee, Subject
  <2> QED BY <1>1, <2>1 DEF PayeeKnown, Known, TypeOK
<1>5. GrantsOpen' /\ GrantedOnce'
  BY <1>1, RestGrants DEF TypeOK
<1> QED BY <1>2, <1>3, <1>4, <1>5

\* The unique index decides who grants: whoever creates the account of a user
\* is the only one to do so, and nothing was granted before.
LEMMA CreateAccountInv == ASSUME EconomyInv, NEW j \in Jobs, CreateAccount(j) PROVE EconomyInv'
<1> USE DEF EconomyInv
<1>1. /\ stage[j] \in Paying /\ step[j] = "create"
      /\ Payee(j) \notin accounts
      /\ accounts' = accounts \cup {Payee(j)}
      /\ UNCHANGED <<kind, now, stage, todo, reused, seen, accepted, asked, pattern,
                     funds, events, mishaps>>
  BY DEF CreateAccount, At, feedback
<1>2. PICK s \in {"grant", "record"} : /\ step' = [step EXCEPT ![j] = s]
                                       /\ s = "grant" => stage[j] = "charge"
  BY DEF CreateAccount
<1>3. Payee(j) \in Accounts /\ (stage[j] = "charge" => Payee(j) = <<AuthorOf[j], "user">>)
  BY <1>1, PayeeType
<1>4. TypeOK'
  BY <1>1, <1>2, <1>3 DEF TypeOK
<1>5. PatternOfStage' /\ FeedbackKnows' /\ NoSelfReward'
  BY <1>1 DEF PatternOfStage, StageFits, FeedbackKnows, NoSelfReward
<1>6. \A i \in Jobs : Payee(i)' = Payee(i)
  BY <1>1 DEF Payee, Subject
<1>7. PayeeKnown'
  BY <1>1, <1>2, <1>6 DEF PayeeKnown, Known, TypeOK
<1>8. GrantsOpen'
  <2>1. \A i \in Jobs : step[i] = "grant" => Payee(i) \in accounts /\ Payee(i) = <<AuthorOf[i], "user">>
    BY PayeeType DEF PayeeKnown, Known, GrantsOpen, Paying
  <2>2. CASE s = "record"
    BY <1>1, <1>2, <2>2, RestGrants DEF TypeOK
  <2>3. CASE s = "grant"
    <3>1. \A i \in Jobs : step[i] = "grant" => AuthorOf[i] # AuthorOf[j]
      BY <1>1, <1>2, <1>3, <2>1, <2>3
    <3>2. \A e \in events : e.to # <<AuthorOf[j], "user">>
      <4>1. events \subseteq [type : EventType, to : accounts, job : Jobs]
        BY DEF TypeOK
      <4>2. \A e \in events : e.to \in accounts
        BY <4>1
      <4>3. <<AuthorOf[j], "user">> \notin accounts
        BY <1>1, <1>2, <1>3, <2>3
      <4> QED BY <4>2, <4>3
    <3>3. \A i \in Jobs : step'[i] = "grant" <=> step[i] = "grant" \/ i = j
      BY <1>2, <2>3 DEF TypeOK
    <3> SUFFICES ASSUME NEW i \in Jobs, step'[i] = "grant"
                 PROVE  /\ stage[i] = "charge"
                        /\ \A e \in events : e.type = "system_grant" => e.to # <<AuthorOf[i], "user">>
                        /\ \A k \in Jobs : step'[k] = "grant" /\ AuthorOf[k] = AuthorOf[i] => k = i
      BY <1>1 DEF GrantsOpen
    <3>4. CASE i = j
      BY <1>2, <2>3, <3>1, <3>2, <3>3, <3>4
    <3>5. CASE i # j
      BY <3>1, <3>3, <3>5 DEF GrantsOpen
    <3> QED BY <3>4, <3>5
  <2> QED BY <2>2, <2>3
<1>9. GrantedOnce'
  BY <1>1 DEF GrantedOnce
<1> QED BY <1>4, <1>5, <1>7, <1>8, <1>9

-----------------------------------------------------------------------------
(* Patterns.                                                               *)

\* A step of one job that moves patterns and its own stage, before or into a
\* payment.
LEMMA PatternStep ==
    ASSUME EconomyInv, NEW j \in Jobs,
           JobType', Rest(Jobs \ {j}), CreatorsStay(Jobs \ {j}), StageFits(j)',
           pattern' \in [Patterns -> Row \cup {None}],
           step'[j] \in {"idle", "find"}, mishaps' \in Nat,
           UNCHANGED <<kind, now, reused, accepted, asked, accounts, funds, events>>
    PROVE  EconomyInv'
<1> USE DEF EconomyInv
<1>1. TypeOK'
  <2>1. \A i \in Jobs : reused'[i] # None => pattern'[reused'[i]] # None
    BY DEF TypeOK, CreatorsStay
  <2> QED BY <2>1 DEF TypeOK, JobType
<1>2. PatternOfStage'
  BY RestFits DEF PatternOfStage
<1>3. FeedbackKnows'
  <2> SUFFICES ASSUME NEW f \in Feedbacks, asked'[f] # None
               PROVE  /\ asked'[f].reuse # None => pattern'[asked'[f].reuse] # None
                      /\ asked'[f].step = "bump" => asked'[f].reuse # None
    BY DEF FeedbackKnows
  <2>1. asked[f].reuse \in Patterns \cup {None}
    BY DEF TypeOK
  <2> QED BY <2>1 DEF FeedbackKnows, CreatorsStay
<1>4. NoSelfReward'
  BY DEF NoSelfReward
<1>5. PayeeKnown'
  <2>1. \A i \in Jobs \ {j} : Known(i)'
    BY RestKnown
  <2> QED BY <2>1 DEF PayeeKnown, Known
<1>6. GrantsOpen' /\ GrantedOnce'
  BY RestGrants DEF Rest
<1> QED BY <1>1, <1>2, <1>3, <1>4, <1>5, <1>6

LEMMA ReadPatternInv == ASSUME EconomyInv, NEW j \in Jobs, ReadPattern(j) PROVE EconomyInv'
<1> USE DEF EconomyInv
<1> PICK mode \in Mode : \E sec \in Elapsed[mode] :
        seen' = [seen EXCEPT ![j] = [row |-> pattern[reused[j]], when |-> now,
                                     sec |-> sec, mode |-> mode]]
  BY DEF ReadPattern
<1>1. PICK sec \in Elapsed[mode] :
        seen' = [seen EXCEPT ![j] = [row |-> pattern[reused[j]], when |-> now,
                                     sec |-> sec, mode |-> mode]]
  OBVIOUS
<1>2. /\ stage[j] = "pattern" /\ kind[j] \in Queued /\ reused[j] # None
      /\ Enter(j, "write")
      /\ UNCHANGED <<kind, now, todo, reused, accepted, asked, pattern, accounts, funds, events, mishaps>>
  BY DEF ReadPattern, feedback, credit
<1>3. pattern[reused[j]] \in Row /\ sec \in Nat /\ now \in Nat
  BY <1>2, EconomyAssumption DEF TypeOK
<1>4. /\ [row |-> pattern[reused[j]], when |-> now, sec |-> sec, mode |-> mode] \in Reading
      /\ [row |-> pattern[reused[j]], when |-> now, sec |-> sec, mode |-> mode] # None
  BY <1>3, EconomyAssumption DEF Reading
<1>5. JobType'
  BY <1>1, <1>2, <1>4 DEF Enter, JobType, TypeOK, Stage, Paying
<1>6. Rest(Jobs \ {j}) /\ CreatorsStay(Jobs \ {j})
  BY <1>1, <1>2 DEF Enter, Rest, CreatorsStay, TypeOK
<1>7. stage'[j] = "write" /\ step'[j] = "idle"
  BY <1>2 DEF Enter, TypeOK, Paying
<1>8. StageFits(j)'
  <2>1. seen'[j] # None /\ seen'[j].row = pattern[reused[j]]
    BY <1>1, <1>4 DEF TypeOK
  <2>2. pattern[j] = None
    BY <1>2 DEF PatternOfStage, StageFits
  <2> QED BY <1>2, <1>7, <2>1, <2>2 DEF StageFits
<1> QED BY <1>2, <1>5, <1>6, <1>7, <1>8, PatternStep DEF TypeOK

\* The reward is entered only when the creator that was read may be paid.
LEMMA RewardReuseStep ==
    ASSUME EconomyInv, NEW j \in Jobs, stage[j] \in {"write", "fresh"}, RewardReuse(j),
           CreatorsStay(Jobs), pattern' \in [Patterns -> Row \cup {None}], mishaps' \in Nat,
           UNCHANGED <<kind, now, todo, reused, accepted, asked, accounts, funds, events>>
    PROVE  EconomyInv'
<1> USE DEF EconomyInv
<1>1. /\ kind[j] \in Queued /\ reused[j] # None /\ seen[j] # None
      /\ seen[j].row.creator = pattern[reused[j]].creator
      /\ pattern[j] = None
      /\ reused[j] \in Patterns /\ pattern[reused[j]] # None /\ todo[j] = <<>>
  BY DEF PatternOfStage, StageFits, TypeOK
<1>2. seen' = [seen EXCEPT ![j] = None]
  BY DEF RewardReuse
<1>3. Rest(Jobs \ {j}) /\ CreatorsStay(Jobs \ {j})
  BY <1>2 DEF RewardReuse, Enter, Rest, CreatorsStay, TypeOK
<1>4. CASE Enter(j, "payReuse") /\ Eligible(j) /\ seen[j].row.creator # None
  <2>1. JobType'
    BY <1>1, <1>2, <1>4 DEF Enter, JobType, TypeOK, Stage, Paying
  <2>2. stage'[j] = "payReuse" /\ step'[j] = "find"
    BY <1>4 DEF Enter, TypeOK, Paying
  <2>3. seen[j].row.creator # AuthorOf[j]
    BY <1>4 DEF Eligible
  <2>4. StageFits(j)'
    BY <1>1, <1>4, <2>2, <2>3 DEF StageFits, CreatorsStay
  <2> QED BY <1>3, <2>1, <2>2, <2>4, PatternStep
<1>5. CASE Enter(j, "done")
  <2>1. JobType'
    BY <1>1, <1>2, <1>5 DEF Enter, JobType, TypeOK, Stage, Paying
  <2>2. stage'[j] = "done" /\ step'[j] = "idle"
    BY <1>5 DEF Enter, TypeOK, Paying
  <2>3. StageFits(j)'
    BY <2>2 DEF StageFits
  <2> QED BY <1>3, <2>1, <2>2, <2>3, PatternStep
<1> QED BY <1>4, <1>5 DEF RewardReuse

\* A pattern row that is changed in place, with its creator kept.
LEMMA ChangeRow ==
    ASSUME EconomyInv, NEW p \in Patterns, pattern[p] # None, NEW row \in Row,
           row.creator = pattern[p].creator, pattern' = [pattern EXCEPT ![p] = row]
    PROVE  CreatorsStay(Jobs) /\ pattern' \in [Patterns -> Row \cup {None}]
<1>1. row # None
  BY EconomyAssumption
<1> QED BY <1>1 DEF EconomyInv, TypeOK, CreatorsStay

LEMMA WriteReuseInv == ASSUME EconomyInv, NEW j \in Jobs, WriteReuse(j) PROVE EconomyInv'
<1> USE DEF EconomyInv
<1>1. /\ stage[j] = "write" /\ reused[j] \in Patterns /\ pattern[reused[j]] # None
      /\ pattern[reused[j]] \in Row /\ seen[j] \in Reading
      /\ mishaps' \in Nat
      /\ UNCHANGED <<kind, now, todo, reused, accepted, asked, accounts, funds, events>>
  BY DEF WriteReuse, PatternOfStage, StageFits, TypeOK, feedback, credit
<1>2. Eligible(j) \in BOOLEAN
  BY DEF Eligible, Saved, Cooling
<1>3. /\ Reuse(pattern[reused[j]], seen[j], Eligible(j)) \in Row
      /\ Reuse(pattern[reused[j]], seen[j], Eligible(j)).creator = pattern[reused[j]].creator
  BY <1>1, <1>2, ReuseType
<1>4. pattern' = [pattern EXCEPT ![reused[j]] = Reuse(pattern[reused[j]], seen[j], Eligible(j))]
  BY DEF WriteReuse
<1>5. CreatorsStay(Jobs) /\ pattern' \in [Patterns -> Row \cup {None}]
  BY <1>1, <1>3, <1>4, ChangeRow
<1>6. CASE RewardReuse(j)
  BY <1>1, <1>5, <1>6, RewardReuseStep
<1>7. CASE Enter(j, "fresh") /\ UNCHANGED seen
  <2>1. JobType'
    BY <1>1, <1>7 DEF Enter, JobType, TypeOK, Stage, Paying
  <2>2. Rest(Jobs \ {j}) /\ CreatorsStay(Jobs \ {j})
    BY <1>1, <1>5, <1>7 DEF Enter, Rest, CreatorsStay, TypeOK
  <2>3. stage'[j] = "fresh" /\ step'[j] = "idle"
    BY <1>7 DEF Enter, TypeOK, Paying
  <2>4. StageFits(j) /\ (pattern'[j] # None => pattern[j] # None)
    BY <1>5 DEF PatternOfStage, CreatorsStay
  <2>5. StageFits(j)'
    BY <1>1, <1>5, <1>7, <2>3, <2>4 DEF StageFits, CreatorsStay
  <2> QED BY <1>1, <1>5, <2>1, <2>2, <2>3, <2>5, PatternStep
<1> QED BY <1>6, <1>7 DEF WriteReuse

LEMMA FreshInv ==
    ASSUME EconomyInv, NEW j \in Jobs, RecordFresh(j) \/ FreshFails(j) PROVE EconomyInv'
<1> USE DEF EconomyInv
<1>1. /\ stage[j] = "fresh" /\ reused[j] \in Patterns /\ pattern[reused[j]] # None
      /\ pattern[reused[j]] \in Row /\ seen[j] \in Reading
      /\ mishaps' \in Nat /\ RewardReuse(j)
      /\ UNCHANGED <<kind, now, todo, reused, accepted, asked, accounts, funds, events>>
  BY DEF RecordFresh, FreshFails, Mishap, PatternOfStage, StageFits, TypeOK, feedback, credit
<1>2. CreatorsStay(Jobs) /\ pattern' \in [Patterns -> Row \cup {None}]
  <2>1. CASE RecordFresh(j)
    <3> DEFINE row == [pattern[reused[j]] EXCEPT !.fresh = @ + 1, !.freshSum = @ + seen[j].sec]
    <3>1. seen[j].sec \in Nat
      BY <1>1 DEF Reading
    <3>2. row \in Row /\ row.creator = pattern[reused[j]].creator
      BY <1>1, <3>1, CounterType
    <3>3. pattern' = [pattern EXCEPT ![reused[j]] = row]
      BY <1>1, <2>1 DEF RecordFresh, TypeOK, Row
    <3> HIDE DEF row
    <3> QED BY <1>1, <3>2, <3>3, ChangeRow
  <2>2. CASE FreshFails(j)
    BY <2>2 DEF FreshFails, CreatorsStay, TypeOK
  <2> QED BY <2>1, <2>2
<1> QED BY <1>1, <1>2, RewardReuseStep

LEMMA IncrementReuseInv == ASSUME EconomyInv, NEW j \in Jobs, IncrementReuse(j) PROVE EconomyInv'
<1> USE DEF EconomyInv
<1>1. /\ stage[j] = "pattern" /\ kind[j] \notin Queued /\ reused[j] # None
      /\ reused[j] \in Patterns /\ pattern[reused[j]] # None
      /\ pattern[reused[j]] \in Row /\ todo[j] = <<>> /\ pattern[j] = None
      /\ UNCHANGED <<kind, now, todo, reused, seen, accepted, asked, accounts, funds, events, mishaps>>
  BY DEF IncrementReuse, PatternOfStage, StageFits, TypeOK, feedback, credit
<1>2. CreatorsStay(Jobs) /\ pattern' \in [Patterns -> Row \cup {None}]
  <2> DEFINE row == [pattern[reused[j]] EXCEPT !.reuses = @ + 1]
  <2>1. row \in Row /\ row.creator = pattern[reused[j]].creator
    BY <1>1, CounterType
  <2>2. pattern' = [pattern EXCEPT ![reused[j]] = row]
    BY <1>1 DEF IncrementReuse, TypeOK, Row
  <2> HIDE DEF row
  <2> QED BY <1>1, <2>1, <2>2, ChangeRow
<1>3. PICK s \in {"payReuse", "done"} :
         Enter(j, s) /\ (s = "payReuse" => pattern[reused[j]].creator # None)
  BY DEF IncrementReuse
<1>4. JobType'
  BY <1>1, <1>3, EnterType DEF JobType, TypeOK, Stage, Paying
<1>5. Rest(Jobs \ {j}) /\ CreatorsStay(Jobs \ {j})
  BY <1>1, <1>2, <1>3 DEF Enter, Rest, CreatorsStay, TypeOK
<1>6. stage'[j] = s /\ step'[j] \in {"idle", "find"}
  BY <1>3 DEF Enter, TypeOK
<1>7. StageFits(j)'
  BY <1>1, <1>2, <1>3, <1>6 DEF StageFits, CreatorsStay
<1> QED BY <1>1, <1>2, <1>4, <1>5, <1>6, <1>7, PatternStep DEF TypeOK

\* A pattern that is new has a row with the creator it was given.
LEMMA NewPattern ==
    ASSUME EconomyInv, NEW p \in Patterns, pattern[p] = None,
           NEW k \in Kinds, NEW c \in Contacts \cup {None}, NEW sec \in Nat,
           pattern' = [pattern EXCEPT ![p] = NewRow(k, c, sec)]
    PROVE  /\ CreatorsStay(Jobs \ {p}) /\ pattern' \in [Patterns -> Row \cup {None}]
           /\ pattern'[p] # None /\ pattern'[p].creator = c
<1>1. NewRow(k, c, sec) \in Row /\ NewRow(k, c, sec) # None /\ NewRow(k, c, sec).creator = c
  BY NewRowType, EconomyAssumption
<1> QED BY <1>1 DEF EconomyInv, TypeOK, CreatorsStay

LEMMA CreatePatternInv == ASSUME EconomyInv, NEW j \in Jobs, CreatePattern(j) PROVE EconomyInv'
<1> USE DEF EconomyInv
<1>1. /\ stage[j] = "pattern" /\ reused[j] = None /\ Enter(j, "payCreation")
      /\ todo[j] = <<>> /\ pattern[j] = None /\ j \in Patterns
      /\ UNCHANGED <<kind, now, todo, reused, seen, accepted, asked, accounts, funds, events, mishaps>>
  BY DEF CreatePattern, PatternOfStage, StageFits, TypeOK, feedback, credit, Patterns
<1>2. Head(ProvidersOf[j]) \in Contacts
  <2>1. ProvidersOf[j] \in Seq(Contacts) /\ ProvidersOf[j] # <<>>
    BY EconomyAssumption
  <2> QED BY <2>1, SeqFacts
<1>3. PICK k \in Kinds : \E sec \in IF kind[j] \in Queued THEN Elapsed["fresh"] ELSE {0} :
          pattern' = [pattern EXCEPT ![j] = NewRow(k, Head(ProvidersOf[j]), sec)]
  BY DEF CreatePattern
<1>4. PICK sec \in Nat : pattern' = [pattern EXCEPT ![j] = NewRow(k, Head(ProvidersOf[j]), sec)]
  <2>1. Elapsed["fresh"] \subseteq Nat
    BY EconomyAssumption DEF Mode
  <2> QED BY <1>3, <2>1
<1>5. /\ CreatorsStay(Jobs \ {j}) /\ pattern' \in [Patterns -> Row \cup {None}]
      /\ pattern'[j] # None /\ pattern'[j].creator \in Contacts
  BY <1>1, <1>2, <1>4, NewPattern
<1>6. JobType'
  BY <1>1, EnterType DEF JobType, TypeOK, Stage, Paying
<1>7. Rest(Jobs \ {j})
  BY <1>1 DEF Enter, Rest, TypeOK
<1>8. stage'[j] = "payCreation" /\ step'[j] = "find"
  BY <1>1 DEF Enter, TypeOK, Paying
<1>9. StageFits(j)'
  BY <1>1, <1>5, <1>8, EconomyAssumption DEF StageFits
<1> QED BY <1>1, <1>5, <1>6, <1>7, <1>8, <1>9, PatternStep DEF TypeOK

-----------------------------------------------------------------------------
(* Steps that concern no job's payment.                                    *)

\* Jobs stay as they are, or end: then they wait for nobody and know nothing.
LEMMA IdleStep ==
    ASSUME EconomyInv, NEW S \in SUBSET Jobs, Rest(S), JobType', CreatorsStay(Jobs),
           \A i \in Jobs \ S : step'[i] = "idle" /\ StageFits(i)',
           pattern' \in [Patterns -> Row \cup {None}],
           accepted' \in [Jobs -> BOOLEAN \cup {None}],
           asked' \in [Feedbacks -> [of : Jobs, verdict : BOOLEAN, reuse : Patterns \cup {None},
                                     step : {"write", "bump"}] \cup {None}],
           FeedbackKnows',
           now' \in Nat, mishaps' \in Nat,
           UNCHANGED <<kind, reused, accounts, funds, events>>
    PROVE  EconomyInv'
<1> USE DEF EconomyInv
<1>1. CreatorsStay(S)
  BY DEF CreatorsStay
<1>2. TypeOK'
  <2>1. \A i \in Jobs : reused'[i] # None => pattern'[reused'[i]] # None
    BY DEF TypeOK, CreatorsStay
  <2> QED BY <2>1 DEF TypeOK, JobType
<1>3. PatternOfStage'
  BY <1>1, RestFits DEF PatternOfStage
<1>4. PayeeKnown'
  <2>1. \A i \in S : Known(i)'
    BY <1>1, RestKnown
  <2> QED BY <2>1 DEF PayeeKnown, Known
<1>5. GrantsOpen' /\ GrantedOnce'
  BY RestGrants DEF Rest
<1>6. NoSelfReward'
  BY DEF NoSelfReward
<1> QED BY <1>2, <1>3, <1>4, <1>5, <1>6

LEMMA PostPatternInv == ASSUME EconomyInv, NEW p \in Posted, PostPattern(p) PROVE EconomyInv'
<1> USE DEF EconomyInv
<1>1. /\ pattern[p] = None /\ p \in Patterns
      /\ UNCHANGED <<kind, now, stage, step, todo, reused, seen, accepted, asked,
                     accounts, funds, events, mishaps>>
  BY DEF PostPattern, job, feedback, credit, Patterns
<1>2. PICK k \in Kinds, c \in PostedBy : pattern' = [pattern EXCEPT ![p] = NewRow(k, c, 0)]
  BY DEF PostPattern
<1>3. c \in Contacts \cup {None}
  BY EconomyAssumption
<1>4. CreatorsStay(Jobs \ {p}) /\ pattern' \in [Patterns -> Row \cup {None}]
  BY <1>1, <1>2, <1>3, NewPattern
<1>5. CASE p \notin Jobs
  <2>1. Rest(Jobs) /\ CreatorsStay(Jobs) /\ JobType'
    BY <1>1, <1>4, <1>5 DEF Rest, CreatorsStay, JobType, TypeOK
  <2>2. FeedbackKnows'
    BY <1>1, <1>4 DEF FeedbackKnows, CreatorsStay, TypeOK
  <2> QED BY <1>1, <1>4, <2>1, <2>2, IdleStep DEF TypeOK
<1> QED BY <1>5, EconomyAssumption

\* A step that leaves all jobs alone.
LEMMA FeedbackStep ==
    ASSUME EconomyInv, CreatorsStay(Jobs), UNCHANGED job,
           pattern' \in [Patterns -> Row \cup {None}],
           accepted' \in [Jobs -> BOOLEAN \cup {None}],
           asked' \in [Feedbacks -> [of : Jobs, verdict : BOOLEAN, reuse : Patterns \cup {None},
                                     step : {"write", "bump"}] \cup {None}],
           FeedbackKnows', now' \in Nat, mishaps' \in Nat, UNCHANGED credit
    PROVE  EconomyInv'
<1>1. Rest(Jobs) /\ JobType' /\ UNCHANGED <<kind, reused, accounts, funds, events>>
  BY DEF job, credit, Rest, JobType, EconomyInv, TypeOK
<1> QED BY <1>1, IdleStep

LEMMA ReadExecutionInv ==
    ASSUME EconomyInv, NEW f \in Feedbacks, NEW j \in Jobs, ReadExecution(f, j)
    PROVE  EconomyInv'
<1> USE DEF EconomyInv
<1> DEFINE r == IF Completed(j) THEN reused[j] ELSE None
           req(v) == [of |-> j, verdict |-> v, step |-> "write", reuse |-> r]
<1>1. UNCHANGED <<now, job, accepted, pattern, credit, mishaps>>
  BY DEF ReadExecution
<1>2. PICK v \in BOOLEAN : asked' = [asked EXCEPT ![f] = req(v)]
  BY DEF ReadExecution
<1>3. /\ r \in Patterns \cup {None}
      /\ r # None => pattern[r] # None
  BY DEF TypeOK
<1> HIDE DEF r
<1>4. /\ req(v) \in [of : Jobs, verdict : BOOLEAN, reuse : Patterns \cup {None},
                     step : {"write", "bump"}]
      /\ req(v).reuse = r /\ req(v).step = "write"
  BY <1>3
<1> HIDE DEF req
<1>5. /\ asked' \in [Feedbacks -> [of : Jobs, verdict : BOOLEAN, reuse : Patterns \cup {None},
                                   step : {"write", "bump"}] \cup {None}]
      /\ FeedbackKnows'
  BY <1>1, <1>2, <1>3, <1>4 DEF TypeOK, FeedbackKnows
<1> QED BY <1>1, <1>5, FeedbackStep DEF TypeOK, CreatorsStay

LEMMA FeedbackInv ==
    ASSUME EconomyInv, NEW f \in Feedbacks,
           RecordFeedback(f) \/ BumpGood(f) \/ FeedbackFails(f)
    PROVE  EconomyInv'
<1> USE DEF EconomyInv
<1>1. /\ asked[f] # None
      /\ asked[f] \in [of : Jobs, verdict : BOOLEAN, reuse : Patterns \cup {None},
                       step : {"write", "bump"}]
  BY DEF TypeOK, RecordFeedback, BumpGood, FeedbackFails
<1>2. CASE RecordFeedback(f)
  <2>1. /\ UNCHANGED <<now, job, pattern, credit, mishaps>>
        /\ accepted' \in [Jobs -> BOOLEAN \cup {None}]
    BY <1>1, <1>2 DEF RecordFeedback, TypeOK
  <2>2. \/ asked' = [asked EXCEPT ![f] = None]
        \/ /\ asked' = [asked EXCEPT ![f] = [asked[f] EXCEPT !.step = "bump"]]
           /\ asked[f].reuse # None
    BY <1>2 DEF RecordFeedback
  <2>3. /\ asked' \in [Feedbacks -> [of : Jobs, verdict : BOOLEAN, reuse : Patterns \cup {None},
                                     step : {"write", "bump"}] \cup {None}]
        /\ FeedbackKnows'
    <3>1. CASE asked' = [asked EXCEPT ![f] = None]
      BY <2>1, <3>1 DEF TypeOK, FeedbackKnows
    <3>2. CASE /\ asked' = [asked EXCEPT ![f] = [asked[f] EXCEPT !.step = "bump"]]
               /\ asked[f].reuse # None
      <4> DEFINE req == [asked[f] EXCEPT !.step = "bump"]
      <4>1. /\ req \in [of : Jobs, verdict : BOOLEAN, reuse : Patterns \cup {None},
                         step : {"write", "bump"}]
            /\ req.reuse = asked[f].reuse
        BY <1>1
      <4>2. asked' = [asked EXCEPT ![f] = req]
        BY <3>2
      <4>3. pattern[asked[f].reuse] # None
        BY <1>1, <3>2 DEF FeedbackKnows
      <4> HIDE DEF req
      <4>4. asked' \in [Feedbacks -> [of : Jobs, verdict : BOOLEAN, reuse : Patterns \cup {None},
                                      step : {"write", "bump"}] \cup {None}]
        BY <4>1, <4>2 DEF TypeOK
      <4>5. FeedbackKnows'
        BY <2>1, <3>2, <4>1, <4>2, <4>3 DEF TypeOK, FeedbackKnows
      <4> QED BY <4>4, <4>5
    <3> QED BY <2>2, <3>1, <3>2
  <2> QED BY <2>1, <2>3, FeedbackStep DEF TypeOK, CreatorsStay
<1>3. CASE BumpGood(f)
  <2>1. /\ asked[f].reuse \in Patterns /\ pattern[asked[f].reuse] # None
        /\ pattern[asked[f].reuse] \in Row
    BY <1>1, <1>3 DEF BumpGood, FeedbackKnows, TypeOK
  <2>2. CreatorsStay(Jobs) /\ pattern' \in [Patterns -> Row \cup {None}]
    <3> DEFINE row == [pattern[asked[f].reuse] EXCEPT !.good = @ + 1]
    <3>1. row \in Row /\ row.creator = pattern[asked[f].reuse].creator
      BY <2>1, CounterType
    <3>2. pattern' = [pattern EXCEPT ![asked[f].reuse] = row]
      BY <1>3, <2>1 DEF BumpGood, TypeOK, Row
    <3> HIDE DEF row
    <3> QED BY <2>1, <3>1, <3>2, ChangeRow
  <2>3. /\ asked' = [asked EXCEPT ![f] = None]
        /\ UNCHANGED <<now, job, accepted, credit, mishaps>>
    BY <1>3 DEF BumpGood
  <2>4. /\ asked' \in [Feedbacks -> [of : Jobs, verdict : BOOLEAN, reuse : Patterns \cup {None},
                                     step : {"write", "bump"}] \cup {None}]
        /\ FeedbackKnows'
    BY <2>2, <2>3 DEF TypeOK, FeedbackKnows, CreatorsStay
  <2> QED BY <2>2, <2>3, <2>4, FeedbackStep DEF TypeOK
<1>4. CASE FeedbackFails(f)
  <2>1. /\ asked' = [asked EXCEPT ![f] = None] /\ mishaps' \in Nat
        /\ UNCHANGED <<now, job, accepted, pattern, credit>>
    BY <1>4 DEF FeedbackFails, Mishap, TypeOK
  <2>2. /\ asked' \in [Feedbacks -> [of : Jobs, verdict : BOOLEAN, reuse : Patterns \cup {None},
                                     step : {"write", "bump"}] \cup {None}]
        /\ FeedbackKnows'
    BY <2>1 DEF TypeOK, FeedbackKnows
  <2> QED BY <2>1, <2>2, FeedbackStep DEF TypeOK, CreatorsStay
<1> QED BY <1>2, <1>3, <1>4

\* What a handler leaves when it ends early: nothing that is waited for.
LEMMA AbandonedType ==
    ASSUME EconomyInv, NEW i \in Jobs
    PROVE  /\ Abandoned(i) \in {"absent", "open", "failed", "done"}
           /\ pattern[i] # None => Abandoned(i) = "done"
<1>1. StageFits(i)
  BY DEF EconomyInv, PatternOfStage
<1> QED BY <1>1 DEF Abandoned, Completed, StageFits

LEMMA HandlerFailsInv == ASSUME EconomyInv, NEW j \in Jobs, HandlerFails(j) PROVE EconomyInv'
<1> USE DEF EconomyInv
<1>1. /\ stage[j] \notin Paying /\ todo[j] = <<>> /\ step[j] = "idle"
      /\ stage' = [stage EXCEPT ![j] = Abandoned(j)]
      /\ seen' = [seen EXCEPT ![j] = None]
      /\ mishaps' \in Nat
      /\ UNCHANGED <<kind, now, step, todo, reused, accepted, asked, pattern, accounts, funds, events>>
  BY DEF HandlerFails, Mishap, TypeOK, Paying, feedback, credit
<1>2. /\ stage'[j] \in {"absent", "open", "failed", "done"}
      /\ pattern[j] # None => stage'[j] = "done"
  BY <1>1, AbandonedType DEF TypeOK
<1>3. JobType'
  BY <1>1, <1>2 DEF JobType, TypeOK, Stage, Paying
<1>4. Rest(Jobs \ {j}) /\ CreatorsStay(Jobs)
  BY <1>1 DEF Rest, CreatorsStay, TypeOK
<1>5. StageFits(j)' /\ step'[j] = "idle"
  BY <1>1, <1>2 DEF StageFits
<1>6. FeedbackKnows'
  BY <1>1 DEF FeedbackKnows
<1> QED BY <1>1, <1>3, <1>4, <1>5, <1>6, IdleStep DEF TypeOK

LEMMA CrashInv == ASSUME EconomyInv, Crash PROVE EconomyInv'
<1> USE DEF EconomyInv
<1>1. /\ stage' = [i \in Jobs |-> Abandoned(i)]
      /\ step' = [i \in Jobs |-> "idle"] /\ todo' = [i \in Jobs |-> <<>>]
      /\ seen' = [i \in Jobs |-> None] /\ asked' = [f \in Feedbacks |-> None]
      /\ mishaps' \in Nat
      /\ UNCHANGED <<kind, now, reused, accepted, pattern, accounts, funds, events>>
  BY DEF Crash, Mishap, TypeOK, credit
<1>2. \A i \in Jobs : /\ stage'[i] \in {"absent", "open", "failed", "done"}
                      /\ pattern[i] # None => stage'[i] = "done"
                      /\ step'[i] = "idle" /\ todo'[i] = <<>> /\ seen'[i] = None
  BY <1>1, AbandonedType
<1>3. JobType'
  <2>1. <<>> \in Seq(Contacts)
    OBVIOUS
  <2> QED BY <1>1, <1>2, <2>1 DEF JobType, TypeOK, Stage, Paying
<1>4. Rest({}) /\ CreatorsStay(Jobs)
  BY <1>1 DEF Rest, CreatorsStay
<1>5. \A i \in Jobs : step'[i] = "idle" /\ StageFits(i)'
  BY <1>1, <1>2 DEF StageFits
<1>6. /\ asked' \in [Feedbacks -> [of : Jobs, verdict : BOOLEAN, reuse : Patterns \cup {None},
                                   step : {"write", "bump"}] \cup {None}]
      /\ FeedbackKnows'
  BY <1>1 DEF FeedbackKnows
<1> QED BY <1>1, <1>3, <1>4, <1>5, <1>6, IdleStep DEF TypeOK

-----------------------------------------------------------------------------
(* The theorems.                                                           *)

LEMMA NextInv == EconomyInv /\ [Next]_vars => EconomyInv'
<1> SUFFICES ASSUME EconomyInv, [Next]_vars PROVE EconomyInv'
  OBVIOUS
<1>1. ASSUME NEW j \in Jobs, Route(j) PROVE EconomyInv'
  BY <1>1, BeginInv, FindReusableInv, FindAccountInv, CreateAccountInv, UnpaidInv, GrantInv,
     PayInv, ReadPatternInv, WriteReuseInv, FreshInv, IncrementReuseInv, CreatePatternInv,
     HandlerFailsInv DEF Route
<1>2. ASSUME NEW p \in Posted, PostPattern(p) PROVE EconomyInv'
  BY <1>2, PostPatternInv
<1>3. ASSUME NEW f \in Feedbacks, Patch(f) PROVE EconomyInv'
  <2>1. ASSUME NEW j \in Jobs, ReadExecution(f, j) PROVE EconomyInv'
    BY <2>1, ReadExecutionInv
  <2> QED BY <1>3, <2>1, FeedbackInv, EconomyAssumption DEF Patch
<1>4. CASE Crash
  BY <1>4, CrashInv
<1>5. CASE Tick \/ UNCHANGED vars
  <2>1. /\ now' \in Nat
        /\ UNCHANGED <<job, accepted, asked, pattern, credit, mishaps>>
    BY <1>5 DEF Tick, vars, feedback, EconomyInv, TypeOK
  <2>2. FeedbackKnows' /\ CreatorsStay(Jobs)
    BY <2>1 DEF EconomyInv, FeedbackKnows, CreatorsStay
  <2> QED BY <2>1, <2>2, FeedbackStep DEF EconomyInv, TypeOK
<1> QED BY <1>1, <1>2, <1>3, <1>4, <1>5 DEF Next

\* What holds of all reachable states.
THEOREM EconomyCorrect == Spec => []EconomyInv
BY InitInv, NextInv, PTL DEF Spec

\* lib/credits.ts and lib/patterns.ts keep the types of their rows; whoever is
\* found for reuse exists, and only handlers that pay are in a payment.
THEOREM TypeCorrect == Spec => []TypeOK
<1>1. EconomyInv => TypeOK
  BY DEF EconomyInv
<1> QED BY <1>1, EconomyCorrect, PTL

\* ensureAccount grants a user at most once, however many of the user's
\* requests find no account at the same time.
THEOREM GrantedOnceCorrect == Spec => []GrantedOnce
<1>1. EconomyInv => GrantedOnce
  BY DEF EconomyInv
<1> QED BY <1>1, EconomyCorrect, PTL

\* completeWork never pays a creator for the reuse of a pattern in an intent of
\* the creator's own, though the pattern changes between check and payment.
THEOREM NoSelfRewardCorrect == Spec => []NoSelfReward
<1>1. EconomyInv => NoSelfReward
  BY DEF EconomyInv
<1> QED BY <1>1, EconomyCorrect, PTL

-----------------------------------------------------------------------------
(***************************************************************************)
(* Rewards are earned.  A queued job holds a claim to a reward for the     *)
(* reuse of its pattern from the write that counted its success until the  *)
(* reward is recorded, or is lost; a pattern's claims never outnumber its  *)
(* successes.                                                              *)
(***************************************************************************)
Paid(i) == \E e \in events : e.job = i /\ e.type = "pattern_reuse_reward"

Claims(i) == /\ kind[i] \in Queued /\ reused[i] # None
             /\ Paid(i) \/ stage[i] = "payReuse" \/ (stage[i] = "fresh" /\ Eligible(i))
Claimants(p) == {i \in Jobs : Claims(i) /\ reused[i] = p}

PaidIsDone == \A i \in Jobs : Paid(i) => stage[i] = "done"
EarnInv ==
    /\ PaidIsDone
    /\ \A p \in Patterns : pattern[p] # None => Cardinality(Claimants(p)) <= pattern[p].good

\* The counter of successes of a pattern never falls.
GoodGrows == \A p \in Patterns : pattern[p] # None =>
                 pattern'[p] # None /\ pattern'[p].good >= pattern[p].good

\* One more element makes a finite set larger by at most one.
LEMMA AddOne ==
  ASSUME NEW S, IsFiniteSet(S), NEW x
  PROVE  /\ IsFiniteSet(S \cup {x})
         /\ Cardinality(S \cup {x}) <= Cardinality(S) + 1
<1>1. Cardinality(S) \in Nat
  BY FS_CardinalityType
<1>2. /\ IsFiniteSet(S \cup {x})
      /\ Cardinality(S \cup {x}) = IF x \in S THEN Cardinality(S) ELSE Cardinality(S) + 1
  BY FS_AddElement, ZenonT(30)
<1>3. CASE x \in S
  BY <1>1, <1>2, <1>3
<1>4. CASE x \notin S
  BY <1>1, <1>2, <1>4
<1> QED BY <1>3, <1>4

LEMMA ClaimantsFinite ==
    \A p : IsFiniteSet(Claimants(p)) /\ Cardinality(Claimants(p)) \in Nat
<1> SUFFICES ASSUME NEW p PROVE IsFiniteSet(Claimants(p)) /\ Cardinality(Claimants(p)) \in Nat
  OBVIOUS
<1>1. Claimants(p) \subseteq Jobs /\ IsFiniteSet(Jobs)
  BY EconomyAssumption DEF Claimants
<1> QED BY <1>1, FS_Subset, FS_CardinalityType

LEMMA RowGood ==
    ASSUME TypeOK
    PROVE  \A p \in Patterns : pattern[p] # None => pattern[p] \in Row /\ pattern[p].good \in Nat
BY DEF TypeOK, Row

\* No new claim: the counts hold on.
LEMMA NoNewClaim ==
    ASSUME TypeOK, TypeOK', EarnInv, GoodGrows, PaidIsDone',
           \A i \in Jobs : Claims(i)' => Claims(i) /\ reused'[i] = reused[i]
    PROVE  EarnInv'
<1> SUFFICES ASSUME NEW p \in Patterns, pattern'[p] # None
             PROVE  Cardinality(Claimants(p)') <= pattern'[p].good
  BY DEF EarnInv
<1>1. Claimants(p)' \subseteq Claimants(p)
  BY DEF Claimants
<1>2. Cardinality(Claimants(p)') <= Cardinality(Claimants(p))
  BY <1>1, ClaimantsFinite, FS_Subset
<1>3. Cardinality(Claimants(p)') \in Nat /\ Cardinality(Claimants(p)) \in Nat
  BY <1>1, ClaimantsFinite, FS_Subset, FS_CardinalityType
<1>4. pattern'[p] \in Row /\ pattern'[p].good \in Nat
  BY DEF TypeOK, Row
<1>5. CASE pattern[p] # None
  <2>1. pattern[p].good \in Nat
    BY <1>5, RowGood
  <2> QED BY <1>2, <1>3, <1>4, <1>5, <2>1 DEF EarnInv, GoodGrows
<1>6. CASE pattern[p] = None
  <2>1. Claimants(p) = {}
    BY <1>6 DEF Claimants, Claims, TypeOK
  <2> QED BY <1>2, <1>3, <1>4, <2>1, FS_EmptySet
<1> QED BY <1>5, <1>6

\* Stages, reuses and rewards of the jobs of S stay.
Still(S) == \A i \in S : stage'[i] = stage[i] /\ reused'[i] = reused[i] /\ seen'[i] = seen[i]

LEMMA StillClaims ==
    ASSUME NEW S \in SUBSET Jobs, Still(S), kind' = kind, NEW i \in S,
           Paid(i)' => Paid(i), Claims(i)'
    PROVE  Claims(i) /\ reused'[i] = reused[i]
BY DEF Still, Claims, Eligible, Saved, Cooling

\* A step of nobody, or of a job that is not done and ends up without a claim.
LEMMA QuietStep ==
    ASSUME TypeOK, TypeOK', EarnInv, GoodGrows, kind' = kind, NEW S \in SUBSET Jobs, Still(S),
           \A e \in events' : e.type = "pattern_reuse_reward" => e \in events,
           \A i \in Jobs \ S : /\ stage[i] # "done"
                               /\ stage'[i] \notin {"payReuse", "fresh"} \/ kind[i] \notin Queued
    PROVE  EarnInv'
<1>1. \A i \in Jobs : Paid(i)' => Paid(i)
  BY DEF Paid
<1>2. PaidIsDone'
  BY <1>1 DEF EarnInv, PaidIsDone, Still
<1>3. ASSUME NEW i \in Jobs, Claims(i)' PROVE Claims(i) /\ reused'[i] = reused[i]
  <2>1. CASE i \in S
    BY <1>1, <1>3, <2>1, StillClaims
  <2>2. CASE i \notin S
    <3>1. ~Paid(i)'
      BY <1>1, <2>2 DEF EarnInv, PaidIsDone
    <3> QED BY <1>3, <2>2, <3>1 DEF Claims
  <2> QED BY <2>1, <2>2
<1> QED BY <1>2, <1>3, NoNewClaim

LEMMA OneRow ==
    ASSUME TypeOK, NEW p \in Patterns, NEW row \in Row, pattern' = [pattern EXCEPT ![p] = row],
           pattern[p] = None \/ row.good >= pattern[p].good
    PROVE  GoodGrows
<1>1. row # None
  BY EconomyAssumption
<1>2. \A q \in Patterns : pattern'[q] = IF q = p THEN row ELSE pattern[q]
  BY DEF TypeOK
<1>3. \A q \in Patterns : pattern[q] # None => pattern[q].good >= pattern[q].good
  BY RowGood
<1> QED BY <1>1, <1>2, <1>3 DEF GoodGrows

LEMMA PatternStays == ASSUME TypeOK, pattern' = pattern PROVE GoodGrows
<1>1. \A q \in Patterns : pattern[q] # None => pattern[q].good >= pattern[q].good
  BY RowGood
<1> QED BY <1>1 DEF GoodGrows

LEMMA ReuseGood ==
    ASSUME NEW row \in Row, NEW s \in Reading, NEW e \in BOOLEAN
    PROVE  Reuse(row, s, e).good = IF e THEN row.good + 1 ELSE row.good
BY DEF Reuse, Row

\* What completing a reuse makes of the row.
LEMMA WriteReuseRow ==
    ASSUME EconomyInv, NEW j \in Jobs, WriteReuse(j)
    PROVE  /\ reused[j] \in Patterns /\ pattern[reused[j]] # None /\ kind[j] \in Queued
           /\ \E row \in Row :
                /\ pattern' = [pattern EXCEPT ![reused[j]] = row]
                /\ row.good = pattern[reused[j]].good + IF Eligible(j) THEN 1 ELSE 0
<1>1. /\ stage[j] = "write" /\ reused[j] \in Patterns /\ pattern[reused[j]] # None
      /\ pattern[reused[j]] \in Row /\ seen[j] \in Reading /\ kind[j] \in Queued
  BY DEF WriteReuse, EconomyInv, PatternOfStage, StageFits, TypeOK
<1>2. Eligible(j) \in BOOLEAN /\ pattern[reused[j]].good \in Nat
  BY <1>1 DEF Eligible, Saved, Cooling, Row
<1>3. /\ Reuse(pattern[reused[j]], seen[j], Eligible(j)) \in Row
      /\ Reuse(pattern[reused[j]], seen[j], Eligible(j)).good =
             IF Eligible(j) THEN pattern[reused[j]].good + 1 ELSE pattern[reused[j]].good
  BY <1>1, <1>2, ReuseType, ReuseGood
<1>4. pattern' = [pattern EXCEPT ![reused[j]] = Reuse(pattern[reused[j]], seen[j], Eligible(j))]
  BY DEF WriteReuse
<1>5. Reuse(pattern[reused[j]], seen[j], Eligible(j)).good =
          pattern[reused[j]].good + IF Eligible(j) THEN 1 ELSE 0
  BY <1>2, <1>3
<1> QED BY <1>1, <1>3, <1>4, <1>5

LEMMA RouteGood == ASSUME EconomyInv, NEW j \in Jobs, Route(j) PROVE GoodGrows
<1> USE DEF EconomyInv
<1>1. CASE WriteReuse(j)
  <2>1. PICK row \in Row :
                /\ pattern' = [pattern EXCEPT ![reused[j]] = row]
                /\ row.good = pattern[reused[j]].good + IF Eligible(j) THEN 1 ELSE 0
    BY <1>1, WriteReuseRow
  <2>2. reused[j] \in Patterns /\ pattern[reused[j]] # None
    BY <1>1, WriteReuseRow
  <2>3. pattern[reused[j]].good \in Nat
    BY <2>2, RowGood
  <2>4. row.good >= pattern[reused[j]].good
    BY <2>1, <2>3
  <2> QED BY <2>1, <2>2, <2>4, OneRow
<1>2. CASE RecordFresh(j)
  <2>1. /\ reused[j] \in Patterns /\ pattern[reused[j]] \in Row /\ seen[j].sec \in Nat
    BY <1>2 DEF RecordFresh, PatternOfStage, StageFits, TypeOK, Reading
  <2> DEFINE row == [pattern[reused[j]] EXCEPT !.fresh = @ + 1, !.freshSum = @ + seen[j].sec]
  <2>2. row \in Row
    BY <2>1, CounterType
  <2>3. row.good = pattern[reused[j]].good /\ row.good \in Nat
    BY <2>1 DEF Row
  <2>4. pattern' = [pattern EXCEPT ![reused[j]] = row]
    BY <1>2, <2>1 DEF RecordFresh, TypeOK, Row
  <2> HIDE DEF row
  <2>5. row.good >= pattern[reused[j]].good
    BY <2>3
  <2> QED BY <2>1, <2>2, <2>4, <2>5, OneRow
<1>3. CASE IncrementReuse(j)
  <2>1. reused[j] \in Patterns /\ pattern[reused[j]] \in Row
    BY <1>3 DEF IncrementReuse, TypeOK
  <2> DEFINE row == [pattern[reused[j]] EXCEPT !.reuses = @ + 1]
  <2>2. row \in Row
    BY <2>1, CounterType
  <2>3. row.good = pattern[reused[j]].good /\ row.good \in Nat
    BY <2>1 DEF Row
  <2>4. pattern' = [pattern EXCEPT ![reused[j]] = row]
    BY <1>3, <2>1 DEF IncrementReuse, TypeOK, Row
  <2> HIDE DEF row
  <2>5. row.good >= pattern[reused[j]].good
    BY <2>3
  <2> QED BY <2>1, <2>2, <2>4, <2>5, OneRow
<1>4. CASE CreatePattern(j)
  <2>1. pattern[j] = None /\ j \in Patterns
    BY <1>4 DEF CreatePattern, PatternOfStage, StageFits, Patterns
  <2>2. \A q \in Patterns \ {j} : pattern'[q] = pattern[q]
    BY <1>4 DEF CreatePattern, TypeOK
  <2>3. \A q \in Patterns : pattern[q] # None => pattern[q].good >= pattern[q].good
    BY RowGood
  <2> QED BY <2>1, <2>2, <2>3 DEF GoodGrows
<1>5. CASE pattern' = pattern
  BY <1>5, PatternStays
<1> QED
  BY <1>1, <1>2, <1>3, <1>4, <1>5 DEF Route, Submit, Execute, FindReusable, Commit, Settle,
     FindAccount, CreateAccount, CreateCollides, Grant, Pay, ReadPattern, PayFails, FreshFails,
     HandlerFails

\* The steps of a job that is not done and holds no claim afterwards.
LEMMA ClaimlessStep ==
    ASSUME EconomyInv, EarnInv, EconomyInv', NEW j \in Jobs,
           \/ Submit(j) \/ Execute(j) \/ FindReusable(j) \/ Commit(j) \/ Settle(j)
           \/ ReadPattern(j) \/ IncrementReuse(j) \/ CreatePattern(j) \/ HandlerFails(j)
    PROVE  EarnInv'
<1>1. GoodGrows /\ TypeOK /\ TypeOK'
  BY RouteGood DEF Route, EconomyInv
<1>2. events' = events /\ kind' = kind /\ Still(Jobs \ {j})
  BY <1>1 DEF Submit, Execute, FindReusable, Commit, Settle, ReadPattern, IncrementReuse, CreatePattern,
     HandlerFails, Enter, credit, Still, TypeOK
<1>3. stage[j] # "done" /\ (stage'[j] \notin {"payReuse", "fresh"} \/ kind[j] \notin Queued)
  BY <1>1 DEF Submit, Execute, FindReusable, Commit, Settle, ReadPattern, IncrementReuse, CreatePattern,
     HandlerFails, Abandoned, Enter, TypeOK
<1> QED BY <1>1, <1>2, <1>3, QuietStep

\* A payment that goes on, or ends without a reward for a reuse.
LEMMA PaymentStep ==
    ASSUME EconomyInv, EarnInv, EconomyInv', NEW j \in Jobs,
           \/ FindAccount(j) \/ CreateAccount(j) \/ CreateCollides(j) \/ Grant(j) \/ PayFails(j)
           \/ Pay(j) /\ stage[j] # "payReuse"
    PROVE  EarnInv'
<1>1. GoodGrows /\ TypeOK /\ TypeOK' /\ stage[j] \in Paying
  BY RouteGood DEF Route, EconomyInv, FindAccount, CreateAccount, CreateCollides, Grant, PayFails, Pay, At
<1>2. kind' = kind /\ Still(Jobs \ {j}) /\ stage[j] # "done"
  BY <1>1 DEF FindAccount, CreateAccount, CreateCollides, Grant, PayFails, Pay, EndPayment, Enter,
     Still, TypeOK, Paying
<1>3. \A e \in events' : e.type = "pattern_reuse_reward" => e \in events
  BY <1>1 DEF FindAccount, CreateAccount, CreateCollides, Grant, PayFails, Pay, RecordEvent,
     Purpose, credit, Paying
<1>4. CASE FindAccount(j) \/ CreateAccount(j) \/ Grant(j)
  <2>1. Still(Jobs)
    BY <1>4 DEF FindAccount, CreateAccount, Grant, Still
  <2> QED BY <1>1, <1>2, <1>3, <2>1, QuietStep
<1>5. CASE CreateCollides(j) \/ PayFails(j) \/ Pay(j)
  <2>1. stage'[j] \notin {"payReuse", "fresh"}
    BY <1>1, <1>5 DEF CreateCollides, PayFails, Pay, EndPayment, Enter, TypeOK
  <2> QED BY <1>1, <1>2, <1>3, <2>1, QuietStep
<1> QED BY <1>4, <1>5

\* The reward is recorded: the claim is the same.
LEMMA RewardStep ==
    ASSUME EconomyInv, EarnInv, EconomyInv', NEW j \in Jobs, Pay(j), stage[j] = "payReuse"
    PROVE  EarnInv'
<1>1. GoodGrows /\ TypeOK /\ TypeOK' /\ kind' = kind /\ Still(Jobs \ {j}) /\ reused' = reused
  BY RouteGood DEF Route, EconomyInv, Pay, EndPayment, Enter, Still, TypeOK
<1>2. stage'[j] = "done"
  BY <1>1 DEF Pay, EndPayment, Enter, TypeOK
<1>3. \A i \in Jobs : i # j /\ Paid(i)' => Paid(i)
  BY DEF Paid, Pay, RecordEvent
<1>4. PaidIsDone'
  BY <1>1, <1>2, <1>3 DEF EarnInv, PaidIsDone, Still
<1>5. ASSUME NEW i \in Jobs, Claims(i)' PROVE Claims(i) /\ reused'[i] = reused[i]
  <2>1. CASE i # j
    BY <1>1, <1>3, <1>5, <2>1, StillClaims
  <2>2. CASE i = j
    BY <1>1, <1>5, <2>2 DEF Claims
  <2> QED BY <2>1, <2>2
<1> QED BY <1>1, <1>4, <1>5, NoNewClaim

\* After the baseline is updated, or was not: the reward follows if it was earned.
LEMMA FreshStep ==
    ASSUME EconomyInv, EarnInv, EconomyInv', NEW j \in Jobs, RecordFresh(j) \/ FreshFails(j)
    PROVE  EarnInv'
<1>1. /\ GoodGrows /\ TypeOK /\ TypeOK' /\ kind' = kind /\ Still(Jobs \ {j})
      /\ reused' = reused /\ events' = events /\ stage[j] = "fresh"
  BY RouteGood DEF Route, EconomyInv, RecordFresh, FreshFails, RewardReuse, Enter, Still, TypeOK, credit
<1>2. \A i \in Jobs : Paid(i)' => Paid(i)
  BY <1>1 DEF Paid
<1>3. PaidIsDone'
  BY <1>1, <1>2 DEF EarnInv, PaidIsDone, Still
<1>4. stage'[j] = "payReuse" => Eligible(j)
  BY <1>1 DEF RecordFresh, FreshFails, RewardReuse, Enter, TypeOK
<1>5. stage'[j] # "fresh"
  BY <1>1 DEF RecordFresh, FreshFails, RewardReuse, Enter, TypeOK
<1>6. ASSUME NEW i \in Jobs, Claims(i)' PROVE Claims(i) /\ reused'[i] = reused[i]
  <2>1. CASE i # j
    BY <1>1, <1>2, <1>6, <2>1, StillClaims
  <2>2. CASE i = j
    BY <1>1, <1>2, <1>4, <1>5, <1>6, <2>2 DEF Claims
  <2> QED BY <2>1, <2>2
<1> QED BY <1>1, <1>3, <1>6, NoNewClaim

\* A reuse that counts as a success makes one claim and one success.
LEMMA WriteReuseStep ==
    ASSUME EconomyInv, EarnInv, EconomyInv', NEW j \in Jobs, WriteReuse(j)
    PROVE  EarnInv'
<1>1. /\ GoodGrows /\ TypeOK /\ TypeOK' /\ kind' = kind /\ Still(Jobs \ {j})
      /\ reused' = reused /\ events' = events /\ stage[j] = "write"
  <2>1. /\ GoodGrows /\ TypeOK /\ TypeOK' /\ kind' = kind
        /\ reused' = reused /\ events' = events /\ stage[j] = "write"
    BY RouteGood DEF Route, EconomyInv, WriteReuse, credit
  <2>2. CASE RewardReuse(j)
    BY <2>1, <2>2 DEF RewardReuse, Enter, Still, TypeOK
  <2>3. CASE Enter(j, "fresh") /\ UNCHANGED seen
    BY <2>1, <2>3 DEF Enter, Still, TypeOK
  <2> QED BY <2>1, <2>2, <2>3 DEF WriteReuse
<1>2. \A i \in Jobs : Paid(i)' => Paid(i)
  BY <1>1 DEF Paid
<1>3. PaidIsDone' /\ ~Paid(j)'
  BY <1>1, <1>2 DEF EarnInv, PaidIsDone, Still
<1>4. \A i \in Jobs : i # j /\ Claims(i)' => Claims(i)
  BY <1>1, <1>2, StillClaims
<1>5. Claims(j)' => Eligible(j)
  <2>1. CASE RewardReuse(j)
    BY <1>1, <1>3, <2>1 DEF RewardReuse, Enter, TypeOK, Claims
  <2>2. CASE UNCHANGED seen
    BY <1>1, <1>3, <2>2 DEF WriteReuse, Claims, Eligible, Saved, Cooling, RewardReuse, Enter, TypeOK
  <2> QED BY <2>1, <2>2 DEF WriteReuse
<1>6. CASE ~Eligible(j)
  <2>1. \A i \in Jobs : Claims(i)' => Claims(i) /\ reused'[i] = reused[i]
    BY <1>1, <1>4, <1>5, <1>6
  <2> QED BY <1>1, <1>3, <2>1, NoNewClaim
<1>7. CASE Eligible(j)
  <2> SUFFICES ASSUME NEW p \in Patterns, pattern'[p] # None
               PROVE  Cardinality(Claimants(p)') <= pattern'[p].good
    BY <1>3 DEF EarnInv
  <2>1. PICK row \in Row :
                /\ pattern' = [pattern EXCEPT ![reused[j]] = row]
                /\ row.good = pattern[reused[j]].good + IF Eligible(j) THEN 1 ELSE 0
    BY WriteReuseRow
  <2>2. pattern[p] # None /\ reused[j] \in Patterns /\ pattern[reused[j]] # None
    BY <1>1, <2>1, WriteReuseRow DEF TypeOK
  <2>3. IsFiniteSet(Claimants(p)) /\ Cardinality(Claimants(p)) \in Nat
    BY ClaimantsFinite
  <2>4. pattern[p].good \in Nat /\ Cardinality(Claimants(p)) <= pattern[p].good
    BY <1>1, <2>2, RowGood DEF EarnInv
  <2>5. CASE p = reused[j]
    <3>1. Claimants(p)' \subseteq Claimants(p) \cup {j}
      BY <1>1, <1>4 DEF Claimants
    <3>2. pattern'[p].good = pattern[p].good + 1
      BY <1>1, <1>7, <2>1, <2>2, <2>4, <2>5 DEF TypeOK
    <3>3. /\ IsFiniteSet(Claimants(p) \cup {j})
          /\ Cardinality(Claimants(p) \cup {j}) <= Cardinality(Claimants(p)) + 1
      BY <2>3, AddOne
    <3>4. /\ Cardinality(Claimants(p)') <= Cardinality(Claimants(p) \cup {j})
          /\ IsFiniteSet(Claimants(p)')
      BY <3>1, <3>3, FS_Subset
    <3>5. Cardinality(Claimants(p)') \in Nat /\ Cardinality(Claimants(p) \cup {j}) \in Nat
      BY <3>3, <3>4, FS_CardinalityType
    <3> QED BY <2>3, <2>4, <3>2, <3>3, <3>4, <3>5
  <2>6. CASE p # reused[j]
    <3>1. Claimants(p)' \subseteq Claimants(p)
      BY <1>1, <1>4, <2>6 DEF Claimants
    <3>2. pattern'[p] = pattern[p]
      BY <1>1, <2>1, <2>6 DEF TypeOK
    <3>3. Cardinality(Claimants(p)') <= Cardinality(Claimants(p)) /\ IsFiniteSet(Claimants(p)')
      BY <2>3, <3>1, FS_Subset
    <3>4. Cardinality(Claimants(p)') \in Nat
      BY <3>3, FS_CardinalityType
    <3> QED BY <2>3, <2>4, <3>2, <3>3, <3>4
  <2> QED BY <2>5, <2>6
<1> QED BY <1>6, <1>7

\* Posted patterns, feedback, time: no job moves.
LEMMA AsideStep ==
    ASSUME EconomyInv, EarnInv, EconomyInv',
           \/ \E p \in Posted : PostPattern(p)
           \/ \E f \in Feedbacks : Patch(f)
           \/ Tick \/ UNCHANGED vars
    PROVE  EarnInv'
<1>1. TypeOK /\ TypeOK' /\ UNCHANGED job /\ events' = events
  BY DEF EconomyInv, PostPattern, Patch, ReadExecution, RecordFeedback, BumpGood, FeedbackFails,
     Tick, vars, credit
<1>2. GoodGrows
  <2>1. ASSUME NEW p \in Posted, PostPattern(p) PROVE GoodGrows
    <3>1. p \in Patterns /\ pattern[p] = None /\ \A q \in Patterns \ {p} : pattern'[q] = pattern[q]
      BY <1>1, <2>1 DEF PostPattern, TypeOK, Patterns
    <3>2. \A q \in Patterns : pattern[q] # None => pattern[q].good >= pattern[q].good
      BY <1>1, RowGood
    <3> QED BY <3>1, <3>2 DEF GoodGrows
  <2>2. ASSUME NEW f \in Feedbacks, BumpGood(f) PROVE GoodGrows
    <3> DEFINE p == asked[f].reuse
               row == [pattern[p] EXCEPT !.good = @ + 1]
    <3>1. p \in Patterns /\ pattern[p] \in Row
      BY <1>1, <2>2 DEF BumpGood, EconomyInv, FeedbackKnows, TypeOK
    <3>2. row \in Row /\ row.good = pattern[p].good + 1 /\ pattern[p].good \in Nat
      BY <3>1, CounterType DEF Row
    <3>3. pattern' = [pattern EXCEPT ![p] = row]
      BY <2>2, <1>1, <3>1 DEF BumpGood, TypeOK, Row
    <3> HIDE DEF p, row
    <3>4. row.good >= pattern[p].good
      BY <3>2
    <3> QED BY <1>1, <3>1, <3>2, <3>3, <3>4, OneRow
  <2>3. CASE pattern' = pattern
    BY <1>1, <2>3, PatternStays
  <2> QED BY <2>1, <2>2, <2>3 DEF Patch, ReadExecution, RecordFeedback, FeedbackFails, Tick, vars
<1>3. Still(Jobs) /\ kind' = kind
  BY <1>1 DEF Still, job
<1> QED BY <1>1, <1>2, <1>3, QuietStep

\* A crash ends the handlers; who was paid was done.
LEMMA CrashStep == ASSUME EconomyInv, EarnInv, EconomyInv', Crash PROVE EarnInv'
<1>1. /\ TypeOK /\ TypeOK' /\ GoodGrows /\ events' = events /\ kind' = kind /\ reused' = reused
      /\ stage' = [j \in Jobs |-> Abandoned(j)]
  BY PatternStays DEF Crash, EconomyInv, credit
<1>2. \A i \in Jobs : Paid(i)' => Paid(i)
  BY <1>1 DEF Paid
<1>3. \A i \in Jobs : stage'[i] \notin {"payReuse", "fresh"} /\ (stage[i] = "done" => stage'[i] = "done")
  BY <1>1 DEF Abandoned
<1>4. PaidIsDone'
  BY <1>2, <1>3 DEF EarnInv, PaidIsDone
<1>5. \A i \in Jobs : Claims(i)' => Claims(i) /\ reused'[i] = reused[i]
  BY <1>1, <1>2, <1>3 DEF Claims
<1> QED BY <1>1, <1>4, <1>5, NoNewClaim

LEMMA NextEarn == EconomyInv /\ EconomyInv' /\ EarnInv /\ [Next]_vars => EarnInv'
<1> SUFFICES ASSUME EconomyInv, EconomyInv', EarnInv, [Next]_vars PROVE EarnInv'
  OBVIOUS
<1>1. ASSUME NEW j \in Jobs, Route(j) PROVE EarnInv'
  BY <1>1, ClaimlessStep, PaymentStep, RewardStep, FreshStep, WriteReuseStep DEF Route
<1> QED BY <1>1, AsideStep, CrashStep DEF Next

LEMMA InitEarn == Init => EarnInv
<1> SUFFICES ASSUME Init PROVE EarnInv
  OBVIOUS
<1>1. PaidIsDone
  BY DEF Init, PaidIsDone, Paid
<1>2. \A p \in Patterns : pattern[p] = None
  BY DEF Init
<1> QED BY <1>1, <1>2 DEF EarnInv

\* The rewards for queued reuses of a pattern never outnumber the reuses and
\* acceptances that counted as its successes, however completions overlap, calls
\* fail and servers crash.
THEOREM RewardsAreEarnedCorrect == Spec => []RewardsAreEarned
<1>1. EconomyInv /\ EarnInv => RewardsAreEarned
  <2> SUFFICES ASSUME EconomyInv, EarnInv, NEW p \in Patterns, pattern[p] # None
               PROVE  Cardinality({j \in Rewarded(p) : kind[j] \in Queued}) <= pattern[p].good
    BY DEF RewardsAreEarned
  <2> DEFINE R == {j \in Rewarded(p) : kind[j] \in Queued}
  <2>1. R \subseteq Claimants(p)
    BY EconomyAssumption DEF Rewarded, Reusers, Claimants, Claims, Paid, Patterns, EconomyInv, TypeOK
  <2>2. Cardinality(R) <= Cardinality(Claimants(p)) /\ IsFiniteSet(R)
    BY <2>1, ClaimantsFinite, FS_Subset
  <2>3. Cardinality(R) \in Nat /\ Cardinality(Claimants(p)) \in Nat
    BY <2>2, ClaimantsFinite, FS_CardinalityType
  <2>4. pattern[p].good \in Nat
    BY RowGood DEF EconomyInv
  <2> HIDE DEF R
  <2>5. Cardinality(R) <= pattern[p].good
    BY <2>2, <2>3, <2>4 DEF EarnInv
  <2> QED BY <2>5 DEF R
<1>2. EconomyInv' /\ EconomyInv /\ EarnInv /\ [Next]_vars => EarnInv'
  BY NextEarn
<1> QED BY <1>1, <1>2, InitEarn, EconomyCorrect, PTL DEF Spec
=============================================================================
