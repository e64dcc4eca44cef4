---------------------- MODULE AnchoredAdmission_proofs ----------------------
(* Proofs about AnchoredAdmission, for any number of processes, payloads,     *)
(* receipts, crashes, failed writes and restores: the anchor only grows, a    *)
(* reservation is made under the authority of the newest status list, an      *)
(* invocation is handed out once, and what is handed out, with what was       *)
(* really spent, keeps the shared budget of the abstract specification.       *)
EXTENDS AnchoredAdmission, SequenceTheorems, FiniteSetTheorems, TLAPS

\* An event of the log, as far as this module can write one.
Entry == [action : {"reserve"}, payload : Calls] \cup
         [action : {"consume", "release"}, invocation : Invocations,
          amount : Amounts \cup {0}]
Anchor == [checkpoint : Seq(Entry), status : Receipts \cup {None}]

\* The invocations a log has a reservation for.
Reserved(log) == {i \in Invocations : \E k \in DOMAIN log :
                     log[k].action = "reserve" /\ log[k].payload.invocation = i}

Types ==
    /\ payload \in [Invocations -> Calls \cup {None}] /\ events \in Seq(Entry)
    /\ backup.payload \in [Invocations -> Calls \cup {None}] /\ backup.events \in Seq(Entry)
    /\ anchor \in Anchor
    /\ pc \in [Procs -> PC]
    /\ request \in [Procs -> Calls \cup {None}]
    /\ receipt \in [Procs -> Receipts \cup {None}]
    /\ value \in [Procs -> Anchor \cup {None}]
    /\ answer \in [Procs -> Answers]
    /\ handed \in [Invocations -> Seq(Calls)]
    /\ used \in [Invocations -> Amounts \cup {None}]

\* Where process p has recorded its new reservation.
Recorded(p) == IF pc[p] = "advance" THEN events ELSE anchor.checkpoint

\* What a process may rely on while it holds the flock.
ProcOK(p) ==
    /\ pc[p] # "idle" => lock = p
    /\ pc[p] \in {"observe", "bind", "reserve", "advance"} => value[p] = anchor
    /\ pc[p] \in {"observe", "bind", "reserve"} =>
          request[p] \in Calls /\ receipt[p] \in Receipts
    /\ pc[p] \in {"bind", "reserve"} => anchor.status = receipt[p]
    /\ pc[p] = "reserve" => Active(p)
    /\ pc[p] \in {"advance", "reply"} /\ answer[p] = "RESERVED" =>
          /\ request[p] \in Calls /\ handed[request[p].invocation] = <<>>
          /\ request[p].invocation \in Reserved(Recorded(p))

\* A reservation in the log has its row, in the ledger and in the backup, and
\* the ledger has all the rows of the backup.
RowsOK ==
    \A i \in Invocations :
        /\ payload[i] = None => i \notin Reserved(events)
        /\ backup.payload[i] = None => i \notin Reserved(backup.events)
        /\ payload[i] = None => backup.payload[i] = None

\* What was handed out is anchored.
HandedOK ==
    \A i \in Invocations :
        Len(handed[i]) <= 1 /\ (handed[i] # <<>> => i \in Reserved(anchor.checkpoint))

IInv == Types /\ (\A p \in Procs : ProcOK(p)) /\ RowsOK /\ HandedOK

-----------------------------------------------------------------------------
(* Logs. *)

LEMMA Appended ==
    ASSUME NEW log \in Seq(Entry), NEW e \in Entry
    PROVE  /\ Append(log, e) \in Seq(Entry)
           /\ Reserved(log) \subseteq Reserved(Append(log, e))
           /\ \A i \in Reserved(Append(log, e)) :
                 i \in Reserved(log) \/ (e.action = "reserve" /\ e.payload.invocation = i)
           /\ e.action = "reserve" /\ e.payload.invocation \in Invocations =>
                 e.payload.invocation \in Reserved(Append(log, e))
<1> DEFINE new == Append(log, e)
<1>1. /\ new \in Seq(Entry) /\ Len(log) \in Nat /\ DOMAIN log = 1..Len(log)
      /\ DOMAIN new = 1..(Len(log) + 1) /\ new[Len(log) + 1] = e
      /\ \A k \in DOMAIN log : new[k] = log[k]
  BY AppendProperties DEF Entry
<1> HIDE DEF new
<1>2. \A k \in DOMAIN new : k \in DOMAIN log \/ k = Len(log) + 1
  BY <1>1
<1>3. DOMAIN log \subseteq DOMAIN new /\ Len(log) + 1 \in DOMAIN new
  BY <1>1
<1>4. Reserved(log) \subseteq Reserved(new)
  BY <1>1, <1>3 DEF Reserved
<1>5. \A i \in Reserved(new) :
         i \in Reserved(log) \/ (e.action = "reserve" /\ e.payload.invocation = i)
  BY <1>1, <1>2 DEF Reserved
<1>6. e.action = "reserve" /\ e.payload.invocation \in Invocations =>
         e.payload.invocation \in Reserved(new)
  BY <1>1, <1>3 DEF Reserved
<1> QED BY <1>1, <1>4, <1>5, <1>6 DEF new

LEMMA Prefixed ==
    ASSUME NEW s \in Seq(Entry), NEW t \in Seq(Entry), IsPrefix(s, t)
    PROVE  Reserved(s) \subseteq Reserved(t)
<1>1. Len(s) \in Nat /\ Len(t) \in Nat /\ Len(s) <= Len(t)
      /\ DOMAIN s = 1..Len(s) /\ DOMAIN t = 1..Len(t)
      /\ SubSeq(s, 1, Len(s)) = SubSeq(t, 1, Len(s))
  BY DEF IsPrefix
<1>2. \A k \in 1..Len(s) : SubSeq(s, 1, Len(s))[k] = s[k] /\ SubSeq(t, 1, Len(s))[k] = t[k]
  BY <1>1
<1>3. \A k \in DOMAIN s : k \in DOMAIN t /\ t[k] = s[k]
  BY <1>1, <1>2
<1> QED BY <1>3 DEF Reserved

LEMMA PrefixSelf == ASSUME NEW s \in Seq(Entry) PROVE IsPrefix(s, s)
BY DEF IsPrefix

\* The checks of the ledger find the anchored log in the ledger's own.
LEMMA AuditPrefix ==
    ASSUME NEW log, Ledger!Audit(Ledger!Snapshot, log) = "ok" PROVE IsPrefix(log, events)
BY DEF Ledger!Audit, Ledger!Snapshot, Ledger!IsPrefix, IsPrefix

-----------------------------------------------------------------------------
(* One process moves while it has the flock; the others are idle. *)

LEMMA Moves ==
    ASSUME IInv, NEW p \in Procs, pc[p] # "idle" \/ lock = None,
           \A q \in Procs : q # p => pc'[q] = pc[q],
           Types', ProcOK(p)', RowsOK', HandedOK'
    PROVE  IInv'
<1>1. None \notin Procs
  BY AnchoredAdmissionAssumption
<1>2. ASSUME NEW q \in Procs, q # p PROVE ProcOK(q)'
  <2>1. pc[q] = "idle"
    BY <1>1, <1>2 DEF IInv, ProcOK
  <2>2. pc'[q] = "idle"
    BY <1>2, <2>1
  <2> QED BY <2>2 DEF ProcOK
<1> QED BY <1>2 DEF IInv

LEMMA Returned ==
    ASSUME IInv, NEW p \in Procs, NEW what \in Answers, Return(p, what)
    PROVE  /\ pc' \in [Procs -> PC] /\ request' \in [Procs -> Calls \cup {None}]
           /\ receipt' \in [Procs -> Receipts \cup {None}]
           /\ value' \in [Procs -> Anchor \cup {None}] /\ answer' \in [Procs -> Answers]
           /\ ProcOK(p)' /\ \A q \in Procs : q # p => pc'[q] = pc[q]
<1>1. /\ pc' = [pc EXCEPT ![p] = "idle"] /\ answer' = [answer EXCEPT ![p] = what]
      /\ request' = [request EXCEPT ![p] = None] /\ receipt' = [receipt EXCEPT ![p] = None]
      /\ value' = [value EXCEPT ![p] = None]
  BY DEF Return, Goto
<1>2. /\ pc \in [Procs -> PC] /\ request \in [Procs -> Calls \cup {None}]
      /\ receipt \in [Procs -> Receipts \cup {None}]
      /\ value \in [Procs -> Anchor \cup {None}] /\ answer \in [Procs -> Answers]
  BY DEF IInv, Types
<1>3. "idle" \in PC
  BY DEF PC
<1>4. /\ pc' \in [Procs -> PC] /\ request' \in [Procs -> Calls \cup {None}]
      /\ receipt' \in [Procs -> Receipts \cup {None}]
      /\ value' \in [Procs -> Anchor \cup {None}] /\ answer' \in [Procs -> Answers]
      /\ pc'[p] = "idle" /\ \A q \in Procs : q # p => pc'[q] = pc[q]
  BY <1>1, <1>2, <1>3
<1>5. ProcOK(p)'
  BY <1>4 DEF ProcOK
<1> QED BY <1>4, <1>5

\* A call ends with nothing handed out, the anchor as it was or further.
LEMMA Leaves ==
    ASSUME IInv, NEW p \in Procs, NEW what \in Answers, pc[p] # "idle", Return(p, what),
           UNCHANGED <<payload, events, backup, handed, used>>,
           anchor' \in Anchor, Reserved(anchor.checkpoint) \subseteq Reserved(anchor'.checkpoint)
    PROVE  IInv'
<1>1. /\ ProcOK(p)' /\ \A q \in Procs : q # p => pc'[q] = pc[q]
      /\ pc' \in [Procs -> PC] /\ request' \in [Procs -> Calls \cup {None}]
      /\ receipt' \in [Procs -> Receipts \cup {None}]
      /\ value' \in [Procs -> Anchor \cup {None}] /\ answer' \in [Procs -> Answers]
  BY Returned
<1>2. Types'
  BY <1>1 DEF IInv, Types
<1>3. RowsOK' /\ HandedOK'
  BY DEF IInv, RowsOK, HandedOK, Reserved
<1> QED BY <1>1, <1>2, <1>3, Moves

\* While it holds the flock, a process writes to the anchor what extends it.
LEMMA Held ==
    ASSUME IInv, NEW p \in Procs, pc[p] \in {"observe", "advance"}, OnAnchor(p)
    PROVE  /\ value[p] = anchor /\ IsPrefix(anchor.checkpoint, events)
           /\ Advanced(p) \in Anchor /\ Advanced(p).status = anchor.status
           /\ Advanced(p).checkpoint = events
           /\ Reserved(anchor.checkpoint) \subseteq Reserved(events)
<1>1. /\ value[p] = anchor /\ anchor \in Anchor /\ events \in Seq(Entry)
      /\ anchor.checkpoint \in Seq(Entry)
  BY DEF IInv, ProcOK, Types, Anchor
<1>2. IsPrefix(anchor.checkpoint, events)
  BY <1>1, AuditPrefix DEF OnAnchor
<1>3. Advanced(p) \in Anchor /\ Advanced(p).status = anchor.status
      /\ Advanced(p).checkpoint = events
  BY <1>1 DEF Advanced, Anchor
<1> QED BY <1>1, <1>2, <1>3, Prefixed

LEMMA Watched ==
    ASSUME IInv, NEW p \in Procs, pc[p] = "observe"
    PROVE  /\ Observed(p) \in Anchor /\ Observed(p).checkpoint = anchor.checkpoint
           /\ Observed(p).status = receipt[p] /\ receipt[p] \in Receipts
<1>1. value[p] = anchor /\ anchor \in Anchor /\ receipt[p] \in Receipts
  BY DEF IInv, ProcOK, Types
<1> QED BY <1>1 DEF Observed, Anchor

LEMMA LeavingKeeps ==
    ASSUME IInv, NEW p \in Procs,
           RefuseReceipt(p) \/ RefuseIntent(p) \/ RefuseReservation(p)
             \/ AdvanceRejected(p) \/ Fail(p)
    PROVE  IInv'
<1>1. anchor \in Anchor
  BY DEF IInv, Types
<1>2. CASE RefuseReceipt(p) \/ RefuseIntent(p) \/ RefuseReservation(p)
  <2>1. /\ pc[p] # "idle" /\ Return(p, "REFUSED") /\ anchor' = anchor
        /\ UNCHANGED <<payload, events, backup, handed, used>>
    BY <1>2 DEF RefuseReceipt, RefuseIntent, RefuseReservation, Refuse, tables, world
  <2> QED BY <1>1, <2>1, Leaves DEF Answers
<1>3. CASE AdvanceRejected(p)
  <2>1. /\ pc[p] # "idle" /\ Return(p, Unadvanced(p)) /\ anchor' = anchor
        /\ UNCHANGED <<payload, events, backup, handed, used>>
    BY <1>3 DEF AdvanceRejected, tables, world
  <2>2. Unadvanced(p) \in Answers
    BY DEF Unadvanced, Answers
  <2> QED BY <1>1, <2>1, <2>2, Leaves
<1>4. CASE DatabaseError(p) \/ Crash(p)
  <2>1. PICK what \in {"raised", "none"} :
           /\ pc[p] # "idle" /\ Return(p, what) /\ anchor' = anchor
           /\ UNCHANGED <<payload, events, backup, handed, used>>
    BY <1>4 DEF DatabaseError, Crash, tables, world
  <2>2. what \in Answers
    BY DEF Answers
  <2> QED BY <1>1, <2>1, <2>2, Leaves
<1>5. CASE ObserveFails(p)
  <2>1. /\ pc[p] = "observe" /\ Return(p, "REFUSED") /\ anchor' \in {anchor, Observed(p)}
        /\ UNCHANGED <<payload, events, backup, handed, used>>
    BY <1>5 DEF ObserveFails, tables, world
  <2>2. anchor' \in Anchor /\ anchor'.checkpoint = anchor.checkpoint
    BY <1>1, <2>1, Watched
  <2> QED BY <2>1, <2>2, Leaves DEF Answers
<1>6. CASE AdvanceFails(p)
  <2>1. /\ pc[p] = "advance" /\ OnAnchor(p) /\ Return(p, Unadvanced(p))
        /\ anchor' \in {anchor, Advanced(p)}
        /\ UNCHANGED <<payload, events, backup, handed, used>>
    BY <1>6 DEF AdvanceFails, tables, world
  <2>2. /\ anchor' \in Anchor
        /\ Reserved(anchor.checkpoint) \subseteq Reserved(anchor'.checkpoint)
    BY <1>1, <2>1, Held
  <2>3. Unadvanced(p) \in Answers
    BY DEF Unadvanced, Answers
  <2> QED BY <2>1, <2>2, <2>3, Leaves
<1> QED BY <1>2, <1>3, <1>4, <1>5, <1>6 DEF Fail

LEMMA StartKeeps ==
    ASSUME IInv, NEW p \in Procs,
           Recover(p) \/ \E c \in Calls, r \in Receipts : Admit(p, c, r)
    PROVE  IInv'
<1>1. /\ anchor \in Anchor /\ pc \in [Procs -> PC] /\ request \in [Procs -> Calls \cup {None}]
      /\ receipt \in [Procs -> Receipts \cup {None}]
      /\ value \in [Procs -> Anchor \cup {None}] /\ answer \in [Procs -> Answers]
  BY DEF IInv, Types
<1>2. PICK at \in {"observe", "advance"}, what \in {"none", "RECOVERED"},
           c \in Calls \cup {None}, r \in Receipts \cup {None} :
         /\ lock = None /\ lock' = p
         /\ pc' = [pc EXCEPT ![p] = at] /\ value' = [value EXCEPT ![p] = anchor]
         /\ request' = [request EXCEPT ![p] = c] /\ receipt' = [receipt EXCEPT ![p] = r]
         /\ answer' = [answer EXCEPT ![p] = what]
         /\ at = "observe" => c \in Calls /\ r \in Receipts
  <2>1. CASE Recover(p)
    <3>1. /\ request' = [request EXCEPT ![p] = request[p]]
          /\ receipt' = [receipt EXCEPT ![p] = receipt[p]]
      BY <1>1, <2>1 DEF Recover
    <3> QED BY <1>1, <2>1, <3>1 DEF Recover, Goto
  <2>2. CASE \E c \in Calls, r \in Receipts : Admit(p, c, r)
    BY <2>2 DEF Admit, Goto
  <2> QED BY <2>1, <2>2
<1>3. UNCHANGED <<payload, events, backup, anchor, handed, used>>
  BY DEF Recover, Admit, tables, world
<1>4. /\ pc' \in [Procs -> PC] /\ request' \in [Procs -> Calls \cup {None}]
      /\ receipt' \in [Procs -> Receipts \cup {None}]
      /\ value' \in [Procs -> Anchor \cup {None}] /\ answer' \in [Procs -> Answers]
  BY <1>1, <1>2 DEF PC, Answers
<1>5. Types'
  BY <1>3, <1>4 DEF IInv, Types
<1>6. ProcOK(p)'
  BY <1>1, <1>2, <1>3 DEF ProcOK
<1>7. RowsOK' /\ HandedOK'
  BY <1>3 DEF IInv, RowsOK, HandedOK, Reserved
<1>8. \A q \in Procs : q # p => pc'[q] = pc[q]
  BY <1>1, <1>2
<1> QED BY <1>2, <1>5, <1>6, <1>7, <1>8, Moves

LEMMA ObserveKeeps == ASSUME IInv, NEW p \in Procs, Observe(p) PROVE IInv'
<1>1. /\ pc[p] = "observe" /\ pc \in [Procs -> PC] /\ value \in [Procs -> Anchor \cup {None}]
      /\ ProcOK(p)
  BY DEF IInv, Types, Observe
<1>2. /\ Observed(p) \in Anchor /\ Observed(p).checkpoint = anchor.checkpoint
      /\ Observed(p).status = receipt[p] /\ receipt[p] \in Receipts
  BY <1>1, Watched
<1>3. /\ anchor' = Observed(p) /\ value' = [value EXCEPT ![p] = Observed(p)]
      /\ pc' = [pc EXCEPT ![p] = "bind"]
      /\ UNCHANGED <<payload, events, backup, handed, used, lock, request, receipt, answer>>
  BY DEF Observe, Goto, tables, world
<1>4. Types'
  BY <1>1, <1>2, <1>3 DEF IInv, Types, PC
<1>5. ProcOK(p)'
  BY <1>1, <1>2, <1>3 DEF ProcOK
<1>6. RowsOK' /\ HandedOK'
  BY <1>2, <1>3 DEF IInv, RowsOK, HandedOK, Reserved
<1>7. \A q \in Procs : q # p => pc'[q] = pc[q]
  BY <1>1, <1>3
<1> QED BY <1>1, <1>4, <1>5, <1>6, <1>7, Moves

LEMMA BindKeeps == ASSUME IInv, NEW p \in Procs, Bind(p) PROVE IInv'
<1>1. pc[p] = "bind" /\ pc \in [Procs -> PC] /\ ProcOK(p) /\ Active(p)
  BY DEF IInv, Types, Bind
<1>2. /\ pc' = [pc EXCEPT ![p] = "reserve"]
      /\ UNCHANGED <<payload, events, backup, handed, used, anchor, lock, request,
                     receipt, value, answer>>
  BY DEF Bind, Goto, tables, world
<1>3. Types'
  BY <1>1, <1>2 DEF IInv, Types, PC
<1>4. ProcOK(p)'
  BY <1>1, <1>2 DEF ProcOK, Active
<1>5. RowsOK' /\ HandedOK'
  BY <1>2 DEF IInv, RowsOK, HandedOK, Reserved
<1>6. \A q \in Procs : q # p => pc'[q] = pc[q]
  BY <1>1, <1>2
<1> QED BY <1>1, <1>3, <1>4, <1>5, <1>6, Moves

LEMMA ReserveAgainKeeps == ASSUME IInv, NEW p \in Procs, ReserveAgain(p) PROVE IInv'
<1>1. /\ pc[p] = "reserve" /\ pc \in [Procs -> PC] /\ answer \in [Procs -> Answers]
      /\ ProcOK(p)
  BY DEF IInv, Types, ReserveAgain
<1>2. /\ pc' = [pc EXCEPT ![p] = "advance"]
      /\ answer' = [answer EXCEPT ![p] = "ALREADY_RECORDED"]
      /\ UNCHANGED <<payload, events, backup, handed, used, anchor, lock, request,
                     receipt, value>>
  BY DEF ReserveAgain, Goto, tables, world
<1>3. Types'
  BY <1>1, <1>2 DEF IInv, Types, PC, Answers
<1>4. ProcOK(p)'
  BY <1>1, <1>2 DEF ProcOK
<1>5. RowsOK' /\ HandedOK'
  BY <1>2 DEF IInv, RowsOK, HandedOK, Reserved
<1>6. \A q \in Procs : q # p => pc'[q] = pc[q]
  BY <1>1, <1>2
<1> QED BY <1>1, <1>3, <1>4, <1>5, <1>6, Moves

\* A new reservation finds no row, so none in the log, which holds the anchored
\* one, so nothing was handed out.
LEMMA ReserveNewKeeps == ASSUME IInv, NEW p \in Procs, ReserveNew(p) PROVE IInv'
<1>0. PICK c, i : c = request[p] /\ i = c.invocation
  OBVIOUS
<1> DEFINE e == [action |-> "reserve", payload |-> c]
<1>1. /\ pc[p] = "reserve" /\ pc \in [Procs -> PC] /\ answer \in [Procs -> Answers]
      /\ ProcOK(p) /\ c \in Calls /\ i \in Invocations /\ c # None /\ e \in Entry
      /\ payload \in [Invocations -> Calls \cup {None}] /\ events \in Seq(Entry)
  BY <1>0, AnchoredAdmissionAssumption DEF IInv, Types, ReserveNew, ProcOK, Entry
<1>2. /\ pc' = [pc EXCEPT ![p] = "advance"]
      /\ answer' = [answer EXCEPT ![p] = "RESERVED"]
      /\ UNCHANGED <<backup, handed, used, anchor, lock, request, receipt, value>>
  BY DEF ReserveNew, Goto, world
<1>3. /\ payload[i] = None /\ payload' = [payload EXCEPT ![i] = c]
      /\ events' = Append(events, e)
      /\ Ledger!Audit(Ledger!Snapshot, value[p].checkpoint) = "ok"
  BY <1>0 DEF ReserveNew, Ledger!Reserve, Ledger!Reservable, Ledger!Logged
<1>4. IsPrefix(anchor.checkpoint, events) /\ anchor.checkpoint \in Seq(Entry)
  BY <1>1, <1>3, AuditPrefix DEF ProcOK, IInv, Types, Anchor
<1>5. /\ e.action = "reserve" /\ e.payload.invocation = i
      /\ events' \in Seq(Entry) /\ Reserved(events) \subseteq Reserved(events')
      /\ i \in Reserved(events') /\ \A j \in Reserved(events') : j \in Reserved(events) \/ j = i
  <2>1. e.action = "reserve" /\ e.payload.invocation = i
    BY <1>0
  <2> HIDE DEF e
  <2> QED BY <1>1, <1>3, <2>1, Appended
<1> HIDE DEF e
<1>6. handed[i] = <<>>
  BY <1>1, <1>3, <1>4, Prefixed DEF IInv, RowsOK, HandedOK
<1>7. /\ payload' \in [Invocations -> Calls \cup {None}] /\ payload'[i] = c
      /\ \A j \in Invocations : j # i => payload'[j] = payload[j]
  BY <1>1, <1>3
<1>8. Types'
  BY <1>1, <1>2, <1>5, <1>7 DEF IInv, Types, PC, Answers
<1>9. ProcOK(p)'
  BY <1>0, <1>1, <1>2, <1>5, <1>6 DEF ProcOK, Recorded
<1>10. RowsOK'
  BY <1>1, <1>2, <1>5, <1>7 DEF IInv, RowsOK, Reserved
<1>11. HandedOK'
  BY <1>2 DEF IInv, HandedOK
<1>12. \A q \in Procs : q # p => pc'[q] = pc[q]
  BY <1>1, <1>2
<1> QED BY <1>1, <1>8, <1>9, <1>10, <1>11, <1>12, Moves

LEMMA AdvanceKeeps == ASSUME IInv, NEW p \in Procs, Advance(p) PROVE IInv'
<1>1. pc[p] = "advance" /\ pc \in [Procs -> PC] /\ ProcOK(p) /\ OnAnchor(p)
  BY DEF IInv, Types, Advance
<1>2. /\ Advanced(p) \in Anchor /\ Advanced(p).checkpoint = events
      /\ Reserved(anchor.checkpoint) \subseteq Reserved(events)
  BY <1>1, Held
<1>3. /\ anchor' = Advanced(p) /\ pc' = [pc EXCEPT ![p] = "reply"]
      /\ UNCHANGED <<payload, events, backup, handed, used, lock, request, receipt,
                     value, answer>>
  BY DEF Advance, Goto, tables, world
<1>4. Types'
  BY <1>1, <1>2, <1>3 DEF IInv, Types, PC
<1>5. ProcOK(p)'
  BY <1>1, <1>2, <1>3 DEF ProcOK, Recorded
<1>6. RowsOK' /\ HandedOK'
  BY <1>2, <1>3 DEF IInv, RowsOK, HandedOK, Reserved
<1>7. \A q \in Procs : q # p => pc'[q] = pc[q]
  BY <1>1, <1>3
<1> QED BY <1>1, <1>4, <1>5, <1>6, <1>7, Moves

LEMMA ReplyKeeps == ASSUME IInv, NEW p \in Procs, Reply(p) PROVE IInv'
<1>1. /\ pc[p] = "reply" /\ ProcOK(p) /\ answer[p] \in Answers
      /\ handed \in [Invocations -> Seq(Calls)]
  BY DEF IInv, Types, Reply
<1>2. /\ Return(p, answer[p])
      /\ UNCHANGED <<payload, events, backup, used, anchor>>
  BY DEF Reply, tables
<1>3. /\ ProcOK(p)' /\ \A q \in Procs : q # p => pc'[q] = pc[q]
      /\ pc' \in [Procs -> PC] /\ request' \in [Procs -> Calls \cup {None}]
      /\ receipt' \in [Procs -> Receipts \cup {None}]
      /\ value' \in [Procs -> Anchor \cup {None}] /\ answer' \in [Procs -> Answers]
  BY <1>1, <1>2, Returned
<1>4. handed' \in [Invocations -> Seq(Calls)] /\ HandedOK'
  <2>1. CASE answer[p] # "RESERVED"
    BY <1>1, <1>2, <2>1 DEF Reply, IInv, HandedOK
  <2>2. CASE answer[p] = "RESERVED"
    <3>0. PICK c, i : c = request[p] /\ i = c.invocation
      OBVIOUS
    <3>1. /\ c \in Calls /\ i \in Invocations /\ handed[i] = <<>>
          /\ i \in Reserved(anchor.checkpoint)
      BY <1>1, <2>2, <3>0, AnchoredAdmissionAssumption DEF ProcOK, Recorded
    <3>2. handed' = [handed EXCEPT ![i] = Append(handed[i], c)]
      BY <2>2, <3>0 DEF Reply
    <3>3. Append(<<>>, c) = <<c>> /\ <<c>> \in Seq(Calls) /\ Len(<<c>>) = 1
      BY <3>1
    <3>4. /\ handed' \in [Invocations -> Seq(Calls)] /\ Len(handed'[i]) = 1
          /\ \A j \in Invocations : j # i => handed'[j] = handed[j]
      BY <1>1, <3>1, <3>2, <3>3
    <3>5. anchor' = anchor /\ HandedOK
      BY <1>2 DEF IInv
    <3>6. ASSUME NEW j \in Invocations
          PROVE  Len(handed'[j]) <= 1 /\ (handed'[j] # <<>> => j \in Reserved(anchor.checkpoint))
      <4>1. CASE j = i
        <5>1. Len(handed'[j]) = 1
          BY <3>4, <4>1
        <5>2. j \in Reserved(anchor.checkpoint)
          BY <3>1, <4>1, Zenon
        <5> QED BY <5>1, <5>2
      <4>2. CASE j # i
        BY <3>4, <3>5, <4>2 DEF HandedOK
      <4> QED BY <4>1, <4>2
    <3> QED BY <3>4, <3>5, <3>6 DEF HandedOK
  <2> QED BY <2>1, <2>2
<1>5. Types' /\ RowsOK'
  BY <1>2, <1>3, <1>4 DEF IInv, Types, RowsOK, Reserved
<1> QED BY <1>1, <1>3, <1>4, <1>5, Moves

-----------------------------------------------------------------------------
(* The world around the processes. *)

LEMMA World ==
    ASSUME IInv, Types', RowsOK', UNCHANGED <<procs, lock, anchor, handed>>,
           lock = None \/ Reserved(events) \subseteq Reserved(events')
    PROVE  IInv'
<1>1. None \notin Procs
  BY AnchoredAdmissionAssumption
<1>2. ASSUME NEW p \in Procs PROVE ProcOK(p)'
  <2>1. CASE lock = None
    <3>1. pc[p] = "idle" /\ pc' = pc
      BY <1>1, <2>1 DEF IInv, ProcOK, procs
    <3> QED BY <3>1 DEF ProcOK
  <2>2. CASE Reserved(events) \subseteq Reserved(events')
    BY <2>2 DEF IInv, ProcOK, Recorded, Active, procs
  <2> QED BY <2>1, <2>2
<1>3. HandedOK'
  BY DEF IInv, HandedOK
<1> QED BY <1>2, <1>3 DEF IInv

\* Settling a reservation writes no new one.
LEMMA SettleKeeps ==
    ASSUME IInv, NEW i \in Invocations, Consume(i) \/ Release(i) PROVE IInv'
<1>1. /\ payload \in [Invocations -> Calls \cup {None}] /\ events \in Seq(Entry)
      /\ used \in [Invocations -> Amounts \cup {None}]
  BY DEF IInv, Types
<1>2. PICK action \in {"consume", "release"}, amount \in Amounts \cup {0} :
         /\ events' = Append(events, [action |-> action, invocation |-> i, amount |-> amount])
         /\ payload' = payload
  <2>1. CASE Consume(i)
    <3>1. used[i] \in Amounts
      BY <1>1, <2>1 DEF Consume
    <3> QED BY <2>1, <3>1 DEF Consume, Ledger!Finish, Ledger!Logged
  <2>2. CASE Release(i)
    BY <2>2 DEF Release, Ledger!Finish, Ledger!Logged
  <2> QED BY <2>1, <2>2
<1> DEFINE e == [action |-> action, invocation |-> i, amount |-> amount]
<1>3. e \in Entry /\ e.action # "reserve" /\ events' = Append(events, e)
  BY <1>2 DEF Entry
<1> HIDE DEF e
<1>4. events' \in Seq(Entry) /\ Reserved(events') = Reserved(events)
  <2>1. events' \in Seq(Entry) /\ Reserved(events) \subseteq Reserved(events')
    BY <1>1, <1>3, Appended
  <2>2. \A j \in Reserved(events') : j \in Reserved(events)
    BY <1>1, <1>3, Appended
  <2> QED BY <2>1, <2>2
<1>5. UNCHANGED <<anchor, lock, procs, handed, used, backup>>
  BY DEF Consume, Release, world
<1>6. Types'
  BY <1>1, <1>2, <1>4, <1>5 DEF IInv, Types, procs
<1>7. RowsOK'
  BY <1>2, <1>4, <1>5 DEF IInv, RowsOK, Reserved
<1> QED BY <1>4, <1>5, <1>6, <1>7, World

LEMMA ActKeeps ==
    ASSUME IInv, NEW i \in Invocations, NEW amount \in Amounts, Act(i, amount) PROVE IInv'
<1>1. /\ used' = [used EXCEPT ![i] = amount] /\ used \in [Invocations -> Amounts \cup {None}]
      /\ UNCHANGED <<payload, events, backup, anchor, lock, procs, handed>>
  BY DEF IInv, Types, Act, tables
<1>2. Types'
  BY <1>1 DEF IInv, Types, procs
<1>3. RowsOK'
  BY <1>1 DEF IInv, RowsOK, Reserved
<1> QED BY <1>1, <1>2, <1>3, World

LEMMA BackupKeeps == ASSUME IInv, Backup PROVE IInv'
<1>1. /\ backup'.payload = payload /\ backup'.events = events
      /\ UNCHANGED <<payload, events, anchor, lock, procs, handed, used>>
  BY DEF Backup, tables, Ledger!Snapshot
<1>2. Types'
  BY <1>1 DEF IInv, Types, procs
<1>3. RowsOK'
  BY <1>1 DEF IInv, RowsOK, Reserved
<1> QED BY <1>1, <1>2, <1>3, World

LEMMA RestoreKeeps == ASSUME IInv, Restore PROVE IInv'
<1>1. /\ lock = None /\ payload' = backup.payload /\ events' = backup.events
      /\ UNCHANGED <<anchor, lock, procs, handed, used, backup>>
  BY DEF Restore, world
<1>2. Types'
  BY <1>1 DEF IInv, Types, procs
<1>3. RowsOK'
  BY <1>1 DEF IInv, RowsOK, Reserved
<1> QED BY <1>1, <1>2, <1>3, World

LEMMA IdleKeeps ==
    ASSUME IInv, UNCHANGED <<tables, anchor, lock, procs, handed, used, backup>> PROVE IInv'
<1>1. UNCHANGED <<payload, events>>
  BY DEF tables
<1>2. Types'
  BY <1>1 DEF IInv, Types, procs
<1>3. RowsOK'
  BY <1>1 DEF IInv, RowsOK, Reserved
<1> QED BY <1>1, <1>2, <1>3, World

-----------------------------------------------------------------------------
(* The invariant, and what it gives. *)

LEMMA InitHolds == Init => IInv
<1> SUFFICES ASSUME Init PROVE IInv
  OBVIOUS
<1>1. payload = [i \in Invocations |-> None] /\ events = <<>>
      /\ backup.payload = payload /\ backup.events = events
  BY DEF Init, Ledger!Init, Ledger!Snapshot
<1>2. <<>> \in Seq(Entry) /\ <<>> \in Seq(Calls) /\ Len(<<>>) = 0 /\ DOMAIN <<>> = {}
  OBVIOUS
<1>3. Types
  BY <1>1, <1>2 DEF Init, Types, Anchor, PC, Answers
<1>4. \A p \in Procs : ProcOK(p)
  BY DEF Init, ProcOK
<1>5. RowsOK /\ HandedOK
  BY <1>1, <1>2 DEF Init, RowsOK, HandedOK, Reserved
<1> QED BY <1>3, <1>4, <1>5 DEF IInv

LEMMA NextHolds == IInv /\ [Next]_vars => IInv'
<1> SUFFICES ASSUME IInv, [Next]_vars PROVE IInv'
  OBVIOUS
<1>1. CASE UNCHANGED vars
  BY <1>1, IdleKeeps DEF vars, world
<1>2. CASE \E p \in Procs, c \in Calls, r \in Receipts : Admit(p, c, r)
  BY <1>2, StartKeeps
<1>3. CASE \E p \in Procs : Recover(p) \/ Step(p) \/ Fail(p)
  BY <1>3, StartKeeps, LeavingKeeps, ObserveKeeps, BindKeeps, ReserveNewKeeps,
     ReserveAgainKeeps, AdvanceKeeps, ReplyKeeps DEF Step
<1>4. CASE \/ \E i \in Invocations, amount \in Amounts : Act(i, amount)
           \/ \E i \in Invocations : Consume(i) \/ Release(i)
  BY <1>4, ActKeeps, SettleKeeps
<1>5. CASE Backup \/ Restore
  BY <1>5, BackupKeeps, RestoreKeeps
<1>6. CASE Tick
  BY <1>6, IdleKeeps DEF Tick
<1> QED BY <1>1, <1>2, <1>3, <1>4, <1>5, <1>6 DEF Next

LEMMA Invariant == Spec => []IInv
BY InitHolds, NextHolds, PTL DEF Spec

\* One invocation is handed out at most once, through any number of crashes,
\* failed writes and restores of the ledger (persistent_admit lines 32-47).
THEOREM HandedOnceCorrect == Spec => []HandedOnce
<1>1. IInv => HandedOnce
  BY DEF IInv, HandedOK, HandedOnce
<1> QED BY <1>1, Invariant, PTL

-----------------------------------------------------------------------------
(* The anchor. *)

\* What two values of the anchor may be, the second written after the first.
Extends(new, old) ==
    /\ IsPrefix(old.checkpoint, new.checkpoint)
    /\ old.status # None => /\ new.status # None
                            /\ new.status.revision >= old.status.revision
                            /\ new.status.asOf >= old.status.asOf

LEMMA ExtendsSelf == ASSUME NEW a \in Anchor PROVE Extends(a, a)
<1>1. a.checkpoint \in Seq(Entry) /\ a.status \in Receipts \cup {None}
  BY DEF Anchor
<1>2. IsPrefix(a.checkpoint, a.checkpoint)
  BY <1>1, PrefixSelf
<1>3. a.status # None => a.status.revision \in Nat /\ a.status.asOf \in Nat
  BY <1>1, AnchoredAdmissionAssumption
<1> QED BY <1>2, <1>3 DEF Extends

LEMMA AnchorStep == IInv /\ [Next]_vars => anchor' = anchor \/ Extends(anchor', anchor)
<1> SUFFICES ASSUME IInv, [Next]_vars, anchor' # anchor PROVE Extends(anchor', anchor)
  OBVIOUS
<1>1. PICK p \in Procs : Observe(p) \/ ObserveFails(p) \/ Advance(p) \/ AdvanceFails(p)
  <2>1. CASE UNCHANGED vars
    BY <2>1 DEF vars
  <2>2. CASE \E p \in Procs, c \in Calls, r \in Receipts : Admit(p, c, r)
    BY <2>2 DEF Admit
  <2>3. CASE \E p \in Procs : Recover(p) \/ Step(p) \/ Fail(p)
    BY <2>3 DEF Recover, Step, Fail, RefuseReceipt, Bind, RefuseIntent, ReserveNew,
       ReserveAgain, RefuseReservation, AdvanceRejected, Reply, DatabaseError, Crash, Refuse
  <2>4. CASE \/ \E i \in Invocations, amount \in Amounts : Act(i, amount)
             \/ \E i \in Invocations : Consume(i) \/ Release(i)
    BY <2>4 DEF Act, Consume, Release
  <2>5. CASE Backup \/ Restore \/ Tick
    BY <2>5 DEF Backup, Restore, Tick
  <2> QED BY <2>1, <2>2, <2>3, <2>4, <2>5 DEF Next
<1>2. anchor \in Anchor /\ ProcOK(p)
  BY DEF IInv, Types
<1>3. CASE Observe(p) \/ ObserveFails(p)
  <2>1. /\ pc[p] = "observe" /\ anchor' = Observed(p)
        /\ Authentic(receipt[p], value[p].status)
    BY <1>3 DEF Observe, ObserveFails, Observable
  <2>2. /\ value[p] = anchor /\ Observed(p).checkpoint = anchor.checkpoint
        /\ Observed(p).status = receipt[p] /\ receipt[p] \in Receipts
    BY <1>2, <2>1, Watched DEF ProcOK
  <2>3. IsPrefix(anchor.checkpoint, Observed(p).checkpoint)
    BY <1>2, <2>2, ExtendsSelf DEF Extends
  <2>4. receipt[p] # None
    BY <2>2, AnchoredAdmissionAssumption
  <2> QED BY <2>1, <2>2, <2>3, <2>4 DEF Extends, Authentic
<1>4. CASE Advance(p) \/ AdvanceFails(p)
  <2>1. pc[p] = "advance" /\ anchor' = Advanced(p) /\ OnAnchor(p)
    BY <1>4 DEF Advance, AdvanceFails
  <2>2. /\ IsPrefix(anchor.checkpoint, Advanced(p).checkpoint)
        /\ Advanced(p).status = anchor.status
    BY <2>1, Held
  <2> QED BY <1>2, <2>1, <2>2, ExtendsSelf DEF Extends
<1> QED BY <1>1, <1>3, <1>4

\* The anchor only grows, by whatever process, through failed writes and
\* restores (_advance, lines 108-119; authenticate).
THEOREM AnchorOnlyGrowsCorrect == Spec => AnchorOnlyGrows
<1>1. IInv /\ [Next]_vars =>
        [/\ IsPrefix(anchor.checkpoint, anchor'.checkpoint)
         /\ anchor.status # None =>
               /\ anchor'.status # None
               /\ anchor'.status.revision >= anchor.status.revision
               /\ anchor'.status.asOf >= anchor.status.asOf]_anchor
  BY AnchorStep DEF Extends
<1> QED BY <1>1, Invariant, PTL DEF Spec, AnchorOnlyGrows

-----------------------------------------------------------------------------
(* Authority. *)

\* Only a first reservation gives an invocation its payload: a restore finds
\* no row in the backup that the ledger did not have.
LEMMA OnlyReserve ==
    ASSUME IInv, [Next]_vars, NEW i \in Invocations, payload[i] = None, payload'[i] # None
    PROVE  \E p \in Procs : ReserveNew(p)
<1>1. backup.payload[i] = None
  BY DEF IInv, RowsOK
<1>2. CASE UNCHANGED vars
  BY <1>2 DEF vars, tables
<1>3. CASE \E p \in Procs, c \in Calls, r \in Receipts : Admit(p, c, r)
  BY <1>3 DEF Admit, tables
<1>4. CASE \E p \in Procs : Recover(p) \/ Step(p) \/ Fail(p)
  BY <1>4 DEF Recover, Step, Fail, Observe, ObserveFails, RefuseReceipt, Bind, RefuseIntent,
     ReserveAgain, RefuseReservation, Advance, AdvanceFails, AdvanceRejected, Reply,
     DatabaseError, Crash, Refuse, tables
<1>5. CASE \/ \E j \in Invocations, amount \in Amounts : Act(j, amount)
           \/ \E j \in Invocations : Consume(j) \/ Release(j)
  BY <1>5 DEF Act, Consume, Release, Ledger!Finish, tables
<1>6. CASE Backup \/ Restore \/ Tick
  BY <1>1, <1>6 DEF Backup, Restore, Tick, tables
<1> QED BY <1>2, <1>3, <1>4, <1>5, <1>6 DEF Next

LEMMA ReservedUnderAuthority ==
    ASSUME IInv, NEW p \in Procs, ReserveNew(p),
           NEW i \in Invocations, payload[i] = None, payload'[i] # None
    PROVE  /\ IsPrefix(anchor.checkpoint, events)
           /\ anchor.status # None
           /\ IntentOf[payload'[i]] \in anchor.status.active
           /\ Fresh(anchor.status)
           /\ now < Expires[payload'[i]]
<1>1. /\ value[p] = anchor /\ anchor.status = receipt[p] /\ receipt[p] \in Receipts
      /\ Active(p) /\ Guard(p)
  BY DEF IInv, ProcOK, ReserveNew
<1>2. /\ payload' = [payload EXCEPT ![request[p].invocation] = request[p]]
      /\ Ledger!Audit(Ledger!Snapshot, value[p].checkpoint) = "ok"
  BY DEF ReserveNew, Ledger!Reserve, Ledger!Reservable
<1>3. payload'[i] = request[p]
  BY <1>2 DEF IInv, Types
<1>4. IsPrefix(anchor.checkpoint, events)
  BY <1>1, <1>2, AuditPrefix
<1>5. receipt[p] # None
  BY <1>1, AnchoredAdmissionAssumption
<1> QED BY <1>1, <1>3, <1>4, <1>5 DEF Active, Guard, Authentic

\* A new reservation is made on a log that holds all that was anchored, for an
\* intent the newest status list calls active, while that list is fresh and
\* the authorization has not ended (persistent_admit lines 19-31).
THEOREM AdmittedUnderAuthorityCorrect == Spec => AdmittedUnderAuthority
<1>1. IInv /\ [Next]_vars =>
        [\A i \in Invocations :
            payload[i] = None /\ payload'[i] # None =>
                /\ IsPrefix(anchor.checkpoint, events)
                /\ anchor.status # None
                /\ IntentOf[payload'[i]] \in anchor.status.active
                /\ Fresh(anchor.status)
                /\ now < Expires[payload'[i]]]_vars
  BY OnlyReserve, ReservedUnderAuthority
<1> QED BY <1>1, Invariant, PTL DEF Spec, AdmittedUnderAuthority

-----------------------------------------------------------------------------
(***************************************************************************)
(* What was handed out keeps the budget.  The ledger and the backup are    *)
(* each a state that EvidenceLedger can reach, so its invariant holds of   *)
(* both (L and B), and what EvidenceLedger_proofs shows of reserve and     *)
(* finish is used here.                                                    *)
(***************************************************************************)

L == INSTANCE EvidenceLedger_proofs WITH
         Amounts <- Amounts \cup {0}, reading <- None, verdict <- "none"
B == INSTANCE EvidenceLedger_proofs WITH
         terms <- backup.terms, reserved <- backup.reserved, spent <- backup.spent,
         payload <- backup.payload, state <- backup.state, consumed <- backup.consumed,
         bound <- backup.bound, events <- backup.events,
         Amounts <- Amounts \cup {0}, reading <- None, verdict <- "none"

\* The payloads a log has a reservation for.
Booked(log) == {c \in Calls : \E k \in DOMAIN log :
                   log[k].action = "reserve" /\ log[k].payload = c}

\* Process p is about to hand out the reservation it has just made.
Holds(p) == pc[p] \in {"advance", "reply"} /\ answer[p] = "RESERVED"

\* Anchored reservations that nobody is about to hand out: if they were not
\* handed out yet, they never will be.
Past == {i \in Reserved(anchor.checkpoint) :
            \A p \in Procs : Holds(p) => request[p].invocation # i}

\* A settled row of the ledger or the backup tells what became of the action.
Settled(st, spend) ==
    \A i \in Invocations :
        /\ st[i] = "consume" => used[i] # None /\ spend[i] = used[i]
        /\ st[i] = "release" => i \in Past /\ handed[i] = <<>>

\* A handed out payload is anchored, and no more was spent than it says.
HandedBooked ==
    \A i \in Invocations :
        /\ handed[i] # <<>> => /\ handed[i][1] \in Booked(anchor.checkpoint)
                               /\ handed[i][1].invocation = i
        /\ used[i] # None => handed[i] # <<>> /\ used[i] <= handed[i][1].amount

\* The conditions under which SharedBudget grants call c.
Grantable(c) ==
    /\ \A i \in Actions!Granted : handed[i][1].nonce # c.nonce
    /\ \A a \in DOMAIN c.limits :
          /\ \A i \in Actions!Chargers(a) : handed[i][1].limits[a] = c.limits[a]
          /\ Actions!Charged(a) + c.amount <= c.limits[a]

\* A reservation about to be handed out is in the log, and has room.
HolderOK(p) ==
    /\ Holds(p) => request[p] \in Booked(Recorded(p)) /\ Grantable(request[p])
    /\ pc[p] = "reply" => Reserved(events) \subseteq Reserved(anchor.checkpoint)

BooksOK ==
    /\ Settled(state, consumed) /\ Settled(backup.state, backup.consumed)
    /\ pending \subseteq Past
    /\ HandedBooked
    /\ \A p \in Procs : HolderOK(p)
    /\ IsFiniteSet(Actions!Granted)

BooksInv == L!BudgetInv /\ B!BudgetInv /\ BooksOK

-----------------------------------------------------------------------------
(* The tables, in the ledger and in the backup. *)

LEMMA LedgerAssumed == L!EvidenceLedgerAssumption
<1>1. L!Terms = Ledger!Terms
  BY DEF L!Terms, Ledger!Terms
<1>2. Amounts \cup {0} \subseteq Nat
  BY AnchoredAdmissionAssumption
<1> QED BY <1>1, <1>2, AnchoredAdmissionAssumption

LEMMA BackupAssumed == B!EvidenceLedgerAssumption
<1>1. B!Terms = Ledger!Terms
  BY DEF B!Terms, Ledger!Terms
<1>2. Amounts \cup {0} \subseteq Nat
  BY AnchoredAdmissionAssumption
<1> QED BY <1>1, <1>2, AnchoredAdmissionAssumption

\* The writers of the ledger are those of EvidenceLedger.
LEMMA Writers ==
    /\ \A c, log : Ledger!Reserve(c, log) => L!Reserve(c, log)
    /\ \A i, action, amount : Ledger!Finish(i, action, amount) => L!Finish(i, action, amount)
<1>1. \A d, log : Ledger!Audit(d, log) = L!Audit(d, log)
  BY DEF Ledger!Audit, L!Audit, Ledger!Audited, L!Audited, Ledger!Replay, L!Replay,
     Ledger!FoldLeft, L!FoldLeft, Ledger!MapThenFoldSet, L!MapThenFoldSet, Ledger!Max, L!Max,
     Ledger!Blank, L!Blank, Ledger!Redo, L!Redo, Ledger!RedoReserve, L!RedoReserve,
     Ledger!RedoFinish, L!RedoFinish, Ledger!IsPrefix, L!IsPrefix
<1>2. Ledger!Snapshot = L!Snapshot
  BY DEF Ledger!Snapshot, L!Snapshot
<1>3. \A c, log : Ledger!Reserve(c, log) => L!Reserve(c, log)
  BY <1>1, <1>2 DEF Ledger!Reserve, L!Reserve, Ledger!Reservable, L!Reservable, Ledger!NonceFree,
     L!NonceFree, Ledger!Bindable, L!Bindable, Ledger!WithinBudget, L!WithinBudget,
     Ledger!TermsOf, L!TermsOf, Ledger!Logged, L!Logged
<1>4. \A i, action, amount : Ledger!Finish(i, action, amount) => L!Finish(i, action, amount)
  BY <1>1, <1>2 DEF Ledger!Finish, L!Finish, Ledger!Open, L!Open, Ledger!Logged, L!Logged
<1> QED BY <1>3, <1>4

LEMMA ReserveTables ==
    ASSUME L!BudgetInv, NEW c \in Calls, NEW log, Ledger!Reserve(c, log) PROVE L!BudgetInv'
<1>1. L!Reserve(c, log) /\ L!LedgerInv
  BY Writers DEF L!BudgetInv
<1>2. L!CountersAddUp'
  BY <1>1, L!ReserveAddsUp, LedgerAssumed
<1>3. L!TypeOK'
  BY <1>1, L!ReserveType, LedgerAssumed DEF L!TypeOK
<1>4. L!RowHasState' /\ L!WithinCeiling' /\ L!RowsAgree' /\ L!LogTellsAll'
  BY <1>1, L!ReserveRows, L!ReserveLog, LedgerAssumed
<1> QED BY <1>2, <1>3, <1>4 DEF L!BudgetInv, L!LedgerInv

LEMMA FinishTables ==
    ASSUME L!BudgetInv, NEW i \in Invocations, NEW action \in {"consume", "release"},
           NEW amount \in Amounts \cup {0}, Ledger!Finish(i, action, amount)
    PROVE  L!BudgetInv'
<1>1. L!Finish(i, action, amount) /\ L!LedgerInv
  BY Writers DEF L!BudgetInv
<1>2. L!CountersAddUp'
  BY <1>1, L!FinishAddsUp, LedgerAssumed
<1>3. L!TypeOK'
  BY <1>1, L!FinishType, LedgerAssumed DEF L!TypeOK
<1>4. L!RowHasState' /\ L!WithinCeiling' /\ L!RowsAgree' /\ L!LogTellsAll'
  BY <1>1, L!FinishRows, L!FinishLog, LedgerAssumed
<1> QED BY <1>2, <1>3, <1>4 DEF L!BudgetInv, L!LedgerInv

LEMMA SameTotal == \A f, S : L!Total(f, S) = B!Total(f, S)
BY DEF L!Total, B!Total, L!MapThenFoldSet, B!MapThenFoldSet, L!Pick, B!Pick

\* The restored ledger is what the backup was.
LEMMA RestoreTables == ASSUME B!BudgetInv, Restore PROVE L!BudgetInv'
<1>1. /\ terms' = backup.terms /\ reserved' = backup.reserved /\ spent' = backup.spent
      /\ payload' = backup.payload /\ state' = backup.state /\ consumed' = backup.consumed
      /\ bound' = backup.bound /\ events' = backup.events
  BY DEF Restore
<1>2. L!TypeOK'
  BY <1>1 DEF B!BudgetInv, B!LedgerInv, L!TypeOK, B!TypeOK, L!Terms, B!Terms, L!Event, B!Event
<1>3. L!RowHasState' /\ L!WithinCeiling'
  BY <1>1 DEF B!BudgetInv, B!LedgerInv, L!RowHasState, B!RowHasState, L!WithinCeiling,
     B!WithinCeiling
<1>4. L!RowsAgree'
  BY <1>1 DEF B!BudgetInv, B!LedgerInv, L!RowsAgree, B!RowsAgree, L!TermsOf, B!TermsOf
<1>5. L!LogTellsAll'
  BY <1>1 DEF B!BudgetInv, B!LedgerInv, L!LogTellsAll, B!LogTellsAll, L!ReservationsLogged,
     B!ReservationsLogged, L!SettlementsLogged, B!SettlementsLogged, L!LoggedOnce, B!LoggedOnce,
     L!Reserves, B!Reserves, L!Settles, B!Settles, L!Subject, B!Subject
<1>6. L!CountersAddUp'
  <2>1. L!Rows' = B!Rows /\ L!Charge' = B!Charge /\ \A a : L!On(a)' = B!On(a)
    BY <1>1 DEF L!Rows, B!Rows, L!Charge, B!Charge, L!On, B!On
  <2>2. B!CountersAddUp
    BY DEF B!BudgetInv
  <2>3. L!IsFiniteSet(B!Rows)
    BY <2>2 DEF B!CountersAddUp, L!IsFiniteSet, B!IsFiniteSet
  <2>4. ASSUME NEW a \in Accounts
        PROVE  reserved'[a] + spent'[a] = L!Total(L!Charge', L!On(a)')
    BY <1>1, <2>1, <2>2, SameTotal DEF B!CountersAddUp
  <2> QED BY <2>1, <2>3, <2>4 DEF L!CountersAddUp
<1> QED BY <1>2, <1>3, <1>4, <1>5, <1>6 DEF L!BudgetInv, L!LedgerInv

\* The backup is what the ledger is.
LEMMA BackupTables == ASSUME L!BudgetInv, Backup PROVE B!BudgetInv'
<1>1. /\ backup'.terms = terms /\ backup'.reserved = reserved /\ backup'.spent = spent
      /\ backup'.payload = payload /\ backup'.state = state /\ backup'.consumed = consumed
      /\ backup'.bound = bound /\ backup'.events = events
  BY DEF Backup, Ledger!Snapshot
<1>2. B!TypeOK'
  BY <1>1 DEF L!BudgetInv, L!LedgerInv, L!TypeOK, B!TypeOK, L!Terms, B!Terms, L!Event, B!Event
<1>3. B!RowHasState' /\ B!WithinCeiling'
  BY <1>1 DEF L!BudgetInv, L!LedgerInv, L!RowHasState, B!RowHasState, L!WithinCeiling,
     B!WithinCeiling
<1>4. B!RowsAgree'
  BY <1>1 DEF L!BudgetInv, L!LedgerInv, L!RowsAgree, B!RowsAgree, L!TermsOf, B!TermsOf
<1>5. B!LogTellsAll'
  BY <1>1 DEF L!BudgetInv, L!LedgerInv, L!LogTellsAll, B!LogTellsAll, L!ReservationsLogged,
     B!ReservationsLogged, L!SettlementsLogged, B!SettlementsLogged, L!LoggedOnce, B!LoggedOnce,
     L!Reserves, B!Reserves, L!Settles, B!Settles, L!Subject, B!Subject
<1>6. B!CountersAddUp'
  <2>1. B!Rows' = L!Rows /\ B!Charge' = L!Charge /\ \A a : B!On(a)' = L!On(a)
    BY <1>1 DEF L!Rows, B!Rows, L!Charge, B!Charge, L!On, B!On
  <2>2. L!CountersAddUp
    BY DEF L!BudgetInv
  <2>3. B!IsFiniteSet(L!Rows)
    BY <2>2 DEF L!CountersAddUp, L!IsFiniteSet, B!IsFiniteSet
  <2>4. ASSUME NEW a \in Accounts
        PROVE  backup'.reserved[a] + backup'.spent[a] = B!Total(B!Charge', B!On(a)')
    BY <1>1, <2>1, <2>2, SameTotal DEF L!CountersAddUp
  <2> QED BY <2>1, <2>3, <2>4 DEF B!CountersAddUp
<1> QED BY <1>2, <1>3, <1>4, <1>5, <1>6 DEF B!BudgetInv, B!LedgerInv

LEMMA TablesStay == ASSUME L!BudgetInv, UNCHANGED tables PROVE L!BudgetInv'
<1>1. L!LedgerInv /\ L!CountersAddUp /\ UNCHANGED L!tables
  BY DEF L!BudgetInv, L!tables, L!accounts, L!reservations, tables
<1>2. L!TypeOK' /\ L!RowHasState' /\ L!WithinCeiling' /\ L!RowsAgree' /\ L!LogTellsAll'
  BY <1>1, L!TablesKept, LedgerAssumed DEF L!TypeOK
<1>3. L!CountersAddUp'
  BY <1>1, L!TablesKeepSums, LedgerAssumed
<1> QED BY <1>2, <1>3 DEF L!BudgetInv, L!LedgerInv

LEMMA BackupStays == ASSUME B!BudgetInv, UNCHANGED backup PROVE B!BudgetInv'
<1>1. B!LedgerInv /\ B!CountersAddUp /\ UNCHANGED B!tables
  BY DEF B!BudgetInv, B!tables, B!accounts, B!reservations
<1>2. B!TypeOK' /\ B!RowHasState' /\ B!WithinCeiling' /\ B!RowsAgree' /\ B!LogTellsAll'
  BY <1>1, B!TablesKept, BackupAssumed DEF B!TypeOK
<1>3. B!CountersAddUp'
  BY <1>1, B!TablesKeepSums, BackupAssumed
<1> QED BY <1>2, <1>3 DEF B!BudgetInv, B!LedgerInv

\* Every step leaves the ledger, or writes it as EvidenceLedger would, or
\* restores the backup.
LEMMA NextTables ==
    ASSUME IInv, L!BudgetInv, B!BudgetInv, [Next]_vars
    PROVE  L!BudgetInv' /\ B!BudgetInv'
<1>1. CASE UNCHANGED <<tables, backup>>
  BY <1>1, TablesStay, BackupStays
<1>2. CASE \E p \in Procs : ReserveNew(p)
  <2>1. PICK p \in Procs : ReserveNew(p)
    BY <1>2
  <2>2. request[p] \in Calls
    BY <2>1 DEF IInv, ProcOK, ReserveNew
  <2>3. PICK c \in Calls : c = request[p]
    BY <2>2
  <2>4. PICK log : log = value[p].checkpoint
    OBVIOUS
  <2>5. Ledger!Reserve(c, log) /\ UNCHANGED backup
    BY <2>1, <2>3, <2>4 DEF ReserveNew, world
  <2> QED BY <2>5, ReserveTables, BackupStays
<1>3. ASSUME NEW i \in Invocations, Consume(i) \/ Release(i)
      PROVE  L!BudgetInv' /\ B!BudgetInv'
  <2>1. PICK action \in {"consume", "release"}, amount \in Amounts \cup {0} :
           Ledger!Finish(i, action, amount)
    <3>1. used[i] # None => used[i] \in Amounts
      BY DEF IInv, Types
    <3> QED BY <1>3, <3>1 DEF Consume, Release
  <2>2. UNCHANGED backup
    BY <1>3 DEF Consume, Release, world
  <2> QED BY <2>1, <2>2, FinishTables, BackupStays
<1>4. CASE Restore
  BY <1>4, RestoreTables, BackupStays DEF Restore, world
<1>5. CASE Backup
  BY <1>5, BackupTables, TablesStay DEF Backup
<1>6. ASSUME NEW p \in Procs, Recover(p) \/ Step(p) \/ Fail(p), ~ReserveNew(p)
      PROVE  UNCHANGED <<tables, backup>>
  BY <1>6 DEF Recover, Step, Fail, Observe, ObserveFails, RefuseReceipt, Bind, RefuseIntent,
     ReserveAgain, RefuseReservation, Advance, AdvanceFails, AdvanceRejected, Reply,
     DatabaseError, Crash, Refuse, world
<1>7. ASSUME \/ \E p \in Procs, c \in Calls, r \in Receipts : Admit(p, c, r)
             \/ \E i \in Invocations, amount \in Amounts : Act(i, amount)
             \/ Tick \/ UNCHANGED vars
      PROVE  UNCHANGED <<tables, backup>>
  BY <1>7 DEF Admit, Act, Tick, vars, world
<1> QED BY <1>1, <1>2, <1>3, <1>4, <1>5, <1>6, <1>7 DEF Next

-----------------------------------------------------------------------------
(* Logs, the anchor and the flock, from one state to the next. *)

LEMMA BookedAppend ==
    ASSUME NEW log \in Seq(Entry), NEW e \in Entry
    PROVE  /\ Booked(log) \subseteq Booked(Append(log, e))
           /\ e.action = "reserve" => e.payload \in Booked(Append(log, e))
<1> DEFINE new == Append(log, e)
<1>1. /\ Len(log) \in Nat /\ DOMAIN log = 1..Len(log)
      /\ DOMAIN new = 1..(Len(log) + 1) /\ new[Len(log) + 1] = e
      /\ \A k \in DOMAIN log : new[k] = log[k]
  BY AppendProperties DEF Entry
<1> HIDE DEF new
<1>2. DOMAIN log \subseteq DOMAIN new /\ Len(log) + 1 \in DOMAIN new
  BY <1>1
<1>3. Booked(log) \subseteq Booked(new)
  BY <1>1, <1>2 DEF Booked
<1>4. e.action = "reserve" => e.payload \in Booked(new)
  BY <1>1, <1>2 DEF Booked, Entry
<1> QED BY <1>3, <1>4 DEF new

LEMMA BookedPrefix ==
    ASSUME NEW s \in Seq(Entry), NEW t \in Seq(Entry), IsPrefix(s, t)
    PROVE  Booked(s) \subseteq Booked(t)
<1>1. Len(s) \in Nat /\ Len(t) \in Nat /\ Len(s) <= Len(t)
      /\ DOMAIN s = 1..Len(s) /\ DOMAIN t = 1..Len(t)
      /\ SubSeq(s, 1, Len(s)) = SubSeq(t, 1, Len(s))
  BY DEF IsPrefix
<1>2. \A k \in 1..Len(s) : SubSeq(s, 1, Len(s))[k] = s[k] /\ SubSeq(t, 1, Len(s))[k] = t[k]
  BY <1>1
<1>3. \A k \in DOMAIN s : k \in DOMAIN t /\ t[k] = s[k]
  BY <1>1, <1>2
<1> QED BY <1>3 DEF Booked

LEMMA AnchorKeeps ==
    ASSUME IInv, IInv', [Next]_vars
    PROVE  /\ Reserved(anchor.checkpoint) \subseteq Reserved(anchor'.checkpoint)
           /\ Booked(anchor.checkpoint) \subseteq Booked(anchor'.checkpoint)
<1>1. anchor.checkpoint \in Seq(Entry) /\ anchor'.checkpoint \in Seq(Entry)
  BY DEF IInv, Types, Anchor
<1>2. anchor' = anchor \/ IsPrefix(anchor.checkpoint, anchor'.checkpoint)
  BY AnchorStep DEF Extends
<1> QED BY <1>1, <1>2, Prefixed, BookedPrefix

\* The holder of the flock is the only process that moves.
LEMMA OneMoves ==
    ASSUME IInv, NEW p \in Procs, NEW q \in Procs, q # p,
           \/ \E c \in Calls, r \in Receipts : Admit(p, c, r)
           \/ Recover(p) \/ Step(p) \/ Fail(p)
    PROVE  pc[q] = "idle" /\ pc'[q] = "idle"
<1>1. pc[q] = "idle"
  <2>1. pc[p] # "idle" \/ lock = None
    BY DEF Admit, Recover, Step, Fail, Observe, ObserveFails, RefuseReceipt, Bind, RefuseIntent,
       ReserveNew, ReserveAgain, RefuseReservation, Advance, AdvanceFails, AdvanceRejected,
       Reply, DatabaseError, Crash
  <2> QED BY <2>1, AnchoredAdmissionAssumption DEF IInv, ProcOK
<1>2. PICK label : pc' = [pc EXCEPT ![p] = label]
  BY DEF Admit, Recover, Step, Fail, Observe, ObserveFails, RefuseReceipt, Bind, RefuseIntent,
     ReserveNew, ReserveAgain, RefuseReservation, Advance, AdvanceFails, AdvanceRejected,
     Reply, DatabaseError, Crash, Refuse, Return, Goto
<1> QED BY <1>1, <1>2 DEF IInv, Types

\* A process comes to hold a reservation by making it, and holds it until it
\* hands it out or gives up.
LEMMA HoldsStep ==
    ASSUME IInv, [Next]_vars, NEW p \in Procs, Holds(p)'
    PROVE  \/ ReserveNew(p)
           \/ /\ Holds(p) /\ request'[p] = request[p] /\ UNCHANGED handed
              /\ pc'[p] = pc[p] \/ Advance(p)
<1>1. /\ pc \in [Procs -> PC] /\ request \in [Procs -> Calls \cup {None}]
      /\ answer \in [Procs -> Answers]
  BY DEF IInv, Types
<1>2. CASE \E q \in Procs, c \in Calls, r \in Receipts : Admit(q, c, r)
  BY <1>1, <1>2, OneMoves DEF Holds, Admit, Goto
<1>3. CASE \E q \in Procs : Recover(q) \/ Step(q) \/ Fail(q)
  <2>1. PICK q \in Procs : Recover(q) \/ Step(q) \/ Fail(q)
    BY <1>3
  <2>2. q = p
    BY <2>1, OneMoves DEF Holds
  <2>3. CASE Recover(p)
    BY <1>1, <2>3 DEF Holds, Recover, Goto
  <2>4. CASE Fail(p)
    BY <1>1, <2>4 DEF Holds, Fail, ObserveFails, AdvanceFails, DatabaseError, Crash, Return, Goto
  <2>5. CASE RefuseReceipt(p) \/ RefuseIntent(p) \/ RefuseReservation(p)
             \/ AdvanceRejected(p) \/ Reply(p)
    BY <1>1, <2>5 DEF Holds, RefuseReceipt, RefuseIntent, RefuseReservation, AdvanceRejected,
       Reply, Refuse, Return, Goto
  <2>6. CASE Observe(p) \/ Bind(p) \/ ReserveAgain(p)
    BY <1>1, <2>6 DEF Holds, Observe, Bind, ReserveAgain, Goto
  <2>7. CASE Advance(p)
    BY <1>1, <2>7 DEF Holds, Advance, Goto, world
  <2> QED BY <2>1, <2>2, <2>3, <2>4, <2>5, <2>6, <2>7 DEF Step
<1>4. ASSUME \/ \E i \in Invocations, amount \in Amounts : Act(i, amount)
             \/ \E i \in Invocations : Consume(i) \/ Release(i)
             \/ Backup \/ Restore \/ Tick \/ UNCHANGED vars
      PROVE  UNCHANGED <<pc, request, answer, handed>>
  BY <1>4 DEF Act, Consume, Release, Backup, Restore, Tick, vars, procs, world
<1> QED BY <1>2, <1>3, <1>4 DEF Next, Holds

\* A new reservation is one the anchored log does not have.
LEMMA NewIsNew ==
    ASSUME IInv, NEW p \in Procs, ReserveNew(p)
    PROVE  /\ request[p] \in Calls /\ payload[request[p].invocation] = None
           /\ IsPrefix(anchor.checkpoint, events)
           /\ Reserved(anchor.checkpoint) \subseteq Reserved(events)
           /\ Booked(anchor.checkpoint) \subseteq Booked(events)
           /\ request[p].invocation \in Invocations \ Reserved(anchor.checkpoint)
<1>1. /\ value[p] = anchor /\ request[p] \in Calls /\ request[p].invocation \in Invocations
      /\ events \in Seq(Entry) /\ anchor.checkpoint \in Seq(Entry)
  BY AnchoredAdmissionAssumption DEF IInv, ProcOK, Types, Anchor, ReserveNew
<1>2. /\ payload[request[p].invocation] = None
      /\ Ledger!Audit(Ledger!Snapshot, value[p].checkpoint) = "ok"
  BY DEF ReserveNew, Ledger!Reserve, Ledger!Reservable
<1>3. IsPrefix(anchor.checkpoint, events)
  BY <1>1, <1>2, AuditPrefix
<1>4. request[p].invocation \notin Reserved(events)
  BY <1>1, <1>2 DEF IInv, RowsOK
<1> QED BY <1>1, <1>2, <1>3, <1>4, Prefixed, BookedPrefix

\* What is past stays past.
LEMMA PastGrows == ASSUME IInv, IInv', [Next]_vars PROVE Past \subseteq Past'
<1> SUFFICES ASSUME NEW i \in Past, NEW p \in Procs, Holds(p)' PROVE request'[p].invocation # i
  <2>1. Reserved(anchor.checkpoint) \subseteq Reserved(anchor.checkpoint)'
    BY AnchorKeeps DEF Reserved
  <2> QED BY <2>1 DEF Past
<1>1. i \in Reserved(anchor.checkpoint) /\ (Holds(p) => request[p].invocation # i)
  BY DEF Past
<1>2. CASE ReserveNew(p)
  <2>1. request' = request
    BY <1>2 DEF ReserveNew
  <2> QED BY <1>1, <1>2, <2>1, NewIsNew
<1>3. CASE Holds(p) /\ request'[p] = request[p]
  BY <1>1, <1>3
<1> QED BY <1>2, <1>3, HoldsStep

\* Only a reply hands a payload out, the one its process holds.
LEMMA HandedStep ==
    ASSUME IInv, [Next]_vars, handed' # handed
    PROVE  \E p \in Procs :
              /\ Reply(p) /\ pc[p] = "reply" /\ Holds(p) /\ request[p] \in Calls
              /\ request[p].invocation \in Invocations
              /\ handed[request[p].invocation] = <<>>
              /\ handed' = [handed EXCEPT ![request[p].invocation] = <<request[p]>>]
<1>1. PICK p \in Procs : Reply(p)
  <2>1. CASE \E p \in Procs, c \in Calls, r \in Receipts : Admit(p, c, r)
    BY <2>1 DEF Admit, world
  <2>2. CASE \E p \in Procs : Recover(p) \/ Step(p) \/ Fail(p)
    BY <2>2 DEF Recover, Step, Fail, Observe, ObserveFails, RefuseReceipt, Bind, RefuseIntent,
       ReserveNew, ReserveAgain, RefuseReservation, Advance, AdvanceFails, AdvanceRejected,
       DatabaseError, Crash, Refuse, world
  <2>3. CASE \/ \E i \in Invocations, amount \in Amounts : Act(i, amount)
             \/ \E i \in Invocations : Consume(i) \/ Release(i)
             \/ Backup \/ Restore \/ Tick \/ UNCHANGED vars
    BY <2>3 DEF Act, Consume, Release, Backup, Restore, Tick, vars, world
  <2> QED BY <2>1, <2>2, <2>3 DEF Next
<1>2. /\ pc[p] = "reply" /\ answer[p] = "RESERVED"
      /\ handed' = [handed EXCEPT ![request[p].invocation] = Append(@, request[p])]
  BY <1>1 DEF Reply
<1>3. /\ request[p] \in Calls /\ handed[request[p].invocation] = <<>>
      /\ request[p].invocation \in Invocations
  BY <1>2, AnchoredAdmissionAssumption DEF IInv, ProcOK
<1>4. handed' = [handed EXCEPT ![request[p].invocation] = <<request[p]>>]
  BY <1>2, <1>3 DEF IInv, Types
<1> QED BY <1>1, <1>2, <1>3, <1>4 DEF Holds

LEMMA HandedStays ==
    ASSUME IInv, [Next]_vars, NEW i \in Invocations, handed[i] # <<>> \/ i \in Past
    PROVE  handed'[i] = handed[i]
<1>1. CASE handed' = handed
  BY <1>1
<1>2. CASE handed' # handed
  <2>1. PICK p \in Procs :
           /\ Holds(p) /\ handed[request[p].invocation] = <<>>
           /\ handed' = [handed EXCEPT ![request[p].invocation] = <<request[p]>>]
    BY <1>2, HandedStep
  <2>2. request[p].invocation # i
    BY <2>1 DEF Past
  <2> QED BY <2>1, <2>2 DEF IInv, Types
<1> QED BY <1>1, <1>2

LEMMA UsedStep ==
    ASSUME [Next]_vars, used' # used
    PROVE  \E i \in Invocations, amount \in Amounts : Act(i, amount)
<1>1. CASE \E p \in Procs, c \in Calls, r \in Receipts : Admit(p, c, r)
  BY <1>1 DEF Admit, world
<1>2. CASE \E p \in Procs : Recover(p) \/ Step(p) \/ Fail(p)
  BY <1>2 DEF Recover, Step, Fail, Observe, ObserveFails, RefuseReceipt, Bind, RefuseIntent,
     ReserveNew, ReserveAgain, RefuseReservation, Advance, AdvanceFails, AdvanceRejected,
     Reply, DatabaseError, Crash, Refuse, world
<1>3. CASE \/ \E i \in Invocations : Consume(i) \/ Release(i)
           \/ Backup \/ Restore \/ Tick \/ UNCHANGED vars
  BY <1>3 DEF Consume, Release, Backup, Restore, Tick, vars, world
<1> QED BY <1>1, <1>2, <1>3 DEF Next

LEMMA UsedStays ==
    ASSUME IInv, [Next]_vars, NEW i \in Invocations, used[i] # None PROVE used'[i] = used[i]
<1>1. CASE used' # used
  BY <1>1, UsedStep DEF IInv, Types, Act
<1> QED BY <1>1

-----------------------------------------------------------------------------
(* Rows and the log. *)

LEMMA RowLogged ==
    ASSUME L!BudgetInv, NEW i \in Invocations, payload[i] # None
    PROVE  i \in Reserved(events)
<1>1. PICK n \in DOMAIN events : events[n] = [action |-> "reserve", payload |-> payload[i]]
  BY DEF L!BudgetInv, L!LedgerInv, L!LogTellsAll, L!ReservationsLogged
<1>2. payload[i] \in Calls /\ payload[i].invocation \in Invocations
  BY AnchoredAdmissionAssumption DEF L!BudgetInv, L!LedgerInv, L!TypeOK
<1>3. payload[payload[i].invocation] = payload[i]
  BY <1>1 DEF L!BudgetInv, L!LedgerInv, L!LogTellsAll, L!LoggedOnce, L!Reserves, L!Subject
<1>4. payload[i].invocation = i
  BY <1>2, <1>3 DEF L!BudgetInv, L!LedgerInv, L!RowsAgree
<1> QED BY <1>1, <1>4 DEF Reserved

LEMMA BookedRow ==
    ASSUME L!BudgetInv, NEW c \in Booked(events) PROVE c \in Calls /\ payload[c.invocation] = c
BY DEF Booked, L!BudgetInv, L!LedgerInv, L!LogTellsAll, L!LoggedOnce, L!Reserves, L!Subject

LEMMA ReserveEvents ==
    ASSUME IInv, NEW p \in Procs, ReserveNew(p)
    PROVE  Booked(events) \subseteq Booked(events') /\ request[p] \in Booked(events')
<1>1. request[p] \in Calls /\ events \in Seq(Entry)
  BY DEF IInv, ProcOK, Types, ReserveNew
<1>2. PICK e : e = [action |-> "reserve", payload |-> request[p]]
  OBVIOUS
<1>3. events' = Append(events, e)
  BY <1>2 DEF ReserveNew, Ledger!Reserve, Ledger!Logged
<1>4. e \in Entry /\ e.action = "reserve" /\ e.payload = request[p]
  BY <1>1, <1>2 DEF Entry
<1> QED BY <1>1, <1>3, <1>4, BookedAppend

LEMMA SettleEvents ==
    ASSUME IInv, NEW i \in Invocations, Consume(i) \/ Release(i)
    PROVE  Booked(events) \subseteq Booked(events') /\ Reserved(events') = Reserved(events)
<1>1. events \in Seq(Entry) /\ (used[i] # None => used[i] \in Amounts)
  BY DEF IInv, Types
<1>2. PICK action \in {"consume", "release"}, amount \in Amounts \cup {0} :
         events' = Append(events, [action |-> action, invocation |-> i, amount |-> amount])
  BY <1>1 DEF Consume, Release, Ledger!Finish, Ledger!Logged
<1>3. PICK e : e = [action |-> action, invocation |-> i, amount |-> amount]
  OBVIOUS
<1>4. e \in Entry /\ e.action # "reserve" /\ events' = Append(events, e)
  BY <1>2, <1>3 DEF Entry
<1>5. Reserved(events) \subseteq Reserved(events') /\ \A j \in Reserved(events') : j \in Reserved(events)
  BY <1>1, <1>4, Appended
<1> QED BY <1>1, <1>4, <1>5, BookedAppend

\* While a process has the flock, nobody else reserves and nothing is restored.
LEMMA EventsStep ==
    ASSUME IInv, [Next]_vars, NEW p \in Procs, pc[p] # "idle", ~ReserveNew(p)
    PROVE  Booked(events) \subseteq Booked(events') /\ Reserved(events') = Reserved(events)
<1>1. CASE UNCHANGED events
  BY <1>1 DEF Booked, Reserved
<1>2. CASE \E i \in Invocations : Consume(i) \/ Release(i)
  BY <1>2, SettleEvents
<1>3. CASE \E q \in Procs : Recover(q) \/ Step(q) \/ Fail(q)
  <2>1. PICK q \in Procs : Recover(q) \/ Step(q) \/ Fail(q)
    BY <1>3
  <2>2. q = p
    BY <2>1, OneMoves
  <2>3. UNCHANGED events
    BY <2>1, <2>2 DEF Recover, Step, Fail, Observe, ObserveFails, RefuseReceipt, Bind,
       RefuseIntent, ReserveAgain, RefuseReservation, Advance, AdvanceFails, AdvanceRejected,
       Reply, DatabaseError, Crash, Refuse, tables
  <2> QED BY <1>1, <2>3
<1>4. CASE Restore
  BY <1>4, AnchoredAdmissionAssumption DEF Restore, IInv, ProcOK
<1>5. ASSUME \/ \E q \in Procs, c \in Calls, r \in Receipts : Admit(q, c, r)
             \/ \E i \in Invocations, amount \in Amounts : Act(i, amount)
             \/ Backup \/ Tick \/ UNCHANGED vars
      PROVE  UNCHANGED events
  BY <1>5 DEF Admit, Act, Backup, Tick, vars, tables
<1> QED BY <1>1, <1>2, <1>3, <1>4, <1>5 DEF Next

-----------------------------------------------------------------------------
(* Settled rows. *)

LEMMA SettledStays ==
    ASSUME IInv, IInv', [Next]_vars, NEW st, NEW spend, Settled(st, spend)
    PROVE  Settled(st, spend)'
<1> SUFFICES ASSUME NEW i \in Invocations
             PROVE  /\ st[i] = "consume" => used'[i] # None /\ spend[i] = used'[i]
                    /\ st[i] = "release" => i \in Past' /\ handed'[i] = <<>>
  BY DEF Settled
<1>1. CASE st[i] = "consume"
  <2>1. used[i] # None /\ spend[i] = used[i]
    BY <1>1 DEF Settled
  <2> QED BY <1>1, <2>1, UsedStays
<1>2. CASE st[i] = "release"
  <2>1. i \in Past /\ handed[i] = <<>>
    BY <1>2 DEF Settled
  <2> QED BY <1>2, <2>1, PastGrows, HandedStays
<1> QED BY <1>1, <1>2

\* The rows that a step writes tell what has become of the actions.
LEMMA SettledWritten ==
    ASSUME IInv, BooksInv, [Next]_vars
    PROVE  Settled(state', consumed') /\ Settled(backup'.state, backup'.consumed)
<1>1. /\ state \in [Invocations -> {"none", "reserved", "consume", "release"}]
      /\ consumed \in [Invocations -> Nat]
      /\ Settled(state, consumed) /\ Settled(backup.state, backup.consumed)
  BY DEF BooksInv, BooksOK, L!BudgetInv, L!LedgerInv, L!TypeOK
<1>2. CASE UNCHANGED <<state, consumed, backup>>
  BY <1>1, <1>2
<1>3. CASE \E p \in Procs : ReserveNew(p)
  <2>1. PICK c : /\ state' = [state EXCEPT ![c.invocation] = "reserved"]
                 /\ UNCHANGED <<consumed, backup>>
    BY <1>3 DEF ReserveNew, Ledger!Reserve, world
  <2> QED BY <1>1, <2>1 DEF Settled
<1>4. ASSUME NEW i \in Invocations, Consume(i)
      PROVE  Settled(state', consumed') /\ Settled(backup'.state, backup'.consumed)
  <2>1. /\ state' = [state EXCEPT ![i] = "consume"] /\ consumed' = [consumed EXCEPT ![i] = used[i]]
        /\ used[i] # None /\ UNCHANGED backup
    BY <1>4 DEF Consume, Ledger!Finish, world
  <2> QED BY <1>1, <2>1 DEF Settled
<1>5. ASSUME NEW i \in Invocations, Release(i)
      PROVE  Settled(state', consumed') /\ Settled(backup'.state, backup'.consumed)
  <2>1. /\ state' = [state EXCEPT ![i] = "release"] /\ consumed' = [consumed EXCEPT ![i] = 0]
        /\ i \in pending /\ handed[i] = <<>> /\ UNCHANGED backup
    BY <1>5 DEF Release, Ledger!Finish, world
  <2>2. i \in Past
    BY <2>1 DEF BooksInv, BooksOK
  <2> QED BY <1>1, <2>1, <2>2 DEF Settled
<1>6. CASE Restore
  <2>1. state' = backup.state /\ consumed' = backup.consumed /\ backup' = backup
    BY <1>6 DEF Restore, world
  <2> QED BY <1>1, <2>1
<1>7. CASE Backup
  <2>1. /\ backup'.state = state /\ backup'.consumed = consumed
        /\ state' = state /\ consumed' = consumed
    BY <1>7 DEF Backup, Ledger!Snapshot, tables
  <2> QED BY <1>1, <2>1
<1>8. ASSUME NEW p \in Procs, Recover(p) \/ Step(p) \/ Fail(p), ~ReserveNew(p)
      PROVE  UNCHANGED <<state, consumed, backup>>
  BY <1>8 DEF Recover, Step, Fail, Observe, ObserveFails, RefuseReceipt, Bind, RefuseIntent,
     ReserveAgain, RefuseReservation, Advance, AdvanceFails, AdvanceRejected, Reply,
     DatabaseError, Crash, Refuse, world, tables
<1>9. ASSUME \/ \E p \in Procs, c \in Calls, r \in Receipts : Admit(p, c, r)
             \/ \E i \in Invocations, amount \in Amounts : Act(i, amount)
             \/ Tick \/ UNCHANGED vars
      PROVE  UNCHANGED <<state, consumed, backup>>
  BY <1>9 DEF Admit, Act, Tick, vars, world, tables
<1> QED BY <1>2, <1>3, <1>4, <1>5, <1>6, <1>7, <1>8, <1>9 DEF Next

LEMMA SettledHolds ==
    ASSUME IInv, IInv', BooksInv, [Next]_vars
    PROVE  Settled(state, consumed)' /\ Settled(backup.state, backup.consumed)'
<1>1. PICK st, spend, bst, bspend :
         st = state' /\ spend = consumed' /\ bst = backup'.state /\ bspend = backup'.consumed
  OBVIOUS
<1>2. Settled(st, spend) /\ Settled(bst, bspend)
  BY <1>1, SettledWritten
<1>3. Settled(st, spend)' /\ Settled(bst, bspend)'
  BY <1>2, SettledStays
<1> QED BY <1>1, <1>3 DEF Settled

\* What a recovery reports is anchored and held by nobody.
LEMMA PendingHolds ==
    ASSUME IInv, IInv', BooksInv, [Next]_vars PROVE pending' \subseteq Past'
<1>1. CASE UNCHANGED pending
  BY <1>1, PastGrows DEF BooksInv, BooksOK
<1>2. ASSUME NEW p \in Procs, Reply(p), pending' # pending PROVE pending' \subseteq Past'
  <2>1. /\ pc[p] = "reply" /\ pending' = {i \in Invocations : state[i] = "reserved"}
        /\ Return(p, answer[p]) /\ answer[p] = "RECOVERED"
    BY <1>2 DEF Reply
  <2>2. Reserved(events) \subseteq Reserved(anchor.checkpoint)
    BY <2>1 DEF BooksInv, BooksOK, HolderOK
  <2>3. \A q \in Procs : ~Holds(q)'
    <3>1. pc' = [pc EXCEPT ![p] = "idle"]
      BY <2>1 DEF Return, Goto
    <3>2. \A q \in Procs : q # p => pc'[q] = "idle"
      BY <1>2, OneMoves DEF Step
    <3> QED BY <3>1, <3>2 DEF Holds, IInv, Types
  <2>4. Reserved(anchor.checkpoint) \subseteq Reserved(anchor.checkpoint)'
    BY AnchorKeeps DEF Reserved
  <2>5. ASSUME NEW i \in Invocations, state[i] = "reserved" PROVE i \in Past'
    <3>1. payload[i] # None
      BY <2>5 DEF BooksInv, L!BudgetInv, L!LedgerInv, L!RowHasState
    <3>2. i \in Reserved(anchor.checkpoint)'
      BY <2>2, <2>4, <3>1, RowLogged DEF BooksInv
    <3> QED BY <2>3, <3>2 DEF Past
  <2> QED BY <2>1, <2>5
<1>3. ASSUME NEW p \in Procs, Recover(p) \/ Step(p) \/ Fail(p), ~Reply(p)
      PROVE  UNCHANGED pending
  BY <1>3 DEF Recover, Step, Fail, Observe, ObserveFails, RefuseReceipt, Bind, RefuseIntent,
     ReserveNew, ReserveAgain, RefuseReservation, Advance, AdvanceFails, AdvanceRejected,
     DatabaseError, Crash, Refuse, world
<1>4. ASSUME \/ \E p \in Procs, c \in Calls, r \in Receipts : Admit(p, c, r)
             \/ \E i \in Invocations, amount \in Amounts : Act(i, amount)
             \/ \E i \in Invocations : Consume(i) \/ Release(i)
             \/ Backup \/ Restore \/ Tick \/ UNCHANGED vars
      PROVE  UNCHANGED pending
  BY <1>4 DEF Admit, Act, Consume, Release, Backup, Restore, Tick, vars, world
<1> QED BY <1>1, <1>2, <1>3, <1>4 DEF Next

-----------------------------------------------------------------------------
(* The budget of what was handed out. *)

HandedOut == {i \in Invocations : handed[i] # <<>>}
ChargeOf == [i \in Invocations |-> IF handed[i] = <<>> THEN 0
                                   ELSE IF used[i] = None THEN handed[i][1].amount ELSE used[i]]
ChargersOf(a) == {i \in HandedOut : a \in DOMAIN handed[i][1].limits}

LEMMA HandedCall ==
    ASSUME IInv, BooksOK, NEW i \in HandedOut
    PROVE  /\ handed[i][1] \in Calls /\ handed[i][1] # None
           /\ handed[i][1].amount \in Nat
           /\ DOMAIN handed[i][1].limits \subseteq Accounts
<1>1. handed[i][1] \in Calls
  BY DEF HandedOut, BooksOK, HandedBooked, Booked
<1> QED BY <1>1, L!CallType, LedgerAssumed

LEMMA ActionsAre ==
    ASSUME IInv, BooksOK
    PROVE  /\ Actions!Granted = HandedOut
           /\ \A a : Actions!Chargers(a) = ChargersOf(a)
           /\ \A a : Actions!Charged(a) = L!Total(ChargeOf, ChargersOf(a))
<1>1. Actions!Granted = HandedOut
  BY HandedCall DEF Actions!Granted, HandedOut
<1>2. \A a : Actions!Chargers(a) = ChargersOf(a)
  BY <1>1 DEF Actions!Chargers, ChargersOf, HandedOut
<1>3. ASSUME NEW a PROVE Actions!Charged(a) = L!Total(ChargeOf, Actions!Chargers(a))
  BY DEF Actions!Charged, Actions!MapThenSumSet, Actions!MapThenFoldSet, L!Total,
     L!MapThenFoldSet, L!Pick, ChargeOf
<1> QED BY <1>1, <1>2, <1>3

LEMMA ChargeType ==
    ASSUME IInv, BooksOK
    PROVE  \A i \in Invocations : ChargeOf[i] \in Nat
<1>1. ASSUME NEW i \in Invocations PROVE ChargeOf[i] \in Nat
  <2>1. used[i] # None => used[i] \in Nat
    BY LedgerAssumed, AnchoredAdmissionAssumption DEF IInv, Types
  <2>2. handed[i] # <<>> => handed[i][1].amount \in Nat
    BY HandedCall DEF HandedOut
  <2> QED BY <2>1, <2>2 DEF ChargeOf
<1> QED BY <1>1

LEMMA FiniteIs == \A S : IsFiniteSet(S) <=> L!IsFiniteSet(S)
BY DEF IsFiniteSet, L!IsFiniteSet

\* When the ledger has room for a reservation, the actions have: on a log that
\* has all that was anchored, the row of an action holds what it may still use
\* or has spent what it really used.
LEMMA RoomAtReserve ==
    ASSUME IInv, BooksInv, NEW p \in Procs, ReserveNew(p) PROVE Grantable(request[p])
<1>1. PICK c : c = request[p]
  OBVIOUS
<1>2. /\ c \in Calls /\ Booked(anchor.checkpoint) \subseteq Booked(events)
      /\ L!LedgerInv /\ L!CountersAddUp /\ L!BudgetInv /\ BooksOK
  BY <1>1, NewIsNew DEF BooksInv, L!BudgetInv
<1>3. L!NonceFree(c) /\ L!WithinBudget(c)
  <2>1. PICK log : log = value[p].checkpoint
    OBVIOUS
  <2>2. Ledger!Reserve(c, log)
    BY <1>1, <2>1 DEF ReserveNew
  <2> QED BY <2>2, Writers DEF L!Reserve, L!Reservable
<1>4. ASSUME NEW i \in HandedOut PROVE payload[i] = handed[i][1] /\ payload[i] # None
  <2>1. handed[i][1] \in Booked(events) /\ handed[i][1].invocation = i
    BY <1>2 DEF HandedOut, BooksOK, HandedBooked
  <2> QED BY <1>2, <2>1, BookedRow, HandedCall
<1>5. \A i \in HandedOut : handed[i][1].nonce # c.nonce
  BY <1>3, <1>4 DEF L!NonceFree, HandedOut
<1>6. ASSUME NEW a \in DOMAIN c.limits
      PROVE  /\ \A i \in ChargersOf(a) : handed[i][1].limits[a] = c.limits[a]
             /\ L!Total(ChargeOf, ChargersOf(a)) + c.amount <= c.limits[a]
  <2>1. a \in Accounts /\ c.amount \in Nat /\ c.limits[a] \in Nat
    BY <1>2, L!CallType, LedgerAssumed
  <2>2. ASSUME NEW i \in ChargersOf(a) PROVE handed[i][1].limits[a] = c.limits[a]
    <3>1. /\ i \in Invocations /\ payload[i] = handed[i][1] /\ payload[i] \in Calls
          /\ payload[i] # None /\ a \in DOMAIN payload[i].limits
      BY <1>2, <1>4, HandedCall DEF ChargersOf, HandedOut
    <3>2. terms[a] = L!TermsOf(payload[i], a)
      BY <1>2, <3>1 DEF L!LedgerInv, L!RowsAgree
    <3>3. terms[a] # None
      BY <3>1, <3>2, L!CallType, LedgerAssumed
    <3>4. terms[a] = L!TermsOf(c, a)
      BY <1>3, <3>3 DEF L!WithinBudget
    <3> QED BY <3>1, <3>2, <3>4 DEF L!TermsOf
  <2>3. L!On(a) \subseteq Invocations /\ ChargersOf(a) \in SUBSET L!On(a) /\ L!IsFiniteSet(L!On(a))
    <3>1. ChargersOf(a) \subseteq L!On(a)
      BY <1>4 DEF ChargersOf, HandedOut, L!On, L!Rows
    <3>2. L!On(a) \subseteq L!Rows /\ IsFiniteSet(L!Rows)
      BY <1>2, FiniteIs DEF L!On, L!CountersAddUp
    <3>3. IsFiniteSet(L!On(a))
      BY <3>2, FS_Subset
    <3> QED BY <3>1, <3>3, FiniteIs DEF L!On, L!Rows
  <2>4. ASSUME NEW i \in L!On(a) PROVE L!Charge[i] \in Nat
    <3>1. i \in Invocations /\ payload[i] \in Calls
      BY <1>2 DEF L!On, L!Rows, L!LedgerInv, L!TypeOK
    <3>2. payload[i].amount \in Nat /\ consumed[i] \in Nat
      BY <1>2, <3>1, L!CallType, LedgerAssumed DEF L!LedgerInv, L!TypeOK
    <3> QED BY <3>1, <3>2 DEF L!Charge
  <2>5. ASSUME NEW i \in ChargersOf(a) PROVE ChargeOf[i] \in Int /\ ChargeOf[i] <= L!Charge[i]
    <3>1. /\ i \in Invocations /\ handed[i] # <<>> /\ payload[i] = handed[i][1]
          /\ payload[i] # None /\ handed[i][1].amount \in Nat
      BY <1>2, <1>4, HandedCall DEF ChargersOf, HandedOut
    <3>2. ChargeOf[i] \in Nat
      BY <1>2, <3>1, ChargeType
    <3>3. state[i] \in {"reserved", "consume"}
      <4>1. state[i] \in {"none", "reserved", "consume", "release"} /\ state[i] # "none"
        BY <1>2, <3>1 DEF L!LedgerInv, L!TypeOK, L!RowHasState
      <4>2. state[i] # "release"
        BY <1>2, <3>1 DEF BooksOK, Settled
      <4> QED BY <4>1, <4>2
    <3>4. CASE state[i] = "reserved"
      <4>1. L!Charge[i] = handed[i][1].amount
        BY <3>1, <3>4 DEF L!Charge
      <4>2. used[i] # None => used[i] <= handed[i][1].amount
        BY <1>2, <3>1 DEF BooksOK, HandedBooked
      <4>3. ChargeOf[i] = IF used[i] = None THEN handed[i][1].amount ELSE used[i]
        BY <3>1 DEF ChargeOf
      <4> QED BY <3>1, <3>2, <4>1, <4>2, <4>3
    <3>5. CASE state[i] = "consume"
      <4>1. used[i] # None /\ consumed[i] = used[i]
        BY <1>2, <3>1, <3>5 DEF BooksOK, Settled
      <4>2. L!Charge[i] = used[i] /\ ChargeOf[i] = used[i]
        BY <3>1, <3>5, <4>1 DEF L!Charge, ChargeOf
      <4> QED BY <3>2, <4>2
    <3> QED BY <3>3, <3>4, <3>5
  <2>6. L!Total(ChargeOf, ChargersOf(a)) <= L!Total(L!Charge, L!On(a))
    <3>1. PICK S, T, f, g : S = ChargersOf(a) /\ T = L!On(a) /\ f = ChargeOf /\ g = L!Charge
      OBVIOUS
    <3>2. /\ L!IsFiniteSet(T) /\ S \in SUBSET T /\ \A x \in T : g[x] \in Nat
          /\ \A x \in S : f[x] \in Int /\ f[x] <= g[x]
      BY <2>3, <2>4, <2>5, <3>1
    <3>3. L!Total(f, S) <= L!Total(g, T)
      BY <3>2, L!TotalLess, LedgerAssumed
    <3> QED BY <3>1, <3>3
  <2>7. /\ L!Total(L!Charge, L!On(a)) = reserved[a] + spent[a]
        /\ reserved[a] \in Int /\ spent[a] \in Int
    BY <1>2, <2>1 DEF L!CountersAddUp, L!LedgerInv, L!TypeOK
  <2>8. reserved[a] + spent[a] + c.amount <= c.limits[a]
    BY <1>3 DEF L!WithinBudget
  <2>9. L!Total(ChargeOf, ChargersOf(a)) \in Int
    <3>1. PICK S, f : S = ChargersOf(a) /\ f = ChargeOf
      OBVIOUS
    <3>2. L!IsFiniteSet(S) /\ \A x \in S : f[x] \in Int
      <4>1. IsFiniteSet(L!On(a)) /\ ChargersOf(a) \subseteq L!On(a)
        BY <2>3, FiniteIs
      <4>2. IsFiniteSet(ChargersOf(a))
        BY <4>1, FS_Subset
      <4> QED BY <2>5, <3>1, <4>2, FiniteIs
    <3>3. L!Total(f, S) \in Int
      BY <3>2, L!TotalType, LedgerAssumed
    <3> QED BY <3>1, <3>3
  <2> QED BY <2>1, <2>2, <2>6, <2>7, <2>8, <2>9
<1>7. Grantable(c)
  BY <1>2, <1>5, <1>6, ActionsAre DEF Grantable
<1> QED BY <1>1, <1>7

\* Room stays while nothing is handed out: an action only uses less.
LEMMA RoomStays ==
    ASSUME IInv, IInv', BooksOK, [Next]_vars, UNCHANGED handed,
           NEW c \in Calls, Grantable(c)
    PROVE  Grantable(c)'
<1>1. HandedOut' = HandedOut /\ \A a : ChargersOf(a)' = ChargersOf(a)
  BY DEF HandedOut, ChargersOf
<1>2. ASSUME NEW i \in Invocations
      PROVE  ChargeOf'[i] \in Nat /\ ChargeOf'[i] <= ChargeOf[i]
  <2>1. ChargeOf[i] \in Nat /\ ChargeOf'[i] \in Nat
    <3>1. used'[i] # None => used'[i] \in Nat
      BY LedgerAssumed, AnchoredAdmissionAssumption DEF IInv, Types
    <3>2. handed[i] # <<>> => handed[i][1].amount \in Nat
      BY HandedCall DEF HandedOut
    <3>3. ChargeOf'[i] \in Nat
      BY <3>1, <3>2 DEF ChargeOf
    <3> QED BY <3>3, ChargeType
  <2>2. CASE used'[i] = used[i]
    <3>1. ChargeOf'[i] = ChargeOf[i]
      BY <2>2 DEF ChargeOf
    <3> QED BY <2>1, <3>1
  <2>3. CASE used'[i] # used[i]
    <3>1. PICK j \in Invocations, amount \in Amounts : Act(j, amount)
      BY <2>3, UsedStep
    <3>2. /\ used' = [used EXCEPT ![j] = amount] /\ used[j] = None /\ handed[j] # <<>>
          /\ amount <= handed[j][1].amount
      BY <3>1 DEF Act
    <3>3. j = i /\ used'[i] = amount /\ amount # None
      BY <2>3, <3>2 DEF IInv, Types
    <3>4. ChargeOf[i] = handed[i][1].amount /\ ChargeOf'[i] = amount
      BY <3>2, <3>3 DEF ChargeOf
    <3> QED BY <2>1, <3>2, <3>3, <3>4
  <2> QED BY <2>1, <2>2, <2>3
<1>3. ASSUME NEW a \in DOMAIN c.limits
      PROVE  L!Total(ChargeOf, ChargersOf(a))' + c.amount <= c.limits[a]
  <2>1. PICK S, f, g : S = ChargersOf(a) /\ f = ChargeOf' /\ g = ChargeOf
    OBVIOUS
  <2>2. S \subseteq Invocations /\ L!IsFiniteSet(S)
    <3>1. IsFiniteSet(HandedOut) /\ ChargersOf(a) \subseteq HandedOut
      BY ActionsAre DEF BooksOK, ChargersOf
    <3>2. IsFiniteSet(ChargersOf(a))
      BY <3>1, FS_Subset
    <3> QED BY <2>1, <3>2, FiniteIs DEF ChargersOf, HandedOut
  <2>3. \A x \in Invocations : f[x] \in Nat /\ g[x] \in Nat /\ f[x] <= g[x]
    BY <1>2, <2>1, ChargeType
  <2>4. L!Total(f, S) <= L!Total(g, S)
    <3>1. S \in SUBSET S /\ \A x \in S : g[x] \in Nat
      BY <2>2, <2>3
    <3>2. \A x \in S : f[x] \in Int /\ f[x] <= g[x]
      BY <2>2, <2>3
    <3> QED BY <2>2, <3>1, <3>2, L!TotalLess, LedgerAssumed
  <2>5. L!Total(f, S) \in Int /\ L!Total(g, S) \in Int
    <3>1. \A x \in S : f[x] \in Int /\ g[x] \in Int
      BY <2>2, <2>3
    <3> QED BY <2>2, <3>1, L!TotalType, LedgerAssumed
  <2>6. L!Total(g, S) + c.amount <= c.limits[a]
    BY <2>1, ActionsAre DEF Grantable
  <2>7. c.amount \in Int /\ c.limits[a] \in Int
    BY L!CallType, LedgerAssumed
  <2>8. L!Total(ChargeOf, ChargersOf(a))' = L!Total(f, S)
    BY <1>1, <2>1
  <2> QED BY <2>4, <2>5, <2>6, <2>7, <2>8
<1>4. /\ \A i \in HandedOut : handed[i][1].nonce # c.nonce
      /\ \A a \in DOMAIN c.limits : \A i \in ChargersOf(a) : handed[i][1].limits[a] = c.limits[a]
  BY ActionsAre DEF Grantable
<1>5. /\ Actions!Granted' = HandedOut' /\ \A a : Actions!Chargers(a)' = ChargersOf(a)'
      /\ \A a : Actions!Charged(a)' = L!Total(ChargeOf, ChargersOf(a))'
  <2>1. Actions!Granted' = HandedOut' /\ \A a : Actions!Chargers(a)' = ChargersOf(a)'
    <3>1. Actions!Granted' = Actions!Granted /\ \A a : Actions!Chargers(a)' = Actions!Chargers(a)
      BY DEF Actions!Granted, Actions!Chargers
    <3> QED BY <1>1, <3>1, ActionsAre
  <2>2. ASSUME NEW a PROVE Actions!Charged(a)' = L!Total(ChargeOf', Actions!Chargers(a)')
    BY DEF Actions!Charged, Actions!MapThenSumSet, Actions!MapThenFoldSet, L!Total,
       L!MapThenFoldSet, L!Pick, ChargeOf
  <2>3. ASSUME NEW a PROVE L!Total(ChargeOf, ChargersOf(a))' = L!Total(ChargeOf', ChargersOf(a)')
    BY DEF L!Total, L!MapThenFoldSet, L!Pick
  <2> QED BY <2>1, <2>2, <2>3
<1> QED BY <1>1, <1>3, <1>4, <1>5 DEF Grantable

-----------------------------------------------------------------------------
(* The invariant of the books. *)

\* What is handed out is anchored, and nobody uses more than that.
LEMMA HandedHolds == ASSUME IInv, IInv', BooksInv, [Next]_vars PROVE HandedBooked'
<1> SUFFICES ASSUME NEW i \in Invocations
             PROVE  /\ handed'[i] # <<>> => /\ handed'[i][1] \in Booked(anchor'.checkpoint)
                                            /\ handed'[i][1].invocation = i
                    /\ used'[i] # None => /\ handed'[i] # <<>>
                                          /\ used'[i] <= handed'[i][1].amount
  BY DEF HandedBooked, Booked
<1>1. Booked(anchor.checkpoint) \subseteq Booked(anchor'.checkpoint) /\ HandedBooked
  BY AnchorKeeps DEF BooksInv, BooksOK
<1>2. ASSUME handed'[i] # <<>>
      PROVE  handed'[i][1] \in Booked(anchor'.checkpoint) /\ handed'[i][1].invocation = i
  <2>1. CASE handed[i] # <<>>
    BY <1>1, <2>1, HandedStays DEF HandedBooked
  <2>2. CASE handed[i] = <<>>
    <3>1. PICK p \in Procs :
             /\ pc[p] = "reply" /\ Holds(p)
             /\ handed' = [handed EXCEPT ![request[p].invocation] = <<request[p]>>]
      BY <1>2, <2>2, HandedStep
    <3>2. i = request[p].invocation /\ handed'[i] = <<request[p]>>
      BY <1>2, <2>2, <3>1 DEF IInv, Types
    <3>3. request[p] \in Booked(anchor.checkpoint)
      BY <3>1 DEF BooksInv, BooksOK, HolderOK, Recorded
    <3> QED BY <1>1, <3>2, <3>3
  <2> QED BY <2>1, <2>2
<1>3. ASSUME used'[i] # None PROVE handed'[i] # <<>> /\ used'[i] <= handed'[i][1].amount
  <2>1. CASE used[i] # None
    BY <1>1, <2>1, HandedStays, UsedStays DEF HandedBooked
  <2>2. CASE used[i] = None
    <3>1. PICK j \in Invocations, amount \in Amounts : Act(j, amount)
      BY <1>3, <2>2, UsedStep
    <3>2. /\ used' = [used EXCEPT ![j] = amount] /\ handed[j] # <<>>
          /\ amount <= handed[j][1].amount /\ handed' = handed
      BY <3>1 DEF Act
    <3> QED BY <1>3, <2>2, <3>2 DEF IInv, Types
  <2> QED BY <2>1, <2>2
<1> QED BY <1>2, <1>3

LEMMA Replying ==
    ASSUME IInv, [Next]_vars, NEW p \in Procs, pc'[p] = "reply"
    PROVE  pc[p] = "reply" \/ Advance(p)
<1>1. pc \in [Procs -> PC]
  BY DEF IInv, Types
<1>2. CASE \E q \in Procs, c \in Calls, r \in Receipts : Admit(q, c, r)
  BY <1>1, <1>2 DEF Admit, Goto
<1>3. CASE \E q \in Procs : Recover(q) \/ Step(q) \/ Fail(q)
  <2>1. PICK q \in Procs : Recover(q) \/ Step(q) \/ Fail(q)
    BY <1>3
  <2>2. q = p
    BY <2>1, OneMoves
  <2> QED BY <1>1, <2>1, <2>2 DEF Recover, Step, Fail, Observe, ObserveFails, RefuseReceipt,
        Bind, RefuseIntent, ReserveNew, ReserveAgain, RefuseReservation, AdvanceFails,
        AdvanceRejected, Reply, DatabaseError, Crash, Refuse, Return, Goto
<1>4. ASSUME \/ \E i \in Invocations, amount \in Amounts : Act(i, amount)
             \/ \E i \in Invocations : Consume(i) \/ Release(i)
             \/ Backup \/ Restore \/ Tick \/ UNCHANGED vars
      PROVE  UNCHANGED pc
  BY <1>4 DEF Act, Consume, Release, Backup, Restore, Tick, vars, procs
<1> QED BY <1>2, <1>3, <1>4 DEF Next

LEMMA AdvanceAnchors ==
    ASSUME IInv, NEW p \in Procs, Advance(p)
    PROVE  /\ pc[p] = "advance" /\ pc'[p] = "reply"
           /\ anchor'.checkpoint = events /\ events' = events
<1>1. pc[p] = "advance" /\ anchor' = Advanced(p) /\ OnAnchor(p) /\ events' = events
  BY DEF Advance, tables
<1>2. pc'[p] = "reply"
  BY DEF Advance, Goto, IInv, Types
<1> QED BY <1>1, <1>2, Held

LEMMA HolderHolds ==
    ASSUME IInv, IInv', BooksInv, [Next]_vars, NEW p \in Procs PROVE HolderOK(p)'
<1>1. /\ Booked(anchor.checkpoint) \subseteq Booked(anchor'.checkpoint)
      /\ Reserved(anchor.checkpoint) \subseteq Reserved(anchor'.checkpoint)
      /\ BooksOK /\ HolderOK(p)
  BY AnchorKeeps DEF BooksInv, BooksOK
<1>2. ASSUME ReserveNew(p)
      PROVE  request'[p] \in Booked(Recorded(p)') /\ Grantable(request[p])'
  <2>1. PICK c \in Calls : c = request[p] /\ c = request'[p]
    BY <1>2, NewIsNew DEF ReserveNew
  <2>2. pc'[p] = "advance" /\ UNCHANGED handed
    BY <1>2 DEF ReserveNew, Goto, IInv, Types, world
  <2>3. request'[p] \in Booked(events')
    BY <1>2, <2>1, ReserveEvents
  <2>4. Grantable(c)
    BY <1>2, <2>1, RoomAtReserve
  <2>5. Grantable(c)'
    BY <1>1, <2>2, <2>4, RoomStays
  <2> QED BY <2>1, <2>2, <2>3, <2>5 DEF Recorded, Grantable
<1>3. ASSUME Holds(p), request'[p] = request[p], UNCHANGED handed, pc'[p] = pc[p] \/ Advance(p)
      PROVE  request'[p] \in Booked(Recorded(p)') /\ Grantable(request[p])'
  <2>1. PICK c \in Calls : c = request[p] /\ c = request'[p]
    BY <1>3 DEF IInv, ProcOK, Holds
  <2>2. c \in Booked(Recorded(p)) /\ Grantable(c)
    BY <1>1, <1>3, <2>1 DEF HolderOK, Grantable
  <2>3. Grantable(c)'
    BY <1>1, <1>3, <2>2, RoomStays
  <2>4. c \in Booked(Recorded(p)')
    <3>1. CASE Advance(p)
      BY <2>2, <3>1, AdvanceAnchors DEF Recorded
    <3>2. CASE pc'[p] = pc[p] /\ pc[p] = "advance"
      <4>1. Booked(events) \subseteq Booked(events')
        BY <3>2, EventsStep DEF ReserveNew
      <4> QED BY <2>2, <3>2, <4>1 DEF Recorded
    <3>3. CASE pc'[p] = pc[p] /\ pc[p] = "reply"
      BY <1>1, <2>2, <3>3 DEF Recorded
    <3> QED BY <1>3, <3>1, <3>2, <3>3 DEF Holds
  <2> QED BY <2>1, <2>3, <2>4 DEF Grantable
<1>4. Holds(p)' => request'[p] \in Booked(Recorded(p)') /\ Grantable(request[p])'
  BY <1>2, <1>3, HoldsStep
<1>5. pc'[p] = "reply" => Reserved(events') \subseteq Reserved(anchor'.checkpoint)
  <2>1. CASE Advance(p)
    BY <2>1, AdvanceAnchors
  <2>2. CASE pc[p] = "reply"
    <3>1. Reserved(events') = Reserved(events)
      BY <2>2, EventsStep DEF ReserveNew
    <3> QED BY <1>1, <2>2, <3>1 DEF HolderOK
  <2> QED BY <2>1, <2>2, Replying
<1>6. /\ Booked(Recorded(p))' = Booked(Recorded(p)')
      /\ Reserved(events)' = Reserved(events')
      /\ Reserved(anchor.checkpoint)' = Reserved(anchor'.checkpoint)
  BY DEF Booked, Reserved
<1> QED BY <1>4, <1>5, <1>6 DEF HolderOK

LEMMA FiniteHolds ==
    ASSUME IInv, BooksInv, [Next]_vars PROVE IsFiniteSet(Actions!Granted)'
<1>1. PICK S, T : S = Actions!Granted /\ T = Actions!Granted'
  OBVIOUS
<1>2. IsFiniteSet(S)
  BY <1>1 DEF BooksInv, BooksOK
<1>3. PICK k : T \subseteq S \cup {k}
  <2>1. CASE handed' = handed
    BY <1>1, <2>1 DEF Actions!Granted
  <2>2. CASE handed' # handed
    <3>1. PICK p \in Procs :
             handed' = [handed EXCEPT ![request[p].invocation] = <<request[p]>>]
      BY <2>2, HandedStep
    <3>2. \A i \in Invocations : i # request[p].invocation => handed'[i] = handed[i]
      BY <3>1 DEF IInv, Types
    <3>3. \A i \in T : i \in S \/ i = request[p].invocation
      BY <1>1, <3>2 DEF Actions!Granted
    <3> QED BY <3>3
  <2> QED BY <2>1, <2>2
<1>4. IsFiniteSet(T)
  BY <1>2, <1>3, FS_AddElement, FS_Subset
<1> QED BY <1>1, <1>4

LEMMA NextBooks == IInv /\ IInv' /\ BooksInv /\ [Next]_vars => BooksInv'
<1> SUFFICES ASSUME IInv, IInv', BooksInv, [Next]_vars PROVE BooksInv'
  OBVIOUS
<1>1. L!BudgetInv' /\ B!BudgetInv'
  BY NextTables DEF BooksInv
<1>2. BooksOK'
  BY SettledHolds, PendingHolds, HandedHolds, HolderHolds, FiniteHolds DEF BooksOK
<1> QED BY <1>1, <1>2 DEF BooksInv

LEMMA InitBooks == Init => BooksInv
<1> SUFFICES ASSUME Init PROVE BooksInv
  OBVIOUS
<1>1. /\ terms = [a \in Accounts |-> None] /\ reserved = [a \in Accounts |-> 0]
      /\ spent = [a \in Accounts |-> 0] /\ payload = [i \in Invocations |-> None]
      /\ state = [i \in Invocations |-> "none"] /\ consumed = [i \in Invocations |-> 0]
      /\ bound = [s \in Scopes |-> None] /\ events = <<>>
      /\ backup.terms = terms /\ backup.reserved = reserved /\ backup.spent = spent
      /\ backup.payload = payload /\ backup.state = state /\ backup.consumed = consumed
      /\ backup.bound = bound /\ backup.events = events
  BY DEF Init, Ledger!Init, Ledger!Snapshot
<1>2. L!Init /\ B!Init
  BY <1>1 DEF L!Init, B!Init
<1>3. L!BudgetInv
  BY <1>2, L!InitInv, L!InitAddsUp, LedgerAssumed DEF L!BudgetInv
<1>4. B!BudgetInv
  BY <1>2, B!InitInv, B!InitAddsUp, BackupAssumed DEF B!BudgetInv
<1>5. Settled(state, consumed) /\ Settled(backup.state, backup.consumed)
  BY <1>1 DEF Settled
<1>6. pending \subseteq Past /\ HandedBooked /\ \A p \in Procs : HolderOK(p)
  BY DEF Init, Past, HandedBooked, HolderOK, Holds
<1>7. IsFiniteSet(Actions!Granted)
  <2>1. Actions!Granted = {}
    BY DEF Init, Actions!Granted
  <2> QED BY <2>1, FS_EmptySet
<1> QED BY <1>3, <1>4, <1>5, <1>6, <1>7 DEF BooksInv, BooksOK

LEMMA BooksInvariant == Spec => []BooksInv
BY Invariant, InitBooks, NextBooks, PTL DEF Spec

-----------------------------------------------------------------------------
(* What is handed out is a budget kept. *)

LEMMA ActionsInit == Init => Actions!Init
BY DEF Init, Actions!Init

LEMMA HandingGrants ==
    ASSUME IInv, BooksInv, [Next]_vars, handed' # handed
    PROVE  \E c \in Calls : Actions!Grant(c)
<1>1. PICK p \in Procs :
         /\ Reply(p) /\ Holds(p) /\ request[p] \in Calls
         /\ request[p].invocation \in Invocations /\ handed[request[p].invocation] = <<>>
         /\ handed' = [handed EXCEPT ![request[p].invocation] = <<request[p]>>]
  BY HandedStep
<1>2. PICK c \in Calls, k \in Invocations : c = request[p] /\ k = c.invocation
  BY <1>1
<1>3. Grantable(c)
  BY <1>1, <1>2 DEF BooksInv, BooksOK, HolderOK, Grantable
<1>4. used' = used /\ used[k] = None
  BY <1>1, <1>2 DEF Reply, BooksInv, BooksOK, HandedBooked
<1>5. /\ handed[k] = <<>> /\ handed'[k] # <<>> /\ handed'[k][1] = c
      /\ \A i \in Invocations : i # k => handed'[i] = handed[i]
  BY <1>1, <1>2 DEF IInv, Types
<1> DEFINE G(h) == [i \in Invocations |-> IF h[i] = <<>> THEN None ELSE h[i][1]]
           O(h) == {i \in Invocations : h[i] # <<>> /\ used[i] = None}
           C(h) == [i \in Invocations |->
                      IF h[i] = <<>> THEN 0
                      ELSE IF used[i] = None THEN h[i][1].amount ELSE used[i]]
<1>6. G(handed)[k] = None /\ G(handed') = [G(handed) EXCEPT ![k] = c]
  BY <1>5
<1>7. O(handed') = O(handed) \cup {k}
  BY <1>4, <1>5
<1>8. C(handed') = [C(handed) EXCEPT ![k] = c.amount]
  BY <1>4, <1>5
<1>9. /\ \A i \in Actions!Granted : G(handed)[i].nonce # c.nonce
      /\ \A a \in DOMAIN c.limits :
            /\ \A i \in Actions!Chargers(a) : G(handed)[i].limits[a] = c.limits[a]
            /\ Actions!Charged(a) + c.amount <= c.limits[a]
  <2>1. \A i \in Actions!Granted : i \in Invocations /\ G(handed)[i] = handed[i][1]
    BY DEF Actions!Granted
  <2>2. \A a : Actions!Chargers(a) \subseteq Actions!Granted
    BY DEF Actions!Chargers
  <2> QED BY <1>3, <2>1, <2>2 DEF Grantable
<1>10. Actions!Grant(c)
  BY <1>2, <1>4, <1>6, <1>7, <1>8, <1>9 DEF Actions!Grant
<1> QED BY <1>10

LEMMA ActingSettles ==
    ASSUME IInv, BooksInv, [Next]_vars, handed' = handed, used' # used
    PROVE  Actions!Next
<1>1. PICK i \in Invocations, amount \in Amounts : Act(i, amount)
  BY UsedStep
<1>2. /\ handed[i] # <<>> /\ used[i] = None /\ amount <= handed[i][1].amount
      /\ used' = [used EXCEPT ![i] = amount]
  BY <1>1 DEF Act
<1>3. /\ used'[i] = amount /\ amount # None
      /\ \A j \in Invocations : j # i => used'[j] = used[j]
  BY <1>2 DEF IInv, Types
<1>4. handed[i][1].amount \in Nat /\ amount \in 0 .. handed[i][1].amount
  BY <1>2, HandedCall, AnchoredAdmissionAssumption, LedgerAssumed DEF HandedOut, BooksInv
<1> DEFINE O(u) == {j \in Invocations : handed[j] # <<>> /\ u[j] = None}
           C(u) == [j \in Invocations |->
                      IF handed[j] = <<>> THEN 0
                      ELSE IF u[j] = None THEN handed[j][1].amount ELSE u[j]]
<1>5. i \in O(used) /\ O(used') = O(used) \ {i}
  BY <1>2, <1>3
<1>6. C(used)[i] = handed[i][1].amount /\ C(used') = [C(used) EXCEPT ![i] = amount]
  BY <1>2, <1>3
<1>7. \E a \in 0 .. C(used)[i] : C(used') = [C(used) EXCEPT ![i] = a]
  BY <1>4, <1>6
<1>8. Actions!Settle(i)
  BY <1>5, <1>7 DEF Actions!Settle
<1> QED BY <1>5, <1>8 DEF Actions!Next

LEMMA ActionsStep == IInv /\ BooksInv /\ [Next]_vars => [Actions!Next]_(Actions!budget)
<1> SUFFICES ASSUME IInv, BooksInv, [Next]_vars PROVE [Actions!Next]_(Actions!budget)
  OBVIOUS
<1>1. CASE handed' # handed
  BY <1>1, HandingGrants DEF Actions!Next
<1>2. CASE handed' = handed /\ used' # used
  BY <1>2, ActingSettles
<1>3. CASE UNCHANGED <<handed, used>>
  BY <1>3 DEF Actions!budget
<1> QED BY <1>1, <1>2, <1>3

\* What is handed out, with what was really spent, keeps the shared budget, as
\* SharedBudget states it, although processes die between the ledger and the
\* anchor and the ledger comes back from an old backup (persistent_admit, lines
\* 32-47; _advance; Ledger.reserve and Ledger.finish).
THEOREM ActionsKeepBudgetCorrect == Spec => ActionsKeepBudget
BY Invariant, BooksInvariant, ActionsInit, ActionsStep, PTL
   DEF Spec, ActionsKeepBudget, Actions!Spec

-----------------------------------------------------------------------------
(* Types. *)

\* The part of TypeOK that neither IInv nor the books need.
Rest ==
    /\ lock \in Procs \cup {None} /\ pending \subseteq Invocations
    /\ now \in 0 .. MaxNow /\ mishaps \in 0 .. MaxMishaps /\ restores \in 0 .. MaxRestores

LEMMA RestHolds == Spec => []Rest
<1>1. Init => Rest
  BY AnchoredAdmissionAssumption DEF Init, Rest
<1>2. Rest /\ [Next]_vars => Rest'
  <2> SUFFICES ASSUME Rest, [Next]_vars PROVE Rest'
    OBVIOUS
  <2> USE AnchoredAdmissionAssumption DEF Rest
  <2>1. CASE UNCHANGED vars
    BY <2>1 DEF vars, world, faults
  <2>2. ASSUME NEW p \in Procs, NEW c \in Calls, NEW r \in Receipts, Admit(p, c, r) PROVE Rest'
    BY <2>2 DEF Admit, world, faults
  <2>3. ASSUME NEW p \in Procs, Recover(p) PROVE Rest'
    BY <2>3 DEF Recover, world, faults
  <2>4. ASSUME NEW p \in Procs, Step(p) PROVE Rest'
    <3>1. CASE Reply(p)
      BY <3>1 DEF Reply, Return, faults
    <3>2. CASE RefuseReceipt(p) \/ RefuseIntent(p) \/ RefuseReservation(p) \/ AdvanceRejected(p)
      BY <3>2 DEF RefuseReceipt, RefuseIntent, RefuseReservation, AdvanceRejected, Refuse,
                  Return, world, faults
    <3>3. CASE Observe(p) \/ Bind(p) \/ Advance(p)
      BY <3>3 DEF Observe, Bind, Advance, world, faults
    <3>4. CASE ReserveNew(p) \/ ReserveAgain(p)
      BY <3>4 DEF ReserveNew, ReserveAgain, world, faults
    <3> QED BY <2>4, <3>1, <3>2, <3>3, <3>4 DEF Step
  <2>5. ASSUME NEW p \in Procs, Fail(p) PROVE Rest'
    BY <2>5 DEF Fail, ObserveFails, AdvanceFails, DatabaseError, Crash, Return, world
  <2>6. ASSUME NEW i \in Invocations, NEW amount \in Amounts, Act(i, amount) PROVE Rest'
    BY <2>6 DEF Act, faults
  <2>7. ASSUME NEW i \in Invocations, Consume(i) \/ Release(i) PROVE Rest'
    BY <2>7 DEF Consume, Release, world, faults
  <2>8. CASE Backup \/ Restore
    BY <2>8 DEF Backup, Restore, world, faults
  <2>9. CASE Tick
    BY <2>9 DEF Tick, faults
  <2> QED BY <2>1, <2>2, <2>3, <2>4, <2>5, <2>6, <2>7, <2>8, <2>9 DEF Next
<1> QED BY <1>1, <1>2, PTL DEF Spec

\* Ledger, anchor and processes hold only what the module declares for them: in
\* particular the anchor is written by nobody but with a log and a receipt, and
\* what an action spent is a natural number (the tables of ledger.py, lines
\* 23-34, and the anchor that _advance and persistent_admit save).
THEOREM TypeCorrect == Spec => []TypeOK
<1>1. IInv /\ BooksInv /\ Rest => TypeOK
  <2> SUFFICES ASSUME IInv, BooksInv, Rest PROVE TypeOK
    OBVIOUS
  <2>1. Ledger!TypeOK
    <3>1. L!TypeOK
      BY DEF BooksInv, L!BudgetInv, L!LedgerInv
    <3>2. L!Terms = Ledger!Terms
      BY DEF L!Terms, Ledger!Terms
    <3>3. L!Event = Ledger!Event
      BY DEF L!Event, Ledger!Event
    <3> QED BY <3>1, <3>2, <3>3 DEF L!TypeOK, Ledger!TypeOK
  <2>2. Amounts \cup {0} \subseteq Nat
    BY AnchoredAdmissionAssumption DEF Ledger!EvidenceLedgerAssumption
  <2>3. Entry \subseteq Ledger!Event
    BY <2>2 DEF Entry, Ledger!Event
  <2>4. Seq(Entry) \subseteq Seq(Ledger!Event)
    BY <2>3
  <2>5. Anchor \subseteq Anchors
    BY <2>4 DEF Anchor, Anchors
  <2>6. /\ anchor \in Anchors /\ value \in [Procs -> Anchors \cup {None}]
        /\ used \in [Invocations -> Nat \cup {None}]
    BY <2>2, <2>5 DEF IInv, Types
  <2> QED BY <2>1, <2>6 DEF IInv, Types, Rest, TypeOK
<1> QED BY <1>1, Invariant, BooksInvariant, RestHolds, PTL

=============================================================================
