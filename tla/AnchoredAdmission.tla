-------------------------- MODULE AnchoredAdmission --------------------------
(***************************************************************************)
(* Persistent admission: persistent_admit with the ledger, the independent *)
(* checkpoint store (the anchor) and the signed status source, in          *)
(* reference/authorization_evidence/{persistent,admission,checkpoints,     *)
(* sources}.py.  Processes take the flock of the anchor, then the ledger's *)
(* writer lock; the ledger may be changed without the flock by finish.     *)
(* The model adds what the code is built against: a process that dies at   *)
(* any step, an anchor write that fails, a database error, a clock that    *)
(* moves between any two steps, and an operator who restores the ledger    *)
(* from an old backup while no admission runs.                             *)
(*                                                                         *)
(* The three receipts of a request are validated alike and must have one   *)
(* as_of; a receipt here is the status receipt and stands for the three.   *)
(* The offline verifier is not part of this module: a request is a payload *)
(* it has authorized.  The generation of the anchor, a count of its writes *)
(* that nothing reads, is left out.                                        *)
(***************************************************************************)
EXTENDS Integers, SequencesExt

CONSTANTS
    Invocations, Accounts, Scopes, Objects, Currencies, Nonces, Amounts, Calls, None,
    Procs,        \* processes that admit or recover
    Intents,      \* intents the payloads are for
    IntentOf,     \* IntentOf[c]: the intent of payload c
    Expires,      \* Expires[c]: when the authorization of payload c ends
    Receipts,     \* the signed status receipts: revision, asOf and active
    MaxAge,       \* Source.max_age_seconds
    MaxNow,       \* bound on the clock
    MaxMishaps,   \* bound on process deaths, failing writes and database errors
    MaxRestores   \* bound on restores of the ledger from a backup

VARIABLES
    terms, reserved, spent, payload, state, consumed, bound, events,  \* the ledger
    anchor,    \* high-water.json: checkpoint and status receipt
    lock,      \* the process that holds the flock
    pc,        \* pc[p]: where process p is
    request,   \* request[p]: the payload p admits, None for a recovery
    receipt,   \* receipt[p]: the receipt presented with the request
    value,     \* value[p]: the anchor as p holds it in memory
    answer,    \* answer[p]: what the last call of p returned
    handed,    \* handed[i]: payloads answered RESERVED_NO_ACTION for i, in order
    used,      \* used[i]: what the external action of i really spent
    pending,   \* reservations the last recovery reported as open
    now,       \* the wall clock
    backup,    \* the ledger tables in the operator's backup
    mishaps,   \* process deaths, failed writes and database errors so far
    restores   \* restores so far

Ledger == INSTANCE EvidenceLedger WITH reading <- None, verdict <- "none"

ASSUME AnchoredAdmissionAssumption ==
    /\ None \notin Procs \cup Calls \cup Receipts
    /\ Ledger!EvidenceLedgerAssumption
    /\ IntentOf \in [Calls -> Intents]
    /\ Expires \in [Calls -> Nat]
    /\ Receipts \subseteq [revision : Nat, asOf : Nat, active : SUBSET Intents]
    /\ {MaxAge, MaxNow, MaxMishaps, MaxRestores} \subseteq Nat

tables == <<terms, reserved, spent, payload, state, consumed, bound, events>>
procs  == <<pc, request, receipt, value, answer>>
world  == <<handed, used, pending, now, backup>>
faults == <<mishaps, restores>>
vars   == <<tables, anchor, lock, procs, world, faults>>

PC == {"idle", "observe", "bind", "reserve", "advance", "reply"}
Answers == {"none", "RESERVED", "ALREADY_RECORDED", "RECOVERED", "WAITING_ANCHOR", "REFUSED", "raised"}
Anchors == [checkpoint : Seq(Ledger!Event), status : Receipts \cup {None}]

TypeOK ==
    /\ Ledger!TypeOK
    /\ anchor \in Anchors
    /\ lock \in Procs \cup {None}
    /\ pc \in [Procs -> PC]
    /\ request \in [Procs -> Calls \cup {None}]
    /\ receipt \in [Procs -> Receipts \cup {None}]
    /\ value \in [Procs -> Anchors \cup {None}]
    /\ answer \in [Procs -> Answers]
    /\ handed \in [Invocations -> Seq(Calls)]
    /\ used \in [Invocations -> Nat \cup {None}]
    /\ pending \subseteq Invocations
    /\ now \in 0 .. MaxNow
    /\ mishaps \in 0 .. MaxMishaps
    /\ restores \in 0 .. MaxRestores

\* After initialize_empty: an empty ledger, anchored at its empty log.
Init ==
    /\ Ledger!Init
    /\ anchor = [checkpoint |-> <<>>, status |-> None]
    /\ lock = None
    /\ pc = [p \in Procs |-> "idle"]
    /\ request = [p \in Procs |-> None]
    /\ receipt = [p \in Procs |-> None]
    /\ value = [p \in Procs |-> None]
    /\ answer = [p \in Procs |-> "none"]
    /\ handed = [i \in Invocations |-> <<>>]
    /\ used = [i \in Invocations |-> None]
    /\ pending = {}
    /\ now = 0
    /\ backup = Ledger!Snapshot
    /\ mishaps = 0 /\ restores = 0

-----------------------------------------------------------------------------
\* _validate: the receipt is neither stale nor from the future.
Fresh(r) == r.asOf <= now /\ now - r.asOf <= MaxAge

\* authenticate: a receipt never takes the place of a newer one.
Authentic_AnyRevision(r, prior) == Fresh(r)
Authentic(r, prior) ==
    /\ Fresh(r)
    /\ prior # None => /\ r.revision >= prior.revision
                       /\ r.revision = prior.revision => r = prior
                       /\ r.asOf >= prior.asOf

\* The ledger as p has it open contains all that p read from the anchor.
OnAnchor(p) == Ledger!Audit(Ledger!Snapshot, value[p].checkpoint) = "ok"

Goto(p, label) == pc' = [pc EXCEPT ![p] = label]

\* Return from the call: the flock is released on every way out.
Return(p, what) ==
    /\ Goto(p, "idle")
    /\ answer' = [answer EXCEPT ![p] = what]
    /\ request' = [request EXCEPT ![p] = None]
    /\ receipt' = [receipt EXCEPT ![p] = None]
    /\ value' = [value EXCEPT ![p] = None]
    /\ lock' = None

Refuse(p) == Return(p, "REFUSED") /\ UNCHANGED <<tables, anchor, world, faults>>

\* persistent_admit takes the flock and loads the anchor.
Admit(p, c, r) ==
    /\ pc[p] = "idle"
    /\ lock = None
    /\ lock' = p
    /\ request' = [request EXCEPT ![p] = c]
    /\ receipt' = [receipt EXCEPT ![p] = r]
    /\ value' = [value EXCEPT ![p] = anchor]
    /\ answer' = [answer EXCEPT ![p] = "none"]
    /\ Goto(p, "observe")
    /\ UNCHANGED <<tables, anchor, world, faults>>

\* recover and advance take the flock, load the anchor and go on to _advance.
Recover(p) ==
    /\ pc[p] = "idle"
    /\ lock = None
    /\ lock' = p
    /\ value' = [value EXCEPT ![p] = anchor]
    /\ answer' = [answer EXCEPT ![p] = "RECOVERED"]
    /\ Goto(p, "advance")
    /\ UNCHANGED <<tables, anchor, request, receipt, world, faults>>

Observable(p) == OnAnchor(p) /\ Authentic(receipt[p], value[p].status)

Observed(p) == [value[p] EXCEPT !.status = receipt[p]]

\* Audit the anchored prefix, authenticate the receipt and save it in the
\* anchor, whatever becomes of the request.
Observe(p) ==
    /\ pc[p] = "observe"
    /\ Observable(p)
    /\ anchor' = Observed(p)
    /\ value' = [value EXCEPT ![p] = Observed(p)]
    /\ Goto(p, "bind")
    /\ UNCHANGED <<tables, lock, request, receipt, answer, world, faults>>

\* The write fails; the rename may have happened all the same.
ObserveFails(p) ==
    /\ pc[p] = "observe"
    /\ Observable(p)
    /\ mishaps < MaxMishaps
    /\ mishaps' = mishaps + 1
    /\ anchor' \in {anchor, Observed(p)}
    /\ Return(p, "REFUSED")
    /\ UNCHANGED <<tables, world, restores>>

RefuseReceipt(p) == pc[p] = "observe" /\ ~Observable(p) /\ Refuse(p)

Active(p) == IntentOf[request[p]] \in receipt[p].active

\* bind, the active list and the offline verifier.
Bind(p) ==
    /\ pc[p] = "bind"
    /\ Authentic(receipt[p], value[p].status)
    /\ Active(p)
    /\ Goto(p, "reserve")
    /\ UNCHANGED <<tables, anchor, lock, request, receipt, value, answer, world, faults>>

RefuseIntent(p) ==
    /\ pc[p] = "bind"
    /\ ~(Authentic(receipt[p], value[p].status) /\ Active(p))
    /\ Refuse(p)

\* guard, run inside the transaction of reserve: bind and current_bounds again.
Guard_NoClock(p) == Authentic(receipt[p], value[p].status)
Guard(p) == Authentic(receipt[p], value[p].status) /\ now < Expires[request[p]]

\* admit: a first reservation.
ReserveNew(p) ==
    /\ pc[p] = "reserve"
    /\ Guard(p)
    /\ Ledger!Reserve(request[p], value[p].checkpoint)
    /\ answer' = [answer EXCEPT ![p] = "RESERVED"]
    /\ Goto(p, "advance")
    /\ UNCHANGED <<anchor, lock, request, receipt, value, world, faults>>

\* A retry with the payload already recorded.
Retry(p) ==
    /\ OnAnchor(p)
    /\ payload[request[p].invocation] = request[p]

ReserveAgain(p) ==
    /\ pc[p] = "reserve"
    /\ Guard(p)
    /\ Retry(p)
    /\ answer' = [answer EXCEPT ![p] = "ALREADY_RECORDED"]
    /\ Goto(p, "advance")
    /\ UNCHANGED <<tables, anchor, lock, request, receipt, value, world, faults>>

RefuseReservation(p) ==
    /\ pc[p] = "reserve"
    /\ ~(Guard(p) /\ (Retry(p) \/ Ledger!Reservable(request[p], value[p].checkpoint)))
    /\ Refuse(p)

Advanced_Stale(p) == value[p]
Advanced(p) == [value[p] EXCEPT !.checkpoint = events]

\* _advance: audit the retained prefix and anchor the whole log.
Advance(p) ==
    /\ pc[p] = "advance"
    /\ OnAnchor(p)
    /\ anchor' = Advanced(p)
    /\ Goto(p, "reply")
    /\ UNCHANGED <<tables, lock, request, receipt, value, answer, world, faults>>

\* An admission whose _advance was rejected or failed to write waits; a
\* recovery raises.
Unadvanced(p) == IF request[p] = None THEN "raised" ELSE "WAITING_ANCHOR"

AdvanceRejected(p) ==
    /\ pc[p] = "advance"
    /\ ~OnAnchor(p)
    /\ Return(p, Unadvanced(p))
    /\ UNCHANGED <<tables, anchor, world, faults>>

AdvanceFails(p) ==
    /\ pc[p] = "advance"
    /\ OnAnchor(p)
    /\ mishaps < MaxMishaps
    /\ mishaps' = mishaps + 1
    /\ anchor' \in {anchor, Advanced(p)}
    /\ Return(p, Unadvanced(p))
    /\ UNCHANGED <<tables, world, restores>>

\* The transaction of reserve or _advance raises sqlite3.OperationalError (the
\* writer lock is not granted in time): no handler of persistent_admit names it.
DatabaseError(p) ==
    /\ pc[p] \in {"reserve", "advance"}
    /\ mishaps < MaxMishaps
    /\ mishaps' = mishaps + 1
    /\ Return(p, "raised")
    /\ UNCHANGED <<tables, anchor, world, restores>>

\* The caller gets the result: RESERVED_NO_ACTION permits the external action;
\* a recovery reports the open reservations.
Reply(p) ==
    /\ pc[p] = "reply"
    /\ Return(p, answer[p])
    /\ handed' = IF answer[p] = "RESERVED"
                 THEN [handed EXCEPT ![request[p].invocation] = Append(@, request[p])]
                 ELSE handed
    /\ pending' = IF answer[p] = "RECOVERED"
                  THEN {i \in Invocations : state[i] = "reserved"} ELSE pending
    /\ UNCHANGED <<tables, anchor, used, now, backup, faults>>

-----------------------------------------------------------------------------
(* The callers of finish, the operator and the environment.                *)

\* The external action, for at most the reserved amount; nobody reports it yet.
Act(i, amount) ==
    /\ handed[i] # <<>>
    /\ used[i] = None
    /\ amount <= handed[i][1].amount
    /\ used' = [used EXCEPT ![i] = amount]
    /\ UNCHANGED <<tables, anchor, lock, procs, handed, pending, now, backup, faults>>

\* Report the spend of an action, without the flock.
Consume(i) ==
    /\ used[i] # None
    /\ Ledger!Finish(i, "consume", used[i])
    /\ UNCHANGED <<anchor, lock, procs, world, faults>>

\* Adjudicate a reservation a recovery reported: never handed out, so unused.
Release(i) ==
    /\ i \in pending
    /\ handed[i] = <<>>
    /\ Ledger!Finish(i, "release", 0)
    /\ UNCHANGED <<anchor, lock, procs, world, faults>>

Backup ==
    /\ restores < MaxRestores
    /\ backup' = Ledger!Snapshot
    /\ UNCHANGED <<tables, anchor, lock, procs, handed, used, pending, now, faults>>

\* The operator stops admission and puts the backup in the ledger's place.
Restore ==
    /\ lock = None
    /\ restores < MaxRestores
    /\ restores' = restores + 1
    /\ terms' = backup.terms /\ reserved' = backup.reserved /\ spent' = backup.spent
    /\ payload' = backup.payload /\ state' = backup.state /\ consumed' = backup.consumed
    /\ bound' = backup.bound /\ events' = backup.events
    /\ UNCHANGED <<anchor, lock, procs, world, mishaps>>

Tick ==
    /\ now < MaxNow
    /\ now' = now + 1
    /\ UNCHANGED <<tables, anchor, lock, procs, handed, used, pending, backup, faults>>

\* A process dies; the kernel drops its flock and SQLite its transaction.
Crash(p) ==
    /\ pc[p] # "idle"
    /\ mishaps < MaxMishaps
    /\ mishaps' = mishaps + 1
    /\ Return(p, "none")
    /\ UNCHANGED <<tables, anchor, world, restores>>

Step(p) ==
    \/ Observe(p) \/ RefuseReceipt(p)
    \/ Bind(p) \/ RefuseIntent(p)
    \/ ReserveNew(p) \/ ReserveAgain(p) \/ RefuseReservation(p)
    \/ Advance(p) \/ AdvanceRejected(p)
    \/ Reply(p)

Fail(p) == ObserveFails(p) \/ AdvanceFails(p) \/ DatabaseError(p) \/ Crash(p)

Next ==
    \/ \E p \in Procs, c \in Calls, r \in Receipts : Admit(p, c, r)
    \/ \E p \in Procs : Recover(p) \/ Step(p) \/ Fail(p)
    \/ \E i \in Invocations, amount \in Amounts : Act(i, amount)
    \/ \E i \in Invocations : Consume(i) \/ Release(i)
    \/ Backup \/ Restore \/ Tick

Spec == Init /\ [][Next]_vars
-----------------------------------------------------------------------------
(***************************************************************************)
(* Properties                                                              *)
(***************************************************************************)

\* One invocation is handed out at most once, whatever processes die, retry
\* or race, and although the ledger may come back from an old backup
\* (persistent_admit lines 32-47; ledger.py lines 79-82 and 102).
HandedOnce == \A i \in Invocations : Len(handed[i]) <= 1

\* The anchor only grows: its checkpoint and the revision and as_of of the
\* status list never go back, by whatever process, after
\* whatever failure or restore (_advance, lines 108-119; authenticate).
AnchorOnlyGrows ==
    [][/\ IsPrefix(anchor.checkpoint, anchor'.checkpoint)
       /\ anchor.status # None =>
             /\ anchor'.status # None
             /\ anchor'.status.revision >= anchor.status.revision
             /\ anchor'.status.asOf >= anchor.status.asOf]_anchor

\* A new reservation is made on a log that holds all that was anchored, for an
\* intent that the newest status list any admission has authenticated calls
\* active, while that list is fresh and before the authorization ends: the
\* checks of persistent_admit lines 19-31 still hold when the reservation is written.
AdmittedUnderAuthority ==
    [][\A i \in Invocations :
          payload[i] = None /\ payload'[i] # None =>
              /\ IsPrefix(anchor.checkpoint, events)
              /\ anchor.status # None
              /\ IntentOf[payload'[i]] \in anchor.status.active
              /\ Fresh(anchor.status)
              /\ now < Expires[payload'[i]]]_vars

\* The actions that were handed out keep the shared budget, with what they
\* really spent, through crashes and restores: the running counters and the
\* rollback check together promise what SharedBudget says.
Actions == INSTANCE SharedBudget WITH
    grant  <- [i \in Invocations |-> IF handed[i] = <<>> THEN None ELSE handed[i][1]],
    open   <- {i \in Invocations : handed[i] # <<>> /\ used[i] = None},
    charge <- [i \in Invocations |->
                  IF handed[i] = <<>> THEN 0
                  ELSE IF used[i] = None THEN handed[i][1].amount ELSE used[i]]

ActionsKeepBudget == Actions!Spec

=============================================================================
