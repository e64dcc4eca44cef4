--------------------------- MODULE EvidenceLedger ---------------------------
(***************************************************************************)
(* The authorization-evidence ledger: the SQLite tables behind             *)
(* reference/authorization_evidence/ledger.py.  reserve and finish each    *)
(* run in one BEGIN IMMEDIATE transaction, rolled back when any check      *)
(* fails, so each is one action; a refused call changes nothing and is not *)
(* an action.  The standalone audit is a deferred read transaction: it     *)
(* pins a snapshot and judges it later, while writers go on.               *)
(*                                                                         *)
(* A payload is a member of Calls.  A hash-chained log is the sequence of  *)
(* its events, and the digest of a head stands for the prefix it ends.     *)
(***************************************************************************)
EXTENDS Integers, SequencesExt

CONSTANTS
    Invocations,  \* invocation identifiers
    Accounts,     \* budget accounts: the ids of signed objects
    Scopes,       \* authority nonce scopes (principal, type and nonce)
    Objects,      \* the objects an authority nonce may be bound to
    Currencies,   \* pairs of asset and network
    Nonces,       \* nonce scopes of reservations (actor, profile, type and nonce)
    Amounts,      \* amounts a caller may settle with
    Calls,        \* the payloads reserve may be called with
    None          \* a row that does not exist

Terms == [currency : Currencies, ceiling : Nat]

ASSUME EvidenceLedgerAssumption ==
    /\ \A c \in Calls :
          /\ c.invocation \in Invocations
          /\ c.nonce \in Nonces
          /\ DOMAIN c.limits \in (SUBSET Accounts) \ {{}}
          /\ c.limits \in [DOMAIN c.limits -> Nat]
          /\ c.currency \in Currencies
          /\ c.amount \in Nat
          /\ DOMAIN c.bindings \subseteq Scopes
          /\ c.bindings \in [DOMAIN c.bindings -> Objects]
    /\ Amounts \subseteq Nat
    /\ None \notin Calls \cup Objects
    /\ None \notin Terms

VARIABLES
    terms,     \* terms[a]: currency and ceiling of account a
    reserved,  \* reserved[a]: what open reservations hold of account a
    spent,     \* spent[a]: what consumed reservations took from account a
    payload,   \* payload[i]: the stored payload of invocation i
    state,     \* state[i]: reservations.state
    consumed,  \* consumed[i]: reservations.consumed
    bound,     \* bound[s]: the object authority nonce s is bound to
    events,    \* the signed log
    reading,   \* the snapshot a standalone audit has pinned
    verdict    \* what the last standalone audit concluded

accounts     == <<terms, reserved, spent>>
reservations == <<payload, state, consumed>>
tables       == <<accounts, reservations, bound, events>>
auditor      == <<reading, verdict>>
vars         == <<tables, auditor>>

Event == [action : {"reserve"}, payload : Calls]
            \cup [action : {"consume", "release"}, invocation : Invocations, amount : Nat]

\* What one read transaction sees.
Snapshot == [terms |-> terms, reserved |-> reserved, spent |-> spent,
             payload |-> payload, state |-> state, consumed |-> consumed,
             bound |-> bound, events |-> events]

TypeOK ==
    /\ terms \in [Accounts -> Terms \cup {None}]
    /\ reserved \in [Accounts -> Int]
    /\ spent \in [Accounts -> Nat]
    /\ payload \in [Invocations -> Calls \cup {None}]
    /\ state \in [Invocations -> {"none", "reserved", "consume", "release"}]
    /\ consumed \in [Invocations -> Nat]
    /\ bound \in [Scopes -> Objects \cup {None}]
    /\ events \in Seq(Event)
    /\ reading = None \/ reading.checkpoint \in Seq(Event)
    /\ verdict \in {"none", "ok", "INVALID", "UNAVAILABLE"}

Init ==
    /\ terms = [a \in Accounts |-> None]
    /\ reserved = [a \in Accounts |-> 0]
    /\ spent = [a \in Accounts |-> 0]
    /\ payload = [i \in Invocations |-> None]
    /\ state = [i \in Invocations |-> "none"]
    /\ consumed = [i \in Invocations |-> 0]
    /\ bound = [s \in Scopes |-> None]
    /\ events = <<>>
    /\ reading = None
    /\ verdict = "none"

-----------------------------------------------------------------------------
(***************************************************************************)
(* The audit: replay the log into fresh tables, checking each event, and   *)
(* compare them with the stored ones.                                      *)
(***************************************************************************)

Blank == [terms |-> [a \in Accounts |-> None], reserved |-> [a \in Accounts |-> 0],
          spent |-> [a \in Accounts |-> 0], payload |-> [i \in Invocations |-> None],
          state |-> [i \in Invocations |-> "none"], consumed |-> [i \in Invocations |-> 0],
          bound |-> [s \in Scopes |-> None], ok |-> TRUE]

RedoReserve(r, c) ==
    LET owns == DOMAIN c.limits
        holds == [a \in Accounts |-> r.reserved[a] + (IF a \in owns THEN c.amount ELSE 0)]
        fits == /\ r.payload[c.invocation] = None
                /\ \A i \in Invocations : r.payload[i] # None => r.payload[i].nonce # c.nonce
                /\ \A s \in DOMAIN c.bindings : r.bound[s] \in {None, c.bindings[s]}
                /\ \A a \in owns : /\ r.terms[a] # None =>
                                        r.terms[a] = [currency |-> c.currency, ceiling |-> c.limits[a]]
                                   /\ holds[a] + r.spent[a] <= c.limits[a]
    IN [terms |-> [a \in Accounts |->
                      IF a \in owns /\ r.terms[a] = None
                      THEN [currency |-> c.currency, ceiling |-> c.limits[a]] ELSE r.terms[a]],
        reserved |-> holds,
        spent |-> r.spent,
        payload |-> [r.payload EXCEPT ![c.invocation] = c],
        state |-> [r.state EXCEPT ![c.invocation] = "reserved"],
        consumed |-> r.consumed,
        bound |-> [s \in Scopes |-> IF s \in DOMAIN c.bindings THEN c.bindings[s] ELSE r.bound[s]],
        ok |-> r.ok /\ fits]

RedoFinish(r, e) ==
    LET c == r.payload[e.invocation]
        fits == /\ r.state[e.invocation] = "reserved"
                /\ e.amount <= c.amount
                /\ e.action = "release" => e.amount = 0
    IN IF c = None THEN [r EXCEPT !.ok = FALSE]
       ELSE [r EXCEPT !.reserved = [a \in Accounts |->
                                       IF a \in DOMAIN c.limits THEN @[a] - c.amount ELSE @[a]],
                      !.spent = [a \in Accounts |->
                                    IF a \in DOMAIN c.limits THEN @[a] + e.amount ELSE @[a]],
                      !.state[e.invocation] = e.action,
                      !.consumed[e.invocation] = e.amount,
                      !.ok = @ /\ fits]

Redo(r, e) == IF e.action = "reserve" THEN RedoReserve(r, e.payload) ELSE RedoFinish(r, e)

Replay(log) == FoldLeft(Redo, Blank, log)

\* The stored tables d are those the log gives, and the log is legal.
Audited(d) ==
    LET r == Replay(d.events)
    IN /\ r.ok
       /\ \A f \in DOMAIN r \ {"ok"} : d[f] = r[f]

\* audit(checkpoint) of the tables d.
Audit(d, checkpoint) ==
    IF ~Audited(d) THEN "INVALID"
    ELSE IF ~IsPrefix(checkpoint, d.events) THEN "UNAVAILABLE"
    ELSE "ok"

-----------------------------------------------------------------------------
TermsOf(c, a) == [currency |-> c.currency, ceiling |-> c.limits[a]]

NonceFree_Open(c) == \A i \in Invocations : state[i] = "reserved" => payload[i].nonce # c.nonce
NonceFree(c) == \A i \in Invocations : payload[i] # None => payload[i].nonce # c.nonce

Bindable(c) == \A s \in DOMAIN c.bindings : bound[s] \in {None, c.bindings[s]}

WithinBudget_SpentOnly(c) ==
    \A a \in DOMAIN c.limits : /\ terms[a] \in {None, TermsOf(c, a)}
                               /\ spent[a] + c.amount <= c.limits[a]
WithinBudget_AnyCeiling(c) ==
    \A a \in DOMAIN c.limits : reserved[a] + spent[a] + c.amount <= c.limits[a]
WithinBudget(c) ==
    \A a \in DOMAIN c.limits : /\ terms[a] \in {None, TermsOf(c, a)}
                               /\ reserved[a] + spent[a] + c.amount <= c.limits[a]

\* _append: the log with one more signed event.
Logged_NoRelease(e) == IF e.action = "release" THEN events ELSE Append(events, e)
Logged(e) == Append(events, e)

Open(i) == state[i] = "reserved"

\* What reserve checks inside its transaction.
Reservable(c, checkpoint) ==
    /\ Audit(Snapshot, checkpoint) = "ok"
    /\ payload[c.invocation] = None
    /\ NonceFree(c)
    /\ Bindable(c)
    /\ WithinBudget(c)

(***************************************************************************)
(* reserve: a payload whose invocation has a row returns that row's state  *)
(* and changes nothing; every other payload that passes all checks is      *)
(* recorded and answered 'new_reservation'.                                *)
(***************************************************************************)
Reserve(c, checkpoint) ==
    /\ Reservable(c, checkpoint)
    /\ bound' = [s \in Scopes |-> IF s \in DOMAIN c.bindings THEN c.bindings[s] ELSE bound[s]]
    /\ terms' = [a \in Accounts |-> IF a \in DOMAIN c.limits THEN TermsOf(c, a) ELSE terms[a]]
    /\ reserved' = [a \in Accounts |->
                       IF a \in DOMAIN c.limits THEN reserved[a] + c.amount ELSE reserved[a]]
    /\ payload' = [payload EXCEPT ![c.invocation] = c]
    /\ state' = [state EXCEPT ![c.invocation] = "reserved"]
    /\ events' = Logged([action |-> "reserve", payload |-> c])
    /\ UNCHANGED <<spent, consumed>>

\* finish: settle an open reservation; a repeated call changes nothing.
Finish(i, action, amount) ==
    /\ action = "release" => amount = 0
    /\ Audit(Snapshot, <<>>) = "ok"
    /\ Open(i)
    /\ amount <= payload[i].amount
    /\ LET mine == DOMAIN payload[i].limits
       IN /\ reserved' = [a \in Accounts |->
                             IF a \in mine THEN reserved[a] - payload[i].amount ELSE reserved[a]]
          /\ spent' = [a \in Accounts |-> IF a \in mine THEN spent[a] + amount ELSE spent[a]]
    /\ state' = [state EXCEPT ![i] = action]
    /\ consumed' = [consumed EXCEPT ![i] = amount]
    /\ events' = Logged([action |-> action, invocation |-> i, amount |-> amount])
    /\ UNCHANGED <<terms, payload, bound>>

\* Checkpoints that export has handed out: the first and the latest of them.
Exported == {<<>>, events}

\* A standalone audit(checkpoint): the first SELECT pins the snapshot ...
AuditBegin(checkpoint) ==
    /\ reading = None
    /\ reading' = [seen |-> Snapshot, checkpoint |-> checkpoint]
    /\ verdict' = "none"
    /\ UNCHANGED tables

\* ... and the rest of the queries see it, whatever was committed since.
AuditEnd_Unpinned ==
    /\ reading # None
    /\ verdict' = Audit([Snapshot EXCEPT !.events = reading.seen.events], reading.checkpoint)
    /\ reading' = None
    /\ UNCHANGED tables
AuditEnd ==
    /\ reading # None
    /\ verdict' = Audit(reading.seen, reading.checkpoint)
    /\ reading' = None
    /\ UNCHANGED tables

Next ==
    \/ \E c \in Calls, checkpoint \in Exported :
           Reserve(c, checkpoint) /\ UNCHANGED auditor
    \/ \E i \in Invocations, action \in {"consume", "release"}, amount \in Amounts :
           Finish(i, action, amount) /\ UNCHANGED auditor
    \/ \E checkpoint \in Exported : AuditBegin(checkpoint)
    \/ AuditEnd

Spec == Init /\ [][Next]_vars
-----------------------------------------------------------------------------
(***************************************************************************)
(* Properties                                                              *)
(***************************************************************************)

\* What reservations hold of an account and what they spent of it stays
\* within the ceiling the account was opened with, however calls interleave
\* (reserve line 97, finish lines 115-119); an account without a row has no
\* charge.
WithinCeiling ==
    \A a \in Accounts :
        IF terms[a] = None THEN reserved[a] = 0 /\ spent[a] = 0
        ELSE reserved[a] + spent[a] <= terms[a].ceiling

\* No two invocations were reserved with one nonce; every binding of an
\* authority nonce that a reservation relied on still stands; and all
\* reservations that charge an account agree on its currency and ceiling, so
\* no later payload raised a budget (reserve lines 83-96).
RowsAgree ==
    \A i \in {j \in Invocations : payload[j] # None} :
        /\ \A j \in Invocations \ {i} :
               payload[j] # None => payload[j].nonce # payload[i].nonce
        /\ \A s \in DOMAIN payload[i].bindings : bound[s] = payload[i].bindings[s]
        /\ \A a \in DOMAIN payload[i].limits : terms[a] = TermsOf(payload[i], a)

Reserves(e)  == e.action = "reserve"
Settles(e)   == e.action # "reserve"
Subject(e)   == IF Reserves(e) THEN e.payload.invocation ELSE e.invocation

\* The signed log and the rows tell one story: an invocation is reserved in
\* the log exactly once if it has a row, and with the payload of that row; it
\* is settled in the log exactly once if its row is settled, after it was
\* reserved, and as the row says (_append, called from reserve and finish).
ReservationsLogged ==
    \A i \in Invocations :
        payload[i] # None => \E n \in DOMAIN events :
                                events[n] = [action |-> "reserve", payload |-> payload[i]]

SettlementsLogged ==
    \A i \in Invocations :
        state[i] \in {"consume", "release"} =>
            \E m, n \in DOMAIN events :
                /\ m < n
                /\ events[m] = [action |-> "reserve", payload |-> payload[i]]
                /\ events[n] = [action |-> state[i], invocation |-> i, amount |-> consumed[i]]

LoggedOnce ==
    \A n \in DOMAIN events :
        /\ Reserves(events[n]) => payload[Subject(events[n])] = events[n].payload
        /\ Settles(events[n]) => state[Subject(events[n])] = events[n].action
        /\ \A m \in DOMAIN events :
               /\ Subject(events[m]) = Subject(events[n])
               /\ Reserves(events[m]) <=> Reserves(events[n])
               => m = n

LogTellsAll == ReservationsLogged /\ SettlementsLogged /\ LoggedOnce

\* The audit never refuses a ledger that only reserve and finish have written
\* (the ledger would be unusable for good: every operation audits first), and
\* a standalone audit that overlaps with writers raises no false alarm
\* (audit, lines 138-155).
AuditsPass ==
    /\ Audit(Snapshot, events) = "ok"
    /\ verdict \in {"none", "ok"}

\* A settled reservation is final, and a recorded payload is never replaced
\* (reserve lines 79-82, finish lines 112-114).
SettledIsFinal ==
    [][\A i \in Invocations :
          /\ payload[i] # None => payload'[i] = payload[i]
          /\ state[i] \in {"consume", "release"} =>
                 state'[i] = state[i] /\ consumed'[i] = consumed[i]]_vars

\* The ledger implements a shared budget that keeps no counters: see
\* SharedBudget.
Budget == INSTANCE SharedBudget WITH
    grant  <- payload,
    open   <- {i \in Invocations : state[i] = "reserved"},
    charge <- [i \in Invocations |->
                  IF state[i] = "reserved" THEN payload[i].amount ELSE consumed[i]]

ImplementsBudget == Budget!Spec
=============================================================================
