----------------------------- MODULE SharedBudget -----------------------------
(***************************************************************************)
(* What the authorization-evidence ledger promises, without its counters,  *)
(* tables or log: invocations are granted charges against shared accounts  *)
(* and settle them for at most what was granted; whatever the order, the   *)
(* charges of all invocations on an account stay within the limit each of  *)
(* them was granted under (Ledger.reserve and Ledger.finish).              *)
(***************************************************************************)
EXTENDS Integers, FiniteSetsExt

CONSTANTS Invocations, Calls, None

VARIABLES
    grant,   \* grant[i]: the call that was granted to invocation i
    open,    \* the invocations that are granted and not settled
    charge   \* charge[i]: what invocation i holds, or has spent

budget == <<grant, open, charge>>

Granted == {i \in Invocations : grant[i] # None}

\* The granted invocations that charge account a.
Chargers(a) == {i \in Granted : a \in DOMAIN grant[i].limits}

Charged(a) == MapThenSumSet(LAMBDA i : charge[i], Chargers(a))

Init ==
    /\ grant = [i \in Invocations |-> None]
    /\ open = {}
    /\ charge = [i \in Invocations |-> 0]

\* A call no other grant has used the nonce of, under the limits that others
\* were granted under, and with room for it on every account.
Grant(c) ==
    /\ grant[c.invocation] = None
    /\ \A i \in Granted : grant[i].nonce # c.nonce
    /\ \A a \in DOMAIN c.limits :
          /\ \A i \in Chargers(a) : grant[i].limits[a] = c.limits[a]
          /\ Charged(a) + c.amount <= c.limits[a]
    /\ grant' = [grant EXCEPT ![c.invocation] = c]
    /\ open' = open \cup {c.invocation}
    /\ charge' = [charge EXCEPT ![c.invocation] = c.amount]

Settle(i) ==
    /\ i \in open
    /\ open' = open \ {i}
    /\ \E amount \in 0 .. charge[i] : charge' = [charge EXCEPT ![i] = amount]
    /\ UNCHANGED grant

Next == \/ \E c \in Calls : Grant(c)
        \/ \E i \in open : Settle(i)

Spec == Init /\ [][Next]_budget
=============================================================================
