------------------------ MODULE MCAnchoredAdmission ------------------------
(* Instances of AnchoredAdmission for TLC: two payloads that fit one budget  *)
(* only when one of them spends less than it reserved, and status lists.     *)
EXTENDS AnchoredAdmission

CONSTANTS i1, i2, a1, n1, n2, usd, t1, t2, p1, p2

NoBinding == [s \in {} |-> None]

Call(i, n, amount) ==
    [invocation |-> i, nonce |-> n, limits |-> a1 :> 2, currency |-> usd,
     amount |-> amount, bindings |-> NoBinding]

c1 == Call(i1, n1, 2)
c2 == Call(i2, n2, 1)
TwoCalls == {c1, c2}

\* One intent each; the first authorization ends at time 1.
OwnIntent == [c \in Calls |-> IF c = c1 THEN t1 ELSE t2]
Ends      == [c \in Calls |-> IF c = c1 THEN 1 ELSE 3]

\* The first list calls both active; one that conflicts with it; and a second
\* revision that drops the first intent.
Revisions  == {[revision |-> 0, asOf |-> 0, active |-> {t1, t2}],
               [revision |-> 0, asOf |-> 0, active |-> {t1}],
               [revision |-> 1, asOf |-> 1, active |-> {t2}]}

\* Processes are interchangeable.
SymmetricProcs == Permutations({p1, p2})
=============================================================================
