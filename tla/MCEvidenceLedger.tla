-------------------------- MODULE MCEvidenceLedger --------------------------
(* An instance of EvidenceLedger for TLC.  Two invocations share an account *)
(* with a third that also charges a second one; there is a call with a      *)
(* nonce that was used, one with another ceiling and one that rebinds an    *)
(* authority nonce.                                                         *)
EXTENDS EvidenceLedger

CONSTANTS i1, i2, i3, a1, a2, n1, n2, n3, s1, o1, o2, usd

Call(i, n, limits, amount, bindings) ==
    [invocation |-> i, nonce |-> n, limits |-> limits, currency |-> usd,
     amount |-> amount, bindings |-> bindings]

NoBinding == [s \in {} |-> None]
Binds(o) == s1 :> o

SomeCalls == {
    Call(i1, n1, a1 :> 3, 2, Binds(o1)),
    Call(i2, n2, a1 :> 3, 1, Binds(o1)),
    Call(i3, n3, (a1 :> 3) @@ (a2 :> 1), 1, NoBinding),
    Call(i3, n1, a2 :> 1, 0, NoBinding),
    Call(i2, n2, a1 :> 4, 2, NoBinding),
    Call(i2, n2, a2 :> 1, 1, Binds(o2))}
=============================================================================
