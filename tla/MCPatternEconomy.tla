-------------------------- MODULE MCPatternEconomy --------------------------
(* Instances of PatternEconomy for TLC: who submits which intent, who        *)
(* provides its capabilities, and what kind it is.                           *)
EXTENDS PatternEconomy, TLC

CONSTANTS j1, j2, p0, f1, u, v, kq, ki

\* Every intent is the provider's own.
OwnIntents  == [j \in Jobs |-> v]

\* One capability each, of one provider.
ProvidesOne == [j \in Jobs |-> <<v>>]

\* An adapted run takes half the time of a fresh one.
Halved == [m \in Mode |-> IF m = "fresh" THEN {2} ELSE {1}]

\* lib/credits.ts, OMC.
Rates == ("system_grant" :> 100) @@ ("intent_submission_debit" :> -1)
         @@ ("capability_reward" :> 10) @@ ("pattern_creation_reward" :> 5)
         @@ ("pattern_reuse_reward" :> 2)
=============================================================================
