----------------------------- MODULE PatternTools -----------------------------
(* What EventDelivery and PatternEvolution have in common: both follow scripts *)
(* of tools/ that work on the patterns, and in both a bounded number of        *)
(* commands, calls and processes fail.                                         *)
EXTENDS Naturals

CONSTANTS
    Patterns,    \* patterns
    None,
    MaxMishaps   \* bound on what fails

VARIABLE mishaps

\* The part of an action that only a failure or a death takes.
Mishap == mishaps < MaxMishaps /\ mishaps' = mishaps + 1
=============================================================================
