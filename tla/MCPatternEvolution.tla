------------------------- MODULE MCPatternEvolution -------------------------
(* Small instances of PatternEvolution for TLC. *)
EXTENDS PatternEvolution, TLC

CONSTANTS p, q, g, h, k

\* Two metrics that ask for the same pattern.
SameTarget == (g :> p) @@ (h :> p)
=============================================================================
