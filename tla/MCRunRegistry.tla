--------------------------- MODULE MCRunRegistry ---------------------------
(***************************************************************************)
(* Instances of RunRegistry.                                               *)
(***************************************************************************)
EXTENDS RunRegistry, TLC

CONSTANTS d1, d2

TwoDAGs == {d1, d2}

OneDAG == {d1}

Symmetric == Permutations(TwoDAGs)

=============================================================================
