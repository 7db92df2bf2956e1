--------------------------- MODULE MCResponseFlow ---------------------------
(***************************************************************************)
(* Instances of ResponseFlow for TLC.                                      *)
(***************************************************************************)
EXTENDS ResponseFlow, TLC

CONSTANTS m1, m2, w1, w2, c1

Symmetry == Permutations(Manager) \cup Permutations(FieldWorker)
=============================================================================
