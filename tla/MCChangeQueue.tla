--------------------------- MODULE MCChangeQueue ---------------------------
(* ChangeQueue for TLC: the symmetry of the requests, and the mutants that *)
(* show each property can fail.                                            *)
EXTENDS ChangeQueue, TLC

RequestSymmetry == Permutations(Requests)
=============================================================================
