--------------------------- MODULE MCChangesPage ---------------------------
(* ChangesPage for TLC: the symmetry of the requests, and the bounds.      *)
(* Pages only read the bucket, and an admin's page does not even share the *)
(* operator's session: it runs alone against the decisions of all changes. *)
(* The operator's own pages are three over one change, or two over two.    *)
EXTENDS ChangesPage, TLC

RequestSymmetry == Permutations(Requests)

Started == Cardinality({r \in Requests : pc[r] # "idle"})

Bounds == IF \E r \in Requests : kind[r] = "review"
          THEN Started <= 1
          ELSE Started <= 4 - proposed
=============================================================================
