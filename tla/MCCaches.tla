------------------------------ MODULE MCCaches ------------------------------
(* Caches for TLC.  The caches share nothing but the clock, so one of them *)
(* is used at a time, by two tasks at a time.                              *)
EXTENDS Caches, FiniteSets, TLC

Idle(S) == \A x \in S : At(x, "idle")
Ended == {"accepted", "served", "failed", "refused"}
Busy(S) == {x \in S : pc[x] \notin {"idle"} \cup Ended}

Bounds ==
  /\ Cardinality(Busy(Logins)) <= 2
  /\ Cardinality(Busy(Calls)) <= 2
  /\ \/ Idle(Logins) /\ signing = 1
     \/ Idle(Calls) /\ epoch = 0 /\ now < MaxTime

TaskSymmetry == Permutations(Logins) \cup Permutations(Calls)
=============================================================================
