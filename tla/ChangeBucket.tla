---------------------------- MODULE ChangeBucket ----------------------------
(***************************************************************************)
(* What the two prefixes of the bucket promise whoever reads them without  *)
(* a lock (the pages that list changes, get_change): a change comes under  *)
(* changes/pending/, is then also under changes/resolved/, and leaves      *)
(* changes/pending/ only after that.  No fault is excepted: an object may  *)
(* be left behind, never lost, and a decision is never undone.             *)
(***************************************************************************)
CONSTANT Changes

VARIABLES queued,   \* the changes with an object under changes/pending/
          decided   \* the changes with an object under changes/resolved/

bvars == <<queued, decided>>

Init == queued \in SUBSET Changes /\ decided = {}

Propose(c) == /\ c \notin queued \cup decided
              /\ queued' = queued \cup {c}
              /\ UNCHANGED decided

Decide(c) == /\ c \in queued \ decided
             /\ decided' = decided \cup {c}
             /\ UNCHANGED queued

Remove(c) == /\ c \in queued \cap decided
             /\ queued' = queued \ {c}
             /\ UNCHANGED decided

Next == \E c \in Changes : Propose(c) \/ Decide(c) \/ Remove(c)

Spec == Init /\ [][Next]_bvars
=============================================================================
