-------------------------- MODULE MCAccountUpdate --------------------------
(* AccountUpdate for TLC: what the jobs are asked to do, chosen so that    *)
(* every pair of writers meets on a field, and on fields they do not share. *)
EXTENDS AccountUpdate, TLC

CONSTANTS A, B, p1, p2, away

MCTasks ==
  {[kind |-> "edit", wish |-> w] :
     w \in {[phone |-> p2], [team |-> B], [team |-> None],
            [enabled |-> FALSE, reason |-> away]}}
  \cup {[kind |-> "bulk", wish |-> w] :
          w \in {[enabled |-> FALSE], [team |-> A], [enabled |-> TRUE, team |-> B]}}
  \cup {[kind |-> "proposeBulk", wish |-> w] :
          w \in {[team |-> A], [enabled |-> TRUE, team |-> B]}}
  \cup {[kind |-> "notes", wish |-> [notes |-> away]]}
=============================================================================
