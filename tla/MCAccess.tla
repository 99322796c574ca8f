------------------------------ MODULE MCAccess ------------------------------
(* Access for TLC: what is asked for, by two users.                        *)
EXTENDS Access, TLC

CONSTANTS ann, bob, r3

Base == [kind |-> "panel", by |-> ann, target |-> ann, role |-> "admin",
         gives |-> FALSE, guarded |-> FALSE]

Change == [Base EXCEPT !.kind = "change"]

AnyTask ==
  {[Base EXCEPT !.kind = k] : k \in {"login", "logout", "panel"}}
  \cup {[Change EXCEPT !.by = u, !.target = t, !.guarded = g] :
          u \in {ann, bob}, t \in {ann, bob}, g \in BOOLEAN}
  \cup {[Change EXCEPT !.target = bob, !.gives = TRUE],
        [Base EXCEPT !.kind = "promote", !.target = bob]}

\* The third request looks at the panel, after others of the same admin.
MCTasks == [r \in Requests |-> IF r = r3 THEN {Base} ELSE AnyTask]

Series == {Base, [Change EXCEPT !.target = bob, !.guarded = TRUE]}
Started == {r \in Requests : pc[r] # "idle"}
Bounds == r3 \in Started => \A r \in Started : job[r] \in Series

RequestSymmetry == Permutations(Requests \ {r3})
=============================================================================
