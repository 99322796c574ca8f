---------------------------- MODULE MCUserAdmin ----------------------------
(* UserAdmin for TLC: what the requests ask for.  Two accounts, one of     *)
(* which may be the actor's own, and the accounts the requests make.       *)
EXTENDS UserAdmin, TLC

CONSTANTS u1, u2, j1, j2, ann, bob, eve, top, nested

Base == [kind |-> "create", admin |-> TRUE, actor |-> ann, name |-> eve,
         targets |-> <<>>, team |-> None, enable |-> None,
         password |-> "none", temporary |-> FALSE]

Creations ==
  {[Base EXCEPT !.admin = a, !.team = t] :
     a \in BOOLEAN, t \in {top, nested}}
  \cup {[Base EXCEPT !.password = "accepted"],
        [Base EXCEPT !.password = "refused"],
        [Base EXCEPT !.password = "refused", !.temporary = TRUE]}

Deletions ==
  {[Base EXCEPT !.kind = "delete", !.targets = <<i>>, !.name = n] :
     i \in {u1, j1}, n \in {bob, eve}}
  \cup {[Base EXCEPT !.kind = "bulkDelete", !.targets = q] :
          q \in {<<u1, u2>>, <<j1, u1>>}}

Edits ==
  {[Base EXCEPT !.kind = "bulkEdit", !.admin = a, !.targets = q, !.team = t,
                !.enable = e] :
     a \in BOOLEAN, q \in {<<u1, u2>>}, t \in {nested}, e \in {FALSE, None}}
  \cup {[Base EXCEPT !.kind = "bulkEdit", !.admin = a, !.targets = <<u2, j1>>,
                     !.team = top] : a \in BOOLEAN}

Passwords ==
  {[Base EXCEPT !.kind = "password", !.targets = <<i>>] : i \in {u1, j1}}

MCTasks == Creations \cup Deletions \cup Edits \cup Passwords
=============================================================================
