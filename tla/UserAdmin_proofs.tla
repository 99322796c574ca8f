------------------------- MODULE UserAdmin_proofs -------------------------
(***************************************************************************)
(* Proofs about UserAdmin: what Keycloak holds, what a handler answers and *)
(* what the audit trail and the changes log say agree, for any requests.   *)
(*                                                                         *)
(* The invariant UInv says, for each place in a handler, which accounts    *)
(* are still ahead of it and what it has done to the others.               *)
(***************************************************************************)
EXTENDS UserAdmin, SequenceTheorems, TLAPS

\* The accounts a handler still has to deal with, the present one included.
Ahead(j) == {todo[j][n] : n \in 1..Len(todo[j])}
Behind(j) == TargetsOf(j) \ Ahead(j)
Deletes(j) == job[j].kind \in {"delete", "bulkDelete"}
Closed(j) == pc[j] \in {"answer", "ok", "failed"}
Early(j) == pc[j] \in {"idle", "findTeam", "post", "postBare"}
Hidden(j, i) == [by |-> j, about |-> i] \in hidden

\* Which handler is where, and what its path to there implies.
KindInv ==
  \A j \in Jobs :
    /\ pc[j] \in {"post", "postBare", "fetch"} => Is(j, "create")
    /\ pc[j] = "postBare" => job[j].password = "refused" /\ job[j].temporary
    /\ pc[j] \in {"target", "delete", "record"} => Deletes(j)
    /\ pc[j] \in {"password", "lookup"} => Is(j, "password")
    /\ pc[j] = "auditFailure" => Deletes(j) \/ Is(j, "password")
    /\ pc[j] \in {"enable", "leave", "attribute"} => Is(j, "bulkEdit")
    /\ pc[j] \in {"join", "propose", "auditProposal"}
         => Is(j, "create") \/ Is(j, "bulkEdit")
    /\ pc[j] \in {"enable", "leave", "join", "attribute"} => job[j].admin
    /\ pc[j] \in {"propose", "auditProposal"} => ~job[j].admin
    /\ pc[j] = "audit" /\ Is(j, "bulkEdit") => job[j].admin
    /\ pc[j] \in {"leave", "join", "attribute"} => team[j] # None
    /\ pc[j] = "propose" /\ Is(j, "create") => team[j] # None
    /\ pc[j] = "enable" => job[j].enable # None
    /\ pc[j] \in {"idle", "findTeam"} => team[j] = None

\* The loop of a batch takes the accounts of the form one by one, and ends
\* after the last.
TodoInv ==
  \A j \in Jobs :
    /\ Ahead(j) \subseteq TargetsOf(j)
    /\ \A m, n \in 1..Len(todo[j]) : todo[j][m] = todo[j][n] => m = n
    /\ job[j].kind \notin {"bulkDelete", "bulkEdit"}
         => todo[j] = job[j].targets
    /\ pc[j] \in {"idle", "findTeam"} => todo[j] = job[j].targets
    /\ ~Closed(j) /\ ~At(j, "audit") /\ ~Is(j, "create") => todo[j] # <<>>
    /\ At(j, "audit") /\ (Deletes(j) \/ Is(j, "password")) => todo[j] # <<>>
    /\ Is(j, "bulkDelete") /\ Succeeded(j) => todo[j] = <<>>
    /\ Is(j, "bulkEdit") /\ Succeeded(j) /\ ~job[j].admin => todo[j] = <<>>
    /\ Is(j, "bulkEdit") /\ (Succeeded(j) \/ At(j, "audit")) /\ job[j].admin
         => todo[j] = <<>> \/ (team[j] = None /\ job[j].enable = None)

\* Nothing happens to an account before it is made.
BirthInv ==
  \A j \in Jobs :
    /\ Did(j, j, "create")
         => Is(j, "create") /\ ~Early(j)
    /\ ~Did(j, j, "create")
         => /\ name[j] = None /\ noted[j] = None
            /\ Is(j, "create") => Early(j) \/ At(j, "failed")
            /\ \A e \in made : e.about # j
            /\ \A k \in Jobs : j \in TargetsOf(k) => pc[k] = "idle"

\* A handler deletes an account at its turn; Keycloak may have done so although
\* the call failed.
Turn(j) ==
  /\ \A i \in Ids : Hidden(j, i) => Did(j, i, "delete")
  /\ pc[j] \in {"record", "audit"}
       => Did(j, Target(j), "delete") /\ ~Hidden(j, Target(j))
  /\ At(j, "auditFailure") /\ Did(j, Target(j), "delete")
       => Hidden(j, Target(j))
  /\ ~Closed(j) => \A i \in Ahead(j) :
       Did(j, i, "delete")
       => i = Target(j) /\ pc[j] \in {"record", "audit", "auditFailure"}

TurnInv == \A j \in Jobs : Deletes(j) => Turn(j)

\* An account is deleted once.
GoneInv ==
  /\ \A e \in made : e.what = "delete" => /\ Deletes(e.by)
                                          /\ e.about \in TargetsOf(e.by)
                                          /\ ~Exists(e.about)
  /\ \A d, e \in made :
       d.what = "delete" /\ e.what = "delete" /\ d.about = e.about => d = e

\* A deletion is recorded after it, and its entry is the last of its turn.
RecordInv ==
  /\ \A d \in log : Did(d.by, d.about, "delete")
  /\ \A e \in audit :
       e.action = "delete_user" => /\ Deletes(e.by)
                                   /\ e.about \in TargetsOf(e.by)
                                   /\ Closed(e.by) \/ e.about \notin Ahead(e.by)

\* Between the deletion and its entry the handler is still at the account.
TraceInv ==
  \A j \in Jobs, i \in Ids :
    Did(j, i, "delete")
    => \/ At(j, "failed")
       \/ pc[j] \in {"record", "audit", "auditFailure"} /\ Target(j) = i
       \/ \E e \in audit \cup (lost \cap Entry) : e.by = j /\ e.about = i

\* A batch has deleted or skipped the accounts behind it, and no other.
Batch(j) ==
  /\ Ahead(j) \cap skipped[j] = {}
  /\ \A i \in Behind(j) : \/ i \in skipped[j] <=> ~Did(j, i, "delete")
                          \/ Hidden(j, i) /\ i \in skipped[j]

BatchInv == \A j \in Jobs : Is(j, "bulkDelete") => Batch(j)

\* A bulk edit has dealt with the accounts behind it.
Dealt(j, i) ==
  IF job[j].admin
  THEN /\ job[j].enable # None => Did(j, i, "enable")
       /\ team[j] # None => Did(j, i, "join")
  ELSE team[j] # None => /\ Proposed(j, i)
                         /\ \E e \in audit : e.by = j /\ e.about = i

Edit(j) ==
  /\ \A i \in Behind(j) : Dealt(j, i)
  /\ pc[j] \in {"leave", "join", "attribute"} /\ job[j].enable # None
       => Did(j, Target(j), "enable")
  /\ At(j, "attribute") => Did(j, Target(j), "join")
  /\ At(j, "auditProposal") => Proposed(j, Target(j))
  /\ Succeeded(j) /\ job[j].admin => EntryOf(j, "success") \in audit
  /\ EntryOf(j, "success") \in audit
       => /\ job[j].admin /\ Closed(j)
          /\ todo[j] = <<>> \/ (team[j] = None /\ job[j].enable = None)

EditInv == \A j \in Jobs : Is(j, "bulkEdit") => Edit(j)

UInv ==
  /\ TypeOK /\ KindInv /\ TodoInv /\ BirthInv /\ TurnInv /\ GoneInv
  /\ RecordInv /\ HistoryTrue /\ TraceInv /\ BatchInv /\ EditInv

----------------------------------------------------------------------------
\* What the requests may ask for.
LEMMA TaskFacts ==
  ASSUME TypeOK, NEW j \in Jobs
  PROVE  /\ job[j] \in Tasks /\ job[j] \in Task
         /\ job[j].targets \in Seq(Ids)
         /\ job[j].kind \in Kind /\ job[j].admin \in BOOLEAN
         /\ job[j].name \in Names /\ job[j].team \in Teams \cup {None}
         /\ job[j].enable \in BOOLEAN \cup {None}
         /\ Is(j, "create") <=> job[j].targets = <<>>
         /\ job[j].kind \in {"delete", "password"} => Len(job[j].targets) = 1
         /\ Deletes(j) \/ Is(j, "password") => job[j].admin
<1>1. job[j] \in Tasks /\ job[j] \in Task
  BY TasksAssumption DEF TypeOK
<1> QED
  BY <1>1, TasksAssumption DEF Task, Is, Deletes

\* The names of things and of places are distinct.
LEMMA NamesDiffer ==
  /\ None \notin Ids /\ None \notin Jobs /\ None \notin Names
  /\ None \notin Teams /\ None \notin BOOLEAN
  /\ Jobs \subseteq Ids /\ Old \subseteq Ids /\ Old \cap Jobs = {}
  /\ TopTeams \subseteq Teams /\ NestedTeams \subseteq Teams
  /\ "old" \notin Jobs /\ "none" \notin Jobs /\ "update" \notin Jobs
BY TasksAssumption DEF Ids, Teams

\* The account a handler is at.
LEMMA Here ==
  ASSUME TypeOK, NEW j \in Jobs
  PROVE  /\ Is(j, "create") => Target(j) = j
         /\ ~Is(j, "create") /\ todo[j] # <<>>
              => Target(j) = todo[j][1] /\ Target(j) \in Ahead(j)
         /\ Is(j, "create") \/ todo[j] # <<>> => Target(j) \in Ids
         /\ Ahead(j) \subseteq Ids
         /\ todo[j] = <<>> => Ahead(j) = {}
<1>1. todo[j] \in Seq(Ids)
  BY DEF TypeOK
<1>2. ASSUME todo[j] # <<>>
      PROVE  Head(todo[j]) = todo[j][1] /\ 1 \in 1..Len(todo[j])
             /\ Head(todo[j]) \in Ids
  BY <1>1, <1>2
<1>3. Ahead(j) \subseteq Ids
  BY <1>1 DEF Ahead
<1> QED
  BY <1>2, <1>3, NamesDiffer DEF Target, Ahead

LEMMA AheadKept ==
  ASSUME NEW j, todo'[j] = todo[j]
  PROVE  Ahead(j)' = Ahead(j)
BY DEF Ahead

\* The loop of a batch goes on: one account less, then the next call.
Moved(j) ==
  /\ todo[j] # <<>> /\ (Is(j, "bulkDelete") \/ Is(j, "bulkEdit"))
  /\ Ahead(j)' = Ahead(j) \ {Target(j)}
  /\ \E q \in Control, t \in Seq(Ids) :
       /\ pc' = [pc EXCEPT ![j] = q]
       /\ todo' = [todo EXCEPT ![j] = t]
       /\ \A m, n \in 1..Len(t) : t[m] = t[n] => m = n
       /\ \/ t # <<>> /\ q = CallFor(j, team[j])
          \/ /\ t = <<>>
             /\ q = IF Is(j, "bulkEdit") /\ job[j].admin THEN "audit"
                                                        ELSE "answer"

MoveStep(j) ==
  \/ SetEnabled(j) \/ SetAttribute(j) \/ Propose(j) \/ AuditProposal(j)
  \/ ReadTarget(j) \/ TargetError(j) \/ Audit(j) \/ AuditLost(j)
  \/ AuditFailure(j)

\* Where a step of the kind above is none of a loop.
Apart(j) ==
  \/ At(j, "audit") /\ ~Is(j, "bulkDelete")
  \/ At(j, "auditProposal") /\ Is(j, "create")
  \/ pc[j] \in {"target", "auditFailure"} /\ ~Is(j, "bulkDelete")

LEMMA CallType ==
  ASSUME TypeOK, NEW j \in Jobs, NEW t
  PROVE  CallFor(j, t) \in Control
BY DEF CallFor, Control, Flying

LEMMA CallIs ==
  ASSUME TypeOK, NEW j \in Jobs, NEW t
  PROVE  /\ CallFor(j, t) \in {"post", "password", "target", "propose", "enable",
                              "leave", "audit"}
         /\ Is(j, "create") => CallFor(j, t) = "post"
         /\ Is(j, "password") => CallFor(j, t) = "password"
         /\ Deletes(j) => CallFor(j, t) = "target"
         /\ Is(j, "bulkEdit") =>
              /\ ~job[j].admin => CallFor(j, t) = "propose"
              /\ job[j].admin => CallFor(j, t) \in {"enable", "leave", "audit"}
              /\ CallFor(j, t) = "enable" => job[j].enable # None
              /\ CallFor(j, t) = "leave" => t # None /\ job[j].enable = None
              /\ CallFor(j, t) = "audit" => t = None /\ job[j].enable = None
BY TaskFacts DEF CallFor, Is, Deletes, Kind

LEMMA Moves ==
  ASSUME TypeOK, TodoInv, NEW j \in Jobs, NextTarget(j), todo[j] # <<>>,
         Is(j, "bulkDelete") \/ Is(j, "bulkEdit")
  PROVE  Moved(j)
<1> DEFINE s == todo[j]
           t == Tail(s)
<1>1. s \in Seq(Ids) /\ s # <<>>
  BY DEF TypeOK
<1>0. \A q \in Seq(Ids) : q = <<>> <=> Len(q) = 0
  BY EmptySeq
<1>2. /\ Head(s) \in Ids /\ t \in Seq(Ids) /\ Len(t) = Len(s) - 1
      /\ \A i \in 1..Len(t) : t[i] = s[i + 1]
      /\ Head(s) = s[1] /\ Len(s) \in Nat \ {0}
  BY <1>1, HeadTailProperties, LenProperties
<1>3. todo' = [todo EXCEPT ![j] = t] /\ todo'[j] = t
  BY DEF NextTarget, TypeOK
<1>4. todo' \in [Jobs -> Seq(Ids)]
  BY <1>2, <1>3 DEF TypeOK
<1>5. \A m, n \in 1..Len(s) : s[m] = s[n] => m = n
  BY DEF TodoInv
<1>8. /\ Ahead(j)' = {t[n] : n \in 1..Len(t)}
      /\ Ahead(j) = {s[n] : n \in 1..Len(s)}
      /\ Target(j) = s[1]
  BY <1>2, <1>3 DEF Ahead, Target, Is
<1> DEFINE q == CASE Len(s) > 1 -> CallFor(j, team[j])
                  [] Is(j, "bulkEdit") /\ job[j].admin /\ Len(s) = 1 -> "audit"
                  [] OTHER -> "answer"
<1>11. pc' = [pc EXCEPT ![j] = q]
  BY DEF NextTarget, Goto
<1>12. \/ Len(s) > 1 /\ q = CallFor(j, team[j])
       \/ /\ ~(Len(s) > 1)
          /\ q = IF Is(j, "bulkEdit") /\ job[j].admin /\ Len(s) = 1
                 THEN "audit" ELSE "answer"
  <2>1. CASE Len(s) > 1
    BY SMTT(60), <1>2, <2>1
  <2>2. CASE ~(Len(s) > 1) /\ Is(j, "bulkEdit") /\ job[j].admin /\ Len(s) = 1
    BY <1>2, <2>2
  <2>3. CASE ~(Len(s) > 1) /\ ~(Is(j, "bulkEdit") /\ job[j].admin /\ Len(s) = 1)
    BY <2>3
  <2> QED
    BY <2>1, <2>2, <2>3
<1>13. q \in Control
  BY <1>12, CallType DEF Control, Flying
<1> HIDE DEF s, t, q
<1>9. Len(s) > 1 <=> t # <<>>
  <2>1. Len(s) > 1 <=> Len(t) # 0
    BY <1>2
  <2> QED
    BY <1>0, <1>2, <2>1
<1>10. ~(Len(s) > 1) => Len(s) = 1
  BY <1>2
<1>6. \A m, n \in 1..Len(t) : t[m] = t[n] => m = n
  <2> SUFFICES ASSUME NEW m \in 1..Len(t), NEW n \in 1..Len(t), t[m] = t[n]
               PROVE  m = n
    OBVIOUS
  <2>1. m + 1 \in 1..Len(s) /\ n + 1 \in 1..Len(s)
    BY <1>2
  <2>2. s[m + 1] = s[n + 1]
    BY <1>2
  <2> QED
    BY <2>1, <2>2, <1>5
<1>7. {t[n] : n \in 1..Len(t)} = {s[n] : n \in 1..Len(s)} \ {s[1]}
  <2>1. ASSUME NEW n \in 1..Len(t)
        PROVE  t[n] \in {s[k] : k \in 1..Len(s)} \ {s[1]}
    <3>1. n + 1 \in 1..Len(s) /\ 1 \in 1..Len(s) /\ n + 1 # 1
      BY <1>2
    <3>2. t[n] = s[n + 1] /\ s[n + 1] # s[1]
      BY <1>2, <1>5, <3>1
    <3> QED
      BY <3>1, <3>2
  <2>2. ASSUME NEW n \in 1..Len(s), s[n] # s[1]
        PROVE  s[n] \in {t[k] : k \in 1..Len(t)}
    <3>1. n - 1 \in 1..Len(t) /\ t[n - 1] = s[n]
      BY <1>2, <2>2
    <3> QED
      BY <3>1
  <2> QED
    BY <2>1, <2>2
<1>14. Ahead(j)' = Ahead(j) \ {Target(j)}
  BY <1>7, <1>8
<1>15. \/ t # <<>> /\ q = CallFor(j, team[j])
       \/ /\ t = <<>>
          /\ q = IF Is(j, "bulkEdit") /\ job[j].admin THEN "audit" ELSE "answer"
  BY <1>9, <1>10, <1>12
<1> QED
  BY <1>1, <1>2, <1>3, <1>6, <1>11, <1>13, <1>14, <1>15 DEF Moved

LEMMA MovedType ==
  ASSUME TypeOK, NEW j \in Jobs, Moved(j)
  PROVE  todo' \in [Jobs -> Seq(Ids)] /\ pc' \in [Jobs -> Control]
<1>1. pc \in [Jobs -> Control] /\ todo \in [Jobs -> Seq(Ids)]
  BY DEF TypeOK
<1> QED
  BY <1>1 DEF Moved

LEMMA MovedTodo ==
  ASSUME TypeOK, TodoInv, NEW j \in Jobs, Moved(j), UNCHANGED <<job, team>>
  PROVE  TodoInv'
<1> SUFFICES ASSUME NEW k \in Jobs PROVE TodoInv!(k)'
  BY DEF TodoInv
<1>1. CASE k # j
  <2>1. todo'[k] = todo[k] /\ pc'[k] = pc[k] /\ Ahead(k)' = Ahead(k)
    BY <1>1, AheadKept DEF Moved, TypeOK
  <2> QED
    BY <2>1 DEF TodoInv, TargetsOf, Closed, At, Is, Deletes, Succeeded
<1>2. CASE k = j
  <2>1. PICK q \in Control, t \in Seq(Ids) :
               Moved(j)!3!(q, t)
    BY DEF Moved
  <2>2. pc'[j] = q /\ todo'[j] = t
    BY <2>1 DEF TypeOK
  <2> QED
    BY <1>2, <2>1, <2>2, TaskFacts DEF Moved, TodoInv, TargetsOf, Closed, At,
         Is, Deletes, Succeeded, CallFor
<1> QED
  BY <1>1, <1>2

LEMMA MoveSound ==
  ASSUME TypeOK, KindInv, TodoInv, NEW j \in Jobs, MoveStep(j), NextTarget(j)
  PROVE  Moved(j) \/ Apart(j)
<1>1. pc'[j] # "auditProposal"
  BY DEF NextTarget, Goto, CallFor, TypeOK
<1>2. /\ pc[j] \in {"enable", "attribute", "propose", "auditProposal",
                   "target", "audit", "auditFailure"}
      /\ At(j, "propose") => Propose(j)
  BY DEF MoveStep, SetEnabled, SetAttribute, AuditProposal, ReadTarget,
       TargetError, Audit, AuditLost, AuditFailure, At, Propose
<1>3. CASE Is(j, "create")
  <2>1. ~At(j, "propose")
    BY <1>1, <1>2, <1>3 DEF Propose, KindInv, Goto, At, TypeOK
  <2>2. pc[j] \notin {"enable", "attribute", "target", "auditFailure"}
    BY <1>3 DEF KindInv, Is, Deletes
  <2> QED
    BY <1>2, <1>3, <2>1, <2>2 DEF Apart, At, Is
<1>4. CASE ~Is(j, "create") /\ ~Apart(j)
  <2>1. todo[j] # <<>>
    BY <1>2, <1>4 DEF TodoInv, At, Closed, Is, Deletes, Apart
  <2>2. Is(j, "bulkDelete") \/ Is(j, "bulkEdit")
    BY <1>2, <1>4 DEF KindInv, At, Is, Apart
  <2> QED
    BY <1>4, <2>1, <2>2, Moves
<1> QED
  BY <1>3, <1>4

\* At every call but the first ones and the last the handler has an account.
Placed(j) ==
  /\ Target(j) \in Ids
  /\ ~Is(j, "create") => /\ todo[j] # <<>>
                         /\ Target(j) \in Ahead(j) /\ Target(j) \in TargetsOf(j)

LEMMA HereNow ==
  ASSUME TypeOK, KindInv, TodoInv, NEW j \in Jobs, ~Closed(j),
         pc[j] = "audit" => ~Is(j, "bulkEdit")
  PROVE  Placed(j)
<1>1. Is(j, "create") \/ todo[j] # <<>>
  BY TaskFacts DEF TodoInv, At, Closed, Is, Deletes, Kind
<1> QED
  BY <1>1, Here DEF Placed, TodoInv

\* No step changes what was asked for.
LEMMA JobKept ==
  ASSUME [Next]_vars
  PROVE  job' = job /\ \A k : TargetsOf(k)' = TargetsOf(k)
<1>1. job' = job
  BY DEF Next, Start, FindTeam, Post, FallBack, PostBare, Created, Fetch,
       SetEnabled, Leave, Join, SetAttribute, Propose, AuditProposal,
       ReadTarget, TargetError, Delete, Record, SetPassword, Lookup,
       CallError, Audit, AuditLost, AuditFailure, Answer, Fail, vars
<1> QED
  BY <1>1 DEF TargetsOf

\* A handler deals with accounts that have been made.
LEMMA TargetBorn ==
  ASSUME BirthInv, NEW j \in Jobs, Placed(j),
         ~Early(j) /\ ~At(j, "failed")
  PROVE  \A i \in Jobs : ~Did(i, i, "create") => i # Target(j)
BY DEF BirthInv, Placed, Target, Is, Early, At

Step(j) ==
  \/ Start(j) \/ FindTeam(j) \/ Post(j) \/ FallBack(j) \/ PostBare(j) \/ Fetch(j)
  \/ SetEnabled(j) \/ Leave(j) \/ Join(j) \/ SetAttribute(j)
  \/ Propose(j) \/ AuditProposal(j)
  \/ ReadTarget(j) \/ TargetError(j) \/ Delete(j) \/ Record(j)
  \/ SetPassword(j) \/ Lookup(j)
  \/ CallError(j) \/ Audit(j) \/ AuditLost(j) \/ AuditFailure(j)
  \/ Answer(j) \/ Fail(j)


\* A step keeps the types.
LEMMA TypeStep == TypeOK /\ KindInv /\ TodoInv /\ [Next]_vars => TypeOK'
<1> SUFFICES ASSUME TypeOK, KindInv, TodoInv, [Next]_vars PROVE TypeOK'
  OBVIOUS
<1>1. ASSUME NEW j \in Jobs, Start(j) PROVE TypeOK'
  <2>1. Placed(j)
    BY <1>1, HereNow DEF Start, At, Closed, Is
  <2> QED
    BY TaskFacts, NamesDiffer, <1>1, <2>1, Here DEF Start, keycloak, s3,
         local, history, Goto, At, Is, TypeOK, KindInv, Control, Flying,
         Kind, Make, CallFor, EntryOf, ActionOf, Entry, Effect, Write,
         Action, Closed, Placed
<1>2. ASSUME NEW j \in Jobs, FindTeam(j) PROVE TypeOK'
  BY TaskFacts, NamesDiffer, <1>2, Here DEF FindTeam, Searched, keycloak, s3,
       local, history, Goto, At, Is, TypeOK, KindInv, Control, Flying, Kind,
       Make, CallFor, EntryOf, ActionOf, Entry, Effect, Write, Action, Closed
<1>3. ASSUME NEW j \in Jobs, Post(j) PROVE TypeOK'
  BY TaskFacts, NamesDiffer, <1>3, Here DEF Post, Created, keycloak, s3,
       local, history, Goto, At, Is, TypeOK, KindInv, Control, Flying, Kind,
       Make, CallFor, EntryOf, ActionOf, Entry, Effect, Write, Action, Closed
<1>4. ASSUME NEW j \in Jobs, FallBack(j) PROVE TypeOK'
  BY TaskFacts, NamesDiffer, <1>4, Here DEF FallBack, keycloak, s3, local,
       history, Goto, At, Is, TypeOK, KindInv, Control, Flying, Kind, Make,
       CallFor, EntryOf, ActionOf, Entry, Effect, Write, Action, Closed
<1>5. ASSUME NEW j \in Jobs, PostBare(j) PROVE TypeOK'
  BY TaskFacts, NamesDiffer, <1>5, Here DEF PostBare, Created, keycloak, s3,
       local, history, Goto, At, Is, TypeOK, KindInv, Control, Flying, Kind,
       Make, CallFor, EntryOf, ActionOf, Entry, Effect, Write, Action, Closed
<1>6. ASSUME NEW j \in Jobs, Fetch(j) PROVE TypeOK'
  BY TaskFacts, NamesDiffer, <1>6, Here DEF Fetch, keycloak, s3, local,
       history, Goto, At, Is, TypeOK, KindInv, Control, Flying, Kind, Make,
       CallFor, EntryOf, ActionOf, Entry, Effect, Write, Action, Closed
<1>7. ASSUME NEW j \in Jobs, SetEnabled(j) PROVE TypeOK'
  <2>1. Placed(j)
    BY <1>7, HereNow DEF SetEnabled, At, Closed, Is
  <2>2. NextTarget(j) => Moved(j) \/ Apart(j)
    BY <1>7, MoveSound DEF MoveStep
  <2>3. todo' \in [Jobs -> Seq(Ids)] /\ pc' \in [Jobs -> Control]
    <3>1. pc \in [Jobs -> Control] /\ todo \in [Jobs -> Seq(Ids)]
      BY DEF TypeOK
    <3>2. Moved(j) => todo' \in [Jobs -> Seq(Ids)] /\ pc' \in [Jobs -> Control]
      BY MovedType
    <3> QED
      BY <1>7, <2>2, <3>1, <3>2 DEF SetEnabled, Apart, At, Is, Goto, Control,
           Flying
  <2>4. enabled' \in [Ids -> BOOLEAN] /\ made' \subseteq Effect
    BY <1>7, <2>1, TaskFacts DEF SetEnabled, Make, Placed, Effect, TypeOK,
         KindInv, At
  <2>5. UNCHANGED <<name, teams, attribute, credential, audit, log,
                    proposals, job, team, skipped, hidden, lost, noted,
                    mixed>>
    BY <1>7 DEF SetEnabled, keycloak, s3, local, history
  <2> QED
    BY <2>3, <2>4, <2>5 DEF TypeOK
<1>8. ASSUME NEW j \in Jobs, Leave(j) PROVE TypeOK'
  <2>1. Placed(j)
    BY <1>8, HereNow DEF Leave, At, Closed, Is
  <2> QED
    BY TaskFacts, NamesDiffer, <1>8, <2>1, Here DEF Leave, keycloak, s3,
         local, history, Goto, At, Is, TypeOK, KindInv, Control, Flying,
         Kind, Make, CallFor, EntryOf, ActionOf, Entry, Effect, Write,
         Action, Closed, Placed
<1>9. ASSUME NEW j \in Jobs, Join(j) PROVE TypeOK'
  <2>1. Placed(j)
    BY <1>9, HereNow DEF Join, At, Closed, Is
  <2> QED
    BY TaskFacts, NamesDiffer, <1>9, <2>1, Here DEF Join, keycloak, s3,
         local, history, Goto, At, Is, TypeOK, KindInv, Control, Flying,
         Kind, Make, CallFor, EntryOf, ActionOf, Entry, Effect, Write,
         Action, Closed, Placed
<1>10. ASSUME NEW j \in Jobs, SetAttribute(j) PROVE TypeOK'
  <2>1. Placed(j)
    BY <1>10, HereNow DEF SetAttribute, At, Closed, Is
  <2>2. NextTarget(j) => Moved(j) \/ Apart(j)
    BY <1>10, MoveSound DEF MoveStep
  <2>3. todo' \in [Jobs -> Seq(Ids)] /\ pc' \in [Jobs -> Control]
    <3>1. pc \in [Jobs -> Control] /\ todo \in [Jobs -> Seq(Ids)]
      BY DEF TypeOK
    <3>2. Moved(j) => todo' \in [Jobs -> Seq(Ids)] /\ pc' \in [Jobs -> Control]
      BY MovedType
    <3> QED
      BY <1>10, <2>2, <3>1, <3>2 DEF SetAttribute, Apart, At, Is, Goto,
           Control, Flying
  <2>4. attribute' \in [Ids -> Teams \cup {None}]
    BY <1>10, <2>1 DEF SetAttribute, TypeOK
  <2>5. UNCHANGED <<name, enabled, teams, credential, audit, log, proposals,
                    job, team, skipped, made, hidden, lost, noted, mixed>>
    BY <1>10 DEF SetAttribute, keycloak, s3, local, history
  <2> QED
    BY <2>3, <2>4, <2>5 DEF TypeOK
<1>11. ASSUME NEW j \in Jobs, Propose(j) PROVE TypeOK'
  <2>1. Placed(j)
    BY <1>11, HereNow DEF Propose, At, Closed, Is
  <2>2. NextTarget(j) => Moved(j) \/ Apart(j)
    BY <1>11, MoveSound DEF MoveStep
  <2>3. todo' \in [Jobs -> Seq(Ids)] /\ pc' \in [Jobs -> Control]
    <3>1. pc \in [Jobs -> Control] /\ todo \in [Jobs -> Seq(Ids)]
      BY DEF TypeOK
    <3>2. Moved(j) => todo' \in [Jobs -> Seq(Ids)] /\ pc' \in [Jobs -> Control]
      BY MovedType
    <3> QED
      BY <1>11, <2>2, <3>1, <3>2 DEF Propose, Apart, At, Is, Goto, Control,
           Flying
  <2>4. proposals' \subseteq Write
    BY <1>11, <2>1 DEF Propose, Placed, Write, TypeOK
  <2>5. UNCHANGED <<name, enabled, teams, attribute, credential, audit, log,
                    job, team, skipped, made, hidden, lost, noted, mixed>>
    BY <1>11 DEF Propose, keycloak, s3, local, history
  <2> QED
    BY <2>3, <2>4, <2>5 DEF TypeOK
<1>12. ASSUME NEW j \in Jobs, AuditProposal(j) PROVE TypeOK'
  <2>1. Placed(j)
    BY <1>12, HereNow DEF AuditProposal, At, Closed, Is
  <2>2. NextTarget(j) => Moved(j) \/ Apart(j)
    BY <1>12, MoveSound DEF MoveStep
  <2>3. todo' \in [Jobs -> Seq(Ids)] /\ pc' \in [Jobs -> Control]
    <3>1. pc \in [Jobs -> Control] /\ todo \in [Jobs -> Seq(Ids)]
      BY DEF TypeOK
    <3>2. Moved(j) => todo' \in [Jobs -> Seq(Ids)] /\ pc' \in [Jobs -> Control]
      BY MovedType
    <3> QED
      BY <1>12, <2>2, <3>1, <3>2 DEF AuditProposal, Apart, At, Is, Goto,
           Control, Flying
  <2>4. audit' \subseteq Entry
    BY <1>12, <2>1 DEF AuditProposal, Placed, Entry, Action, TypeOK
  <2>5. UNCHANGED <<name, enabled, teams, attribute, credential, log,
                    proposals, job, team, skipped, made, hidden, lost,
                    noted, mixed>>
    BY <1>12 DEF AuditProposal, keycloak, s3, local, history
  <2> QED
    BY <2>3, <2>4, <2>5 DEF TypeOK
<1>13. ASSUME NEW j \in Jobs, ReadTarget(j) PROVE TypeOK'
  <2>1. Placed(j)
    BY <1>13, HereNow DEF ReadTarget, At, Closed, Is
  <2>2. NextTarget(j) => Moved(j) \/ Apart(j)
    BY <1>13, MoveSound DEF MoveStep
  <2>3. todo' \in [Jobs -> Seq(Ids)] /\ pc' \in [Jobs -> Control]
    <3>1. pc \in [Jobs -> Control] /\ todo \in [Jobs -> Seq(Ids)]
      BY DEF TypeOK
    <3>2. Moved(j) => todo' \in [Jobs -> Seq(Ids)] /\ pc' \in [Jobs -> Control]
      BY MovedType
    <3> QED
      BY <1>13, <2>2, <3>1, <3>2 DEF ReadTarget, Skip, Apart, At, Is, Goto,
           Control, Flying
  <2>4. skipped' \in [Jobs -> SUBSET Ids]
    <3>1. \/ UNCHANGED skipped
          \/ skipped' = [skipped EXCEPT ![j] = skipped[j] \cup {Target(j)}]
      BY <1>13 DEF ReadTarget, Skip
    <3>2. skipped \in [Jobs -> SUBSET Ids] /\ Target(j) \in Ids
      BY <2>1 DEF Placed, TypeOK
    <3> QED
      BY <3>1, <3>2
  <2>5. UNCHANGED <<name, enabled, teams, attribute, credential, audit, log,
                    proposals, job, team, made, hidden, lost, noted,
                    mixed>>
    BY <1>13 DEF ReadTarget, Skip, keycloak, s3, local, history
  <2> QED
    BY <2>3, <2>4, <2>5 DEF TypeOK
<1>14. ASSUME NEW j \in Jobs, TargetError(j) PROVE TypeOK'
  <2>1. Placed(j)
    BY <1>14, HereNow DEF TargetError, At, Closed, Is
  <2>2. NextTarget(j) => Moved(j) \/ Apart(j)
    BY <1>14, MoveSound DEF MoveStep
  <2>3. todo' \in [Jobs -> Seq(Ids)] /\ pc' \in [Jobs -> Control]
    <3>1. pc \in [Jobs -> Control] /\ todo \in [Jobs -> Seq(Ids)]
      BY DEF TypeOK
    <3>2. Moved(j) => todo' \in [Jobs -> Seq(Ids)] /\ pc' \in [Jobs -> Control]
      BY MovedType
    <3> QED
      BY <1>14, <2>2, <3>1, <3>2 DEF TargetError, Skip, Apart, At, Is, Goto,
           Control, Flying
  <2>4. skipped' \in [Jobs -> SUBSET Ids]
    BY <1>14, <2>1 DEF TargetError, Skip, Placed, TypeOK
  <2>5. UNCHANGED <<name, enabled, teams, attribute, credential, audit, log,
                    proposals, job, team, made, hidden, lost, noted,
                    mixed>>
    BY <1>14 DEF TargetError, Skip, keycloak, s3, local, history
  <2> QED
    BY <2>3, <2>4, <2>5 DEF TypeOK
<1>15. ASSUME NEW j \in Jobs, Delete(j) PROVE TypeOK'
  <2>1. Placed(j)
    BY <1>15, HereNow DEF Delete, At, Closed, Is
  <2> QED
    BY TaskFacts, NamesDiffer, <1>15, <2>1, Here DEF Delete, Gone, keycloak,
         s3, local, history, Goto, At, Is, TypeOK, KindInv, Control, Flying,
         Kind, Make, CallFor, EntryOf, ActionOf, Entry, Effect, Write,
         Action, Closed, Placed
<1>16. ASSUME NEW j \in Jobs, Record(j) PROVE TypeOK'
  <2>1. Placed(j)
    BY <1>16, HereNow DEF Record, At, Closed, Is
  <2> QED
    BY TaskFacts, NamesDiffer, <1>16, <2>1, Here DEF Record, keycloak, s3,
         local, history, Goto, At, Is, TypeOK, KindInv, Control, Flying,
         Kind, Make, CallFor, EntryOf, ActionOf, Entry, Effect, Write,
         Action, Closed, Placed
<1>17. ASSUME NEW j \in Jobs, SetPassword(j) PROVE TypeOK'
  <2>1. Placed(j)
    BY <1>17, HereNow DEF SetPassword, At, Closed, Is
  <2> QED
    BY TaskFacts, NamesDiffer, <1>17, <2>1, Here DEF SetPassword, keycloak,
         s3, local, history, Goto, At, Is, TypeOK, KindInv, Control, Flying,
         Kind, Make, CallFor, EntryOf, ActionOf, Entry, Effect, Write,
         Action, Closed, Placed
<1>18. ASSUME NEW j \in Jobs, Lookup(j) PROVE TypeOK'
  <2>1. Placed(j)
    BY <1>18, HereNow DEF Lookup, At, Closed, Is
  <2> QED
    BY TaskFacts, NamesDiffer, <1>18, <2>1, Here DEF Lookup, keycloak, s3,
         local, history, Goto, At, Is, TypeOK, KindInv, Control, Flying,
         Kind, Make, CallFor, EntryOf, ActionOf, Entry, Effect, Write,
         Action, Closed, Placed
<1>19. ASSUME NEW j \in Jobs, CallError(j) PROVE TypeOK'
  <2>1. Placed(j)
    BY <1>19, HereNow DEF CallError, At, Closed, Is
  <2>2. pc' \in [Jobs -> Control]
    BY <1>19 DEF CallError, Goto, TypeOK, Control, Flying
  <2>3. /\ name' \in [Ids -> Names \cup {None}] /\ enabled' \in [Ids -> BOOLEAN]
        /\ teams' \in [Ids -> SUBSET Teams]
        /\ attribute' \in [Ids -> Teams \cup {None}]
        /\ credential' \in [Ids -> Jobs \cup {"old", "none", "update"}]
    BY <1>19 DEF CallError, Gone, keycloak, TypeOK
  <2>4. made' \subseteq Effect /\ hidden' \subseteq Write
    BY <1>19, <2>1 DEF CallError, Make, Placed, Effect, Write, TypeOK
  <2>5. UNCHANGED <<s3, job, local, lost, noted, mixed>>
    BY <1>19 DEF CallError
  <2> QED
    BY <2>2, <2>3, <2>4, <2>5 DEF TypeOK, s3, local
<1>20. ASSUME NEW j \in Jobs, Audit(j) PROVE TypeOK'
  <2>1. Is(j, "bulkEdit") \/ Placed(j)
    BY <1>20, HereNow DEF Audit, At, Closed, Is
  <2>2. NextTarget(j) => Moved(j) \/ Apart(j)
    BY <1>20, MoveSound DEF MoveStep
  <2>3. todo' \in [Jobs -> Seq(Ids)] /\ pc' \in [Jobs -> Control]
    <3>1. pc \in [Jobs -> Control] /\ todo \in [Jobs -> Seq(Ids)]
      BY DEF TypeOK
    <3>2. Moved(j) => todo' \in [Jobs -> Seq(Ids)] /\ pc' \in [Jobs -> Control]
      BY MovedType
    <3> QED
      BY <1>20, <2>2, <3>1, <3>2 DEF Audit, Apart, At, Is, Goto, Control,
           Flying
  <2>4. audit' \subseteq Entry /\ noted' \in [Ids -> Jobs \cup {None}]
    <3>1. EntryOf(j, "success") \in Entry
      BY <2>1, TaskFacts DEF EntryOf, ActionOf, Entry, Action, Kind, Is,
           Placed
    <3> QED
      BY <1>20, <2>1, <3>1 DEF Audit, Is, Placed, TypeOK
  <2>5. UNCHANGED <<name, enabled, teams, attribute, credential, log,
                    proposals, job, team, skipped, made, hidden, lost,
                    mixed>>
    BY <1>20 DEF Audit, keycloak, s3, local, history
  <2> QED
    BY <2>3, <2>4, <2>5 DEF TypeOK
<1>21. ASSUME NEW j \in Jobs, AuditLost(j) PROVE TypeOK'
  <2>1. Placed(j)
    BY <1>21, HereNow DEF AuditLost, At, Closed, Is
  <2>2. NextTarget(j) => Moved(j) \/ Apart(j)
    BY <1>21, MoveSound DEF MoveStep
  <2>3. todo' \in [Jobs -> Seq(Ids)] /\ pc' \in [Jobs -> Control]
    <3>1. pc \in [Jobs -> Control] /\ todo \in [Jobs -> Seq(Ids)]
      BY DEF TypeOK
    <3>2. Moved(j) => todo' \in [Jobs -> Seq(Ids)] /\ pc' \in [Jobs -> Control]
      BY MovedType
    <3> QED
      BY <1>21, <2>2, <3>1, <3>2 DEF AuditLost, Apart, At, Is, Goto, Control,
           Flying
  <2>4. lost' \subseteq Write \cup Entry
    <3>1. EntryOf(j, "success") \in Entry
      BY <2>1, TaskFacts DEF EntryOf, ActionOf, Entry, Action, Kind, Is,
           Placed
    <3> QED
      BY <1>21, <3>1 DEF AuditLost, TypeOK
  <2>5. UNCHANGED <<name, enabled, teams, attribute, credential, audit, log,
                    proposals, job, team, skipped, made, hidden, noted,
                    mixed>>
    BY <1>21 DEF AuditLost, keycloak, s3, local, history
  <2> QED
    BY <2>3, <2>4, <2>5 DEF TypeOK
<1>22. ASSUME NEW j \in Jobs, AuditFailure(j) PROVE TypeOK'
  <2>1. Placed(j)
    BY <1>22, HereNow DEF AuditFailure, At, Closed, Is
  <2>2. NextTarget(j) => Moved(j) \/ Apart(j)
    BY <1>22, MoveSound DEF MoveStep
  <2>3. todo' \in [Jobs -> Seq(Ids)] /\ pc' \in [Jobs -> Control]
    <3>1. pc \in [Jobs -> Control] /\ todo \in [Jobs -> Seq(Ids)]
      BY DEF TypeOK
    <3>2. Moved(j) => todo' \in [Jobs -> Seq(Ids)] /\ pc' \in [Jobs -> Control]
      BY MovedType
    <3> QED
      BY <1>22, <2>2, <3>1, <3>2 DEF AuditFailure, Skip, Apart, At, Is, Goto,
           Control, Flying
  <2>4. audit' \subseteq Entry /\ lost' \subseteq Write \cup Entry /\ skipped' \in [Jobs -> SUBSET Ids]
    <3>1. EntryOf(j, "failure") \in Entry
      BY <2>1, TaskFacts DEF EntryOf, ActionOf, Entry, Action, Kind, Is,
           Placed
    <3>2. \/ UNCHANGED skipped
          \/ skipped' = [skipped EXCEPT ![j] = skipped[j] \cup {Target(j)}]
      BY <1>22 DEF AuditFailure, Skip
    <3>4. skipped \in [Jobs -> SUBSET Ids] /\ Target(j) \in Ids
      BY <2>1 DEF Placed, TypeOK
    <3>3. audit' \subseteq Entry /\ lost' \subseteq Write \cup Entry
      BY <1>22, <3>1 DEF AuditFailure, TypeOK
    <3> QED
      BY <3>2, <3>3, <3>4
  <2>5. UNCHANGED <<name, enabled, teams, attribute, credential, log,
                    proposals, job, team, made, hidden, noted, mixed>>
    BY <1>22 DEF AuditFailure, Skip, keycloak, s3, local, history
  <2> QED
    BY <2>3, <2>4, <2>5 DEF TypeOK
<1>23. ASSUME NEW j \in Jobs, Answer(j) PROVE TypeOK'
  BY TaskFacts, NamesDiffer, <1>23, Here DEF Answer, keycloak, s3, local,
       history, Goto, At, Is, TypeOK, KindInv, Control, Flying, Kind, Make,
       CallFor, EntryOf, ActionOf, Entry, Effect, Write, Action, Closed
<1>24. ASSUME NEW j \in Jobs, Fail(j) PROVE TypeOK'
  BY TaskFacts, NamesDiffer, <1>24, Here DEF Fail, keycloak, s3, local,
       history, Goto, At, Is, TypeOK, KindInv, Control, Flying, Kind, Make,
       CallFor, EntryOf, ActionOf, Entry, Effect, Write, Action, Closed
<1>25. CASE UNCHANGED vars
  BY TaskFacts, NamesDiffer, <1>25 DEF vars, keycloak, s3, local, history,
       At, Is, TypeOK, KindInv, Control, Flying, Kind, Make, CallFor,
       EntryOf, ActionOf, Entry, Effect, Write, Action, Closed
<1> QED
  BY <1>1, <1>2, <1>3, <1>4, <1>5, <1>6, <1>7, <1>8, <1>9, <1>10, <1>11,
       <1>12, <1>13, <1>14, <1>15, <1>16, <1>17, <1>18, <1>19, <1>20, <1>21,
       <1>22, <1>23, <1>24, <1>25 DEF Next

\* A step leads where its handler may be.
LEMMA KindStep == TypeOK /\ KindInv /\ TodoInv /\ [Next]_vars => KindInv'
<1> SUFFICES ASSUME TypeOK, KindInv, TodoInv, [Next]_vars PROVE KindInv'
  OBVIOUS
<1>1. ASSUME NEW j \in Jobs, Start(j) PROVE KindInv'
  <2>1. Placed(j)
    BY <1>1, HereNow DEF Start, At, Closed, Is
  <2> QED
    BY TaskFacts, NamesDiffer, <1>1, <2>1, Here DEF Start, keycloak, s3,
         local, history, Goto, At, Is, TypeOK, KindInv, Kind, Deletes,
         CallFor, Placed
<1>2. ASSUME NEW j \in Jobs, FindTeam(j) PROVE KindInv'
  BY TaskFacts, NamesDiffer, <1>2, Here DEF FindTeam, Searched, keycloak, s3,
       local, history, Goto, At, Is, TypeOK, KindInv, Kind, Deletes, CallFor
<1>3. ASSUME NEW j \in Jobs, Post(j) PROVE KindInv'
  BY TaskFacts, NamesDiffer, <1>3, Here DEF Post, Created, keycloak, s3,
       local, history, Goto, At, Is, TypeOK, KindInv, Kind, Deletes, CallFor
<1>4. ASSUME NEW j \in Jobs, FallBack(j) PROVE KindInv'
  BY TaskFacts, NamesDiffer, <1>4, Here DEF FallBack, keycloak, s3, local,
       history, Goto, At, Is, TypeOK, KindInv, Kind, Deletes, CallFor
<1>5. ASSUME NEW j \in Jobs, PostBare(j) PROVE KindInv'
  BY TaskFacts, NamesDiffer, <1>5, Here DEF PostBare, Created, keycloak, s3,
       local, history, Goto, At, Is, TypeOK, KindInv, Kind, Deletes, CallFor
<1>6. ASSUME NEW j \in Jobs, Fetch(j) PROVE KindInv'
  BY TaskFacts, NamesDiffer, <1>6, Here DEF Fetch, keycloak, s3, local,
       history, Goto, At, Is, TypeOK, KindInv, Kind, Deletes, CallFor
<1>7. ASSUME NEW j \in Jobs, SetEnabled(j) PROVE KindInv'
  <2>1. Placed(j)
    BY <1>7, HereNow DEF SetEnabled, At, Closed, Is
  <2>2. NextTarget(j) => Moved(j) \/ Apart(j)
    BY <1>7, MoveSound DEF MoveStep
  <2> QED
    BY TaskFacts, NamesDiffer, <1>7, <2>1, <2>2, Here DEF SetEnabled,
         keycloak, s3, local, history, Goto, At, Is, TypeOK, KindInv, Kind,
         Deletes, CallFor, Placed, Moved, Apart
<1>8. ASSUME NEW j \in Jobs, Leave(j) PROVE KindInv'
  <2>1. Placed(j)
    BY <1>8, HereNow DEF Leave, At, Closed, Is
  <2> QED
    BY TaskFacts, NamesDiffer, <1>8, <2>1, Here DEF Leave, keycloak, s3,
         local, history, Goto, At, Is, TypeOK, KindInv, Kind, Deletes,
         CallFor, Placed
<1>9. ASSUME NEW j \in Jobs, Join(j) PROVE KindInv'
  <2>1. Placed(j)
    BY <1>9, HereNow DEF Join, At, Closed, Is
  <2> QED
    BY TaskFacts, NamesDiffer, <1>9, <2>1, Here DEF Join, keycloak, s3,
         local, history, Goto, At, Is, TypeOK, KindInv, Kind, Deletes,
         CallFor, Placed
<1>10. ASSUME NEW j \in Jobs, SetAttribute(j) PROVE KindInv'
  <2>1. Placed(j)
    BY <1>10, HereNow DEF SetAttribute, At, Closed, Is
  <2>2. NextTarget(j) => Moved(j) \/ Apart(j)
    BY <1>10, MoveSound DEF MoveStep
  <2> QED
    BY TaskFacts, NamesDiffer, <1>10, <2>1, <2>2, Here DEF SetAttribute,
         keycloak, s3, local, history, Goto, At, Is, TypeOK, KindInv, Kind,
         Deletes, CallFor, Placed, Moved, Apart
<1>11. ASSUME NEW j \in Jobs, Propose(j) PROVE KindInv'
  <2>1. Placed(j)
    BY <1>11, HereNow DEF Propose, At, Closed, Is
  <2>2. NextTarget(j) => Moved(j) \/ Apart(j)
    BY <1>11, MoveSound DEF MoveStep
  <2> QED
    BY TaskFacts, NamesDiffer, <1>11, <2>1, <2>2, Here DEF Propose, keycloak,
         s3, local, history, Goto, At, Is, TypeOK, KindInv, Kind, Deletes,
         CallFor, Placed, Moved, Apart
<1>12. ASSUME NEW j \in Jobs, AuditProposal(j) PROVE KindInv'
  <2>1. Placed(j)
    BY <1>12, HereNow DEF AuditProposal, At, Closed, Is
  <2>2. NextTarget(j) => Moved(j) \/ Apart(j)
    BY <1>12, MoveSound DEF MoveStep
  <2> QED
    BY TaskFacts, NamesDiffer, <1>12, <2>1, <2>2, Here DEF AuditProposal,
         keycloak, s3, local, history, Goto, At, Is, TypeOK, KindInv, Kind,
         Deletes, CallFor, Placed, Moved, Apart
<1>13. ASSUME NEW j \in Jobs, ReadTarget(j) PROVE KindInv'
  <2>1. Placed(j)
    BY <1>13, HereNow DEF ReadTarget, At, Closed, Is
  <2>2. NextTarget(j) => Moved(j) \/ Apart(j)
    BY <1>13, MoveSound DEF MoveStep
  <2> QED
    BY TaskFacts, NamesDiffer, <1>13, <2>1, <2>2, Here DEF ReadTarget, Skip,
         keycloak, s3, local, history, Goto, At, Is, TypeOK, KindInv, Kind,
         Deletes, CallFor, Placed, Moved, Apart
<1>14. ASSUME NEW j \in Jobs, TargetError(j) PROVE KindInv'
  <2>1. Placed(j)
    BY <1>14, HereNow DEF TargetError, At, Closed, Is
  <2>2. NextTarget(j) => Moved(j) \/ Apart(j)
    BY <1>14, MoveSound DEF MoveStep
  <2> QED
    BY TaskFacts, NamesDiffer, <1>14, <2>1, <2>2, Here DEF TargetError, Skip,
         keycloak, s3, local, history, Goto, At, Is, TypeOK, KindInv, Kind,
         Deletes, CallFor, Placed, Moved, Apart
<1>15. ASSUME NEW j \in Jobs, Delete(j) PROVE KindInv'
  <2>1. Placed(j)
    BY <1>15, HereNow DEF Delete, At, Closed, Is
  <2> QED
    BY TaskFacts, NamesDiffer, <1>15, <2>1, Here DEF Delete, Gone, keycloak,
         s3, local, history, Goto, At, Is, TypeOK, KindInv, Kind, Deletes,
         CallFor, Placed
<1>16. ASSUME NEW j \in Jobs, Record(j) PROVE KindInv'
  <2>1. Placed(j)
    BY <1>16, HereNow DEF Record, At, Closed, Is
  <2> QED
    BY TaskFacts, NamesDiffer, <1>16, <2>1, Here DEF Record, keycloak, s3,
         local, history, Goto, At, Is, TypeOK, KindInv, Kind, Deletes,
         CallFor, Placed
<1>17. ASSUME NEW j \in Jobs, SetPassword(j) PROVE KindInv'
  <2>1. Placed(j)
    BY <1>17, HereNow DEF SetPassword, At, Closed, Is
  <2> QED
    BY TaskFacts, NamesDiffer, <1>17, <2>1, Here DEF SetPassword, keycloak,
         s3, local, history, Goto, At, Is, TypeOK, KindInv, Kind, Deletes,
         CallFor, Placed
<1>18. ASSUME NEW j \in Jobs, Lookup(j) PROVE KindInv'
  <2>1. Placed(j)
    BY <1>18, HereNow DEF Lookup, At, Closed, Is
  <2> QED
    BY TaskFacts, NamesDiffer, <1>18, <2>1, Here DEF Lookup, keycloak, s3,
         local, history, Goto, At, Is, TypeOK, KindInv, Kind, Deletes,
         CallFor, Placed
<1>19. ASSUME NEW j \in Jobs, CallError(j) PROVE KindInv'
  <2>1. Placed(j)
    BY <1>19, HereNow DEF CallError, At, Closed, Is
  <2> QED
    BY TaskFacts, NamesDiffer, <1>19, <2>1, Here DEF CallError, Gone,
         keycloak, s3, local, history, Goto, At, Is, TypeOK, KindInv, Kind,
         Deletes, CallFor, Placed
<1>20. ASSUME NEW j \in Jobs, Audit(j) PROVE KindInv'
  <2>1. Is(j, "bulkEdit") \/ Placed(j)
    BY <1>20, HereNow DEF Audit, At, Closed, Is
  <2>2. NextTarget(j) => Moved(j) \/ Apart(j)
    BY <1>20, MoveSound DEF MoveStep
  <2> QED
    BY TaskFacts, NamesDiffer, <1>20, <2>1, <2>2, Here DEF Audit, keycloak,
         s3, local, history, Goto, At, Is, TypeOK, KindInv, Kind, Deletes,
         CallFor, Placed, Moved, Apart
<1>21. ASSUME NEW j \in Jobs, AuditLost(j) PROVE KindInv'
  <2>1. Placed(j)
    BY <1>21, HereNow DEF AuditLost, At, Closed, Is
  <2>2. NextTarget(j) => Moved(j) \/ Apart(j)
    BY <1>21, MoveSound DEF MoveStep
  <2> QED
    BY TaskFacts, NamesDiffer, <1>21, <2>1, <2>2, Here DEF AuditLost,
         keycloak, s3, local, history, Goto, At, Is, TypeOK, KindInv, Kind,
         Deletes, CallFor, Placed, Moved, Apart
<1>22. ASSUME NEW j \in Jobs, AuditFailure(j) PROVE KindInv'
  <2>1. Placed(j)
    BY <1>22, HereNow DEF AuditFailure, At, Closed, Is
  <2>2. NextTarget(j) => Moved(j) \/ Apart(j)
    BY <1>22, MoveSound DEF MoveStep
  <2> QED
    BY TaskFacts, NamesDiffer, <1>22, <2>1, <2>2, Here DEF AuditFailure,
         Skip, keycloak, s3, local, history, Goto, At, Is, TypeOK, KindInv,
         Kind, Deletes, CallFor, Placed, Moved, Apart
<1>23. ASSUME NEW j \in Jobs, Answer(j) PROVE KindInv'
  BY TaskFacts, NamesDiffer, <1>23, Here DEF Answer, keycloak, s3, local,
       history, Goto, At, Is, TypeOK, KindInv, Kind, Deletes, CallFor
<1>24. ASSUME NEW j \in Jobs, Fail(j) PROVE KindInv'
  BY TaskFacts, NamesDiffer, <1>24, Here DEF Fail, keycloak, s3, local,
       history, Goto, At, Is, TypeOK, KindInv, Kind, Deletes, CallFor
<1>25. CASE UNCHANGED vars
  BY TaskFacts, NamesDiffer, <1>25 DEF vars, keycloak, s3, local, history,
       At, Is, TypeOK, KindInv, Kind, Deletes, CallFor
<1> QED
  BY <1>1, <1>2, <1>3, <1>4, <1>5, <1>6, <1>7, <1>8, <1>9, <1>10, <1>11,
       <1>12, <1>13, <1>14, <1>15, <1>16, <1>17, <1>18, <1>19, <1>20, <1>21,
       <1>22, <1>23, <1>24, <1>25 DEF Next

\* A call for an account that leaves the list as it was.
LEMMA ListKept ==
  ASSUME TypeOK, TodoInv, NEW j \in Jobs, UNCHANGED <<todo, job, team>>,
         \A k \in Jobs \ {j} : pc'[k] = pc[k],
         pc[j] \in {"enable", "target", "delete", "record"}, ~Is(j, "create"),
         \/ pc'[j] \in {"leave", "delete", "record"}
         \/ pc'[j] = "audit" /\ ~Is(j, "bulkEdit")
         \/ pc'[j] = "answer" /\ Is(j, "delete")
  PROVE  TodoInv'
<1>1. todo[j] # <<>>
  BY DEF TodoInv, Closed, At
<1>2. \A k \in Jobs : Ahead(k)' = Ahead(k)
  BY AheadKept
<1>3. \A k \in Jobs : \A s : Is(k, s)' = Is(k, s)
  BY DEF Is
<1>4. \A k \in Jobs : Deletes(k)' = Deletes(k) /\ TargetsOf(k)' = TargetsOf(k)
  BY DEF Deletes, TargetsOf
<1>5. \A k \in Jobs \ {j} :
        /\ Closed(k)' = Closed(k) /\ Succeeded(k)' = Succeeded(k)
        /\ \A s : At(k, s)' = At(k, s)
  BY DEF Closed, Succeeded, At
<1> DEFINE Good(k) ==
      /\ Ahead(k) \subseteq TargetsOf(k)
      /\ \A m, n \in 1..Len(todo[k]) : todo[k][m] = todo[k][n] => m = n
      /\ job[k].kind \notin {"bulkDelete", "bulkEdit"}
           => todo[k] = job[k].targets
<1>6. \A k \in Jobs : Good(k)'
  BY <1>2, <1>4 DEF TodoInv
<1>7. ASSUME NEW k \in Jobs \ {j}
      PROVE  /\ pc'[k] \in {"idle", "findTeam"} => todo'[k] = job'[k].targets
             /\ ~Closed(k)' /\ ~At(k, "audit")' /\ ~Is(k, "create")'
                  => todo'[k] # <<>>
             /\ At(k, "audit")' /\ (Deletes(k)' \/ Is(k, "password")')
                  => todo'[k] # <<>>
             /\ Is(k, "bulkDelete")' /\ Succeeded(k)' => todo'[k] = <<>>
             /\ Is(k, "bulkEdit")' /\ Succeeded(k)' /\ ~job'[k].admin
                  => todo'[k] = <<>>
             /\ Is(k, "bulkEdit")' /\ (Succeeded(k)' \/ At(k, "audit")')
                /\ job'[k].admin
                  => todo'[k] = <<>> \/ (team'[k] = None /\ job'[k].enable = None)
  BY <1>3, <1>4, <1>5, <1>7 DEF TodoInv
<1>8. /\ pc'[j] \notin {"idle", "findTeam"}
      /\ Is(j, "bulkDelete") => ~Succeeded(j)'
      /\ Is(j, "bulkEdit") => ~Succeeded(j)' /\ ~At(j, "audit")'
  BY DEF Succeeded, At, Is
<1> HIDE DEF Good
<1>9. ASSUME NEW k \in Jobs
      PROVE  /\ Good(k)'
             /\ pc'[k] \in {"idle", "findTeam"} => todo'[k] = job'[k].targets
             /\ ~Closed(k)' /\ ~At(k, "audit")' /\ ~Is(k, "create")'
                  => todo'[k] # <<>>
             /\ At(k, "audit")' /\ (Deletes(k)' \/ Is(k, "password")')
                  => todo'[k] # <<>>
             /\ Is(k, "bulkDelete")' /\ Succeeded(k)' => todo'[k] = <<>>
             /\ Is(k, "bulkEdit")' /\ Succeeded(k)' /\ ~job'[k].admin
                  => todo'[k] = <<>>
             /\ Is(k, "bulkEdit")' /\ (Succeeded(k)' \/ At(k, "audit")')
                /\ job'[k].admin
                  => todo'[k] = <<>> \/ (team'[k] = None /\ job'[k].enable = None)
  BY <1>1, <1>3, <1>6, <1>7, <1>8
<1> QED
  BY <1>9 DEF TodoInv, Good

\* A step deals with the accounts in their order.
LEMMA TodoStep == TypeOK /\ KindInv /\ TodoInv /\ [Next]_vars => TodoInv'
<1> SUFFICES ASSUME TypeOK, KindInv, TodoInv, [Next]_vars PROVE TodoInv'
  OBVIOUS
<1>1. ASSUME NEW j \in Jobs, Start(j) PROVE TodoInv'
  <2>1. Placed(j)
    BY <1>1, HereNow DEF Start, At, Closed, Is
  <2> QED
    BY TaskFacts, NamesDiffer, AheadKept, <1>1, <2>1, Here DEF Start,
         keycloak, s3, local, history, Goto, At, Is, TypeOK, KindInv,
         TodoInv, Kind, Deletes, CallFor, Closed, Succeeded, TargetsOf, Placed
<1>2. ASSUME NEW j \in Jobs, FindTeam(j) PROVE TodoInv'
  BY TaskFacts, NamesDiffer, AheadKept, <1>2, Here DEF FindTeam, Searched,
       keycloak, s3, local, history, Goto, At, Is, TypeOK, KindInv, TodoInv,
       Kind, Deletes, CallFor, Closed, Succeeded, TargetsOf
<1>3. ASSUME NEW j \in Jobs, Post(j) PROVE TodoInv'
  BY TaskFacts, NamesDiffer, AheadKept, <1>3, Here DEF Post, Created,
       keycloak, s3, local, history, Goto, At, Is, TypeOK, KindInv, TodoInv,
       Kind, Deletes, CallFor, Closed, Succeeded, TargetsOf
<1>4. ASSUME NEW j \in Jobs, FallBack(j) PROVE TodoInv'
  BY TaskFacts, NamesDiffer, AheadKept, <1>4, Here DEF FallBack, keycloak,
       s3, local, history, Goto, At, Is, TypeOK, KindInv, TodoInv, Kind,
       Deletes, CallFor, Closed, Succeeded, TargetsOf
<1>5. ASSUME NEW j \in Jobs, PostBare(j) PROVE TodoInv'
  BY TaskFacts, NamesDiffer, AheadKept, <1>5, Here DEF PostBare, Created,
       keycloak, s3, local, history, Goto, At, Is, TypeOK, KindInv, TodoInv,
       Kind, Deletes, CallFor, Closed, Succeeded, TargetsOf
<1>6. ASSUME NEW j \in Jobs, Fetch(j) PROVE TodoInv'
  BY TaskFacts, NamesDiffer, AheadKept, <1>6, Here DEF Fetch, keycloak, s3,
       local, history, Goto, At, Is, TypeOK, KindInv, TodoInv, Kind, Deletes,
       CallFor, Closed, Succeeded, TargetsOf
<1>7. ASSUME NEW j \in Jobs, SetEnabled(j) PROVE TodoInv'
  <2>1. NextTarget(j) => Moved(j) \/ Apart(j)
    BY <1>7, MoveSound DEF MoveStep
  <2>2. CASE Moved(j)
    BY <1>7, <2>2, MovedTodo DEF SetEnabled
  <2>3. CASE ~Moved(j)
    <3>1. UNCHANGED todo /\ \A k \in Jobs : Ahead(k)' = Ahead(k)
      BY <1>7, <2>1, <2>3, AheadKept DEF SetEnabled, Apart, At, Is
    <3> QED
      <4>1. pc' = [pc EXCEPT ![j] = "leave"]
        BY <1>7, <2>1, <2>3 DEF SetEnabled, Apart, At, Goto
      <4>2. UNCHANGED <<todo, job, team>> /\ pc[j] = "enable"
        BY <1>7, <3>1 DEF SetEnabled, At
      <4>3. ~Is(j, "create")
        BY <4>2 DEF KindInv, Is
      <4> QED
        BY <4>1, <4>2, <4>3, ListKept DEF TypeOK
  <2> QED
    BY <2>2, <2>3
<1>8. ASSUME NEW j \in Jobs, Leave(j) PROVE TodoInv'
  <2>1. Placed(j)
    BY <1>8, HereNow DEF Leave, At, Closed, Is
  <2> QED
    BY TaskFacts, NamesDiffer, AheadKept, <1>8, <2>1, Here DEF Leave,
         keycloak, s3, local, history, Goto, At, Is, TypeOK, KindInv,
         TodoInv, Kind, Deletes, CallFor, Closed, Succeeded, TargetsOf, Placed
<1>9. ASSUME NEW j \in Jobs, Join(j) PROVE TodoInv'
  <2>1. Placed(j)
    BY <1>9, HereNow DEF Join, At, Closed, Is
  <2> QED
    BY TaskFacts, NamesDiffer, AheadKept, <1>9, <2>1, Here DEF Join,
         keycloak, s3, local, history, Goto, At, Is, TypeOK, KindInv,
         TodoInv, Kind, Deletes, CallFor, Closed, Succeeded, TargetsOf, Placed
<1>10. ASSUME NEW j \in Jobs, SetAttribute(j) PROVE TodoInv'
  <2>1. NextTarget(j) => Moved(j) \/ Apart(j)
    BY <1>10, MoveSound DEF MoveStep
  <2>2. CASE Moved(j)
    BY <1>10, <2>2, MovedTodo DEF SetAttribute
  <2>3. CASE ~Moved(j)
    <3>1. UNCHANGED todo /\ \A k \in Jobs : Ahead(k)' = Ahead(k)
      BY <1>10, <2>1, <2>3, AheadKept DEF SetAttribute, Apart, At, Is
    <3> QED
      BY <1>10, <2>1, <2>3, <3>1, TaskFacts DEF SetAttribute, Apart,
           keycloak, s3, local, history, Goto, At, Is, TypeOK, KindInv,
           TodoInv, Kind, Deletes, Closed, Succeeded, TargetsOf
  <2> QED
    BY <2>2, <2>3
<1>11. ASSUME NEW j \in Jobs, Propose(j) PROVE TodoInv'
  <2>1. NextTarget(j) => Moved(j) \/ Apart(j)
    BY <1>11, MoveSound DEF MoveStep
  <2>2. CASE Moved(j)
    BY <1>11, <2>2, MovedTodo DEF Propose
  <2>3. CASE ~Moved(j)
    <3>1. UNCHANGED todo /\ \A k \in Jobs : Ahead(k)' = Ahead(k)
      BY <1>11, <2>1, <2>3, AheadKept DEF Propose, Apart, At, Is
    <3> QED
      BY <1>11, <2>1, <2>3, <3>1, TaskFacts DEF Propose, Apart, keycloak, s3,
           local, history, Goto, At, Is, TypeOK, KindInv, TodoInv, Kind,
           Deletes, Closed, Succeeded, TargetsOf
  <2> QED
    BY <2>2, <2>3
<1>12. ASSUME NEW j \in Jobs, AuditProposal(j) PROVE TodoInv'
  <2>1. NextTarget(j) => Moved(j) \/ Apart(j)
    BY <1>12, MoveSound DEF MoveStep
  <2>2. CASE Moved(j)
    BY <1>12, <2>2, MovedTodo DEF AuditProposal
  <2>3. CASE ~Moved(j)
    <3>1. UNCHANGED todo /\ \A k \in Jobs : Ahead(k)' = Ahead(k)
      BY <1>12, <2>1, <2>3, AheadKept DEF AuditProposal, Apart, At, Is
    <3> QED
      BY <1>12, <2>1, <2>3, <3>1, TaskFacts DEF AuditProposal, Apart,
           keycloak, s3, local, history, Goto, At, Is, TypeOK, KindInv,
           TodoInv, Kind, Deletes, Closed, Succeeded, TargetsOf
  <2> QED
    BY <2>2, <2>3
<1>13. ASSUME NEW j \in Jobs, ReadTarget(j) PROVE TodoInv'
  <2>1. NextTarget(j) => Moved(j) \/ Apart(j)
    BY <1>13, MoveSound DEF MoveStep
  <2>2. CASE Moved(j)
    BY <1>13, <2>2, MovedTodo DEF ReadTarget
  <2>3. CASE ~Moved(j)
    <3>1. UNCHANGED todo /\ \A k \in Jobs : Ahead(k)' = Ahead(k)
      BY <1>13, <2>1, <2>3, AheadKept DEF ReadTarget, Skip, Apart, At, Is
    <3> QED
      <4>1. UNCHANGED <<todo, job, team>> /\ pc[j] = "target"
        BY <1>13, <3>1 DEF ReadTarget, At
      <4>2. ~Is(j, "create") /\ (Is(j, "bulkDelete") \/ Is(j, "delete"))
        BY <4>1 DEF KindInv, Deletes, Is
      <4>3. CASE Self(j) /\ Is(j, "bulkDelete")
        BY <1>13, <2>1, <2>3, <4>1, <4>3 DEF ReadTarget, Skip, Apart, At
      <4>4. CASE ~(Self(j) /\ Is(j, "bulkDelete"))
        <5>1. \/ pc' = [pc EXCEPT ![j] = "delete"]
              \/ pc' = [pc EXCEPT ![j] = "answer"] /\ Is(j, "delete")
          BY <1>13, <4>2, <4>4 DEF ReadTarget, Goto
        <5> QED
          BY <4>1, <4>2, <5>1, ListKept DEF TypeOK
      <4> QED
        BY <4>3, <4>4
  <2> QED
    BY <2>2, <2>3
<1>14. ASSUME NEW j \in Jobs, TargetError(j) PROVE TodoInv'
  <2>1. NextTarget(j) => Moved(j) \/ Apart(j)
    BY <1>14, MoveSound DEF MoveStep
  <2>2. CASE Moved(j)
    BY <1>14, <2>2, MovedTodo DEF TargetError
  <2>3. CASE ~Moved(j)
    <3>1. UNCHANGED todo /\ \A k \in Jobs : Ahead(k)' = Ahead(k)
      BY <1>14, <2>1, <2>3, AheadKept DEF TargetError, Skip, Apart, At, Is
    <3> QED
      BY <1>14, <2>1, <2>3, <3>1, TaskFacts DEF TargetError, Skip, Apart,
           keycloak, s3, local, history, Goto, At, Is, TypeOK, KindInv,
           TodoInv, Kind, Deletes, Closed, Succeeded, TargetsOf
  <2> QED
    BY <2>2, <2>3
<1>15. ASSUME NEW j \in Jobs, Delete(j) PROVE TodoInv'
  <2>1. UNCHANGED <<todo, job, team>> /\ pc[j] = "delete"
    BY <1>15 DEF Delete, local, At
  <2>2. ~Is(j, "create")
    BY <2>1 DEF KindInv, Deletes, Is
  <2>3. pc' = [pc EXCEPT ![j] = "record"]
    BY <1>15 DEF Delete, Goto
  <2> QED
    BY <2>1, <2>2, <2>3, ListKept DEF TypeOK
<1>16. ASSUME NEW j \in Jobs, Record(j) PROVE TodoInv'
  <2>1. UNCHANGED <<todo, job, team>> /\ pc[j] = "record"
    BY <1>16 DEF Record, local, At
  <2>2. ~Is(j, "create") /\ ~Is(j, "bulkEdit")
    BY <2>1 DEF KindInv, Deletes, Is
  <2>3. pc' = [pc EXCEPT ![j] = "audit"]
    BY <1>16 DEF Record, Goto
  <2> QED
    BY <2>1, <2>2, <2>3, ListKept DEF TypeOK
<1>17. ASSUME NEW j \in Jobs, SetPassword(j) PROVE TodoInv'
  <2>1. Placed(j)
    BY <1>17, HereNow DEF SetPassword, At, Closed, Is
  <2> QED
    BY TaskFacts, NamesDiffer, AheadKept, <1>17, <2>1, Here DEF SetPassword,
         keycloak, s3, local, history, Goto, At, Is, TypeOK, KindInv,
         TodoInv, Kind, Deletes, CallFor, Closed, Succeeded, TargetsOf, Placed
<1>18. ASSUME NEW j \in Jobs, Lookup(j) PROVE TodoInv'
  <2>1. Placed(j)
    BY <1>18, HereNow DEF Lookup, At, Closed, Is
  <2> QED
    BY TaskFacts, NamesDiffer, AheadKept, <1>18, <2>1, Here DEF Lookup,
         keycloak, s3, local, history, Goto, At, Is, TypeOK, KindInv,
         TodoInv, Kind, Deletes, CallFor, Closed, Succeeded, TargetsOf, Placed
<1>19. ASSUME NEW j \in Jobs, CallError(j) PROVE TodoInv'
  <2>1. Placed(j)
    BY <1>19, HereNow DEF CallError, At, Closed, Is
  <2> QED
    BY TaskFacts, NamesDiffer, AheadKept, <1>19, <2>1, Here DEF CallError,
         Gone, keycloak, s3, local, history, Goto, At, Is, TypeOK, KindInv,
         TodoInv, Kind, Deletes, CallFor, Closed, Succeeded, TargetsOf, Placed
<1>20. ASSUME NEW j \in Jobs, Audit(j) PROVE TodoInv'
  <2>1. NextTarget(j) => Moved(j) \/ Apart(j)
    BY <1>20, MoveSound DEF MoveStep
  <2>2. CASE Moved(j)
    BY <1>20, <2>2, MovedTodo DEF Audit
  <2>3. CASE ~Moved(j)
    <3>1. UNCHANGED todo /\ \A k \in Jobs : Ahead(k)' = Ahead(k)
      BY <1>20, <2>1, <2>3, AheadKept DEF Audit, Apart, At, Is
    <3> QED
      BY <1>20, <2>1, <2>3, <3>1, TaskFacts DEF Audit, Apart, keycloak, s3,
           local, history, Goto, At, Is, TypeOK, KindInv, TodoInv, Kind,
           Deletes, Closed, Succeeded, TargetsOf
  <2> QED
    BY <2>2, <2>3
<1>21. ASSUME NEW j \in Jobs, AuditLost(j) PROVE TodoInv'
  <2>1. NextTarget(j) => Moved(j) \/ Apart(j)
    BY <1>21, MoveSound DEF MoveStep
  <2>2. CASE Moved(j)
    BY <1>21, <2>2, MovedTodo DEF AuditLost
  <2>3. CASE ~Moved(j)
    <3>1. UNCHANGED todo /\ \A k \in Jobs : Ahead(k)' = Ahead(k)
      BY <1>21, <2>1, <2>3, AheadKept DEF AuditLost, Apart, At, Is
    <3> QED
      BY <1>21, <2>1, <2>3, <3>1, TaskFacts DEF AuditLost, Apart, keycloak,
           s3, local, history, Goto, At, Is, TypeOK, KindInv, TodoInv, Kind,
           Deletes, Closed, Succeeded, TargetsOf
  <2> QED
    BY <2>2, <2>3
<1>22. ASSUME NEW j \in Jobs, AuditFailure(j) PROVE TodoInv'
  <2>1. NextTarget(j) => Moved(j) \/ Apart(j)
    BY <1>22, MoveSound DEF MoveStep
  <2>2. CASE Moved(j)
    BY <1>22, <2>2, MovedTodo DEF AuditFailure
  <2>3. CASE ~Moved(j)
    <3>1. UNCHANGED todo /\ \A k \in Jobs : Ahead(k)' = Ahead(k)
      BY <1>22, <2>1, <2>3, AheadKept DEF AuditFailure, Skip, Apart, At, Is
    <3> QED
      BY <1>22, <2>1, <2>3, <3>1, TaskFacts DEF AuditFailure, Skip, Apart,
           keycloak, s3, local, history, Goto, At, Is, TypeOK, KindInv,
           TodoInv, Kind, Deletes, Closed, Succeeded, TargetsOf
  <2> QED
    BY <2>2, <2>3
<1>23. ASSUME NEW j \in Jobs, Answer(j) PROVE TodoInv'
  BY TaskFacts, NamesDiffer, AheadKept, <1>23, Here DEF Answer, keycloak, s3,
       local, history, Goto, At, Is, TypeOK, KindInv, TodoInv, Kind, Deletes,
       CallFor, Closed, Succeeded, TargetsOf
<1>24. ASSUME NEW j \in Jobs, Fail(j) PROVE TodoInv'
  BY TaskFacts, NamesDiffer, AheadKept, <1>24, Here DEF Fail, keycloak, s3,
       local, history, Goto, At, Is, TypeOK, KindInv, TodoInv, Kind, Deletes,
       CallFor, Closed, Succeeded, TargetsOf
<1>25. CASE UNCHANGED vars
  BY TaskFacts, NamesDiffer, AheadKept, <1>25 DEF vars, keycloak, s3, local,
       history, At, Is, TypeOK, KindInv, TodoInv, Kind, Deletes, CallFor,
       Closed, Succeeded, TargetsOf
<1> QED
  BY <1>1, <1>2, <1>3, <1>4, <1>5, <1>6, <1>7, <1>8, <1>9, <1>10, <1>11,
       <1>12, <1>13, <1>14, <1>15, <1>16, <1>17, <1>18, <1>19, <1>20, <1>21,
       <1>22, <1>23, <1>24, <1>25 DEF Next

\* A step moves one handler.
LEMMA PcStep ==
  ASSUME TypeOK, KindInv, TodoInv, NEW j \in Jobs, Step(j)
  PROVE  /\ \A k \in Jobs : k # j => pc'[k] = pc[k]
         /\ pc'[j] # "idle"
         /\ Is(j, "create") /\ ~Early(j) => ~Early(j)'
<1>t. pc \in [Jobs -> Control]
  BY DEF TypeOK
<1>1. CASE Start(j)
  BY <1>t, CallIs, <1>1 DEF Start, keycloak, s3, local, history, Goto, At,
       Is, Early
<1>2. CASE FindTeam(j)
  BY <1>t, CallIs, <1>2 DEF FindTeam, Searched, keycloak, s3, local, history,
       Goto, At, Is, Early
<1>3. CASE Post(j)
  BY <1>t, <1>3 DEF Post, Created, keycloak, s3, local, history, Goto, At,
       Is, Early
<1>4. CASE FallBack(j)
  BY <1>t, <1>4 DEF FallBack, keycloak, s3, local, history, Goto, At, Is,
       Early
<1>5. CASE PostBare(j)
  BY <1>t, <1>5 DEF PostBare, Created, keycloak, s3, local, history, Goto,
       At, Is, Early
<1>6. CASE Fetch(j)
  BY <1>t, <1>6 DEF Fetch, keycloak, s3, local, history, Goto, At, Is, Early
<1>7. CASE SetEnabled(j)
  <2>1. NextTarget(j) => Moved(j) \/ Apart(j)
    BY <1>7, MoveSound DEF MoveStep
  <2> QED
    BY <1>t, CallIs, <1>7, <2>1 DEF SetEnabled, keycloak, s3, local, history,
         Goto, At, Is, Early, Moved, Apart
<1>8. CASE Leave(j)
  BY <1>t, <1>8 DEF Leave, keycloak, s3, local, history, Goto, At, Is, Early
<1>9. CASE Join(j)
  BY <1>t, <1>9 DEF Join, keycloak, s3, local, history, Goto, At, Is, Early
<1>10. CASE SetAttribute(j)
  <2>1. NextTarget(j) => Moved(j) \/ Apart(j)
    BY <1>10, MoveSound DEF MoveStep
  <2> QED
    BY <1>t, CallIs, <1>10, <2>1 DEF SetAttribute, keycloak, s3, local,
         history, Goto, At, Is, Early, Moved, Apart
<1>11. CASE Propose(j)
  <2>1. NextTarget(j) => Moved(j) \/ Apart(j)
    BY <1>11, MoveSound DEF MoveStep
  <2> QED
    BY <1>t, CallIs, <1>11, <2>1 DEF Propose, keycloak, s3, local, history,
         Goto, At, Is, Early, Moved, Apart
<1>12. CASE AuditProposal(j)
  <2>1. NextTarget(j) => Moved(j) \/ Apart(j)
    BY <1>12, MoveSound DEF MoveStep
  <2> QED
    BY <1>t, CallIs, <1>12, <2>1 DEF AuditProposal, keycloak, s3, local,
         history, Goto, At, Is, Early, Moved, Apart
<1>13. CASE ReadTarget(j)
  <2>1. NextTarget(j) => Moved(j) \/ Apart(j)
    BY <1>13, MoveSound DEF MoveStep
  <2> QED
    BY <1>t, CallIs, <1>13, <2>1 DEF ReadTarget, Skip, keycloak, s3, local,
         history, Goto, At, Is, Early, Moved, Apart
<1>14. CASE TargetError(j)
  <2>1. NextTarget(j) => Moved(j) \/ Apart(j)
    BY <1>14, MoveSound DEF MoveStep
  <2> QED
    BY <1>t, CallIs, <1>14, <2>1 DEF TargetError, Skip, keycloak, s3, local,
         history, Goto, At, Is, Early, Moved, Apart
<1>15. CASE Delete(j)
  BY <1>t, <1>15 DEF Delete, Gone, keycloak, s3, local, history, Goto, At,
       Is, Early
<1>16. CASE Record(j)
  BY <1>t, <1>16 DEF Record, keycloak, s3, local, history, Goto, At, Is, Early
<1>17. CASE SetPassword(j)
  BY <1>t, <1>17 DEF SetPassword, keycloak, s3, local, history, Goto, At, Is,
       Early
<1>18. CASE Lookup(j)
  BY <1>t, <1>18 DEF Lookup, keycloak, s3, local, history, Goto, At, Is, Early
<1>19. CASE CallError(j)
  BY <1>t, <1>19 DEF CallError, Gone, keycloak, s3, local, history, Goto, At,
       Is, Early
<1>20. CASE Audit(j)
  <2>1. NextTarget(j) => Moved(j) \/ Apart(j)
    BY <1>20, MoveSound DEF MoveStep
  <2> QED
    BY <1>t, CallIs, <1>20, <2>1 DEF Audit, keycloak, s3, local, history,
         Goto, At, Is, Early, Moved, Apart
<1>21. CASE AuditLost(j)
  <2>1. NextTarget(j) => Moved(j) \/ Apart(j)
    BY <1>21, MoveSound DEF MoveStep
  <2> QED
    BY <1>t, CallIs, <1>21, <2>1 DEF AuditLost, keycloak, s3, local, history,
         Goto, At, Is, Early, Moved, Apart
<1>22. CASE AuditFailure(j)
  <2>1. NextTarget(j) => Moved(j) \/ Apart(j)
    BY <1>22, MoveSound DEF MoveStep
  <2> QED
    BY <1>t, CallIs, <1>22, <2>1 DEF AuditFailure, Skip, keycloak, s3, local,
         history, Goto, At, Is, Early, Moved, Apart
<1>23. CASE Answer(j)
  BY <1>t, <1>23 DEF Answer, keycloak, s3, local, history, Goto, At, Is, Early
<1>24. CASE Fail(j)
  BY <1>t, <1>24 DEF Fail, keycloak, s3, local, history, Goto, At, Is, Early
<1> QED
  BY <1>1, <1>2, <1>3, <1>4, <1>5, <1>6, <1>7, <1>8, <1>9, <1>10, <1>11,
       <1>12, <1>13, <1>14, <1>15, <1>16, <1>17, <1>18, <1>19, <1>20, <1>21,
       <1>22, <1>23, <1>24 DEF Step

\* What no step about another account changes.
LEMMA BirthKept ==
  ASSUME BirthInv, NEW j \in Jobs, job' = job,
         \A k : TargetsOf(k)' = TargetsOf(k),
         \A k \in Jobs : k # j => pc'[k] = pc[k],
         pc[j] # "idle", pc'[j] # "idle",
         Is(j, "create") => IF Did(j, j, "create") THEN ~Early(j)'
                            ELSE Early(j)' \/ At(j, "failed")',
         \A i \in Jobs : Did(i, i, "create")' <=> Did(i, i, "create"),
         \A i \in Jobs : ~Did(i, i, "create")
                       => name'[i] = None /\ noted'[i] = None
                          /\ \A e \in made' : e.about # i
  PROVE  BirthInv'
BY DEF BirthInv, Early, At, Is

\* A step does nothing to an account that is not made yet.
LEMMA BirthStep ==
  ASSUME TypeOK, KindInv, TodoInv, BirthInv, NEW j \in Jobs, Step(j)
  PROVE  BirthInv'
<1>0. job' = job /\ \A k : TargetsOf(k)' = TargetsOf(k)
  BY JobKept DEF Next, Step
<1>t. pc \in [Jobs -> Control] /\ name \in [Ids -> Names \cup {None}]
      /\ noted \in [Ids -> Jobs \cup {None}] /\ Jobs \subseteq Ids /\ None \notin Jobs
  BY NamesDiffer DEF TypeOK
<1>1. CASE Start(j)
  <2>0. /\ \A k \in Jobs : k # j => pc'[k] = pc[k]
        /\ pc'[j] # "idle"
        /\ Is(j, "create") /\ ~Early(j) => ~Early(j)'
    BY <1>1, PcStep DEF Step
  <2>1. UNCHANGED <<made, name, noted>> /\ At(j, "idle")
    BY <1>1 DEF Start, keycloak
  <2>2. Is(j, "create") => Early(j)'
    BY <1>1, <1>t, CallIs DEF Start, Goto, Early
  <2>3. \A i \in Jobs : i \in TargetsOf(j) => Did(i, i, "create")
    BY <1>1 DEF Start
  <2>4. \A i \in Jobs : Did(i, i, "create")' <=> Did(i, i, "create")
    BY <2>1 DEF Did
  <2>5. \A i, k \in Jobs : ~Did(i, i, "create") /\ i \in TargetsOf(k)
          => pc'[k] = "idle"
    BY <2>0, <2>3 DEF BirthInv
  <2>6. \A i \in Jobs : Did(i, i, "create") => i # j
    BY <2>1 DEF BirthInv, Early, At
  <2>7. /\ \A i \in Jobs : Did(i, i, "create") => ~Early(i)'
        /\ \A i \in Jobs : ~Did(i, i, "create") /\ Is(i, "create")
                         => Early(i)' \/ At(i, "failed")'
    BY <2>0, <2>2, <2>6 DEF BirthInv, Early, At
  <2>8. \A i : Is(i, "create")' <=> Is(i, "create")
    BY <1>0 DEF Is
  <2>9. ASSUME NEW i \in Jobs, ~Did(i, i, "create")
        PROVE  /\ name'[i] = None /\ noted'[i] = None
               /\ \A e \in made' : e.about # i
               /\ \A k \in Jobs : i \in TargetsOf(k)' => pc'[k] = "idle"
    BY <1>0, <2>1, <2>5, <2>9 DEF BirthInv
  <2>10. ASSUME NEW i \in Jobs, Did(i, i, "create") PROVE Is(i, "create")
    BY <2>10 DEF BirthInv
  <2> QED
    BY <2>4, <2>7, <2>8, <2>9, <2>10 DEF BirthInv
<1>2. CASE FindTeam(j)
  <2>0. /\ \A k \in Jobs : k # j => pc'[k] = pc[k]
        /\ pc'[j] # "idle"
        /\ Is(j, "create") /\ ~Early(j) => ~Early(j)'
    BY <1>2, PcStep DEF Step
  <2>1. UNCHANGED <<made, name, noted>>
    BY <1>2 DEF FindTeam, keycloak, history
  <2>2. pc[j] # "idle" /\ (Is(j, "create") => IF Did(j, j, "create") THEN ~Early(j)'
                            ELSE Early(j)' \/ At(j, "failed")')
    BY <1>2, <1>t, CallIs, <2>0 DEF FindTeam, BirthInv, Early, At, Flying,
         Goto
  <2> QED
    BY <1>0, <2>0, <2>1, <2>2, BirthKept DEF BirthInv, Did
<1>3. CASE Post(j)
  <2>0. /\ \A k \in Jobs : k # j => pc'[k] = pc[k]
        /\ pc'[j] # "idle"
        /\ Is(j, "create") /\ ~Early(j) => ~Early(j)'
    BY <1>3, PcStep DEF Step
  <2>1. /\ \A i \in Ids : i # j => name'[i] = name[i]
        /\ noted' = noted /\ pc'[j] = "fetch"
        /\ made' = made \cup {[by |-> j, about |-> j, what |-> "create"]}
        /\ Is(j, "create")
    BY <1>3, <1>t, Here DEF Post, Created, Make, KindInv, Goto, At
  <2>2. \A i \in Jobs : Did(i, i, "create")' <=> Did(i, i, "create") \/ i = j
    BY <2>1 DEF Did
  <2>3. \A i \in Jobs : i # j /\ ~Did(i, i, "create")
          => name'[i] = None /\ noted'[i] = None /\ \A e \in made' : e.about # i
    BY <1>t, <2>1 DEF BirthInv
  <2>4. \A k \in Jobs : pc'[k] = "idle" => pc[k] = "idle"
    BY <2>0
  <2>5. \A i, k \in Jobs : i # j /\ ~Did(i, i, "create") /\ i \in TargetsOf(k)
          => pc'[k] = "idle"
    BY <2>0, <2>1, <1>3 DEF BirthInv, Post, At
  <2> QED
    BY <1>0, <2>0, <2>1, <2>2, <2>3, <2>5 DEF BirthInv, At, Early, Is
<1>4. CASE FallBack(j)
  <2>0. /\ \A k \in Jobs : k # j => pc'[k] = pc[k]
        /\ pc'[j] # "idle"
        /\ Is(j, "create") /\ ~Early(j) => ~Early(j)'
    BY <1>4, PcStep DEF Step
  <2>1. UNCHANGED <<made, name, noted>>
    BY <1>4 DEF FallBack, keycloak, history
  <2>2. pc[j] # "idle" /\ (Is(j, "create") => IF Did(j, j, "create") THEN ~Early(j)'
                            ELSE Early(j)' \/ At(j, "failed")')
    BY <1>4, <1>t, <2>0 DEF FallBack, BirthInv, Early, At, Flying, Goto
  <2> QED
    BY <1>0, <2>0, <2>1, <2>2, BirthKept DEF BirthInv, Did
<1>5. CASE PostBare(j)
  <2>0. /\ \A k \in Jobs : k # j => pc'[k] = pc[k]
        /\ pc'[j] # "idle"
        /\ Is(j, "create") /\ ~Early(j) => ~Early(j)'
    BY <1>5, PcStep DEF Step
  <2>1. /\ \A i \in Ids : i # j => name'[i] = name[i]
        /\ noted' = noted /\ pc'[j] = "fetch"
        /\ made' = made \cup {[by |-> j, about |-> j, what |-> "create"]}
        /\ Is(j, "create")
    BY <1>5, <1>t, Here DEF PostBare, Created, Make, KindInv, Goto, At
  <2>2. \A i \in Jobs : Did(i, i, "create")' <=> Did(i, i, "create") \/ i = j
    BY <2>1 DEF Did
  <2>3. \A i \in Jobs : i # j /\ ~Did(i, i, "create")
          => name'[i] = None /\ noted'[i] = None /\ \A e \in made' : e.about # i
    BY <1>t, <2>1 DEF BirthInv
  <2>4. \A k \in Jobs : pc'[k] = "idle" => pc[k] = "idle"
    BY <2>0
  <2>5. \A i, k \in Jobs : i # j /\ ~Did(i, i, "create") /\ i \in TargetsOf(k)
          => pc'[k] = "idle"
    BY <2>0, <2>1, <1>5 DEF BirthInv, PostBare, At
  <2> QED
    BY <1>0, <2>0, <2>1, <2>2, <2>3, <2>5 DEF BirthInv, At, Early, Is
<1>6. CASE Fetch(j)
  <2>0. /\ \A k \in Jobs : k # j => pc'[k] = pc[k]
        /\ pc'[j] # "idle"
        /\ Is(j, "create") /\ ~Early(j) => ~Early(j)'
    BY <1>6, PcStep DEF Step
  <2>1. UNCHANGED <<made, name, noted>>
    BY <1>6 DEF Fetch, keycloak, history
  <2>2. pc[j] # "idle" /\ (Is(j, "create") => IF Did(j, j, "create") THEN ~Early(j)'
                            ELSE Early(j)' \/ At(j, "failed")')
    BY <1>6, <1>t, <2>0 DEF Fetch, BirthInv, Early, At, Flying
  <2> QED
    BY <1>0, <2>0, <2>1, <2>2, BirthKept DEF BirthInv, Did
<1>7. CASE SetEnabled(j)
  <2>0. /\ \A k \in Jobs : k # j => pc'[k] = pc[k]
        /\ pc'[j] # "idle"
        /\ Is(j, "create") /\ ~Early(j) => ~Early(j)'
    BY <1>7, PcStep DEF Step
  <2>1. pc[j] # "idle" /\ ~Early(j) /\ ~At(j, "failed")
    BY <1>7 DEF SetEnabled, At, Early
  <2>2. Placed(j)
    BY <1>7, HereNow DEF SetEnabled, At, Closed, Is
  <2>3. Placed(j) => \A i \in Jobs : ~Did(i, i, "create") => i # Target(j)
    BY <2>1, TargetBorn
  <2>4. \A i \in Jobs : ~Did(i, i, "create")
          => name[i] = None /\ noted[i] = None /\ \A e \in made : e.about # i
    BY DEF BirthInv
  <2>5. /\ \A i \in Jobs : Did(i, i, "create")' <=> Did(i, i, "create")
        /\ \A i \in Jobs : ~Did(i, i, "create")
             => name'[i] = None /\ noted'[i] = None /\ \A e \in made' : e.about # i
    BY <1>7, <1>t, <2>2, <2>3, <2>4 DEF SetEnabled, keycloak, history, Make,
         Did, Is
  <2>6. Is(j, "create") => Did(j, j, "create")
    BY <2>1 DEF BirthInv
  <2> QED
    BY <1>0, <2>0, <2>1, <2>5, <2>6, BirthKept
<1>8. CASE Leave(j)
  <2>0. /\ \A k \in Jobs : k # j => pc'[k] = pc[k]
        /\ pc'[j] # "idle"
        /\ Is(j, "create") /\ ~Early(j) => ~Early(j)'
    BY <1>8, PcStep DEF Step
  <2>1. UNCHANGED <<made, name, noted>>
    BY <1>8 DEF Leave, keycloak, history
  <2>2. pc[j] # "idle" /\ (Is(j, "create") => IF Did(j, j, "create") THEN ~Early(j)'
                            ELSE Early(j)' \/ At(j, "failed")')
    BY <1>8, <1>t, <2>0 DEF Leave, BirthInv, Early, At, Flying
  <2> QED
    BY <1>0, <2>0, <2>1, <2>2, BirthKept DEF BirthInv, Did
<1>9. CASE Join(j)
  <2>0. /\ \A k \in Jobs : k # j => pc'[k] = pc[k]
        /\ pc'[j] # "idle"
        /\ Is(j, "create") /\ ~Early(j) => ~Early(j)'
    BY <1>9, PcStep DEF Step
  <2>1. pc[j] # "idle" /\ ~Early(j) /\ ~At(j, "failed")
    BY <1>9 DEF Join, At, Early
  <2>2. Placed(j)
    BY <1>9, HereNow DEF Join, At, Closed, Is
  <2>3. Placed(j) => \A i \in Jobs : ~Did(i, i, "create") => i # Target(j)
    BY <2>1, TargetBorn
  <2>4. \A i \in Jobs : ~Did(i, i, "create")
          => name[i] = None /\ noted[i] = None /\ \A e \in made : e.about # i
    BY DEF BirthInv
  <2>5. /\ \A i \in Jobs : Did(i, i, "create")' <=> Did(i, i, "create")
        /\ \A i \in Jobs : ~Did(i, i, "create")
             => name'[i] = None /\ noted'[i] = None /\ \A e \in made' : e.about # i
    BY <1>9, <1>t, <2>2, <2>3, <2>4 DEF Join, keycloak, history, Make, Did, Is
  <2>6. Is(j, "create") => Did(j, j, "create")
    BY <2>1 DEF BirthInv
  <2> QED
    BY <1>0, <2>0, <2>1, <2>5, <2>6, BirthKept
<1>10. CASE SetAttribute(j)
  <2>0. /\ \A k \in Jobs : k # j => pc'[k] = pc[k]
        /\ pc'[j] # "idle"
        /\ Is(j, "create") /\ ~Early(j) => ~Early(j)'
    BY <1>10, PcStep DEF Step
  <2>1. UNCHANGED <<made, name, noted>>
    BY <1>10 DEF SetAttribute, keycloak, history
  <2>2. pc[j] # "idle" /\ (Is(j, "create") => IF Did(j, j, "create") THEN ~Early(j)'
                            ELSE Early(j)' \/ At(j, "failed")')
    BY <1>10, <1>t, <2>0 DEF SetAttribute, BirthInv, Early, At, Flying
  <2> QED
    BY <1>0, <2>0, <2>1, <2>2, BirthKept DEF BirthInv, Did
<1>11. CASE Propose(j)
  <2>0. /\ \A k \in Jobs : k # j => pc'[k] = pc[k]
        /\ pc'[j] # "idle"
        /\ Is(j, "create") /\ ~Early(j) => ~Early(j)'
    BY <1>11, PcStep DEF Step
  <2>1. UNCHANGED <<made, name, noted>>
    BY <1>11 DEF Propose, keycloak, history
  <2>2. pc[j] # "idle" /\ (Is(j, "create") => IF Did(j, j, "create") THEN ~Early(j)'
                            ELSE Early(j)' \/ At(j, "failed")')
    BY <1>11, <1>t, <2>0 DEF Propose, BirthInv, Early, At, Flying
  <2> QED
    BY <1>0, <2>0, <2>1, <2>2, BirthKept DEF BirthInv, Did
<1>12. CASE AuditProposal(j)
  <2>0. /\ \A k \in Jobs : k # j => pc'[k] = pc[k]
        /\ pc'[j] # "idle"
        /\ Is(j, "create") /\ ~Early(j) => ~Early(j)'
    BY <1>12, PcStep DEF Step
  <2>1. UNCHANGED <<made, name, noted>>
    BY <1>12 DEF AuditProposal, keycloak, history
  <2>2. pc[j] # "idle" /\ (Is(j, "create") => IF Did(j, j, "create") THEN ~Early(j)'
                            ELSE Early(j)' \/ At(j, "failed")')
    BY <1>12, <1>t, <2>0 DEF AuditProposal, BirthInv, Early, At, Flying
  <2> QED
    BY <1>0, <2>0, <2>1, <2>2, BirthKept DEF BirthInv, Did
<1>13. CASE ReadTarget(j)
  <2>0. /\ \A k \in Jobs : k # j => pc'[k] = pc[k]
        /\ pc'[j] # "idle"
        /\ Is(j, "create") /\ ~Early(j) => ~Early(j)'
    BY <1>13, PcStep DEF Step
  <2>1. UNCHANGED <<made, name, noted>>
    BY <1>13 DEF ReadTarget, keycloak, history
  <2>2. pc[j] # "idle" /\ (Is(j, "create") => IF Did(j, j, "create") THEN ~Early(j)'
                            ELSE Early(j)' \/ At(j, "failed")')
    BY <1>13, <1>t, <2>0 DEF ReadTarget, BirthInv, Early, At, Flying
  <2> QED
    BY <1>0, <2>0, <2>1, <2>2, BirthKept DEF BirthInv, Did
<1>14. CASE TargetError(j)
  <2>0. /\ \A k \in Jobs : k # j => pc'[k] = pc[k]
        /\ pc'[j] # "idle"
        /\ Is(j, "create") /\ ~Early(j) => ~Early(j)'
    BY <1>14, PcStep DEF Step
  <2>1. UNCHANGED <<made, name, noted>>
    BY <1>14 DEF TargetError, keycloak, history
  <2>2. pc[j] # "idle" /\ (Is(j, "create") => IF Did(j, j, "create") THEN ~Early(j)'
                            ELSE Early(j)' \/ At(j, "failed")')
    BY <1>14, <1>t, <2>0 DEF TargetError, BirthInv, Early, At, Flying
  <2> QED
    BY <1>0, <2>0, <2>1, <2>2, BirthKept DEF BirthInv, Did
<1>15. CASE Delete(j)
  <2>0. /\ \A k \in Jobs : k # j => pc'[k] = pc[k]
        /\ pc'[j] # "idle"
        /\ Is(j, "create") /\ ~Early(j) => ~Early(j)'
    BY <1>15, PcStep DEF Step
  <2>1. pc[j] # "idle" /\ ~Early(j) /\ ~At(j, "failed")
    BY <1>15 DEF Delete, At, Early
  <2>2. Placed(j)
    BY <1>15, HereNow DEF Delete, At, Closed, Is
  <2>3. Placed(j) => \A i \in Jobs : ~Did(i, i, "create") => i # Target(j)
    BY <2>1, TargetBorn
  <2>4. \A i \in Jobs : ~Did(i, i, "create")
          => name[i] = None /\ noted[i] = None /\ \A e \in made : e.about # i
    BY DEF BirthInv
  <2>5. /\ \A i \in Jobs : Did(i, i, "create")' <=> Did(i, i, "create")
        /\ \A i \in Jobs : ~Did(i, i, "create")
             => name'[i] = None /\ noted'[i] = None /\ \A e \in made' : e.about # i
    BY <1>15, <1>t, <2>2, <2>3, <2>4 DEF Delete, Gone, keycloak, history,
         Make, Did, Is
  <2>6. Is(j, "create") => Did(j, j, "create")
    BY <2>1 DEF BirthInv
  <2> QED
    BY <1>0, <2>0, <2>1, <2>5, <2>6, BirthKept
<1>16. CASE Record(j)
  <2>0. /\ \A k \in Jobs : k # j => pc'[k] = pc[k]
        /\ pc'[j] # "idle"
        /\ Is(j, "create") /\ ~Early(j) => ~Early(j)'
    BY <1>16, PcStep DEF Step
  <2>1. UNCHANGED <<made, name, noted>>
    BY <1>16 DEF Record, keycloak, history
  <2>2. pc[j] # "idle" /\ (Is(j, "create") => IF Did(j, j, "create") THEN ~Early(j)'
                            ELSE Early(j)' \/ At(j, "failed")')
    BY <1>16, <1>t, <2>0 DEF Record, BirthInv, Early, At, Flying
  <2> QED
    BY <1>0, <2>0, <2>1, <2>2, BirthKept DEF BirthInv, Did
<1>17. CASE SetPassword(j)
  <2>0. /\ \A k \in Jobs : k # j => pc'[k] = pc[k]
        /\ pc'[j] # "idle"
        /\ Is(j, "create") /\ ~Early(j) => ~Early(j)'
    BY <1>17, PcStep DEF Step
  <2>1. pc[j] # "idle" /\ ~Early(j) /\ ~At(j, "failed")
    BY <1>17 DEF SetPassword, At, Early
  <2>2. Placed(j)
    BY <1>17, HereNow DEF SetPassword, At, Closed, Is
  <2>3. Placed(j) => \A i \in Jobs : ~Did(i, i, "create") => i # Target(j)
    BY <2>1, TargetBorn
  <2>4. \A i \in Jobs : ~Did(i, i, "create")
          => name[i] = None /\ noted[i] = None /\ \A e \in made : e.about # i
    BY DEF BirthInv
  <2>5. /\ \A i \in Jobs : Did(i, i, "create")' <=> Did(i, i, "create")
        /\ \A i \in Jobs : ~Did(i, i, "create")
             => name'[i] = None /\ noted'[i] = None /\ \A e \in made' : e.about # i
    BY <1>17, <1>t, <2>2, <2>3, <2>4 DEF SetPassword, keycloak, history,
         Make, Did, Is
  <2>6. Is(j, "create") => Did(j, j, "create")
    BY <2>1 DEF BirthInv
  <2> QED
    BY <1>0, <2>0, <2>1, <2>5, <2>6, BirthKept
<1>18. CASE Lookup(j)
  <2>0. /\ \A k \in Jobs : k # j => pc'[k] = pc[k]
        /\ pc'[j] # "idle"
        /\ Is(j, "create") /\ ~Early(j) => ~Early(j)'
    BY <1>18, PcStep DEF Step
  <2>1. UNCHANGED <<made, name, noted>>
    BY <1>18 DEF Lookup, keycloak, history
  <2>2. pc[j] # "idle" /\ (Is(j, "create") => IF Did(j, j, "create") THEN ~Early(j)'
                            ELSE Early(j)' \/ At(j, "failed")')
    BY <1>18, <1>t, <2>0 DEF Lookup, BirthInv, Early, At, Flying
  <2> QED
    BY <1>0, <2>0, <2>1, <2>2, BirthKept DEF BirthInv, Did
<1>19. CASE CallError(j)
  <2>0. /\ \A k \in Jobs : k # j => pc'[k] = pc[k]
        /\ pc'[j] # "idle"
        /\ Is(j, "create") /\ ~Early(j) => ~Early(j)'
    BY <1>19, PcStep DEF Step
  <2>1. pc[j] # "idle" /\ ~Early(j) /\ ~At(j, "failed")
    BY <1>19 DEF CallError, At, Early
  <2>2. Placed(j)
    BY <1>19, HereNow DEF CallError, At, Closed, Is
  <2>3. Placed(j) => \A i \in Jobs : ~Did(i, i, "create") => i # Target(j)
    BY <2>1, TargetBorn
  <2>4. \A i \in Jobs : ~Did(i, i, "create")
          => name[i] = None /\ noted[i] = None /\ \A e \in made : e.about # i
    BY DEF BirthInv
  <2>5. /\ \A i \in Jobs : Did(i, i, "create")' <=> Did(i, i, "create")
        /\ \A i \in Jobs : ~Did(i, i, "create")
             => name'[i] = None /\ noted'[i] = None /\ \A e \in made' : e.about # i
    BY <1>19, <1>t, <2>2, <2>3, <2>4 DEF CallError, Gone, keycloak, history,
         Make, Did, Is
  <2>6. Is(j, "create") => Did(j, j, "create")
    BY <2>1 DEF BirthInv
  <2> QED
    BY <1>0, <2>0, <2>1, <2>5, <2>6, BirthKept
<1>20. CASE Audit(j)
  <2>0. /\ \A k \in Jobs : k # j => pc'[k] = pc[k]
        /\ pc'[j] # "idle"
        /\ Is(j, "create") /\ ~Early(j) => ~Early(j)'
    BY <1>20, PcStep DEF Step
  <2>1. pc[j] # "idle" /\ ~Early(j) /\ ~At(j, "failed")
    BY <1>20 DEF Audit, At, Early
  <2>2. Is(j, "bulkEdit") \/ Placed(j)
    BY <1>20, HereNow DEF Audit, At, Closed, Is
  <2>3. Placed(j) => \A i \in Jobs : ~Did(i, i, "create") => i # Target(j)
    BY <2>1, TargetBorn
  <2>4. \A i \in Jobs : ~Did(i, i, "create")
          => name[i] = None /\ noted[i] = None /\ \A e \in made : e.about # i
    BY DEF BirthInv
  <2>5. /\ \A i \in Jobs : Did(i, i, "create")' <=> Did(i, i, "create")
        /\ \A i \in Jobs : ~Did(i, i, "create")
             => name'[i] = None /\ noted'[i] = None /\ \A e \in made' : e.about # i
    BY <1>20, <1>t, <2>2, <2>3, <2>4 DEF Audit, keycloak, history, Make, Did,
         Is
  <2>6. Is(j, "create") => Did(j, j, "create")
    BY <2>1 DEF BirthInv
  <2> QED
    BY <1>0, <2>0, <2>1, <2>5, <2>6, BirthKept
<1>21. CASE AuditLost(j)
  <2>0. /\ \A k \in Jobs : k # j => pc'[k] = pc[k]
        /\ pc'[j] # "idle"
        /\ Is(j, "create") /\ ~Early(j) => ~Early(j)'
    BY <1>21, PcStep DEF Step
  <2>1. UNCHANGED <<made, name, noted>>
    BY <1>21 DEF AuditLost, keycloak, history
  <2>2. pc[j] # "idle" /\ (Is(j, "create") => IF Did(j, j, "create") THEN ~Early(j)'
                            ELSE Early(j)' \/ At(j, "failed")')
    BY <1>21, <1>t, <2>0 DEF AuditLost, BirthInv, Early, At, Flying
  <2> QED
    BY <1>0, <2>0, <2>1, <2>2, BirthKept DEF BirthInv, Did
<1>22. CASE AuditFailure(j)
  <2>0. /\ \A k \in Jobs : k # j => pc'[k] = pc[k]
        /\ pc'[j] # "idle"
        /\ Is(j, "create") /\ ~Early(j) => ~Early(j)'
    BY <1>22, PcStep DEF Step
  <2>1. UNCHANGED <<made, name, noted>>
    BY <1>22 DEF AuditFailure, keycloak, history
  <2>2. pc[j] # "idle" /\ (Is(j, "create") => IF Did(j, j, "create") THEN ~Early(j)'
                            ELSE Early(j)' \/ At(j, "failed")')
    BY <1>22, <1>t, <2>0 DEF AuditFailure, BirthInv, Early, At, Flying
  <2> QED
    BY <1>0, <2>0, <2>1, <2>2, BirthKept DEF BirthInv, Did
<1>23. CASE Answer(j)
  <2>0. /\ \A k \in Jobs : k # j => pc'[k] = pc[k]
        /\ pc'[j] # "idle"
        /\ Is(j, "create") /\ ~Early(j) => ~Early(j)'
    BY <1>23, PcStep DEF Step
  <2>1. UNCHANGED <<made, name, noted>>
    BY <1>23 DEF Answer, keycloak, history
  <2>2. pc[j] # "idle" /\ (Is(j, "create") => IF Did(j, j, "create") THEN ~Early(j)'
                            ELSE Early(j)' \/ At(j, "failed")')
    BY <1>23, <1>t, <2>0 DEF Answer, BirthInv, Early, At, Flying
  <2> QED
    BY <1>0, <2>0, <2>1, <2>2, BirthKept DEF BirthInv, Did
<1>24. CASE Fail(j)
  <2>0. /\ \A k \in Jobs : k # j => pc'[k] = pc[k]
        /\ pc'[j] # "idle"
        /\ Is(j, "create") /\ ~Early(j) => ~Early(j)'
    BY <1>24, PcStep DEF Step
  <2>1. UNCHANGED <<made, name, noted>>
    BY <1>24 DEF Fail, keycloak, history
  <2>2. pc[j] # "idle" /\ (Is(j, "create") => IF Did(j, j, "create") THEN ~Early(j)'
                            ELSE Early(j)' \/ At(j, "failed")')
    BY <1>24, <1>t, <2>0 DEF Fail, BirthInv, Early, At, Flying, Goto
  <2> QED
    BY <1>0, <2>0, <2>1, <2>2, BirthKept DEF BirthInv, Did
<1> QED
  BY <1>1, <1>2, <1>3, <1>4, <1>5, <1>6, <1>7, <1>8, <1>9, <1>10, <1>11,
       <1>12, <1>13, <1>14, <1>15, <1>16, <1>17, <1>18, <1>19, <1>20, <1>21,
       <1>22, <1>23, <1>24 DEF Step

\* A step changes the place and the notes of one handler.
LEMMA FrameLocal ==
  ASSUME TypeOK, KindInv, TodoInv, NEW j \in Jobs, Step(j)
  PROVE  \A k \in Jobs : k # j => /\ pc'[k] = pc[k] /\ todo'[k] = todo[k]
                                  /\ team'[k] = team[k] /\ skipped'[k] = skipped[k]
<1>t. /\ pc \in [Jobs -> Control] /\ todo \in [Jobs -> Seq(Ids)]
      /\ team \in [Jobs -> Teams \cup {None}] /\ skipped \in [Jobs -> SUBSET Ids]
  BY DEF TypeOK
<1>1. CASE Start(j)
  BY <1>t, <1>1 DEF Start, keycloak, s3, local, history, Goto, At, Is
<1>2. CASE FindTeam(j)
  BY <1>t, <1>2 DEF FindTeam, Searched, keycloak, s3, local, history, Goto,
       At, Is
<1>3. CASE Post(j)
  BY <1>t, <1>3 DEF Post, Created, keycloak, s3, local, history, Goto, At, Is
<1>4. CASE FallBack(j)
  BY <1>t, <1>4 DEF FallBack, keycloak, s3, local, history, Goto, At, Is
<1>5. CASE PostBare(j)
  BY <1>t, <1>5 DEF PostBare, Created, keycloak, s3, local, history, Goto,
       At, Is
<1>6. CASE Fetch(j)
  BY <1>t, <1>6 DEF Fetch, keycloak, s3, local, history, Goto, At, Is
<1>7. CASE SetEnabled(j)
  <2>1. NextTarget(j) => Moved(j) \/ Apart(j)
    BY <1>7, MoveSound DEF MoveStep
  <2> QED
    BY <1>t, <1>7, <2>1 DEF SetEnabled, keycloak, s3, local, history, Goto,
         At, Is, Moved, Apart
<1>8. CASE Leave(j)
  BY <1>t, <1>8 DEF Leave, keycloak, s3, local, history, Goto, At, Is
<1>9. CASE Join(j)
  BY <1>t, <1>9 DEF Join, keycloak, s3, local, history, Goto, At, Is
<1>10. CASE SetAttribute(j)
  <2>1. NextTarget(j) => Moved(j) \/ Apart(j)
    BY <1>10, MoveSound DEF MoveStep
  <2> QED
    BY <1>t, <1>10, <2>1 DEF SetAttribute, keycloak, s3, local, history,
         Goto, At, Is, Moved, Apart
<1>11. CASE Propose(j)
  <2>1. NextTarget(j) => Moved(j) \/ Apart(j)
    BY <1>11, MoveSound DEF MoveStep
  <2> QED
    BY <1>t, <1>11, <2>1 DEF Propose, keycloak, s3, local, history, Goto, At,
         Is, Moved, Apart
<1>12. CASE AuditProposal(j)
  <2>1. NextTarget(j) => Moved(j) \/ Apart(j)
    BY <1>12, MoveSound DEF MoveStep
  <2> QED
    BY <1>t, <1>12, <2>1 DEF AuditProposal, keycloak, s3, local, history,
         Goto, At, Is, Moved, Apart
<1>13. CASE ReadTarget(j)
  <2>1. NextTarget(j) => Moved(j) \/ Apart(j)
    BY <1>13, MoveSound DEF MoveStep
  <2> QED
    BY <1>t, <1>13, <2>1 DEF ReadTarget, Skip, keycloak, s3, local, history,
         Goto, At, Is, Moved, Apart
<1>14. CASE TargetError(j)
  <2>1. NextTarget(j) => Moved(j) \/ Apart(j)
    BY <1>14, MoveSound DEF MoveStep
  <2> QED
    BY <1>t, <1>14, <2>1 DEF TargetError, Skip, keycloak, s3, local, history,
         Goto, At, Is, Moved, Apart
<1>15. CASE Delete(j)
  BY <1>t, <1>15 DEF Delete, Gone, keycloak, s3, local, history, Goto, At, Is
<1>16. CASE Record(j)
  BY <1>t, <1>16 DEF Record, keycloak, s3, local, history, Goto, At, Is
<1>17. CASE SetPassword(j)
  BY <1>t, <1>17 DEF SetPassword, keycloak, s3, local, history, Goto, At, Is
<1>18. CASE Lookup(j)
  BY <1>t, <1>18 DEF Lookup, keycloak, s3, local, history, Goto, At, Is
<1>19. CASE CallError(j)
  BY <1>t, <1>19 DEF CallError, Gone, keycloak, s3, local, history, Goto, At,
       Is
<1>20. CASE Audit(j)
  <2>1. NextTarget(j) => Moved(j) \/ Apart(j)
    BY <1>20, MoveSound DEF MoveStep
  <2> QED
    BY <1>t, <1>20, <2>1 DEF Audit, keycloak, s3, local, history, Goto, At,
         Is, Moved, Apart
<1>21. CASE AuditLost(j)
  <2>1. NextTarget(j) => Moved(j) \/ Apart(j)
    BY <1>21, MoveSound DEF MoveStep
  <2> QED
    BY <1>t, <1>21, <2>1 DEF AuditLost, keycloak, s3, local, history, Goto,
         At, Is, Moved, Apart
<1>22. CASE AuditFailure(j)
  <2>1. NextTarget(j) => Moved(j) \/ Apart(j)
    BY <1>22, MoveSound DEF MoveStep
  <2> QED
    BY <1>t, <1>22, <2>1 DEF AuditFailure, Skip, keycloak, s3, local,
         history, Goto, At, Is, Moved, Apart
<1>23. CASE Answer(j)
  BY <1>t, <1>23 DEF Answer, keycloak, s3, local, history, Goto, At, Is
<1>24. CASE Fail(j)
  BY <1>t, <1>24 DEF Fail, keycloak, s3, local, history, Goto, At, Is
<1> QED
  BY <1>1, <1>2, <1>3, <1>4, <1>5, <1>6, <1>7, <1>8, <1>9, <1>10, <1>11,
       <1>12, <1>13, <1>14, <1>15, <1>16, <1>17, <1>18, <1>19, <1>20, <1>21,
       <1>22, <1>23, <1>24 DEF Step

\* What a step adds to the effects is about its own account.
LEMMA FrameMade ==
  ASSUME TypeOK, KindInv, TodoInv, NEW j \in Jobs, Step(j)
  PROVE  /\ made \subseteq made' /\ hidden \subseteq hidden'
         /\ \A e \in made' : e \notin made => e.by = j /\ e.about = Target(j)
         /\ \A e \in hidden' : e \notin hidden => e.by = j /\ e.about = Target(j)
         /\ \A i \in Ids : name[i] = None /\ name'[i] # None
                        => i = j /\ Is(j, "create") /\ Early(j)
<1>t. name \in [Ids -> Names \cup {None}]
  BY DEF TypeOK
<1>k. pc[j] \in {"post", "postBare"} => Is(j, "create") /\ Target(j) = j
  BY Here DEF KindInv
<1>1. CASE Start(j)
  BY <1>t, <1>k, <1>1 DEF Start, keycloak, s3, local, history, Goto, At, Is,
       Make, Early
<1>2. CASE FindTeam(j)
  BY <1>t, <1>k, <1>2 DEF FindTeam, Searched, keycloak, s3, local, history,
       Goto, At, Is, Make, Early
<1>3. CASE Post(j)
  BY <1>t, <1>k, <1>3 DEF Post, Created, keycloak, s3, local, history, Goto,
       At, Is, Make, Early
<1>4. CASE FallBack(j)
  BY <1>t, <1>k, <1>4 DEF FallBack, keycloak, s3, local, history, Goto, At,
       Is, Make, Early
<1>5. CASE PostBare(j)
  BY <1>t, <1>k, <1>5 DEF PostBare, Created, keycloak, s3, local, history,
       Goto, At, Is, Make, Early
<1>6. CASE Fetch(j)
  BY <1>t, <1>k, <1>6 DEF Fetch, keycloak, s3, local, history, Goto, At, Is,
       Make, Early
<1>7. CASE SetEnabled(j)
  BY <1>t, <1>k, <1>7 DEF SetEnabled, keycloak, s3, local, history, Goto, At,
       Is, Make, Early
<1>8. CASE Leave(j)
  BY <1>t, <1>k, <1>8 DEF Leave, keycloak, s3, local, history, Goto, At, Is,
       Make, Early
<1>9. CASE Join(j)
  BY <1>t, <1>k, <1>9 DEF Join, keycloak, s3, local, history, Goto, At, Is,
       Make, Early
<1>10. CASE SetAttribute(j)
  BY <1>t, <1>k, <1>10 DEF SetAttribute, keycloak, s3, local, history, Goto,
       At, Is, Make, Early
<1>11. CASE Propose(j)
  BY <1>t, <1>k, <1>11 DEF Propose, keycloak, s3, local, history, Goto, At,
       Is, Make, Early
<1>12. CASE AuditProposal(j)
  BY <1>t, <1>k, <1>12 DEF AuditProposal, keycloak, s3, local, history, Goto,
       At, Is, Make, Early
<1>13. CASE ReadTarget(j)
  BY <1>t, <1>k, <1>13 DEF ReadTarget, Skip, keycloak, s3, local, history,
       Goto, At, Is, Make, Early
<1>14. CASE TargetError(j)
  BY <1>t, <1>k, <1>14 DEF TargetError, Skip, keycloak, s3, local, history,
       Goto, At, Is, Make, Early
<1>15. CASE Delete(j)
  BY <1>t, <1>k, <1>15 DEF Delete, Gone, keycloak, s3, local, history, Goto,
       At, Is, Make, Early
<1>16. CASE Record(j)
  BY <1>t, <1>k, <1>16 DEF Record, keycloak, s3, local, history, Goto, At,
       Is, Make, Early
<1>17. CASE SetPassword(j)
  BY <1>t, <1>k, <1>17 DEF SetPassword, keycloak, s3, local, history, Goto,
       At, Is, Make, Early
<1>18. CASE Lookup(j)
  BY <1>t, <1>k, <1>18 DEF Lookup, keycloak, s3, local, history, Goto, At,
       Is, Make, Early
<1>19. CASE CallError(j)
  BY <1>t, <1>k, <1>19 DEF CallError, Gone, keycloak, s3, local, history,
       Goto, At, Is, Make, Early
<1>20. CASE Audit(j)
  BY <1>t, <1>k, <1>20 DEF Audit, keycloak, s3, local, history, Goto, At, Is,
       Make, Early
<1>21. CASE AuditLost(j)
  BY <1>t, <1>k, <1>21 DEF AuditLost, keycloak, s3, local, history, Goto, At,
       Is, Make, Early
<1>22. CASE AuditFailure(j)
  BY <1>t, <1>k, <1>22 DEF AuditFailure, Skip, keycloak, s3, local, history,
       Goto, At, Is, Make, Early
<1>23. CASE Answer(j)
  BY <1>t, <1>k, <1>23 DEF Answer, keycloak, s3, local, history, Goto, At,
       Is, Make, Early
<1>24. CASE Fail(j)
  BY <1>t, <1>k, <1>24 DEF Fail, keycloak, s3, local, history, Goto, At, Is,
       Make, Early
<1> QED
  BY <1>1, <1>2, <1>3, <1>4, <1>5, <1>6, <1>7, <1>8, <1>9, <1>10, <1>11,
       <1>12, <1>13, <1>14, <1>15, <1>16, <1>17, <1>18, <1>19, <1>20, <1>21,
       <1>22, <1>23, <1>24 DEF Step

\* What a step adds to the trail is its own.
LEMMA FrameTrail ==
  ASSUME TypeOK, KindInv, TodoInv, NEW j \in Jobs, Step(j)
  PROVE  /\ audit \subseteq audit' /\ log \subseteq log' /\ lost \subseteq lost'
         /\ proposals \subseteq proposals'
         /\ \A e \in audit' : e \notin audit => e.by = j
         /\ \A e \in log' : e \notin log => e.by = j
         /\ \A e \in proposals' : e \notin proposals => e.by = j
<1>1. CASE Start(j)
  BY <1>1 DEF Start, keycloak, s3, local, history, Goto, At, Is, EntryOf
<1>2. CASE FindTeam(j)
  BY <1>2 DEF FindTeam, Searched, keycloak, s3, local, history, Goto, At, Is,
       EntryOf
<1>3. CASE Post(j)
  BY <1>3 DEF Post, Created, keycloak, s3, local, history, Goto, At, Is,
       EntryOf
<1>4. CASE FallBack(j)
  BY <1>4 DEF FallBack, keycloak, s3, local, history, Goto, At, Is, EntryOf
<1>5. CASE PostBare(j)
  BY <1>5 DEF PostBare, Created, keycloak, s3, local, history, Goto, At, Is,
       EntryOf
<1>6. CASE Fetch(j)
  BY <1>6 DEF Fetch, keycloak, s3, local, history, Goto, At, Is, EntryOf
<1>7. CASE SetEnabled(j)
  BY <1>7 DEF SetEnabled, keycloak, s3, local, history, Goto, At, Is, EntryOf
<1>8. CASE Leave(j)
  BY <1>8 DEF Leave, keycloak, s3, local, history, Goto, At, Is, EntryOf
<1>9. CASE Join(j)
  BY <1>9 DEF Join, keycloak, s3, local, history, Goto, At, Is, EntryOf
<1>10. CASE SetAttribute(j)
  BY <1>10 DEF SetAttribute, keycloak, s3, local, history, Goto, At, Is,
       EntryOf
<1>11. CASE Propose(j)
  BY <1>11 DEF Propose, keycloak, s3, local, history, Goto, At, Is, EntryOf
<1>12. CASE AuditProposal(j)
  BY <1>12 DEF AuditProposal, keycloak, s3, local, history, Goto, At, Is,
       EntryOf
<1>13. CASE ReadTarget(j)
  BY <1>13 DEF ReadTarget, Skip, keycloak, s3, local, history, Goto, At, Is,
       EntryOf
<1>14. CASE TargetError(j)
  BY <1>14 DEF TargetError, Skip, keycloak, s3, local, history, Goto, At, Is,
       EntryOf
<1>15. CASE Delete(j)
  BY <1>15 DEF Delete, Gone, keycloak, s3, local, history, Goto, At, Is,
       EntryOf
<1>16. CASE Record(j)
  BY <1>16 DEF Record, keycloak, s3, local, history, Goto, At, Is, EntryOf
<1>17. CASE SetPassword(j)
  BY <1>17 DEF SetPassword, keycloak, s3, local, history, Goto, At, Is,
       EntryOf
<1>18. CASE Lookup(j)
  BY <1>18 DEF Lookup, keycloak, s3, local, history, Goto, At, Is, EntryOf
<1>19. CASE CallError(j)
  BY <1>19 DEF CallError, Gone, keycloak, s3, local, history, Goto, At, Is,
       EntryOf
<1>20. CASE Audit(j)
  BY <1>20 DEF Audit, keycloak, s3, local, history, Goto, At, Is, EntryOf
<1>21. CASE AuditLost(j)
  BY <1>21 DEF AuditLost, keycloak, s3, local, history, Goto, At, Is, EntryOf
<1>22. CASE AuditFailure(j)
  BY <1>22 DEF AuditFailure, Skip, keycloak, s3, local, history, Goto, At,
       Is, EntryOf
<1>23. CASE Answer(j)
  BY <1>23 DEF Answer, keycloak, s3, local, history, Goto, At, Is, EntryOf
<1>24. CASE Fail(j)
  BY <1>24 DEF Fail, keycloak, s3, local, history, Goto, At, Is, EntryOf
<1> QED
  BY <1>1, <1>2, <1>3, <1>4, <1>5, <1>6, <1>7, <1>8, <1>9, <1>10, <1>11,
       <1>12, <1>13, <1>14, <1>15, <1>16, <1>17, <1>18, <1>19, <1>20, <1>21,
       <1>22, <1>23, <1>24 DEF Step

\* Of the other handlers a step changes nothing.
LEMMA Others ==
  ASSUME TypeOK, KindInv, TodoInv, NEW j \in Jobs, Step(j), NEW k \in Jobs,
         k # j
  PROVE  /\ pc'[k] = pc[k] /\ todo'[k] = todo[k] /\ team'[k] = team[k]
         /\ skipped'[k] = skipped[k] /\ job'[k] = job[k]
         /\ TargetsOf(k)' = TargetsOf(k) /\ Ahead(k)' = Ahead(k)
         /\ Target(k)' = Target(k) /\ Closed(k)' = Closed(k)
         /\ Deletes(k)' = Deletes(k)
         /\ \A s : Is(k, s)' = Is(k, s) /\ At(k, s)' = At(k, s)
         /\ \A i, w : Did(k, i, w)' = Did(k, i, w)
         /\ \A i : Hidden(k, i)' = Hidden(k, i) /\ Proposed(k, i)' = Proposed(k, i)
<1>1. job' = job /\ \A n : TargetsOf(n)' = TargetsOf(n)
  BY JobKept DEF Next, Step
<1>2. /\ pc'[k] = pc[k] /\ todo'[k] = todo[k] /\ team'[k] = team[k]
      /\ skipped'[k] = skipped[k]
  BY FrameLocal
<1>3. Ahead(k)' = Ahead(k)
  BY <1>2, AheadKept
<1>4. Target(k)' = Target(k) /\ Closed(k)' = Closed(k) /\ Deletes(k)' = Deletes(k)
  BY <1>1, <1>2 DEF Target, Closed, Deletes, Is
<1>5. \A i, w : Did(k, i, w)' = Did(k, i, w)
  BY FrameMade DEF Did
<1>6. \A i : Hidden(k, i)' = Hidden(k, i)
  BY FrameMade DEF Hidden
<1>7. \A i : Proposed(k, i)' = Proposed(k, i)
  BY FrameTrail DEF Proposed
<1>8. \A s : Is(k, s)' = Is(k, s) /\ At(k, s)' = At(k, s)
  BY <1>1, <1>2 DEF Is, At
<1> QED
  BY <1>1, <1>2, <1>3, <1>4, <1>5, <1>6, <1>7, <1>8

LEMMA MovedPc ==
  ASSUME TypeOK, NEW j \in Jobs, Moved(j)
  PROVE  /\ Ahead(j)' = Ahead(j) \ {Target(j)} /\ todo[j] # <<>>
         /\ Is(j, "bulkDelete") => pc'[j] \in {"target", "answer"}
         /\ Is(j, "bulkEdit") /\ job[j].admin
              => pc'[j] \in {"enable", "leave", "audit"}
         /\ Is(j, "bulkEdit") /\ ~job[j].admin => pc'[j] \in {"propose", "answer"}
         /\ pc'[j] = "answer" => todo'[j] = <<>>
         /\ pc'[j] = "audit"
              => todo'[j] = <<>> \/ (team[j] = None /\ job[j].enable = None)
         /\ Is(j, "bulkDelete") \/ Is(j, "bulkEdit")
<1>1. PICK q \in Control, t \in Seq(Ids) :
         /\ pc' = [pc EXCEPT ![j] = q] /\ todo' = [todo EXCEPT ![j] = t]
         /\ \/ t # <<>> /\ q = CallFor(j, team[j])
            \/ /\ t = <<>>
               /\ q = IF Is(j, "bulkEdit") /\ job[j].admin THEN "audit"
                                                        ELSE "answer"
  BY DEF Moved
<1>2. pc'[j] = q /\ todo'[j] = t
  BY <1>1 DEF TypeOK
<1>3. /\ CallFor(j, team[j]) # "answer"
      /\ Is(j, "bulkDelete") => CallFor(j, team[j]) = "target"
  BY CallIs DEF Is, Deletes
<1> QED
  BY <1>1, <1>2, <1>3, CallIs DEF Moved, Is

LEMMA TurnMoved ==
  ASSUME NEW j \in Jobs, Turn(j), ~Closed(j),
         Ahead(j)' = Ahead(j) \ {Target(j)}, pc'[j] \in {"target", "answer"},
         UNCHANGED <<made, hidden>>
  PROVE  Turn(j)'
BY DEF Turn, Closed, At, Did, Hidden

LEMMA TodoKept ==
  ASSUME NEW j, UNCHANGED <<job, todo>>
  PROVE  Target(j)' = Target(j) /\ Ahead(j)' = Ahead(j)
BY DEF Target, Ahead, Is

\* A handler keeps its turn.
LEMMA OwnTurn ==
  ASSUME TypeOK, KindInv, TodoInv, NEW j \in Jobs, Step(j), Turn(j), Deletes(j)
  PROVE  Turn(j)'
<1>t. pc \in [Jobs -> Control] /\ todo \in [Jobs -> Seq(Ids)]
  BY DEF TypeOK
<1>p. pc[j] \in {"idle", "findTeam", "target", "delete", "record", "audit",
                 "auditFailure", "answer", "ok", "failed"}
  BY DEF TypeOK, KindInv, Control, Flying, Is, Deletes
<1>k. job' = job /\ Deletes(j)' /\ ~Is(j, "create")
  BY JobKept DEF Next, Step, Deletes, Is
<1>1. CASE Start(j)
  <2>1. Placed(j)
    BY <1>1, HereNow DEF Start, At, Closed, Is
  <2> QED
    BY <1>t, <1>p, <1>k, CallIs, AheadKept, <1>1, <2>1 DEF Start, keycloak,
         s3, local, history, Goto, At, Is, Turn, Deletes, Did, Hidden, Make,
         Closed, Target, Flying, Placed
<1>2. CASE FindTeam(j)
  BY <1>t, <1>p, <1>k, CallIs, AheadKept, <1>2 DEF FindTeam, Searched,
       keycloak, s3, local, history, Goto, At, Is, Turn, Deletes, Did,
       Hidden, Make, Closed, Target, Flying
<1>13. CASE ReadTarget(j)
  <2>1. NextTarget(j) => Moved(j) \/ Apart(j)
    BY <1>13, MoveSound DEF MoveStep
  <2>2. CASE Moved(j)
    <3>1. ~Closed(j) /\ UNCHANGED <<made, hidden>>
      BY <1>13 DEF ReadTarget, Closed, At, history
    <3>2. Is(j, "bulkDelete")
      BY <2>2, MovedPc DEF Deletes, Is
    <3> QED
      BY <2>2, <3>1, <3>2, MovedPc, TurnMoved
  <2>3. CASE ~Moved(j)
    <3>1. UNCHANGED <<todo, made, hidden>>
      BY <1>13, <2>1, <2>3, <1>k DEF ReadTarget, Skip, Apart, At, Is, history
    <3>2. pc'[j] \in {"answer", "delete", "failed"}
      BY <1>13, <2>1, <2>3, <1>t, <1>k DEF ReadTarget, Skip, Apart, At, Is,
           Goto
    <3>3. pc'[j] = "delete" => pc[j] = "target"
      BY <1>13, <2>1, <2>3, <1>t, <1>k DEF ReadTarget, Skip, Apart, At, Is,
           Goto
    <3> QED
      BY <1>k, <3>1, <3>2, <3>3, TodoKept DEF Turn, Did, Hidden, Closed, At
  <2> QED
    BY <2>2, <2>3
<1>14. CASE TargetError(j)
  <2>1. NextTarget(j) => Moved(j) \/ Apart(j)
    BY <1>14, MoveSound DEF MoveStep
  <2>2. CASE Moved(j)
    <3>1. ~Closed(j) /\ UNCHANGED <<made, hidden>>
      BY <1>14 DEF TargetError, Closed, At, history
    <3>2. Is(j, "bulkDelete")
      BY <2>2, MovedPc DEF Deletes, Is
    <3> QED
      BY <2>2, <3>1, <3>2, MovedPc, TurnMoved
  <2>3. CASE ~Moved(j)
    <3>1. UNCHANGED <<todo, made, hidden>>
      BY <1>14, <2>1, <2>3, <1>k DEF TargetError, Skip, Apart, At, Is, history
    <3>2. pc'[j] \in {"answer", "delete", "failed"}
      BY <1>14, <2>1, <2>3, <1>t, <1>k DEF TargetError, Skip, Apart, At, Is,
           Goto
    <3>3. pc'[j] = "delete" => pc[j] = "target"
      BY <1>14, <2>1, <2>3, <1>t, <1>k DEF TargetError, Skip, Apart, At, Is,
           Goto
    <3> QED
      BY <1>k, <3>1, <3>2, <3>3, TodoKept DEF Turn, Did, Hidden, Closed, At
  <2> QED
    BY <2>2, <2>3
<1>15. CASE Delete(j)
  <2>1. /\ pc[j] = "delete" /\ pc'[j] = "record" /\ UNCHANGED <<todo, hidden>>
        /\ made' = made \cup {[by |-> j, about |-> Target(j), what |-> "delete"]}
    BY <1>15, <1>t DEF Delete, At, Goto, local, history, Make
  <2>2. Placed(j)
    BY <1>15, HereNow DEF Delete, At, Closed, Is
  <2>3. ~Hidden(j, Target(j))
    BY <1>k, <2>1, <2>2 DEF Turn, Placed, Closed, At
  <2> QED
    BY <1>k, <2>1, <2>2, <2>3, TodoKept DEF Turn, Did, Hidden, Closed, At,
         Placed
<1>16. CASE Record(j)
  <2>1. /\ pc[j] = "record" /\ pc'[j] = "audit" /\ UNCHANGED <<todo, made,
                                                               hidden>>
    BY <1>16, <1>t DEF Record, At, Goto, local, history, Make
  <2>2. Placed(j)
    BY <1>16, HereNow DEF Record, At, Closed, Is
  <2>3. ~Hidden(j, Target(j))
    BY <1>k, <2>1, <2>2 DEF Turn, Placed, Closed, At
  <2> QED
    BY <1>k, <2>1, <2>2, <2>3, TodoKept DEF Turn, Did, Hidden, Closed, At,
         Placed
<1>19. CASE CallError(j)
  <2>1. /\ pc[j] = "delete" /\ pc'[j] = "auditFailure" /\ UNCHANGED todo
        /\ \/ UNCHANGED <<made, hidden>>
           \/ /\ made' = made \cup {[by |-> j, about |-> Target(j), what |-> "delete"]}
              /\ hidden' = hidden \cup {[by |-> j, about |-> Target(j)]}
    BY <1>19, <1>t, <1>p DEF CallError, At, Goto, local, Make
  <2>2. Placed(j)
    BY <1>19, HereNow DEF CallError, At, Closed, Is
  <2>3. ~Did(j, Target(j), "delete")
    BY <1>k, <2>1, <2>2 DEF Turn, Placed, Closed
  <2> QED
    BY <1>k, <2>1, <2>2, <2>3, TodoKept DEF Turn, Did, Hidden, Closed, At,
         Placed
<1>20. CASE Audit(j)
  <2>1. NextTarget(j) => Moved(j) \/ Apart(j)
    BY <1>20, MoveSound DEF MoveStep
  <2>2. CASE Moved(j)
    <3>1. ~Closed(j) /\ UNCHANGED <<made, hidden>>
      BY <1>20 DEF Audit, Closed, At, history
    <3>2. Is(j, "bulkDelete")
      BY <2>2, MovedPc DEF Deletes, Is
    <3> QED
      BY <2>2, <3>1, <3>2, MovedPc, TurnMoved
  <2>3. CASE ~Moved(j)
    <3>1. UNCHANGED <<todo, made, hidden>>
      BY <1>20, <2>1, <2>3, <1>k DEF Audit, Apart, At, Is, history
    <3>2. pc'[j] \in {"answer", "delete", "failed"}
      BY <1>20, <2>1, <2>3, <1>t, <1>k DEF Audit, Apart, At, Is, Goto
    <3>3. pc'[j] = "delete" => pc[j] = "target"
      BY <1>20, <2>1, <2>3, <1>t, <1>k DEF Audit, Apart, At, Is, Goto
    <3> QED
      BY <1>k, <3>1, <3>2, <3>3, TodoKept DEF Turn, Did, Hidden, Closed, At
  <2> QED
    BY <2>2, <2>3
<1>21. CASE AuditLost(j)
  <2>1. NextTarget(j) => Moved(j) \/ Apart(j)
    BY <1>21, MoveSound DEF MoveStep
  <2>2. CASE Moved(j)
    <3>1. ~Closed(j) /\ UNCHANGED <<made, hidden>>
      BY <1>21 DEF AuditLost, Closed, At, history
    <3>2. Is(j, "bulkDelete")
      BY <2>2, MovedPc DEF Deletes, Is
    <3> QED
      BY <2>2, <3>1, <3>2, MovedPc, TurnMoved
  <2>3. CASE ~Moved(j)
    <3>1. UNCHANGED <<todo, made, hidden>>
      BY <1>21, <2>1, <2>3, <1>k DEF AuditLost, Apart, At, Is, history
    <3>2. pc'[j] \in {"answer", "delete", "failed"}
      BY <1>21, <2>1, <2>3, <1>t, <1>k DEF AuditLost, Apart, At, Is, Goto
    <3>3. pc'[j] = "delete" => pc[j] = "target"
      BY <1>21, <2>1, <2>3, <1>t, <1>k DEF AuditLost, Apart, At, Is, Goto
    <3> QED
      BY <1>k, <3>1, <3>2, <3>3, TodoKept DEF Turn, Did, Hidden, Closed, At
  <2> QED
    BY <2>2, <2>3
<1>22. CASE AuditFailure(j)
  <2>1. NextTarget(j) => Moved(j) \/ Apart(j)
    BY <1>22, MoveSound DEF MoveStep
  <2>2. CASE Moved(j)
    <3>1. ~Closed(j) /\ UNCHANGED <<made, hidden>>
      BY <1>22 DEF AuditFailure, Closed, At, history
    <3>2. Is(j, "bulkDelete")
      BY <2>2, MovedPc DEF Deletes, Is
    <3> QED
      BY <2>2, <3>1, <3>2, MovedPc, TurnMoved
  <2>3. CASE ~Moved(j)
    <3>1. UNCHANGED <<todo, made, hidden>>
      BY <1>22, <2>1, <2>3, <1>k DEF AuditFailure, Skip, Apart, At, Is,
           history
    <3>2. pc'[j] \in {"answer", "delete", "failed"}
      BY <1>22, <2>1, <2>3, <1>t, <1>k DEF AuditFailure, Skip, Apart, At, Is,
           Goto
    <3>3. pc'[j] = "delete" => pc[j] = "target"
      BY <1>22, <2>1, <2>3, <1>t, <1>k DEF AuditFailure, Skip, Apart, At, Is,
           Goto
    <3> QED
      BY <1>k, <3>1, <3>2, <3>3, TodoKept DEF Turn, Did, Hidden, Closed, At
  <2> QED
    BY <2>2, <2>3
<1>23. CASE Answer(j)
  BY <1>t, <1>p, <1>k, <1>23 DEF Answer, keycloak, s3, local, history, Goto,
       At, Is, Turn, Deletes, Did, Hidden, Make, Closed, Target, Flying
<1>24. CASE Fail(j)
  BY <1>t, <1>p, <1>k, <1>24 DEF Fail, keycloak, s3, local, history, Goto,
       At, Is, Turn, Deletes, Did, Hidden, Make, Closed, Target, Flying
<1>x. CASE \/ Post(j) \/ FallBack(j) \/ PostBare(j) \/ Fetch(j)
           \/ SetEnabled(j) \/ Leave(j) \/ Join(j) \/ SetAttribute(j)
           \/ Propose(j) \/ AuditProposal(j) \/ SetPassword(j)
           \/ Lookup(j)
  BY <1>x, <1>p DEF Post, FallBack, PostBare, Fetch, SetEnabled, Leave, Join,
       SetAttribute, Propose, AuditProposal, SetPassword, Lookup, At
<1> QED
  BY <1>x, <1>1, <1>2, <1>13, <1>14, <1>15, <1>16, <1>19, <1>20, <1>21,
       <1>22, <1>23, <1>24 DEF Step

LEMMA TurnStep ==
  ASSUME TypeOK, KindInv, TodoInv, TurnInv, NEW j \in Jobs, Step(j)
  PROVE  TurnInv'
<1>1. ASSUME NEW k \in Jobs, k # j, Deletes(k)' PROVE Turn(k)'
  BY <1>1, Others DEF TurnInv, Turn
<1>2. ASSUME Deletes(j)' PROVE Turn(j)'
  <2>1. Deletes(j)
    BY <1>2, JobKept DEF Next, Step, Deletes
  <2> QED
    BY <2>1, OwnTurn DEF TurnInv
<1> QED
  BY <1>1, <1>2 DEF TurnInv

\* An account is deleted by the call that deletes.
LEMMA NewDelete ==
  ASSUME TypeOK, KindInv, TodoInv, NEW j \in Jobs, Step(j)
  PROVE  \A e \in made' : e \notin made /\ e.what = "delete"
           => /\ At(j, "delete") /\ Exists(Target(j)) /\ name'[Target(j)] = None
              /\ e.by = j /\ e.about = Target(j)
<1>t. name \in [Ids -> Names \cup {None}] /\ \A i : Target(i) = Target(i)
  BY DEF TypeOK
<1>h. At(j, "delete") => Target(j) \in Ids /\ Deletes(j)
  BY HereNow DEF At, Closed, Placed, KindInv
<1>1. CASE Start(j)
  BY <1>t, <1>h, <1>1 DEF Start, keycloak, s3, local, history, Goto, At, Is,
       Make, Exists, Deletes
<1>2. CASE FindTeam(j)
  BY <1>t, <1>h, <1>2 DEF FindTeam, Searched, keycloak, s3, local, history,
       Goto, At, Is, Make, Exists, Deletes
<1>3. CASE Post(j)
  BY <1>t, <1>h, <1>3 DEF Post, Created, keycloak, s3, local, history, Goto,
       At, Is, Make, Exists, Deletes
<1>4. CASE FallBack(j)
  BY <1>t, <1>h, <1>4 DEF FallBack, keycloak, s3, local, history, Goto, At,
       Is, Make, Exists, Deletes
<1>5. CASE PostBare(j)
  BY <1>t, <1>h, <1>5 DEF PostBare, Created, keycloak, s3, local, history,
       Goto, At, Is, Make, Exists, Deletes
<1>6. CASE Fetch(j)
  BY <1>t, <1>h, <1>6 DEF Fetch, keycloak, s3, local, history, Goto, At, Is,
       Make, Exists, Deletes
<1>7. CASE SetEnabled(j)
  BY <1>t, <1>h, <1>7 DEF SetEnabled, keycloak, s3, local, history, Goto, At,
       Is, Make, Exists, Deletes
<1>8. CASE Leave(j)
  BY <1>t, <1>h, <1>8 DEF Leave, keycloak, s3, local, history, Goto, At, Is,
       Make, Exists, Deletes
<1>9. CASE Join(j)
  BY <1>t, <1>h, <1>9 DEF Join, keycloak, s3, local, history, Goto, At, Is,
       Make, Exists, Deletes
<1>10. CASE SetAttribute(j)
  BY <1>t, <1>h, <1>10 DEF SetAttribute, keycloak, s3, local, history, Goto,
       At, Is, Make, Exists, Deletes
<1>11. CASE Propose(j)
  BY <1>t, <1>h, <1>11 DEF Propose, keycloak, s3, local, history, Goto, At,
       Is, Make, Exists, Deletes
<1>12. CASE AuditProposal(j)
  BY <1>t, <1>h, <1>12 DEF AuditProposal, keycloak, s3, local, history, Goto,
       At, Is, Make, Exists, Deletes
<1>13. CASE ReadTarget(j)
  BY <1>t, <1>h, <1>13 DEF ReadTarget, Skip, keycloak, s3, local, history,
       Goto, At, Is, Make, Exists, Deletes
<1>14. CASE TargetError(j)
  BY <1>t, <1>h, <1>14 DEF TargetError, Skip, keycloak, s3, local, history,
       Goto, At, Is, Make, Exists, Deletes
<1>15. CASE Delete(j)
  BY <1>t, <1>h, <1>15 DEF Delete, Gone, keycloak, s3, local, history, Goto,
       At, Is, Make, Exists, Deletes
<1>16. CASE Record(j)
  BY <1>t, <1>h, <1>16 DEF Record, keycloak, s3, local, history, Goto, At,
       Is, Make, Exists, Deletes
<1>17. CASE SetPassword(j)
  BY <1>t, <1>h, <1>17 DEF SetPassword, keycloak, s3, local, history, Goto,
       At, Is, Make, Exists, Deletes
<1>18. CASE Lookup(j)
  BY <1>t, <1>h, <1>18 DEF Lookup, keycloak, s3, local, history, Goto, At,
       Is, Make, Exists, Deletes
<1>19. CASE CallError(j)
  BY <1>t, <1>h, <1>19 DEF CallError, Gone, keycloak, s3, local, history,
       Goto, At, Is, Make, Exists, Deletes
<1>20. CASE Audit(j)
  BY <1>t, <1>h, <1>20 DEF Audit, keycloak, s3, local, history, Goto, At, Is,
       Make, Exists, Deletes
<1>21. CASE AuditLost(j)
  BY <1>t, <1>h, <1>21 DEF AuditLost, keycloak, s3, local, history, Goto, At,
       Is, Make, Exists, Deletes
<1>22. CASE AuditFailure(j)
  BY <1>t, <1>h, <1>22 DEF AuditFailure, Skip, keycloak, s3, local, history,
       Goto, At, Is, Make, Exists, Deletes
<1>23. CASE Answer(j)
  BY <1>t, <1>h, <1>23 DEF Answer, keycloak, s3, local, history, Goto, At,
       Is, Make, Exists, Deletes
<1>24. CASE Fail(j)
  BY <1>t, <1>h, <1>24 DEF Fail, keycloak, s3, local, history, Goto, At, Is,
       Make, Exists, Deletes
<1> QED
  BY <1>1, <1>2, <1>3, <1>4, <1>5, <1>6, <1>7, <1>8, <1>9, <1>10, <1>11,
       <1>12, <1>13, <1>14, <1>15, <1>16, <1>17, <1>18, <1>19, <1>20, <1>21,
       <1>22, <1>23, <1>24 DEF Step

\* Where entries of the audit trail come from.
LEMMA NewEntry ==
  ASSUME TypeOK, KindInv, TodoInv, NEW j \in Jobs, Step(j)
  PROVE  \A e \in audit' : e \notin audit
           => \/ At(j, "audit") /\ e = EntryOf(j, "success")
              \/ At(j, "auditFailure") /\ e = EntryOf(j, "failure")
              \/ /\ At(j, "auditProposal")
                 /\ e = [by |-> j, about |-> Target(j),
                         action |-> "propose_change", outcome |-> "success"]
<1>1. CASE Start(j)
  BY <1>1 DEF Start, keycloak, s3, local, history, Goto, At, Is
<1>2. CASE FindTeam(j)
  BY <1>2 DEF FindTeam, Searched, keycloak, s3, local, history, Goto, At, Is
<1>3. CASE Post(j)
  BY <1>3 DEF Post, Created, keycloak, s3, local, history, Goto, At, Is
<1>4. CASE FallBack(j)
  BY <1>4 DEF FallBack, keycloak, s3, local, history, Goto, At, Is
<1>5. CASE PostBare(j)
  BY <1>5 DEF PostBare, Created, keycloak, s3, local, history, Goto, At, Is
<1>6. CASE Fetch(j)
  BY <1>6 DEF Fetch, keycloak, s3, local, history, Goto, At, Is
<1>7. CASE SetEnabled(j)
  BY <1>7 DEF SetEnabled, keycloak, s3, local, history, Goto, At, Is
<1>8. CASE Leave(j)
  BY <1>8 DEF Leave, keycloak, s3, local, history, Goto, At, Is
<1>9. CASE Join(j)
  BY <1>9 DEF Join, keycloak, s3, local, history, Goto, At, Is
<1>10. CASE SetAttribute(j)
  BY <1>10 DEF SetAttribute, keycloak, s3, local, history, Goto, At, Is
<1>11. CASE Propose(j)
  BY <1>11 DEF Propose, keycloak, s3, local, history, Goto, At, Is
<1>12. CASE AuditProposal(j)
  BY <1>12 DEF AuditProposal, keycloak, s3, local, history, Goto, At, Is
<1>13. CASE ReadTarget(j)
  BY <1>13 DEF ReadTarget, Skip, keycloak, s3, local, history, Goto, At, Is
<1>14. CASE TargetError(j)
  BY <1>14 DEF TargetError, Skip, keycloak, s3, local, history, Goto, At, Is
<1>15. CASE Delete(j)
  BY <1>15 DEF Delete, Gone, keycloak, s3, local, history, Goto, At, Is
<1>16. CASE Record(j)
  BY <1>16 DEF Record, keycloak, s3, local, history, Goto, At, Is
<1>17. CASE SetPassword(j)
  BY <1>17 DEF SetPassword, keycloak, s3, local, history, Goto, At, Is
<1>18. CASE Lookup(j)
  BY <1>18 DEF Lookup, keycloak, s3, local, history, Goto, At, Is
<1>19. CASE CallError(j)
  BY <1>19 DEF CallError, Gone, keycloak, s3, local, history, Goto, At, Is
<1>20. CASE Audit(j)
  BY <1>20 DEF Audit, keycloak, s3, local, history, Goto, At, Is
<1>21. CASE AuditLost(j)
  BY <1>21 DEF AuditLost, keycloak, s3, local, history, Goto, At, Is
<1>22. CASE AuditFailure(j)
  BY <1>22 DEF AuditFailure, Skip, keycloak, s3, local, history, Goto, At, Is
<1>23. CASE Answer(j)
  BY <1>23 DEF Answer, keycloak, s3, local, history, Goto, At, Is
<1>24. CASE Fail(j)
  BY <1>24 DEF Fail, keycloak, s3, local, history, Goto, At, Is
<1> QED
  BY <1>1, <1>2, <1>3, <1>4, <1>5, <1>6, <1>7, <1>8, <1>9, <1>10, <1>11,
       <1>12, <1>13, <1>14, <1>15, <1>16, <1>17, <1>18, <1>19, <1>20, <1>21,
       <1>22, <1>23, <1>24 DEF Step

\* Records are what their fields are.
LEMMA Extensional ==
  /\ \A d, e \in Effect : d.by = e.by /\ d.about = e.about /\ d.what = e.what => d = e
  /\ \A d, e \in Write : d.by = e.by /\ d.about = e.about => d = e
  /\ \A d \in Effect : d = [by |-> d.by, about |-> d.about, what |-> d.what]
BY DEF Effect, Write

LEMMA GoneStep ==
  ASSUME TypeOK, KindInv, TodoInv, BirthInv, GoneInv, NEW j \in Jobs, Step(j)
  PROVE  GoneInv'
<1>0. TypeOK' /\ job' = job /\ (\A k : TargetsOf(k)' = TargetsOf(k))
  BY TypeStep, JobKept DEF Next, Step
<1>1. \A k : Deletes(k)' <=> Deletes(k)
  BY <1>0 DEF Deletes
<1>2. /\ made \subseteq made' /\ made' \subseteq Effect /\ made \subseteq Effect
      /\ \A e \in made' : e \notin made => e.by = j /\ e.about = Target(j)
  BY <1>0, FrameMade DEF TypeOK
<1>3. \A e \in made' : e \notin made /\ e.what = "delete"
        => /\ Deletes(j) /\ Target(j) \in TargetsOf(j) /\ Target(j) \in Ids
           /\ name[Target(j)] # None /\ name'[Target(j)] = None
  <2>1. At(j, "delete") => Deletes(j) /\ Placed(j) /\ ~Is(j, "create")
    BY HereNow DEF KindInv, At, Closed, Is, Deletes
  <2> QED
    BY <2>1, NewDelete DEF Placed, Exists
<1>4. \A e \in made : e.what = "delete" => name'[e.about] = None
  <2> SUFFICES ASSUME NEW e \in made, e.what = "delete", name'[e.about] # None
               PROVE  FALSE
    OBVIOUS
  <2>1. e.about \in Ids /\ name[e.about] = None
    BY <1>2 DEF GoneInv, Exists, Effect
  <2>2. e.about = j /\ Is(j, "create") /\ Early(j)
    BY <2>1, FrameMade
  <2>3. ~Did(j, j, "create")
    BY <2>2 DEF BirthInv
  <2> QED
    BY <2>2, <2>3 DEF BirthInv
<1>5. \A e \in made' :
        e.what = "delete" => /\ Deletes(e.by)' /\ e.about \in TargetsOf(e.by)'
                             /\ ~Exists(e.about)'
  BY <1>0, <1>1, <1>2, <1>3, <1>4 DEF GoneInv, Exists
<1>6. \A d, e \in made' :
        d.what = "delete" /\ e.what = "delete" /\ d.about = e.about => d = e
  <2> SUFFICES ASSUME NEW d \in made', NEW e \in made', d.what = "delete",
                      e.what = "delete", d.about = e.about
               PROVE  d = e
    OBVIOUS
  <2>1. \A f \in made : f.what = "delete" => name[f.about] = None
    BY DEF GoneInv, Exists
  <2>2. CASE d \in made /\ e \in made
    BY <2>2 DEF GoneInv
  <2>3. CASE d \notin made /\ e \notin made
    BY <1>2, <2>3, Extensional
  <2> QED
    BY <1>2, <1>3, <2>1, <2>2, <2>3
<1> QED
  BY <1>5, <1>6 DEF GoneInv

LEMMA TypeNext ==
  TypeOK /\ KindInv /\ TodoInv /\ [Next]_vars
  => TypeOK' /\ KindInv' /\ TodoInv'
  BY TypeStep, KindStep, TodoStep

\* A handler does not turn back.
LEMMA Progress ==
  ASSUME TypeOK, KindInv, TodoInv, NEW j \in Jobs, Step(j)
  PROVE  /\ Ahead(j)' \subseteq Ahead(j)
         /\ Closed(j) => Closed(j)'
         /\ pc[j] \in {"audit", "auditFailure"} /\ Deletes(j)
              => Closed(j)' \/ Target(j) \notin Ahead(j)'
<1>t. pc \in [Jobs -> Control] /\ todo \in [Jobs -> Seq(Ids)]
  BY DEF TypeOK
<1>1. CASE Start(j)
  BY <1>t, AheadKept, <1>1 DEF Start, keycloak, s3, local, history, Goto, At,
       Is, Closed, Flying
<1>2. CASE FindTeam(j)
  BY <1>t, AheadKept, <1>2 DEF FindTeam, Searched, keycloak, s3, local,
       history, Goto, At, Is, Closed, Flying
<1>3. CASE Post(j)
  BY <1>t, AheadKept, <1>3 DEF Post, Created, keycloak, s3, local, history,
       Goto, At, Is, Closed, Flying
<1>4. CASE FallBack(j)
  BY <1>t, AheadKept, <1>4 DEF FallBack, keycloak, s3, local, history, Goto,
       At, Is, Closed, Flying
<1>5. CASE PostBare(j)
  BY <1>t, AheadKept, <1>5 DEF PostBare, Created, keycloak, s3, local,
       history, Goto, At, Is, Closed, Flying
<1>6. CASE Fetch(j)
  BY <1>t, AheadKept, <1>6 DEF Fetch, keycloak, s3, local, history, Goto, At,
       Is, Closed, Flying
<1>7. CASE SetEnabled(j)
  <2>1. NextTarget(j) => Moved(j) \/ Apart(j)
    BY <1>7, MoveSound DEF MoveStep
  <2>2. CASE Moved(j)
    <3>1. ~Closed(j)
      BY <1>7 DEF SetEnabled, Closed, At
    <3> QED
      BY <2>2, <3>1, MovedPc
  <2>3. CASE ~Moved(j)
    <3>1. UNCHANGED todo
      BY <1>7, <2>1, <2>3 DEF SetEnabled, Apart, At, Is, Deletes
    <3>2. ~Closed(j) /\ (pc[j] \in {"audit", "auditFailure"} /\ Deletes(j) => Closed(j)')
      BY <1>7, <2>1, <2>3, <1>t DEF SetEnabled, Apart, At, Is, Deletes, Goto,
           Closed
    <3> QED
      BY <3>1, <3>2, AheadKept
  <2> QED
    BY <2>2, <2>3
<1>8. CASE Leave(j)
  BY <1>t, AheadKept, <1>8 DEF Leave, keycloak, s3, local, history, Goto, At,
       Is, Closed, Flying
<1>9. CASE Join(j)
  BY <1>t, AheadKept, <1>9 DEF Join, keycloak, s3, local, history, Goto, At,
       Is, Closed, Flying
<1>10. CASE SetAttribute(j)
  <2>1. NextTarget(j) => Moved(j) \/ Apart(j)
    BY <1>10, MoveSound DEF MoveStep
  <2>2. CASE Moved(j)
    <3>1. ~Closed(j)
      BY <1>10 DEF SetAttribute, Closed, At
    <3> QED
      BY <2>2, <3>1, MovedPc
  <2>3. CASE ~Moved(j)
    <3>1. UNCHANGED todo
      BY <1>10, <2>1, <2>3 DEF SetAttribute, Apart, At, Is, Deletes
    <3>2. ~Closed(j) /\ (pc[j] \in {"audit", "auditFailure"} /\ Deletes(j) => Closed(j)')
      BY <1>10, <2>1, <2>3, <1>t DEF SetAttribute, Apart, At, Is, Deletes,
           Goto, Closed
    <3> QED
      BY <3>1, <3>2, AheadKept
  <2> QED
    BY <2>2, <2>3
<1>11. CASE Propose(j)
  <2>1. NextTarget(j) => Moved(j) \/ Apart(j)
    BY <1>11, MoveSound DEF MoveStep
  <2>2. CASE Moved(j)
    <3>1. ~Closed(j)
      BY <1>11 DEF Propose, Closed, At
    <3> QED
      BY <2>2, <3>1, MovedPc
  <2>3. CASE ~Moved(j)
    <3>1. UNCHANGED todo
      BY <1>11, <2>1, <2>3 DEF Propose, Apart, At, Is, Deletes
    <3>2. ~Closed(j) /\ (pc[j] \in {"audit", "auditFailure"} /\ Deletes(j) => Closed(j)')
      BY <1>11, <2>1, <2>3, <1>t DEF Propose, Apart, At, Is, Deletes, Goto,
           Closed
    <3> QED
      BY <3>1, <3>2, AheadKept
  <2> QED
    BY <2>2, <2>3
<1>12. CASE AuditProposal(j)
  <2>1. NextTarget(j) => Moved(j) \/ Apart(j)
    BY <1>12, MoveSound DEF MoveStep
  <2>2. CASE Moved(j)
    <3>1. ~Closed(j)
      BY <1>12 DEF AuditProposal, Closed, At
    <3> QED
      BY <2>2, <3>1, MovedPc
  <2>3. CASE ~Moved(j)
    <3>1. UNCHANGED todo
      BY <1>12, <2>1, <2>3 DEF AuditProposal, Apart, At, Is, Deletes
    <3>2. ~Closed(j) /\ (pc[j] \in {"audit", "auditFailure"} /\ Deletes(j) => Closed(j)')
      BY <1>12, <2>1, <2>3, <1>t DEF AuditProposal, Apart, At, Is, Deletes,
           Goto, Closed
    <3> QED
      BY <3>1, <3>2, AheadKept
  <2> QED
    BY <2>2, <2>3
<1>13. CASE ReadTarget(j)
  <2>1. NextTarget(j) => Moved(j) \/ Apart(j)
    BY <1>13, MoveSound DEF MoveStep
  <2>2. CASE Moved(j)
    <3>1. ~Closed(j)
      BY <1>13 DEF ReadTarget, Closed, At
    <3> QED
      BY <2>2, <3>1, MovedPc
  <2>3. CASE ~Moved(j)
    <3>1. UNCHANGED todo
      BY <1>13, <2>1, <2>3 DEF ReadTarget, Skip, Apart, At, Is, Deletes
    <3>2. ~Closed(j) /\ (pc[j] \in {"audit", "auditFailure"} /\ Deletes(j) => Closed(j)')
      BY <1>13, <2>1, <2>3, <1>t DEF ReadTarget, Skip, Apart, At, Is,
           Deletes, Goto, Closed
    <3> QED
      BY <3>1, <3>2, AheadKept
  <2> QED
    BY <2>2, <2>3
<1>14. CASE TargetError(j)
  <2>1. NextTarget(j) => Moved(j) \/ Apart(j)
    BY <1>14, MoveSound DEF MoveStep
  <2>2. CASE Moved(j)
    <3>1. ~Closed(j)
      BY <1>14 DEF TargetError, Closed, At
    <3> QED
      BY <2>2, <3>1, MovedPc
  <2>3. CASE ~Moved(j)
    <3>1. UNCHANGED todo
      BY <1>14, <2>1, <2>3 DEF TargetError, Skip, Apart, At, Is, Deletes
    <3>2. ~Closed(j) /\ (pc[j] \in {"audit", "auditFailure"} /\ Deletes(j) => Closed(j)')
      BY <1>14, <2>1, <2>3, <1>t DEF TargetError, Skip, Apart, At, Is,
           Deletes, Goto, Closed
    <3> QED
      BY <3>1, <3>2, AheadKept
  <2> QED
    BY <2>2, <2>3
<1>15. CASE Delete(j)
  BY <1>t, AheadKept, <1>15 DEF Delete, Gone, keycloak, s3, local, history,
       Goto, At, Is, Closed, Flying
<1>16. CASE Record(j)
  BY <1>t, AheadKept, <1>16 DEF Record, keycloak, s3, local, history, Goto,
       At, Is, Closed, Flying
<1>17. CASE SetPassword(j)
  BY <1>t, AheadKept, <1>17 DEF SetPassword, keycloak, s3, local, history,
       Goto, At, Is, Closed, Flying
<1>18. CASE Lookup(j)
  BY <1>t, AheadKept, <1>18 DEF Lookup, keycloak, s3, local, history, Goto,
       At, Is, Closed, Flying
<1>19. CASE CallError(j)
  BY <1>t, AheadKept, <1>19 DEF CallError, Gone, keycloak, s3, local,
       history, Goto, At, Is, Closed, Flying
<1>20. CASE Audit(j)
  <2>1. NextTarget(j) => Moved(j) \/ Apart(j)
    BY <1>20, MoveSound DEF MoveStep
  <2>2. CASE Moved(j)
    <3>1. ~Closed(j)
      BY <1>20 DEF Audit, Closed, At
    <3> QED
      BY <2>2, <3>1, MovedPc
  <2>3. CASE ~Moved(j)
    <3>1. UNCHANGED todo
      BY <1>20, <2>1, <2>3 DEF Audit, Apart, At, Is, Deletes
    <3>2. ~Closed(j) /\ (pc[j] \in {"audit", "auditFailure"} /\ Deletes(j) => Closed(j)')
      BY <1>20, <2>1, <2>3, <1>t DEF Audit, Apart, At, Is, Deletes, Goto,
           Closed
    <3> QED
      BY <3>1, <3>2, AheadKept
  <2> QED
    BY <2>2, <2>3
<1>21. CASE AuditLost(j)
  <2>1. NextTarget(j) => Moved(j) \/ Apart(j)
    BY <1>21, MoveSound DEF MoveStep
  <2>2. CASE Moved(j)
    <3>1. ~Closed(j)
      BY <1>21 DEF AuditLost, Closed, At
    <3> QED
      BY <2>2, <3>1, MovedPc
  <2>3. CASE ~Moved(j)
    <3>1. UNCHANGED todo
      BY <1>21, <2>1, <2>3 DEF AuditLost, Apart, At, Is, Deletes
    <3>2. ~Closed(j) /\ (pc[j] \in {"audit", "auditFailure"} /\ Deletes(j) => Closed(j)')
      BY <1>21, <2>1, <2>3, <1>t DEF AuditLost, Apart, At, Is, Deletes, Goto,
           Closed
    <3> QED
      BY <3>1, <3>2, AheadKept
  <2> QED
    BY <2>2, <2>3
<1>22. CASE AuditFailure(j)
  <2>1. NextTarget(j) => Moved(j) \/ Apart(j)
    BY <1>22, MoveSound DEF MoveStep
  <2>2. CASE Moved(j)
    <3>1. ~Closed(j)
      BY <1>22 DEF AuditFailure, Closed, At
    <3> QED
      BY <2>2, <3>1, MovedPc
  <2>3. CASE ~Moved(j)
    <3>1. UNCHANGED todo
      BY <1>22, <2>1, <2>3 DEF AuditFailure, Skip, Apart, At, Is, Deletes
    <3>2. ~Closed(j) /\ (pc[j] \in {"audit", "auditFailure"} /\ Deletes(j) => Closed(j)')
      BY <1>22, <2>1, <2>3, <1>t DEF AuditFailure, Skip, Apart, At, Is,
           Deletes, Goto, Closed
    <3> QED
      BY <3>1, <3>2, AheadKept
  <2> QED
    BY <2>2, <2>3
<1>23. CASE Answer(j)
  BY <1>t, AheadKept, <1>23 DEF Answer, keycloak, s3, local, history, Goto,
       At, Is, Closed, Flying
<1>24. CASE Fail(j)
  BY <1>t, AheadKept, <1>24 DEF Fail, keycloak, s3, local, history, Goto, At,
       Is, Closed, Flying
<1> QED
  BY <1>1, <1>2, <1>3, <1>4, <1>5, <1>6, <1>7, <1>8, <1>9, <1>10, <1>11,
       <1>12, <1>13, <1>14, <1>15, <1>16, <1>17, <1>18, <1>19, <1>20, <1>21,
       <1>22, <1>23, <1>24 DEF Step

\* Where the entries of the changes log come from.
LEMMA NewRecord ==
  ASSUME TypeOK, KindInv, TodoInv, NEW j \in Jobs, Step(j)
  PROVE  \A d \in log' : d \notin log
           => At(j, "record") /\ d = [by |-> j, about |-> Target(j)]
<1>1. CASE Start(j)
  BY <1>1 DEF Start, keycloak, s3, local, history, Goto, At, Is
<1>2. CASE FindTeam(j)
  BY <1>2 DEF FindTeam, Searched, keycloak, s3, local, history, Goto, At, Is
<1>3. CASE Post(j)
  BY <1>3 DEF Post, Created, keycloak, s3, local, history, Goto, At, Is
<1>4. CASE FallBack(j)
  BY <1>4 DEF FallBack, keycloak, s3, local, history, Goto, At, Is
<1>5. CASE PostBare(j)
  BY <1>5 DEF PostBare, Created, keycloak, s3, local, history, Goto, At, Is
<1>6. CASE Fetch(j)
  BY <1>6 DEF Fetch, keycloak, s3, local, history, Goto, At, Is
<1>7. CASE SetEnabled(j)
  BY <1>7 DEF SetEnabled, keycloak, s3, local, history, Goto, At, Is
<1>8. CASE Leave(j)
  BY <1>8 DEF Leave, keycloak, s3, local, history, Goto, At, Is
<1>9. CASE Join(j)
  BY <1>9 DEF Join, keycloak, s3, local, history, Goto, At, Is
<1>10. CASE SetAttribute(j)
  BY <1>10 DEF SetAttribute, keycloak, s3, local, history, Goto, At, Is
<1>11. CASE Propose(j)
  BY <1>11 DEF Propose, keycloak, s3, local, history, Goto, At, Is
<1>12. CASE AuditProposal(j)
  BY <1>12 DEF AuditProposal, keycloak, s3, local, history, Goto, At, Is
<1>13. CASE ReadTarget(j)
  BY <1>13 DEF ReadTarget, Skip, keycloak, s3, local, history, Goto, At, Is
<1>14. CASE TargetError(j)
  BY <1>14 DEF TargetError, Skip, keycloak, s3, local, history, Goto, At, Is
<1>15. CASE Delete(j)
  BY <1>15 DEF Delete, Gone, keycloak, s3, local, history, Goto, At, Is
<1>16. CASE Record(j)
  BY <1>16 DEF Record, keycloak, s3, local, history, Goto, At, Is
<1>17. CASE SetPassword(j)
  BY <1>17 DEF SetPassword, keycloak, s3, local, history, Goto, At, Is
<1>18. CASE Lookup(j)
  BY <1>18 DEF Lookup, keycloak, s3, local, history, Goto, At, Is
<1>19. CASE CallError(j)
  BY <1>19 DEF CallError, Gone, keycloak, s3, local, history, Goto, At, Is
<1>20. CASE Audit(j)
  BY <1>20 DEF Audit, keycloak, s3, local, history, Goto, At, Is
<1>21. CASE AuditLost(j)
  BY <1>21 DEF AuditLost, keycloak, s3, local, history, Goto, At, Is
<1>22. CASE AuditFailure(j)
  BY <1>22 DEF AuditFailure, Skip, keycloak, s3, local, history, Goto, At, Is
<1>23. CASE Answer(j)
  BY <1>23 DEF Answer, keycloak, s3, local, history, Goto, At, Is
<1>24. CASE Fail(j)
  BY <1>24 DEF Fail, keycloak, s3, local, history, Goto, At, Is
<1> QED
  BY <1>1, <1>2, <1>3, <1>4, <1>5, <1>6, <1>7, <1>8, <1>9, <1>10, <1>11,
       <1>12, <1>13, <1>14, <1>15, <1>16, <1>17, <1>18, <1>19, <1>20, <1>21,
       <1>22, <1>23, <1>24 DEF Step

\* An entry of a deletion is made at the account it is about.
LEMMA DeleteEntry ==
  ASSUME TypeOK, NEW j \in Jobs, NEW o
  PROVE  EntryOf(j, o).action = "delete_user"
           => Deletes(j) /\ EntryOf(j, o).about = Target(j)
<1>1. job[j].kind \in Kind
  BY TaskFacts
<1> QED
  BY <1>1 DEF EntryOf, ActionOf, Deletes, Is, Kind

LEMMA NewDeleteEntry ==
  ASSUME TypeOK, KindInv, TodoInv, NEW j \in Jobs, Step(j),
         NEW e \in audit', e \notin audit, e.action = "delete_user"
  PROVE  /\ Deletes(j) /\ e.by = j /\ e.about = Target(j)
         /\ Target(j) \in TargetsOf(j) /\ Target(j) \in Ids
         /\ \/ At(j, "audit") /\ e.outcome = "success"
            \/ At(j, "auditFailure") /\ e.outcome = "failure"
<1>1. \/ At(j, "audit") /\ e = EntryOf(j, "success")
      \/ At(j, "auditFailure") /\ e = EntryOf(j, "failure")
  BY NewEntry
<1>2. Deletes(j) /\ e.about = Target(j)
  BY <1>1, DeleteEntry
<1>3. Placed(j) /\ ~Is(j, "create")
  BY <1>1, <1>2, HereNow DEF At, Closed, Is, Deletes
<1>4. e.by = j
  BY <1>1 DEF EntryOf
<1>5. e.outcome = IF At(j, "audit") THEN "success" ELSE "failure"
  BY <1>1 DEF EntryOf, At
<1> QED
  BY <1>1, <1>2, <1>3, <1>4, <1>5 DEF Placed, At

LEMMA RecordStep ==
  ASSUME TypeOK, KindInv, TodoInv, TurnInv, RecordInv, NEW j \in Jobs, Step(j)
  PROVE  RecordInv'
<1>1. ASSUME NEW d \in log' PROVE Did(d.by, d.about, "delete")'
  <2>1. CASE d \in log
    BY <2>1, FrameMade DEF RecordInv, Did
  <2>2. CASE d \notin log
    <3>1. At(j, "record") /\ d.by = j /\ d.about = Target(j)
      BY <2>2, NewRecord
    <3>2. Did(j, Target(j), "delete")
      BY <3>1 DEF TurnInv, Turn, At, KindInv
    <3> QED
      BY <3>1, <3>2, FrameMade DEF Did
  <2> QED
    BY <2>1, <2>2
<1>2. ASSUME NEW e \in audit', e.action = "delete_user"
      PROVE  /\ Deletes(e.by)' /\ e.about \in TargetsOf(e.by)'
             /\ Closed(e.by)' \/ e.about \notin Ahead(e.by)'
  <2>0. Deletes(j)' = Deletes(j) /\ TargetsOf(j)' = TargetsOf(j)
    BY JobKept DEF Next, Step, Deletes
  <2>1. CASE e \in audit
    <3>1. e.by \in Jobs
      BY <2>1 DEF TypeOK, Entry
    <3>2. /\ Deletes(e.by) /\ e.about \in TargetsOf(e.by)
          /\ Closed(e.by) \/ e.about \notin Ahead(e.by)
      BY <1>2, <2>1 DEF RecordInv
    <3>3. CASE e.by # j
      BY <3>1, <3>2, <3>3, Others
    <3>4. CASE e.by = j
      BY <2>0, <3>2, <3>4, Progress
    <3> QED
      BY <3>3, <3>4
  <2>2. CASE e \notin audit
    BY <1>2, <2>0, <2>2, NewDeleteEntry, Progress DEF At
  <2> QED
    BY <2>1, <2>2
<1> QED
  BY <1>1, <1>2 DEF RecordInv

LEMMA HistoryStep ==
  ASSUME TypeOK, KindInv, TodoInv, BirthInv, TurnInv, GoneInv, RecordInv,
         HistoryTrue, NEW j \in Jobs, Step(j)
  PROVE  HistoryTrue'
<1>1. TypeOK' /\ GoneInv' /\ RecordInv'
  BY TypeStep, GoneStep, RecordStep DEF Next, Step
<1>2. \A d \in log' : Did(d.by, d.about, "delete")' /\ ~Exists(d.about)'
  BY <1>1 DEF RecordInv, GoneInv, Did
<1>3. \A d, e \in log' : d.about = e.about => d = e
  <2> SUFFICES ASSUME NEW d \in log', NEW e \in log', d.about = e.about
               PROVE  d = e
    OBVIOUS
  <2> DEFINE D(x) == [by |-> x.by, about |-> x.about, what |-> "delete"]
  <2>1. D(d) \in made' /\ D(e) \in made'
    BY <1>2 DEF Did
  <2>2. D(d) = D(e)
    BY <1>1, <2>1 DEF GoneInv
  <2>3. d.by = e.by
    BY <2>2
  <2>4. d \in Write /\ e \in Write
    BY <1>1 DEF TypeOK
  <2> QED
    BY <2>3, <2>4, Extensional
<1>4. ASSUME NEW e \in audit', e.action = "delete_user", ~Hidden(e.by, e.about)'
      PROVE  e.outcome = "success" <=> Did(e.by, e.about, "delete")'
  <2>1. CASE e \notin audit
    <3>1. /\ Deletes(j) /\ e.by = j /\ e.about = Target(j) /\ Target(j) \in Ids
          /\ \/ At(j, "audit") /\ e.outcome = "success"
             \/ At(j, "auditFailure") /\ e.outcome = "failure"
      BY <1>4, <2>1, NewDeleteEntry
    <3>2. ~At(j, "delete")
      BY <3>1 DEF At
    <3>5. Did(e.by, e.about, "delete")' <=> Did(e.by, e.about, "delete")
      BY <3>1, <3>2, NewDelete, FrameMade DEF Did
    <3>6. Did(e.by, e.about, "delete") <=> Did(j, Target(j), "delete")
      BY <3>1
    <3>3. ~Hidden(j, Target(j))
      BY <1>4, <3>1, FrameMade DEF Hidden
    <3>4. Turn(j)
      BY <3>1 DEF TurnInv
    <3> QED
      BY <3>1, <3>3, <3>4, <3>5, <3>6 DEF Turn, At
  <2>2. CASE e \in audit
    <3>1. e.by \in Jobs /\ ~Hidden(e.by, e.about)
      BY <1>4, <2>2, FrameMade DEF TypeOK, Entry, Hidden
    <3>2. e.outcome = "success" <=> Did(e.by, e.about, "delete")
      BY <1>4, <2>2, <3>1 DEF HistoryTrue, Hidden
    <3>3. CASE e.by # j
      BY <3>1, <3>2, <3>3, Others
    <3>4. CASE e.by = j
      <4>1. Deletes(j) /\ (Closed(j) \/ e.about \notin Ahead(j))
        BY <1>4, <2>2, <3>4 DEF RecordInv
      <4>2. At(j, "delete") => Target(j) \in Ahead(j) /\ ~Closed(j)
        BY <4>1, HereNow DEF Placed, At, Closed, Deletes, Is
      <4>3. Did(j, e.about, "delete")' <=> Did(j, e.about, "delete")
        BY <4>1, <4>2, NewDelete, FrameMade DEF Did
      <4> QED
        BY <3>2, <3>4, <4>3
    <3> QED
      BY <3>3, <3>4
  <2> QED
    BY <2>1, <2>2
<1> QED
  BY <1>2, <1>3, <1>4 DEF HistoryTrue, Hidden

\* A deletion of handler j, and what is left of it.
Left(j, i) ==
  \/ At(j, "failed")
  \/ pc[j] \in {"record", "audit", "auditFailure"} /\ Target(j) = i
  \/ \E e \in audit \cup (lost \cap Entry) : e.by = j /\ e.about = i

LEMMA LeftMeans ==
  TraceInv <=> \A j \in Jobs, i \in Ids : Did(j, i, "delete") => Left(j, i)
BY DEF TraceInv, Left

\* Where the entry of a deletion goes.
LEMMA EntryLeft ==
  ASSUME TypeOK, KindInv, TodoInv, NEW j \in Jobs, Deletes(j),
         At(j, "audit") \/ At(j, "auditFailure"), NEW o \in {"success", "failure"},
         EntryOf(j, o) \in audit' \cup lost'
  PROVE  \E e \in audit' \cup (lost' \cap Entry) : e.by = j /\ e.about = Target(j)
<1>1. Placed(j)
  BY HereNow DEF At, Closed, Is, Deletes
<1>2. EntryOf(j, o) \in Entry
  BY <1>1, TaskFacts DEF EntryOf, ActionOf, Entry, Action, Kind, Is, Placed
<1>3. EntryOf(j, o).by = j /\ EntryOf(j, o).about = Target(j)
  BY DEF EntryOf, Is, Deletes
<1> QED
  BY <1>2, <1>3

LEMMA OwnLeft ==
  ASSUME TypeOK, KindInv, TodoInv, NEW j \in Jobs, Step(j), Deletes(j),
         NEW i \in Ids, Did(j, i, "delete") => Left(j, i), Did(j, i, "delete")'
  PROVE  Left(j, i)'
<1>t. pc \in [Jobs -> Control] /\ todo \in [Jobs -> Seq(Ids)]
  BY DEF TypeOK
<1>p. pc[j] \in {"idle", "findTeam", "target", "delete", "record", "audit",
                 "auditFailure", "answer", "ok", "failed"}
  BY DEF TypeOK, KindInv, Control, Flying, Is, Deletes
<1>k. job' = job
  BY JobKept DEF Next, Step
<1>d. Deletes(j)
  OBVIOUS
<1>n. ~Did(j, i, "delete") => At(j, "delete") /\ Target(j) = i
  BY NewDelete DEF Did
<1>o. Did(j, i, "delete") => Left(j, i)
  OBVIOUS
<1>1. CASE Start(j)
  <2>1. pc[j] \notin {"record", "audit", "auditFailure", "delete", "failed"}
    BY <1>1, <1>p DEF Start, At
  <2> QED
    BY <2>1, <1>n, <1>o, FrameTrail DEF Left, At
<1>2. CASE FindTeam(j)
  <2>1. pc[j] \notin {"record", "audit", "auditFailure", "delete", "failed"}
    BY <1>2, <1>p DEF FindTeam, At
  <2> QED
    BY <2>1, <1>n, <1>o, FrameTrail DEF Left, At
<1>3. CASE Post(j)
  <2>1. pc[j] \notin {"record", "audit", "auditFailure", "delete", "failed"}
    BY <1>3, <1>p DEF Post, At
  <2> QED
    BY <2>1, <1>n, <1>o, FrameTrail DEF Left, At
<1>4. CASE FallBack(j)
  <2>1. pc[j] \notin {"record", "audit", "auditFailure", "delete", "failed"}
    BY <1>4, <1>p DEF FallBack, At
  <2> QED
    BY <2>1, <1>n, <1>o, FrameTrail DEF Left, At
<1>5. CASE PostBare(j)
  <2>1. pc[j] \notin {"record", "audit", "auditFailure", "delete", "failed"}
    BY <1>5, <1>p DEF PostBare, At
  <2> QED
    BY <2>1, <1>n, <1>o, FrameTrail DEF Left, At
<1>6. CASE Fetch(j)
  <2>1. pc[j] \notin {"record", "audit", "auditFailure", "delete", "failed"}
    BY <1>6, <1>p DEF Fetch, At
  <2> QED
    BY <2>1, <1>n, <1>o, FrameTrail DEF Left, At
<1>7. CASE SetEnabled(j)
  <2>1. pc[j] \notin {"record", "audit", "auditFailure", "delete", "failed"}
    BY <1>7, <1>p DEF SetEnabled, At
  <2> QED
    BY <2>1, <1>n, <1>o, FrameTrail DEF Left, At
<1>8. CASE Leave(j)
  <2>1. pc[j] \notin {"record", "audit", "auditFailure", "delete", "failed"}
    BY <1>8, <1>p DEF Leave, At
  <2> QED
    BY <2>1, <1>n, <1>o, FrameTrail DEF Left, At
<1>9. CASE Join(j)
  <2>1. pc[j] \notin {"record", "audit", "auditFailure", "delete", "failed"}
    BY <1>9, <1>p DEF Join, At
  <2> QED
    BY <2>1, <1>n, <1>o, FrameTrail DEF Left, At
<1>10. CASE SetAttribute(j)
  <2>1. pc[j] \notin {"record", "audit", "auditFailure", "delete", "failed"}
    BY <1>10, <1>p DEF SetAttribute, At
  <2> QED
    BY <2>1, <1>n, <1>o, FrameTrail DEF Left, At
<1>11. CASE Propose(j)
  <2>1. pc[j] \notin {"record", "audit", "auditFailure", "delete", "failed"}
    BY <1>11, <1>p DEF Propose, At
  <2> QED
    BY <2>1, <1>n, <1>o, FrameTrail DEF Left, At
<1>12. CASE AuditProposal(j)
  <2>1. pc[j] \notin {"record", "audit", "auditFailure", "delete", "failed"}
    BY <1>12, <1>p DEF AuditProposal, At
  <2> QED
    BY <2>1, <1>n, <1>o, FrameTrail DEF Left, At
<1>13. CASE ReadTarget(j)
  <2>1. pc[j] \notin {"record", "audit", "auditFailure", "delete", "failed"}
    BY <1>13, <1>p DEF ReadTarget, At
  <2> QED
    BY <2>1, <1>n, <1>o, FrameTrail DEF Left, At
<1>14. CASE TargetError(j)
  <2>1. pc[j] \notin {"record", "audit", "auditFailure", "delete", "failed"}
    BY <1>14, <1>p DEF TargetError, At
  <2> QED
    BY <2>1, <1>n, <1>o, FrameTrail DEF Left, At
<1>15. CASE Delete(j)
  <2>1. At(j, "delete") /\ pc'[j] = "record" /\ UNCHANGED <<todo, audit,
                                                            lost>>
    BY <1>15, <1>t DEF Delete, Goto, At, local, s3
  <2> QED
    BY <2>1, <1>k, TodoKept, NewDelete, <1>n, <1>o DEF Left, At
<1>16. CASE Record(j)
  <2>1. /\ At(j, "record") /\ pc'[j] = "audit" /\ UNCHANGED <<todo, audit>>
        /\ lost \subseteq lost'
    BY <1>16, <1>t DEF Record, Goto, At, local
  <2> QED
    BY <2>1, <1>k, TodoKept, <1>n, <1>o DEF Left, At
<1>17. CASE SetPassword(j)
  <2>1. pc[j] \notin {"record", "audit", "auditFailure", "delete", "failed"}
    BY <1>17, <1>p DEF SetPassword, At
  <2> QED
    BY <2>1, <1>n, <1>o, FrameTrail DEF Left, At
<1>18. CASE Lookup(j)
  <2>1. pc[j] \notin {"record", "audit", "auditFailure", "delete", "failed"}
    BY <1>18, <1>p DEF Lookup, At
  <2> QED
    BY <2>1, <1>n, <1>o, FrameTrail DEF Left, At
<1>19. CASE CallError(j)
  <2>1. ~At(j, "failed") /\ pc'[j] = "auditFailure" /\ UNCHANGED <<todo,
                                                                   audit,
                                                                   lost>>
        /\ pc[j] \in {"delete", "password"}
    BY <1>19, <1>t DEF CallError, Goto, At, local, s3
  <2> QED
    BY <2>1, <1>k, TodoKept, <1>n, <1>o DEF Left, At
<1>20. CASE Audit(j)
  <2>1. /\ pc[j] = "audit" /\ audit \subseteq audit' /\ lost \subseteq lost'
        /\ EntryOf(j, "success") \in audit' \cup lost'
    BY <1>20 DEF Audit, At, s3
  <2>2. \E e \in audit' \cup (lost' \cap Entry) : e.by = j /\ e.about = Target(j)
    BY <2>1, <1>d, EntryLeft DEF At
  <2> QED
    BY <2>1, <2>2, <1>n, <1>o DEF Left, At
<1>21. CASE AuditLost(j)
  <2>1. /\ pc[j] = "audit" /\ audit \subseteq audit' /\ lost \subseteq lost'
        /\ EntryOf(j, "success") \in audit' \cup lost'
    BY <1>21 DEF AuditLost, At, s3
  <2>2. \E e \in audit' \cup (lost' \cap Entry) : e.by = j /\ e.about = Target(j)
    BY <2>1, <1>d, EntryLeft DEF At
  <2> QED
    BY <2>1, <2>2, <1>n, <1>o DEF Left, At
<1>22. CASE AuditFailure(j)
  <2>1. /\ pc[j] = "auditFailure" /\ audit \subseteq audit' /\ lost \subseteq lost'
        /\ EntryOf(j, "failure") \in audit' \cup lost'
    BY <1>22 DEF AuditFailure, At, s3
  <2>2. \E e \in audit' \cup (lost' \cap Entry) : e.by = j /\ e.about = Target(j)
    BY <2>1, <1>d, EntryLeft DEF At
  <2> QED
    BY <2>1, <2>2, <1>n, <1>o DEF Left, At
<1>23. CASE Answer(j)
  <2>1. pc[j] \notin {"record", "audit", "auditFailure", "delete", "failed"}
    BY <1>23, <1>p DEF Answer, At
  <2> QED
    BY <2>1, <1>n, <1>o, FrameTrail DEF Left, At
<1>24. CASE Fail(j)
  <2>1. At(j, "failed")'
    BY <1>24, <1>t DEF Fail, Goto, At
  <2> QED
    BY <2>1 DEF Left
<1> QED
  BY <1>1, <1>2, <1>3, <1>4, <1>5, <1>6, <1>7, <1>8, <1>9, <1>10, <1>11,
       <1>12, <1>13, <1>14, <1>15, <1>16, <1>17, <1>18, <1>19, <1>20, <1>21,
       <1>22, <1>23, <1>24 DEF Step

LEMMA TraceStep ==
  ASSUME TypeOK, KindInv, TodoInv, BirthInv, GoneInv, TraceInv, NEW j \in Jobs,
         Step(j)
  PROVE  TraceInv'
<1>1. ASSUME NEW k \in Jobs, NEW i \in Ids, Did(k, i, "delete")', k # j
      PROVE  Left(k, i)'
  BY <1>1, Others, FrameTrail DEF TraceInv, Left
<1>2. ASSUME NEW i \in Ids, Did(j, i, "delete")' PROVE Left(j, i)'
  <2>1. Deletes(j)'
    BY <1>2, GoneStep DEF GoneInv, Did
  <2>2. Deletes(j)
    BY <2>1, JobKept DEF Next, Step, Deletes
  <2>3. Did(j, i, "delete") => Left(j, i)
    BY LeftMeans
  <2> QED
    BY <1>2, <2>2, <2>3, OwnLeft
<1> QED
  BY <1>1, <1>2 DEF TraceInv, Left

LEMMA BatchKept ==
  ASSUME NEW j \in Jobs, Batch(j), UNCHANGED <<job, todo>>,
         skipped'[j] = skipped[j],
         \A i : Did(j, i, "delete")' # Did(j, i, "delete")
                \/ Hidden(j, i)' # Hidden(j, i) => i \in Ahead(j)
  PROVE  Batch(j)'
<1>1. Ahead(j)' = Ahead(j) /\ Behind(j)' = Behind(j)
  BY AheadKept DEF Behind, TargetsOf
<1> QED
  BY <1>1 DEF Batch, Behind

LEMMA BatchMoved ==
  ASSUME NEW j \in Jobs, Batch(j), Target(j) \in Ahead(j), UNCHANGED job,
         Ahead(j)' = Ahead(j) \ {Target(j)},
         \A i : Did(j, i, "delete")' = Did(j, i, "delete")
                /\ Hidden(j, i)' = Hidden(j, i),
         \/ /\ skipped'[j] = skipped[j] \cup {Target(j)}
            /\ Did(j, Target(j), "delete") => Hidden(j, Target(j))
         \/ skipped'[j] = skipped[j] /\ Did(j, Target(j), "delete")
  PROVE  Batch(j)'
<1>1. TargetsOf(j)' = TargetsOf(j)
  BY DEF TargetsOf
<1>2. \A i \in Behind(j)' : i \in Behind(j) \/ i = Target(j)
  BY <1>1 DEF Behind
<1>3. Ahead(j)' \cap skipped'[j] = {}
  BY DEF Batch
<1>4. \A i \in Behind(j)' : \/ i \in skipped'[j] <=> ~Did(j, i, "delete")
                            \/ Hidden(j, i) /\ i \in skipped'[j]
  <2>1. Target(j) \notin skipped[j]
    BY DEF Batch
  <2>2. ASSUME NEW i \in Behind(j)
        PROVE  \/ i \in skipped[j] <=> ~Did(j, i, "delete")
               \/ Hidden(j, i) /\ i \in skipped[j]
    BY DEF Batch
  <2>3. \A i \in Behind(j) : i # Target(j)
    BY DEF Behind
  <2> QED
    BY <1>2, <2>1, <2>2, <2>3
<1> QED
  BY <1>3, <1>4 DEF Batch

LEMMA OwnBatch ==
  ASSUME TypeOK, KindInv, TodoInv, NEW j \in Jobs, Step(j), Is(j, "bulkDelete"),
         Turn(j), Batch(j)
  PROVE  Batch(j)'
<1>k. job' = job
  BY JobKept DEF Next, Step
<1>b. /\ Is(j, "bulkDelete") /\ Deletes(j) /\ Turn(j) /\ ~Is(j, "create")
      /\ pc[j] \in {"idle", "findTeam", "target", "delete", "record", "audit",
                    "auditFailure", "answer", "ok", "failed"}
  BY DEF TypeOK, KindInv, Control, Flying, Is, Deletes
<1>1. CASE Start(j)
  <2>1. UNCHANGED <<todo, skipped, made, hidden>>
    BY <1>1 DEF Start, local, history
  <2> QED
    BY <2>1, <1>k, BatchKept DEF Did, Hidden
<1>2. CASE FindTeam(j)
  <2>1. UNCHANGED <<todo, skipped, made, hidden>>
    BY <1>2 DEF FindTeam, local, history
  <2> QED
    BY <2>1, <1>k, BatchKept DEF Did, Hidden
<1>13. CASE ReadTarget(j)
  <2>1. NextTarget(j) => Moved(j) \/ Apart(j)
    BY <1>13, MoveSound DEF MoveStep
  <2>2. ~Apart(j)
    BY <1>13, <1>b DEF ReadTarget, Apart, At, Is
  <2>3. UNCHANGED <<made, hidden>> /\ \A i : Did(j, i, "delete")' = Did(j,
                    i, "delete")
                                  /\ Hidden(j, i)' = Hidden(j, i)
    BY <1>13 DEF ReadTarget, history, Did, Hidden
  <2>4. Placed(j) /\ ~Closed(j)
    BY <1>13, <1>b, HereNow DEF ReadTarget, At, Closed, Is
  <2>6. ~Did(j, Target(j), "delete")
    BY <1>13, <2>4, <1>b DEF ReadTarget, Turn, At, Placed
  <2>7. CASE NextTarget(j) /\ skipped' = [skipped EXCEPT ![j] = skipped[j] \cup {Target(j)}]
    <3>1. skipped'[j] = skipped[j] \cup {Target(j)}
      BY <2>7 DEF TypeOK
    <3> QED
      BY <2>1, <2>2, <2>3, <2>4, <2>6, <2>7, <3>1, <1>k, <1>b, BatchMoved,
           MovedPc DEF Placed
  <2>8. CASE UNCHANGED <<todo, skipped>>
    BY <2>3, <2>8, <1>k, BatchKept
  <2> QED
    BY <1>13, <2>7, <2>8, <1>b DEF ReadTarget, Skip
<1>14. CASE TargetError(j)
  <2>1. NextTarget(j) => Moved(j) \/ Apart(j)
    BY <1>14, MoveSound DEF MoveStep
  <2>2. ~Apart(j)
    BY <1>14, <1>b DEF TargetError, Apart, At, Is
  <2>3. UNCHANGED <<made, hidden>> /\ \A i : Did(j, i, "delete")' = Did(j,
                    i, "delete")
                                  /\ Hidden(j, i)' = Hidden(j, i)
    BY <1>14 DEF TargetError, history, Did, Hidden
  <2>4. Placed(j) /\ ~Closed(j)
    BY <1>14, <1>b, HereNow DEF TargetError, At, Closed, Is
  <2>6. ~Did(j, Target(j), "delete")
    BY <1>14, <2>4, <1>b DEF TargetError, Turn, At, Placed
  <2>7. CASE NextTarget(j) /\ skipped' = [skipped EXCEPT ![j] = skipped[j] \cup {Target(j)}]
    <3>1. skipped'[j] = skipped[j] \cup {Target(j)}
      BY <2>7 DEF TypeOK
    <3> QED
      BY <2>1, <2>2, <2>3, <2>4, <2>6, <2>7, <3>1, <1>k, <1>b, BatchMoved,
           MovedPc DEF Placed
  <2> QED
    BY <1>14, <2>7 DEF TargetError, Skip
<1>15. CASE Delete(j)
  <2>1. UNCHANGED <<todo, skipped>>
    BY <1>15 DEF Delete, local
  <2>2. Placed(j)
    BY <1>15, HereNow DEF Delete, At, Closed, Is
  <2>3. \A i : /\ Did(j, i, "delete")' # Did(j, i, "delete") => i = Target(j)
               /\ Hidden(j, i)' # Hidden(j, i) => i = Target(j)
    BY FrameMade DEF Did, Hidden
  <2> QED
    BY <2>1, <2>2, <2>3, <1>k, <1>b, BatchKept DEF Placed
<1>16. CASE Record(j)
  <2>1. UNCHANGED <<todo, skipped>>
    BY <1>16 DEF Record, local
  <2>2. Placed(j)
    BY <1>16, HereNow DEF Record, At, Closed, Is
  <2>3. \A i : /\ Did(j, i, "delete")' # Did(j, i, "delete") => i = Target(j)
               /\ Hidden(j, i)' # Hidden(j, i) => i = Target(j)
    BY FrameMade DEF Did, Hidden
  <2> QED
    BY <2>1, <2>2, <2>3, <1>k, <1>b, BatchKept DEF Placed
<1>19. CASE CallError(j)
  <2>1. UNCHANGED <<todo, skipped>>
    BY <1>19 DEF CallError, local
  <2>2. Placed(j)
    BY <1>19, HereNow DEF CallError, At, Closed, Is
  <2>3. \A i : /\ Did(j, i, "delete")' # Did(j, i, "delete") => i = Target(j)
               /\ Hidden(j, i)' # Hidden(j, i) => i = Target(j)
    BY FrameMade DEF Did, Hidden
  <2> QED
    BY <2>1, <2>2, <2>3, <1>k, <1>b, BatchKept DEF Placed
<1>20. CASE Audit(j)
  <2>1. NextTarget(j) => Moved(j) \/ Apart(j)
    BY <1>20, MoveSound DEF MoveStep
  <2>2. ~Apart(j)
    BY <1>20, <1>b DEF Audit, Apart, At, Is
  <2>3. UNCHANGED <<made, hidden>> /\ \A i : Did(j, i, "delete")' = Did(j,
                    i, "delete")
                                  /\ Hidden(j, i)' = Hidden(j, i)
    BY <1>20 DEF Audit, history, Did, Hidden
  <2>4. Placed(j) /\ ~Closed(j)
    BY <1>20, <1>b, HereNow DEF Audit, At, Closed, Is
  <2>5. NextTarget(j) /\ skipped' = skipped /\ At(j, "audit")
    BY <1>20, <1>b DEF Audit
  <2> QED
    BY <2>1, <2>2, <2>3, <2>4, <2>5, <1>k, <1>b, BatchMoved,
         MovedPc DEF Turn, At, Placed
<1>21. CASE AuditLost(j)
  <2>1. NextTarget(j) => Moved(j) \/ Apart(j)
    BY <1>21, MoveSound DEF MoveStep
  <2>2. ~Apart(j)
    BY <1>21, <1>b DEF AuditLost, Apart, At, Is
  <2>3. UNCHANGED <<made, hidden>> /\ \A i : Did(j, i, "delete")' = Did(j,
                    i, "delete")
                                  /\ Hidden(j, i)' = Hidden(j, i)
    BY <1>21 DEF AuditLost, history, Did, Hidden
  <2>4. Placed(j) /\ ~Closed(j)
    BY <1>21, <1>b, HereNow DEF AuditLost, At, Closed, Is
  <2>5. NextTarget(j) /\ skipped' = skipped /\ At(j, "audit")
    BY <1>21, <1>b DEF AuditLost
  <2> QED
    BY <2>1, <2>2, <2>3, <2>4, <2>5, <1>k, <1>b, BatchMoved,
         MovedPc DEF Turn, At, Placed
<1>22. CASE AuditFailure(j)
  <2>1. NextTarget(j) => Moved(j) \/ Apart(j)
    BY <1>22, MoveSound DEF MoveStep
  <2>2. ~Apart(j)
    BY <1>22, <1>b DEF AuditFailure, Apart, At, Is
  <2>3. UNCHANGED <<made, hidden>> /\ \A i : Did(j, i, "delete")' = Did(j,
                    i, "delete")
                                  /\ Hidden(j, i)' = Hidden(j, i)
    BY <1>22 DEF AuditFailure, history, Did, Hidden
  <2>4. Placed(j) /\ ~Closed(j)
    BY <1>22, <1>b, HereNow DEF AuditFailure, At, Closed, Is
  <2>5. /\ NextTarget(j) /\ At(j, "auditFailure")
        /\ skipped' = [skipped EXCEPT ![j] = skipped[j] \cup {Target(j)}]
    BY <1>22, <1>b DEF AuditFailure, Skip
  <2>6. skipped'[j] = skipped[j] \cup {Target(j)}
    BY <2>5 DEF TypeOK
  <2> QED
    BY <2>1, <2>2, <2>3, <2>4, <2>5, <2>6, <1>k, <1>b, BatchMoved,
         MovedPc DEF Turn, At, Placed
<1>23. CASE Answer(j)
  <2>1. UNCHANGED <<todo, skipped, made, hidden>>
    BY <1>23 DEF Answer, local, history
  <2> QED
    BY <2>1, <1>k, BatchKept DEF Did, Hidden
<1>24. CASE Fail(j)
  <2>1. UNCHANGED <<todo, skipped, made, hidden>>
    BY <1>24 DEF Fail, local, history
  <2> QED
    BY <2>1, <1>k, BatchKept DEF Did, Hidden
<1>x. CASE \/ Post(j) \/ FallBack(j) \/ PostBare(j) \/ Fetch(j)
           \/ SetEnabled(j) \/ Leave(j) \/ Join(j) \/ SetAttribute(j)
           \/ Propose(j) \/ AuditProposal(j) \/ SetPassword(j)
           \/ Lookup(j)
  BY <1>x, <1>b DEF Post, FallBack, PostBare, Fetch, SetEnabled, Leave, Join,
       SetAttribute, Propose, AuditProposal, SetPassword, Lookup, At
<1> QED
  BY <1>x, <1>1, <1>2, <1>13, <1>14, <1>15, <1>16, <1>19, <1>20, <1>21,
       <1>22, <1>23, <1>24 DEF Step

LEMMA BatchStep ==
  ASSUME TypeOK, KindInv, TodoInv, TurnInv, BatchInv, NEW j \in Jobs, Step(j)
  PROVE  BatchInv'
<1>1. ASSUME NEW k \in Jobs, k # j, Is(k, "bulkDelete")' PROVE Batch(k)'
  BY <1>1, Others DEF BatchInv, Batch, Behind
<1>2. ASSUME Is(j, "bulkDelete")' PROVE Batch(j)'
  <2>1. Is(j, "bulkDelete")
    BY <1>2, JobKept DEF Next, Step, Is
  <2>2. Turn(j)
    BY <2>1 DEF TurnInv, Deletes, Is
  <2> QED
    BY <2>1, <2>2, OwnBatch DEF BatchInv
<1> QED
  BY <1>1, <1>2 DEF BatchInv

\* What was done stays done.
LEMMA DealtKept ==
  ASSUME TypeOK, KindInv, TodoInv, NEW j \in Jobs, Step(j), NEW k \in Jobs, NEW i,
         team'[k] = team[k], Dealt(k, i)
  PROVE  Dealt(k, i)'
<1>1. job' = job
  BY JobKept DEF Next, Step
<1>2. /\ \A w : Did(k, i, w) => Did(k, i, w)'
      /\ Proposed(k, i) => Proposed(k, i)'
      /\ audit \subseteq audit'
  BY FrameMade, FrameTrail DEF Did, Proposed
<1> QED
  BY <1>1, <1>2 DEF Dealt

\* The entry of a bulk edit is made by it, at the end.
LEMMA EditEntry ==
  ASSUME TypeOK, KindInv, TodoInv, NEW j \in Jobs, Step(j), NEW k \in Jobs,
         Is(k, "bulkEdit")
  PROVE  /\ EntryOf(k, "success")' = EntryOf(k, "success")
         /\ EntryOf(k, "success") \in audit => EntryOf(k, "success") \in audit'
         /\ EntryOf(k, "success") \in audit' /\ EntryOf(k, "success") \notin audit
              => k = j /\ At(j, "audit")
<1>1. job' = job
  BY JobKept DEF Next, Step
<1>2. EntryOf(k, "success") = [by |-> k, about |-> None, action |-> "bulk_edit",
                               outcome |-> "success"]
  BY DEF EntryOf, ActionOf, Is
<1>3. EntryOf(k, "success")' = EntryOf(k, "success")
  BY <1>1 DEF EntryOf, ActionOf, Is
<1> HIDE DEF Is
<1>4. EntryOf(j, "failure").outcome = "failure" /\ EntryOf(j, "success").by = j
  BY DEF EntryOf
<1> QED
  BY <1>2, <1>3, <1>4, NewEntry, FrameTrail

LEMMA BehindKept ==
  ASSUME TypeOK, KindInv, TodoInv, NEW j \in Jobs, Step(j), Edit(j),
         todo'[j] = todo[j], team'[j] = team[j]
  PROVE  \A i \in Behind(j)' : Dealt(j, i)'
<1>1. Behind(j)' = Behind(j)
  BY JobKept, AheadKept DEF Next, Step, Behind
<1> QED
  BY <1>1, DealtKept DEF Edit

LEMMA BehindMoved ==
  ASSUME TypeOK, KindInv, TodoInv, NEW j \in Jobs, Step(j), Edit(j),
         Moved(j), team'[j] = team[j],
         \A i : i = Target(j) => Dealt(j, i)'
  PROVE  \A i \in Behind(j)' : Dealt(j, i)'
<1>1. \A i \in Behind(j)' : i \in Behind(j) \/ i = Target(j)
  BY JobKept DEF Next, Step, Behind, Moved
<1> QED
  BY <1>1, DealtKept DEF Edit

LEMMA MovedCall ==
  ASSUME TypeOK, NEW j \in Jobs, Moved(j), Is(j, "bulkEdit")
  PROVE  pc'[j] = "leave" => job[j].enable = None
<1>1. PICK q \in Control, t \in Seq(Ids) :
         /\ pc' = [pc EXCEPT ![j] = q]
         /\ \/ q = CallFor(j, team[j])
            \/ q = IF Is(j, "bulkEdit") /\ job[j].admin THEN "audit" ELSE "answer"
  BY DEF Moved
<1>2. pc'[j] = q
  BY <1>1 DEF TypeOK
<1> QED
  BY <1>1, <1>2, CallIs

\* A bulk edit goes on from one account to the next.
LEMMA OwnEdit ==
  ASSUME TypeOK, KindInv, TodoInv, NEW j \in Jobs, Step(j), Is(j, "bulkEdit"),
         Edit(j)
  PROVE  Edit(j)'
<1>k. job' = job
  BY JobKept DEF Next, Step
<1>b. /\ Is(j, "bulkEdit") /\ ~Deletes(j) /\ ~Is(j, "create") /\ ~Is(j, "password")
      /\ pc[j] \in {"idle", "findTeam", "enable", "leave", "join", "attribute",
                    "propose", "auditProposal", "audit", "answer", "ok", "failed"}
  BY DEF TypeOK, KindInv, Control, Flying, Is, Deletes
<1>t. /\ pc \in [Jobs -> Control] /\ todo \in [Jobs -> Seq(Ids)]
      /\ team \in [Jobs -> Teams \cup {None}]
  BY DEF TypeOK
<1>e. /\ EntryOf(j, "success")' = EntryOf(j, "success")
      /\ EntryOf(j, "success") \in audit => EntryOf(j, "success") \in audit'
      /\ EntryOf(j, "success") \in audit' /\ ~At(j, "audit")
           => EntryOf(j, "success") \in audit
  BY <1>b, EditEntry
<1>c. EntryOf(j, "success") \in audit => Closed(j)
  BY DEF Edit
<1>1. CASE Start(j)
  <2>1. UNCHANGED todo /\ pc[j] \in {"idle", "findTeam"}
    BY <1>1 DEF Start, At, local
  <2>2. TargetsOf(j)' = Ahead(j)'
    BY <2>1, <1>k DEF TodoInv, TargetsOf, Ahead
  <2>3. \A i \in Behind(j)' : Dealt(j, i)'
    BY <2>2 DEF Behind
  <2>4. /\ pc'[j] \notin {"join", "attribute", "auditProposal"} /\ ~Succeeded(j)'
        /\ pc'[j] = "leave" => job[j].enable = None
    BY <1>1, <1>t, <1>b, CallIs DEF Start, Goto, Succeeded
  <2>5. EntryOf(j, "success") \notin audit'
    BY <2>1, <1>c, <1>e DEF Closed, At
  <2> QED
    BY <2>3, <2>4, <2>5, <1>k, <1>e DEF Edit, At
<1>2. CASE FindTeam(j)
  <2>1. UNCHANGED todo /\ pc[j] \in {"idle", "findTeam"}
    BY <1>2 DEF FindTeam, At, local
  <2>2. TargetsOf(j)' = Ahead(j)'
    BY <2>1, <1>k DEF TodoInv, TargetsOf, Ahead
  <2>3. \A i \in Behind(j)' : Dealt(j, i)'
    BY <2>2 DEF Behind
  <2>4. /\ pc'[j] \notin {"join", "attribute", "auditProposal"} /\ ~Succeeded(j)'
        /\ pc'[j] = "leave" => job[j].enable = None
    BY <1>2, <1>t, <1>b, CallIs DEF FindTeam, Goto, Succeeded
  <2>5. EntryOf(j, "success") \notin audit'
    BY <2>1, <1>c, <1>e DEF Closed, At
  <2> QED
    BY <2>3, <2>4, <2>5, <1>k, <1>e DEF Edit, At
<1>7. CASE SetEnabled(j)
  <2>1. NextTarget(j) => Moved(j)
    BY <1>7, <1>b, MoveSound DEF MoveStep, SetEnabled, Apart, At
  <2>2. UNCHANGED team /\ ~At(j, "audit") /\ ~Closed(j)
    BY <1>7 DEF SetEnabled, At, Closed, local
  <2>3. EntryOf(j, "success") \notin audit'
    BY <2>2, <1>c, <1>e
  <2>4. CASE Moved(j)
    <3>1. ASSUME NEW i, i = Target(j) PROVE Dealt(j, i)'
      <4>1. team[j] = None
        <5>1. team[j] # None => UNCHANGED todo
          BY <1>7 DEF SetEnabled
        <5>2. Target(j) \in Ahead(j)
          BY <1>7, <1>b, HereNow DEF SetEnabled, At, Closed, Is, Placed
        <5> QED
          BY <5>1, <5>2, <2>4, AheadKept DEF Moved
      <4>2. job[j].admin /\ Did(j, i, "enable")'
        BY <1>7, <3>1 DEF SetEnabled, Make, Did, KindInv, At
      <4> QED
        BY <4>1, <4>2, <2>2, <1>k, <3>1 DEF Dealt
    <3>2. \A i \in Behind(j)' : Dealt(j, i)'
      BY <2>2, <2>4, <3>1, BehindMoved
    <3>3. pc'[j] \in {"enable", "leave", "audit"}
      BY <1>7, <2>4, <1>b, MovedPc DEF KindInv, SetEnabled, At
    <3>4. pc'[j] = "leave" => job[j].enable = None
      BY <2>4, <1>b, MovedCall
    <3>5. job[j].admin
      BY <1>7 DEF SetEnabled, KindInv, At
    <3> QED
      BY <3>2, <3>3, <3>4, <3>5, <2>3, <1>e, <1>k DEF Edit, At, Succeeded
  <2>5. CASE ~Moved(j)
    <3>1. /\ UNCHANGED todo /\ pc'[j] = "leave"
          /\ made' = made \cup {[by |-> j, about |-> Target(j), what |-> "enable"]}
      BY <1>7, <2>1, <2>5, <1>t DEF SetEnabled, Goto, Make
    <3>2. Target(j)' = Target(j)
      BY <3>1, <1>k, TodoKept
    <3>3. \A i \in Behind(j)' : Dealt(j, i)'
      BY <2>2, <3>1, BehindKept
    <3> QED
      BY <3>1, <3>2, <3>3, <2>3, <1>e, <1>k DEF Edit, At, Succeeded, Did
  <2> QED
    BY <2>4, <2>5
<1>8. CASE Leave(j)
  <2>1. /\ UNCHANGED <<todo, team>> /\ UNCHANGED job
        /\ pc[j] = "leave" /\ pc'[j] = "join"
    BY <1>8, <1>t, <1>b DEF Leave, Goto, At, local, Make, Is
  <2>2. Target(j)' = Target(j)
    BY <2>1, TodoKept
  <2>3. \A i \in Behind(j)' : Dealt(j, i)'
    BY <2>1, BehindKept
  <2> QED
    BY <2>1, <2>2, <2>3, <1>e, <1>c, <1>k, FrameMade DEF Edit, At, Succeeded,
         Closed, Did, Proposed
<1>9. CASE Join(j)
  <2>1. /\ UNCHANGED <<todo, team>> /\ UNCHANGED job
        /\ pc[j] = "join" /\ pc'[j] = "attribute"
        /\ made' = made \cup {[by |-> j, about |-> Target(j), what |-> "join"]}
    BY <1>9, <1>t, <1>b DEF Join, Goto, At, local, Make, Is
  <2>2. Target(j)' = Target(j)
    BY <2>1, TodoKept
  <2>3. \A i \in Behind(j)' : Dealt(j, i)'
    BY <2>1, BehindKept
  <2> QED
    BY <2>1, <2>2, <2>3, <1>e, <1>c, <1>k, FrameMade DEF Edit, At, Succeeded,
         Closed, Did, Proposed
<1>10. CASE SetAttribute(j)
  <2>1. NextTarget(j) => Moved(j)
    BY <1>10, <1>b, MoveSound DEF MoveStep, SetAttribute, Apart, At
  <2>2. UNCHANGED team /\ ~At(j, "audit") /\ ~Closed(j)
    BY <1>10 DEF SetAttribute, At, Closed, local
  <2>3. EntryOf(j, "success") \notin audit'
    BY <2>2, <1>c, <1>e
  <2>4. CASE Moved(j)
    <3>1. ASSUME NEW i, i = Target(j) PROVE Dealt(j, i)'
      <4>1. /\ job[j].admin /\ UNCHANGED made
            /\ job[j].enable # None => Did(j, Target(j), "enable")
            /\ Did(j, Target(j), "join")
        BY <1>10 DEF SetAttribute, KindInv, At, Edit, history
      <4> QED
        BY <4>1, <2>2, <1>k, <3>1 DEF Dealt, Did
    <3>2. \A i \in Behind(j)' : Dealt(j, i)'
      BY <2>2, <2>4, <3>1, BehindMoved
    <3>3. pc'[j] \in {"enable", "leave", "audit"}
      BY <1>10, <2>4, <1>b, MovedPc DEF KindInv, SetAttribute, At
    <3>4. pc'[j] = "leave" => job[j].enable = None
      BY <2>4, <1>b, MovedCall
    <3>5. job[j].admin
      BY <1>10 DEF SetAttribute, KindInv, At
    <3> QED
      BY <3>2, <3>3, <3>4, <3>5, <2>3, <1>e, <1>k DEF Edit, At, Succeeded
  <2> QED
    BY <1>10, <2>1, <2>4 DEF SetAttribute
<1>11. CASE Propose(j)
  <2>1. NextTarget(j) => Moved(j)
    BY <1>11, <1>b, MoveSound DEF MoveStep, Propose, Apart, At
  <2>2. UNCHANGED team /\ ~At(j, "audit") /\ ~Closed(j)
    BY <1>11 DEF Propose, At, Closed, local
  <2>3. EntryOf(j, "success") \notin audit'
    BY <2>2, <1>c, <1>e
  <2>4. CASE Moved(j)
    <3>1. ASSUME NEW i, i = Target(j) PROVE Dealt(j, i)'
      <4>1. /\ ~job[j].admin
            /\ team[j] = None \/ UNCHANGED todo
        BY <1>11 DEF Propose, KindInv, At
      <4>2. Target(j) \in Ahead(j)
        BY <1>11, <1>b, HereNow DEF Propose, At, Closed, Is, Placed
      <4>3. team[j] = None
        BY <4>1, <4>2, <2>4, AheadKept DEF Moved
      <4> QED
        BY <4>1, <4>3, <2>2, <1>k DEF Dealt
    <3>2. \A i \in Behind(j)' : Dealt(j, i)'
      BY <2>2, <2>4, <3>1, BehindMoved
    <3>3. pc'[j] \in {"propose", "answer"}
      BY <1>11, <2>4, <1>b, MovedPc DEF KindInv, Propose, At
    <3>4. pc'[j] = "leave" => job[j].enable = None
      BY <2>4, <1>b, MovedCall
    <3>5. ~job[j].admin
      BY <1>11 DEF Propose, KindInv, At
    <3> QED
      BY <3>2, <3>3, <3>4, <3>5, <2>3, <1>e, <1>k DEF Edit, At, Succeeded
  <2>5. CASE ~Moved(j)
    <3>1. /\ UNCHANGED todo /\ pc'[j] = "auditProposal"
          /\ proposals' = proposals \cup {[by |-> j, about |-> Target(j)]}
      BY <1>11, <2>1, <2>5, <1>t DEF Propose, Goto
    <3>2. Target(j)' = Target(j)
      BY <3>1, <1>k, TodoKept
    <3>3. \A i \in Behind(j)' : Dealt(j, i)'
      BY <2>2, <3>1, BehindKept
    <3> QED
      BY <3>1, <3>2, <3>3, <2>3, <1>e, <1>k DEF Edit, At, Succeeded, Proposed
  <2> QED
    BY <2>4, <2>5
<1>12. CASE AuditProposal(j)
  <2>1. NextTarget(j) => Moved(j)
    BY <1>12, <1>b, MoveSound DEF MoveStep, AuditProposal, Apart, At
  <2>2. UNCHANGED team /\ ~At(j, "audit") /\ ~Closed(j)
    BY <1>12 DEF AuditProposal, At, Closed, local
  <2>3. EntryOf(j, "success") \notin audit'
    BY <2>2, <1>c, <1>e
  <2>4. CASE Moved(j)
    <3>1. ASSUME NEW i, i = Target(j) PROVE Dealt(j, i)'
      <4>1. ~job[j].admin /\ Proposed(j, Target(j)) /\ UNCHANGED proposals
        BY <1>12 DEF AuditProposal, KindInv, At, Edit
      <4>2. \E e \in audit' : e.by = j /\ e.about = i
        <5> DEFINE r == [by |-> j, about |-> Target(j), action |-> "propose_change",
                         outcome |-> "success"]
        <5>1. r \in audit' /\ r.by = j /\ r.about = i
          BY <1>12, <3>1 DEF AuditProposal
        <5> HIDE DEF r
        <5> QED
          BY <5>1
      <4> QED
        BY <4>1, <4>2, <2>2, <1>k, <3>1 DEF Dealt, Proposed
    <3>2. \A i \in Behind(j)' : Dealt(j, i)'
      BY <2>2, <2>4, <3>1, BehindMoved
    <3>3. pc'[j] \in {"propose", "answer"}
      BY <1>12, <2>4, <1>b, MovedPc DEF KindInv, AuditProposal, At
    <3>4. pc'[j] = "leave" => job[j].enable = None
      BY <2>4, <1>b, MovedCall
    <3>5. ~job[j].admin
      BY <1>12 DEF AuditProposal, KindInv, At
    <3> QED
      BY <3>2, <3>3, <3>4, <3>5, <2>3, <1>e, <1>k DEF Edit, At, Succeeded
  <2> QED
    BY <1>12, <2>1, <2>4, <1>b DEF AuditProposal
<1>20. CASE Audit(j)
  <2>1. /\ UNCHANGED <<todo, team>> /\ pc[j] = "audit" /\ pc'[j] = "answer"
        /\ EntryOf(j, "success") \in audit'
    BY <1>20, <1>t, <1>b DEF Audit, Goto, local, At, Is
  <2>2. \A i \in Behind(j)' : Dealt(j, i)'
    BY <2>1, BehindKept
  <2>3. /\ job[j].admin
        /\ todo[j] = <<>> \/ (team[j] = None /\ job[j].enable = None)
    BY <2>1, <1>b DEF KindInv, TodoInv, At
  <2> QED
    BY <2>1, <2>2, <2>3, <1>e, <1>k DEF Edit, At, Succeeded, Closed
<1>23. CASE Answer(j)
  <2>1. /\ UNCHANGED <<todo, team>> /\ UNCHANGED job
        /\ pc[j] = "answer" /\ pc'[j] = "ok"
    BY <1>23, <1>t, <1>b DEF Answer, Goto, At, local, Make, Is
  <2>2. Target(j)' = Target(j)
    BY <2>1, TodoKept
  <2>3. \A i \in Behind(j)' : Dealt(j, i)'
    BY <2>1, BehindKept
  <2> QED
    BY <2>1, <2>2, <2>3, <1>e, <1>c, <1>k, FrameMade DEF Edit, At, Succeeded,
         Closed, Did, Proposed
<1>24. CASE Fail(j)
  <2>1. UNCHANGED <<todo, team, audit>> /\ pc'[j] = "failed"
    BY <1>24, <1>t DEF Fail, Goto, local, s3
  <2>2. \A i \in Behind(j)' : Dealt(j, i)'
    BY <2>1, BehindKept
  <2> QED
    BY <2>1, <2>2, <1>e, <1>k DEF Edit, At, Succeeded, Closed
<1>x. CASE \/ Post(j) \/ FallBack(j) \/ PostBare(j) \/ Fetch(j)
           \/ ReadTarget(j) \/ TargetError(j) \/ Delete(j) \/ Record(j)
           \/ SetPassword(j) \/ Lookup(j) \/ CallError(j)
           \/ AuditLost(j) \/ AuditFailure(j)
  BY <1>x, <1>b DEF Post, FallBack, PostBare, Fetch, ReadTarget, TargetError,
       Delete, Record, SetPassword, Lookup, CallError, AuditLost,
       AuditFailure, At, Is
<1> QED
  BY <1>x, <1>1, <1>2, <1>7, <1>8, <1>9, <1>10, <1>11, <1>12, <1>20, <1>23,
       <1>24 DEF Step

LEMMA EditStep ==
  ASSUME TypeOK, KindInv, TodoInv, EditInv, NEW j \in Jobs, Step(j)
  PROVE  EditInv'
<1>1. ASSUME NEW k \in Jobs, k # j, Is(k, "bulkEdit")' PROVE Edit(k)'
  <2>1. Is(k, "bulkEdit") /\ Edit(k)
    BY <1>1, Others DEF EditInv
  <2>2. \A i \in Behind(k)' : Dealt(k, i)'
    BY <1>1, <2>1, Others, DealtKept DEF Edit, Behind
  <2>3. /\ EntryOf(k, "success")' = EntryOf(k, "success")
        /\ EntryOf(k, "success") \in audit' <=> EntryOf(k, "success") \in audit
    BY <1>1, <2>1, EditEntry
  <2>4. Succeeded(k)' = Succeeded(k)
    BY <1>1, Others DEF Succeeded
  <2> QED
    BY <1>1, <2>1, <2>2, <2>3, <2>4, Others DEF Edit
<1>2. ASSUME Is(j, "bulkEdit")' PROVE Edit(j)'
  <2>1. Is(j, "bulkEdit")
    BY <1>2, JobKept DEF Next, Step, Is
  <2> QED
    BY <2>1, OwnEdit DEF EditInv
<1> QED
  BY <1>1, <1>2 DEF EditInv

LEMMA InitType == Init => TypeOK
<1> SUFFICES ASSUME Init PROVE TypeOK
  OBVIOUS
<1>1. ASSUME NEW j \in Jobs PROVE job[j] \in Tasks /\ job[j].targets \in Seq(Ids)
  BY TasksAssumption DEF Init, Task
<1>2. todo \in [Jobs -> Seq(Ids)] /\ job \in [Jobs -> Tasks]
  BY <1>1 DEF Init
<1>3. /\ pc \in [Jobs -> Control] /\ team \in [Jobs -> Teams \cup {None}]
      /\ skipped \in [Jobs -> SUBSET Ids] /\ noted \in [Ids -> Jobs \cup {None}]
      /\ audit = {} /\ log = {} /\ proposals = {} /\ made = {} /\ hidden = {}
      /\ lost = {} /\ mixed = {}
  BY DEF Init, Control
<1>4. /\ name \in [Ids -> Names \cup {None}] /\ enabled \in [Ids -> BOOLEAN]
      /\ credential \in [Ids -> Jobs \cup {"old", "none", "update"}]
  BY DEF Init
<1>5. teams \in [Ids -> SUBSET Teams]
  BY DEF Init
<1>6. attribute \in [Ids -> Teams \cup {None}]
  <2>1. attribute = [i \in Ids |-> IF teams[i] = {} THEN None
                                   ELSE CHOOSE t \in teams[i] : TRUE]
    BY DEF Init
  <2>2. ASSUME NEW i \in Ids, teams[i] # {}
        PROVE  (CHOOSE t \in teams[i] : TRUE) \in Teams
    BY <1>5, <2>2
  <2> QED
    BY <2>1, <2>2
<1> QED
  BY <1>2, <1>3, <1>4, <1>5, <1>6 DEF TypeOK

LEMMA InitInv == Init => UInv
<1> SUFFICES ASSUME Init PROVE UInv
  OBVIOUS
<1>1. TypeOK
  BY InitType
<1>2. /\ pc = [j \in Jobs |-> "idle"] /\ todo = [j \in Jobs |-> job[j].targets]
      /\ team = [j \in Jobs |-> None] /\ skipped = [j \in Jobs |-> {}]
      /\ audit = {} /\ log = {} /\ made = {} /\ hidden = {}
  BY DEF Init
<1>3. ASSUME NEW j \in Jobs
      PROVE  /\ Ahead(j) = TargetsOf(j) /\ Behind(j) = {}
             /\ ~Is(j, "create") => todo[j] # <<>>
             /\ \A m, n \in 1..Len(todo[j]) : todo[j][m] = todo[j][n] => m = n
  <2>1. todo[j] = job[j].targets
    BY <1>2
  <2>2. job[j] \in Tasks
    BY <1>1 DEF TypeOK
  <2> QED
    BY <1>1, <2>1, <2>2, TaskFacts, TasksAssumption DEF Ahead, TargetsOf,
         Behind
<1>4. KindInv
  BY <1>2 DEF KindInv, At
<1>5. TodoInv
  BY <1>2, <1>3 DEF TodoInv, At, Closed, Succeeded
<1>6. BirthInv
  BY <1>2, NamesDiffer DEF BirthInv, Did, Early, Init
<1>7. TurnInv /\ GoneInv /\ RecordInv /\ HistoryTrue /\ TraceInv
  BY <1>2 DEF TurnInv, Turn, Did, Hidden, GoneInv, RecordInv, HistoryTrue,
       TraceInv, Closed, At
<1>8. BatchInv
  BY <1>2, <1>3 DEF BatchInv, Batch
<1>9. EditInv
  BY <1>2, <1>3 DEF EditInv, Edit, At, Succeeded
<1> QED
  BY <1>1, <1>4, <1>5, <1>6, <1>7, <1>8, <1>9 DEF UInv

LEMMA Stutter == UInv /\ UNCHANGED vars => UInv'
<1> SUFFICES ASSUME UInv, UNCHANGED vars PROVE UInv'
  OBVIOUS
<1>1. /\ UNCHANGED <<name, enabled, teams, attribute, credential, audit, log>>
      /\ UNCHANGED <<proposals, job, pc, todo, team, skipped, made, hidden,
                     lost>>
      /\ UNCHANGED <<noted, mixed>>
  BY DEF vars, keycloak, s3, local, history
<1>2. TypeOK' /\ KindInv' /\ TodoInv'
  BY TypeNext DEF UInv
<1>3. /\ \A k : Ahead(k)' = Ahead(k) /\ TargetsOf(k)' = TargetsOf(k)
      /\ \A k : Behind(k)' = Behind(k) /\ Target(k)' = Target(k)
      /\ \A k, i, w : Did(k, i, w)' = Did(k, i, w)
      /\ \A k, i : Hidden(k, i)' = Hidden(k, i) /\ Proposed(k, i)' = Proposed(k, i)
      /\ \A k : Closed(k)' = Closed(k) /\ Early(k)' = Early(k) /\ Deletes(k)' = Deletes(k)
      /\ \A k : Succeeded(k)' = Succeeded(k)
      /\ \A k, s : At(k, s)' = At(k, s) /\ Is(k, s)' = Is(k, s)
      /\ \A i : Exists(i)' = Exists(i)
  BY <1>1 DEF Ahead, TargetsOf, Behind, Target, Did, Hidden, Proposed,
       Closed, Early, Deletes, Succeeded, At, Is, Exists
<1>4. \A k, o : EntryOf(k, o)' = EntryOf(k, o)
  BY <1>1, <1>3 DEF EntryOf, ActionOf
<1>5. BirthInv' /\ TurnInv' /\ GoneInv'
  BY <1>1, <1>3 DEF UInv, BirthInv, TurnInv, Turn, GoneInv
<1>6. RecordInv' /\ HistoryTrue' /\ TraceInv'
  BY <1>1, <1>3 DEF UInv, RecordInv, HistoryTrue, TraceInv
<1>7. BatchInv'
  BY <1>1, <1>3 DEF UInv, BatchInv, Batch
<1>8. EditInv'
  BY <1>1, <1>3, <1>4 DEF UInv, EditInv, Edit, Dealt
<1> QED
  BY <1>2, <1>5, <1>6, <1>7, <1>8 DEF UInv

LEMMA StepInv == UInv /\ [Next]_vars => UInv'
<1> SUFFICES ASSUME UInv, [Next]_vars PROVE UInv'
  OBVIOUS
<1>1. ASSUME NEW j \in Jobs, Step(j) PROVE UInv'
  <2>1. TypeOK' /\ KindInv' /\ TodoInv'
    BY TypeNext DEF UInv
  <2>2. BirthInv' /\ TurnInv' /\ GoneInv' /\ RecordInv'
    BY <1>1, BirthStep, TurnStep, GoneStep, RecordStep DEF UInv
  <2>3. HistoryTrue' /\ TraceInv'
    BY <1>1, HistoryStep, TraceStep DEF UInv
  <2>4. BatchInv' /\ EditInv'
    BY <1>1, BatchStep, EditStep DEF UInv
  <2> QED
    BY <2>1, <2>2, <2>3, <2>4 DEF UInv
<1>2. Next => \E j \in Jobs : Step(j)
  BY DEF Next, Step
<1> QED
  BY <1>1, <1>2, Stutter

\* UInv holds in every state of every behaviour.
THEOREM Invariance == Spec => []UInv
BY InitInv, StepInv, PTL DEF Spec

\* The variables keep their types.
THEOREM AdminTyped == Spec => []TypeOK
<1>1. UInv => TypeOK
  BY DEF UInv
<1> QED
  BY <1>1, Invariance, PTL

\* The changes log and the audit trail do not lie about deletions.
THEOREM HistoriesTrue == Spec => []HistoryTrue
<1>1. UInv => HistoryTrue
  BY DEF UInv
<1> QED
  BY <1>1, Invariance, PTL

\* An account that is gone has left a trace, or the handler that has deleted it
\* was stopped before it could.
THEOREM DeletionsTraced == Spec => []DeletionTraced
<1>1. UInv => DeletionTraced
  <2> SUFFICES ASSUME TraceInv PROVE DeletionTraced
    BY DEF UInv
  <2> QED
    BY DEF TraceInv, DeletionTraced, Flying, At
<1> QED
  BY <1>1, Invariance, PTL

\* A bulk deletion that is answered has deleted or reported each account.
THEOREM BatchesAnswered == Spec => []BatchAnswered
<1>1. UInv => BatchAnswered
  <2> SUFFICES ASSUME UInv, NEW j \in Jobs, Is(j, "bulkDelete"), Succeeded(j),
                      NEW i \in TargetsOf(j)
               PROVE  \/ i \in skipped[j] <=> ~Did(j, i, "delete")
                      \/ Hidden(j, i) /\ i \in skipped[j]
    BY DEF BatchAnswered, Hidden
  <2>1. i \in Behind(j)
    BY Here DEF UInv, TodoInv, Behind
  <2> QED
    BY <2>1 DEF UInv, BatchInv, Batch
<1> QED
  BY <1>1, Invariance, PTL

\* The entry of a bulk edit is true of every account of its form, and an
\* operator's bulk edit has queued a recorded proposal for each.
THEOREM BulkEditsTrue == Spec => []BulkEditTrue
<1>1. UInv => BulkEditTrue
  <2> SUFFICES ASSUME UInv, NEW j \in Jobs, Is(j, "bulkEdit")
               PROVE  BulkEditTrue!(j)!2
    BY DEF BulkEditTrue
  <2>1. Edit(j) /\ TypeOK /\ TodoInv
    BY DEF UInv, EditInv
  <2>2. todo[j] = <<>> => Behind(j) = TargetsOf(j)
    BY <2>1, Here DEF Behind
  <2>3. ASSUME NEW i \in TargetsOf(j), EntryOf(j, "success") \in audit
        PROVE  /\ job[j].enable # None => Did(j, i, "enable")
               /\ team[j] # None => Did(j, i, "join")
    BY <2>1, <2>2, <2>3 DEF Edit, Dealt
  <2>4. ASSUME NEW i \in TargetsOf(j), Succeeded(j), ~job[j].admin, team[j] # None
        PROVE  Proposed(j, i) /\ \E e \in audit : e.by = j /\ e.about = i
    BY <2>1, <2>2, <2>4 DEF Edit, Dealt, TodoInv
  <2> QED
    BY <2>1, <2>3, <2>4 DEF Edit
<1> QED
  BY <1>1, Invariance, PTL

=============================================================================
