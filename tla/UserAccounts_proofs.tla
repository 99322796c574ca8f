----------------------- MODULE UserAccounts_proofs -----------------------
(***************************************************************************)
(* Proofs about the accounts of UserAdmin: what a new account has got when *)
(* its creation is answered, and who has set the password of an account.   *)
(*                                                                         *)
(* Both rest on UInv, which says which account a handler is at: an account *)
(* is changed only by a handler that is at it.                             *)
(***************************************************************************)
EXTENDS UserAdmin_proofs

\* What a new account has got, place by place in its handler, as long as no
\* other request is about it.
Creation(j) ==
  /\ pc[j] \notin {"idle", "findTeam", "failed"} /\ job[j].team \in TopTeams
       => team[j] = job[j].team
  /\ pc[j] \in {"join", "propose", "auditProposal", "answer", "ok"}
       => EntryOf(j, "success") \in audit
  /\ Succeeded(j) /\ team[j] # None /\ ~job[j].admin => Proposed(j, j)
  /\ At(j, "auditProposal") => Proposed(j, j)
  /\ Did(j, j, "create") /\ (\A k \in Jobs : j \notin TargetsOf(k)) =>
       /\ credential[j] = "none" <=> job[j].password = "none"
       /\ job[j].admin => attribute[j] = team[j]
       /\ Succeeded(j) /\ team[j] # None /\ job[j].admin => team[j] \in teams[j]

CreateInv == \A j \in Jobs : Is(j, "create") => Creation(j)

\* Requests that set one password at the same time are remembered.
MeetInv ==
  \A i \in Ids : \A j, k \in Setters(i) :
    j # k /\ pc[j] \in Flying /\ pc[k] \in Flying => i \in mixed

\* A password is set by a request for it, once it is at that call.
SetInv ==
  \A e \in made :
    e.what = "password" => /\ e.by \in Setters(e.about)
                           /\ pc[e.by] \notin {"idle", "findTeam", "password"}

\* A request that has set a password and met nobody finds it in place when it
\* writes its entry.
InPlace(j) ==
  /\ Did(j, Target(j), "password")
  /\ Exists(Target(j)) /\ Target(j) \notin mixed => credential[Target(j)] = j

PlaceInv ==
  \A j \in Jobs : Is(j, "password") /\ pc[j] \in {"lookup", "audit"} => InPlace(j)

AInv == CreateInv /\ MeetInv /\ SetInv /\ PlaceInv /\ PasswordAttributed

----------------------------------------------------------------------------
\* An account is changed by a handler that is at it.
LEMMA FrameAccount ==
  ASSUME TypeOK, KindInv, TodoInv, NEW j \in Jobs, Step(j)
  PROVE  \A i \in Ids : (Placed(j) => i # Target(j)) =>
           /\ name'[i] = name[i] /\ credential'[i] = credential[i]
           /\ attribute'[i] = attribute[i] /\ teams'[i] = teams[i]
<1>t. /\ name \in [Ids -> Names \cup {None}]
      /\ credential \in [Ids -> Jobs \cup {"old", "none", "update"}]
      /\ attribute \in [Ids -> Teams \cup {None}]
      /\ teams \in [Ids -> SUBSET Teams]
  BY DEF TypeOK
<1>p. pc[j] \in {"post", "postBare", "leave", "join", "attribute", "delete",
                 "password"} => Placed(j)
  BY HereNow DEF Closed
<1>k. pc[j] \in {"post", "postBare"} => Target(j) = j
  BY Here DEF KindInv
<1>1. CASE Start(j)
  BY <1>t, <1>p, <1>k, <1>1 DEF Start, keycloak, s3, local, history, At
<1>2. CASE FindTeam(j)
  BY <1>t, <1>p, <1>k, <1>2 DEF FindTeam, Searched, keycloak, s3, local,
       history, At
<1>3. CASE Post(j)
  BY <1>t, <1>p, <1>k, <1>3 DEF Post, Created, keycloak, s3, local, history,
       At
<1>4. CASE FallBack(j)
  BY <1>t, <1>p, <1>k, <1>4 DEF FallBack, keycloak, s3, local, history, At
<1>5. CASE PostBare(j)
  BY <1>t, <1>p, <1>k, <1>5 DEF PostBare, Created, keycloak, s3, local,
       history, At
<1>6. CASE Fetch(j)
  BY <1>t, <1>p, <1>k, <1>6 DEF Fetch, keycloak, s3, local, history, At
<1>7. CASE SetEnabled(j)
  BY <1>t, <1>p, <1>k, <1>7 DEF SetEnabled, keycloak, s3, local, history, At
<1>8. CASE Leave(j)
  BY <1>t, <1>p, <1>k, <1>8 DEF Leave, keycloak, s3, local, history, At
<1>9. CASE Join(j)
  BY <1>t, <1>p, <1>k, <1>9 DEF Join, keycloak, s3, local, history, At
<1>10. CASE SetAttribute(j)
  BY <1>t, <1>p, <1>k, <1>10 DEF SetAttribute, keycloak, s3, local, history,
       At
<1>11. CASE Propose(j)
  BY <1>t, <1>p, <1>k, <1>11 DEF Propose, keycloak, s3, local, history, At
<1>12. CASE AuditProposal(j)
  BY <1>t, <1>p, <1>k, <1>12 DEF AuditProposal, keycloak, s3, local, history,
       At
<1>13. CASE ReadTarget(j)
  BY <1>t, <1>p, <1>k, <1>13 DEF ReadTarget, Skip, keycloak, s3, local,
       history, At
<1>14. CASE TargetError(j)
  BY <1>t, <1>p, <1>k, <1>14 DEF TargetError, Skip, keycloak, s3, local,
       history, At
<1>15. CASE Delete(j)
  BY <1>t, <1>p, <1>k, <1>15 DEF Delete, Gone, keycloak, s3, local, history,
       At
<1>16. CASE Record(j)
  BY <1>t, <1>p, <1>k, <1>16 DEF Record, keycloak, s3, local, history, At
<1>17. CASE SetPassword(j)
  BY <1>t, <1>p, <1>k, <1>17 DEF SetPassword, keycloak, s3, local, history, At
<1>18. CASE Lookup(j)
  BY <1>t, <1>p, <1>k, <1>18 DEF Lookup, keycloak, s3, local, history, At
<1>19. CASE CallError(j)
  BY <1>t, <1>p, <1>k, <1>19 DEF CallError, Gone, keycloak, s3, local,
       history, At
<1>20. CASE Audit(j)
  BY <1>t, <1>p, <1>k, <1>20 DEF Audit, keycloak, s3, local, history, At
<1>21. CASE AuditLost(j)
  BY <1>t, <1>p, <1>k, <1>21 DEF AuditLost, keycloak, s3, local, history, At
<1>22. CASE AuditFailure(j)
  BY <1>t, <1>p, <1>k, <1>22 DEF AuditFailure, Skip, keycloak, s3, local,
       history, At
<1>23. CASE Answer(j)
  BY <1>t, <1>p, <1>k, <1>23 DEF Answer, keycloak, s3, local, history, At
<1>24. CASE Fail(j)
  BY <1>t, <1>p, <1>k, <1>24 DEF Fail, keycloak, s3, local, history, At
<1> QED
  BY <1>1, <1>2, <1>3, <1>4, <1>5, <1>6, <1>7, <1>8, <1>9, <1>10, <1>11,
       <1>12, <1>13, <1>14, <1>15, <1>16, <1>17, <1>18, <1>19, <1>20, <1>21,
       <1>22, <1>23, <1>24 DEF Step

\* How the password of an account changes: it is made or ended, or a request
\* for it is at the call that sets it.
LEMMA FrameCredential ==
  ASSUME TypeOK, KindInv, TodoInv, NEW j \in Jobs, Step(j)
  PROVE  /\ \A i \in Ids : credential'[i] # credential[i] =>
              \/ i = j /\ Is(j, "create") /\ Early(j)
              \/ name'[i] = None
              \/ /\ At(j, "password") /\ i = Target(j)
                 /\ Did(j, i, "password")'
                 /\ pc'[j] \in {"lookup", "auditFailure"}
         /\ \A i \in Ids : name[i] = None /\ name'[i] # None =>
              credential'[i] \in {"none", "update", j}
<1>t. /\ name \in [Ids -> Names \cup {None}] /\ pc \in [Jobs -> Control]
      /\ credential \in [Ids -> Jobs \cup {"old", "none", "update"}]
  BY DEF TypeOK
<1>k. pc[j] \in {"post", "postBare"} => Is(j, "create") /\ Target(j) = j
  BY Here DEF KindInv
<1>d. Make(j, "password") => \A i : i = Target(j) => Did(j, i, "password")'
  BY DEF Make, Did
<1> HIDE DEF Did
<1>1. CASE Start(j)
  BY <1>t, <1>k, <1>d, <1>1 DEF Start, keycloak, s3, local, history, At,
       Early, Goto
<1>2. CASE FindTeam(j)
  BY <1>t, <1>k, <1>d, <1>2 DEF FindTeam, Searched, keycloak, s3, local,
       history, At, Early, Goto
<1>3. CASE Post(j)
  BY <1>t, <1>k, <1>d, <1>3 DEF Post, Created, keycloak, s3, local, history,
       At, Early, Goto
<1>4. CASE FallBack(j)
  BY <1>t, <1>k, <1>d, <1>4 DEF FallBack, keycloak, s3, local, history, At,
       Early, Goto
<1>5. CASE PostBare(j)
  BY <1>t, <1>k, <1>d, <1>5 DEF PostBare, Created, keycloak, s3, local,
       history, At, Early, Goto
<1>6. CASE Fetch(j)
  BY <1>t, <1>k, <1>d, <1>6 DEF Fetch, keycloak, s3, local, history, At,
       Early, Goto
<1>7. CASE SetEnabled(j)
  BY <1>t, <1>k, <1>d, <1>7 DEF SetEnabled, keycloak, s3, local, history, At,
       Early, Goto
<1>8. CASE Leave(j)
  BY <1>t, <1>k, <1>d, <1>8 DEF Leave, keycloak, s3, local, history, At,
       Early, Goto
<1>9. CASE Join(j)
  BY <1>t, <1>k, <1>d, <1>9 DEF Join, keycloak, s3, local, history, At, Early,
       Goto
<1>10. CASE SetAttribute(j)
  BY <1>t, <1>k, <1>d, <1>10 DEF SetAttribute, keycloak, s3, local, history,
       At, Early, Goto
<1>11. CASE Propose(j)
  BY <1>t, <1>k, <1>d, <1>11 DEF Propose, keycloak, s3, local, history, At,
       Early, Goto
<1>12. CASE AuditProposal(j)
  BY <1>t, <1>k, <1>d, <1>12 DEF AuditProposal, keycloak, s3, local, history,
       At, Early, Goto
<1>13. CASE ReadTarget(j)
  BY <1>t, <1>k, <1>d, <1>13 DEF ReadTarget, Skip, keycloak, s3, local,
       history, At, Early, Goto
<1>14. CASE TargetError(j)
  BY <1>t, <1>k, <1>d, <1>14 DEF TargetError, Skip, keycloak, s3, local,
       history, At, Early, Goto
<1>15. CASE Delete(j)
  BY <1>t, <1>k, <1>d, <1>15 DEF Delete, Gone, keycloak, s3, local, history,
       At, Early, Goto
<1>16. CASE Record(j)
  BY <1>t, <1>k, <1>d, <1>16 DEF Record, keycloak, s3, local, history, At,
       Early, Goto
<1>17. CASE SetPassword(j)
  BY <1>t, <1>k, <1>d, <1>17 DEF SetPassword, keycloak, s3, local, history,
       At, Early, Goto
<1>18. CASE Lookup(j)
  BY <1>t, <1>k, <1>d, <1>18 DEF Lookup, keycloak, s3, local, history, At,
       Early, Goto
<1>19. CASE CallError(j)
  BY <1>t, <1>k, <1>d, <1>19 DEF CallError, Gone, keycloak, s3, local,
       history, At, Early, Goto
<1>20. CASE Audit(j)
  BY <1>t, <1>k, <1>d, <1>20 DEF Audit, keycloak, s3, local, history, At,
       Early, Goto
<1>21. CASE AuditLost(j)
  BY <1>t, <1>k, <1>d, <1>21 DEF AuditLost, keycloak, s3, local, history, At,
       Early, Goto
<1>22. CASE AuditFailure(j)
  BY <1>t, <1>k, <1>d, <1>22 DEF AuditFailure, Skip, keycloak, s3, local,
       history, At, Early, Goto
<1>23. CASE Answer(j)
  BY <1>t, <1>k, <1>d, <1>23 DEF Answer, keycloak, s3, local, history, At,
       Early, Goto
<1>24. CASE Fail(j)
  BY <1>t, <1>k, <1>d, <1>24 DEF Fail, keycloak, s3, local, history, At,
       Early, Goto
<1> QED
  BY <1>1, <1>2, <1>3, <1>4, <1>5, <1>6, <1>7, <1>8, <1>9, <1>10, <1>11,
       <1>12, <1>13, <1>14, <1>15, <1>16, <1>17, <1>18, <1>19, <1>20, <1>21,
       <1>22, <1>23, <1>24 DEF Step

\* How the histories of the passwords change.
LEMMA FrameNoted ==
  ASSUME TypeOK, KindInv, TodoInv, NEW j \in Jobs, Step(j)
  PROVE  /\ mixed \subseteq mixed'
         /\ \A i \in Ids : noted'[i] # noted[i] =>
              Audit(j) /\ Is(j, "password") /\ i = Target(j)
         /\ \A e \in made' : e \notin made /\ e.what = "password"
              => At(j, "password") /\ pc'[j] \in {"lookup", "auditFailure"}
         /\ ~Start(j) => pc[j] \in Flying
<1>t. noted \in [Ids -> Jobs \cup {None}] /\ pc \in [Jobs -> Control]
  BY DEF TypeOK
<1>1. CASE Start(j)
  BY <1>t, <1>1 DEF Start, keycloak, s3, local, history, At, Make, Goto,
       Flying
<1>2. CASE FindTeam(j)
  BY <1>t, <1>2 DEF FindTeam, Searched, keycloak, s3, local, history, At,
       Make, Goto, Flying
<1>3. CASE Post(j)
  BY <1>t, <1>3 DEF Post, Created, keycloak, s3, local, history, At, Make,
       Goto, Flying
<1>4. CASE FallBack(j)
  BY <1>t, <1>4 DEF FallBack, keycloak, s3, local, history, At, Make, Goto,
       Flying
<1>5. CASE PostBare(j)
  BY <1>t, <1>5 DEF PostBare, Created, keycloak, s3, local, history, At, Make,
       Goto, Flying
<1>6. CASE Fetch(j)
  BY <1>t, <1>6 DEF Fetch, keycloak, s3, local, history, At, Make, Goto,
       Flying
<1>7. CASE SetEnabled(j)
  BY <1>t, <1>7 DEF SetEnabled, keycloak, s3, local, history, At, Make, Goto,
       Flying
<1>8. CASE Leave(j)
  BY <1>t, <1>8 DEF Leave, keycloak, s3, local, history, At, Make, Goto,
       Flying
<1>9. CASE Join(j)
  BY <1>t, <1>9 DEF Join, keycloak, s3, local, history, At, Make, Goto, Flying
<1>10. CASE SetAttribute(j)
  BY <1>t, <1>10 DEF SetAttribute, keycloak, s3, local, history, At, Make,
       Goto, Flying
<1>11. CASE Propose(j)
  BY <1>t, <1>11 DEF Propose, keycloak, s3, local, history, At, Make, Goto,
       Flying
<1>12. CASE AuditProposal(j)
  BY <1>t, <1>12 DEF AuditProposal, keycloak, s3, local, history, At, Make,
       Goto, Flying
<1>13. CASE ReadTarget(j)
  BY <1>t, <1>13 DEF ReadTarget, Skip, keycloak, s3, local, history, At, Make,
       Goto, Flying
<1>14. CASE TargetError(j)
  BY <1>t, <1>14 DEF TargetError, Skip, keycloak, s3, local, history, At,
       Make, Goto, Flying
<1>15. CASE Delete(j)
  BY <1>t, <1>15 DEF Delete, Gone, keycloak, s3, local, history, At, Make,
       Goto, Flying
<1>16. CASE Record(j)
  BY <1>t, <1>16 DEF Record, keycloak, s3, local, history, At, Make, Goto,
       Flying
<1>17. CASE SetPassword(j)
  BY <1>t, <1>17 DEF SetPassword, keycloak, s3, local, history, At, Make,
       Goto, Flying
<1>18. CASE Lookup(j)
  BY <1>t, <1>18 DEF Lookup, keycloak, s3, local, history, At, Make, Goto,
       Flying
<1>19. CASE CallError(j)
  BY <1>t, <1>19 DEF CallError, Gone, keycloak, s3, local, history, At, Make,
       Goto, Flying
<1>20. CASE Audit(j)
  BY <1>t, <1>20 DEF Audit, keycloak, s3, local, history, At, Make, Goto,
       Flying
<1>21. CASE AuditLost(j)
  BY <1>t, <1>21 DEF AuditLost, keycloak, s3, local, history, At, Make, Goto,
       Flying
<1>22. CASE AuditFailure(j)
  BY <1>t, <1>22 DEF AuditFailure, Skip, keycloak, s3, local, history, At,
       Make, Goto, Flying
<1>23. CASE Answer(j)
  BY <1>t, <1>23 DEF Answer, keycloak, s3, local, history, At, Make, Goto,
       Flying
<1>24. CASE Fail(j)
  BY <1>t, <1>24 DEF Fail, keycloak, s3, local, history, At, Make, Goto,
       Flying
<1> QED
  BY <1>1, <1>2, <1>3, <1>4, <1>5, <1>6, <1>7, <1>8, <1>9, <1>10, <1>11,
       <1>12, <1>13, <1>14, <1>15, <1>16, <1>17, <1>18, <1>19, <1>20, <1>21,
       <1>22, <1>23, <1>24 DEF Step

\* The calls of a request for a password.
LEMMA PasswordPath ==
  ASSUME TypeOK, KindInv, NEW j \in Jobs, Step(j), Is(j, "password")
  PROVE  \/ Start(j) /\ pc'[j] \in {"findTeam", "password"}
         \/ FindTeam(j) /\ pc'[j] = "password"
         \/ SetPassword(j) /\ pc'[j] = "lookup"
         \/ Lookup(j) /\ pc'[j] = "audit"
         \/ CallError(j) /\ At(j, "password") /\ pc'[j] = "auditFailure"
         \/ Audit(j) /\ pc'[j] = "answer"
         \/ AuditFailure(j) /\ pc'[j] = "failed"
         \/ Answer(j) /\ pc'[j] = "ok"
         \/ Fail(j) /\ pc'[j] = "failed"
<1>t. pc \in [Jobs -> Control]
  BY DEF TypeOK
<1>1. pc[j] \notin {"post", "postBare", "fetch", "target", "delete", "record",
                    "enable", "leave", "attribute", "join", "propose",
                    "auditProposal"}
  BY DEF KindInv, Is, Deletes
<1>2. \/ Start(j) \/ FindTeam(j) \/ SetPassword(j) \/ Lookup(j) \/ CallError(j)
      \/ Audit(j) \/ AuditFailure(j) \/ Answer(j) \/ Fail(j)
  BY <1>1 DEF Step, Post, FallBack, PostBare, Fetch, SetEnabled, Leave, Join,
       SetAttribute, Propose, AuditProposal, ReadTarget, TargetError, Delete,
       Record, AuditLost, At, Is
<1>3. \A t : CallFor(j, t) = "password"
  BY CallIs
<1>4. Start(j) => pc'[j] \in {"findTeam", "password"}
  BY <1>t, <1>3 DEF Start, Goto
<1>5. FindTeam(j) => pc'[j] = "password"
  BY <1>t, <1>3 DEF FindTeam, Goto
<1>6. SetPassword(j) => pc'[j] = "lookup"
  BY <1>t DEF SetPassword, Goto
<1>7. Lookup(j) => pc'[j] = "audit"
  BY <1>t DEF Lookup, Goto
<1>8. CallError(j) => At(j, "password") /\ pc'[j] = "auditFailure"
  BY <1>t, <1>1 DEF CallError, Goto, At
<1>9. Audit(j) => pc'[j] = "answer"
  BY <1>t DEF Audit, Goto, Is
<1>10. AuditFailure(j) => pc'[j] = "failed"
  BY <1>t DEF AuditFailure, Goto, Is
<1>11. Answer(j) => pc'[j] = "ok"
  BY <1>t DEF Answer, Goto
<1>12. Fail(j) => pc'[j] = "failed"
  BY <1>t DEF Fail, Goto
<1> QED
  BY <1>2, <1>4, <1>5, <1>6, <1>7, <1>8, <1>9, <1>10, <1>11, <1>12

\* The account of a request for a password.
LEMMA SetterPlace ==
  ASSUME TypeOK, TodoInv, NEW j \in Jobs, Is(j, "password")
  PROVE  /\ Target(j) \in Ids /\ Target(j) \in TargetsOf(j)
         /\ j \in Setters(Target(j))
<1>1. todo[j] = job[j].targets /\ job[j].targets # <<>> /\ ~Is(j, "create")
  BY TaskFacts DEF TodoInv, Is
<1> QED
  BY <1>1, Here DEF TodoInv, Setters

\* It stays the same.
LEMMA SettersKept ==
  ASSUME TypeOK, KindInv, TodoInv, NEW j \in Jobs, Step(j)
  PROVE  /\ \A i : Setters(i)' = Setters(i)
         /\ \A k \in Jobs : Is(k, "password") => Target(k)' = Target(k)
<1>1. job' = job
  BY JobKept DEF Next, Step
<1>2. TodoInv'
  BY TypeNext DEF Next, Step
<1>3. \A k \in Jobs : Is(k, "password") => todo'[k] = todo[k]
  BY <1>1, <1>2 DEF TodoInv, Is
<1> QED
  BY <1>1, <1>3 DEF Setters, Target, Is

\* Nobody sets the password of an account that is not there yet.
LEMMA NotBorn ==
  ASSUME BirthInv, TypeOK, NEW j \in Jobs, Is(j, "create"), Early(j)
  PROVE  /\ ~Did(j, j, "create") /\ name[j] = None /\ noted[j] = None
         /\ \A e \in made : e.about # j
<1>1. ~Did(j, j, "create")
  BY DEF BirthInv
<1> QED
  BY <1>1 DEF BirthInv

----------------------------------------------------------------------------
(* The passwords.                                                          *)

LEMMA MeetStep ==
  ASSUME TypeOK, KindInv, TodoInv, MeetInv, NEW j \in Jobs, Step(j)
  PROVE  MeetInv'
<1> SUFFICES ASSUME NEW i \in Ids, NEW k \in Setters(i), NEW l \in Setters(i),
                    k # l, pc'[k] \in Flying, pc'[l] \in Flying
             PROVE  i \in mixed'
  BY SettersKept DEF MeetInv
<1>1. k \in Jobs /\ l \in Jobs /\ mixed \subseteq mixed'
  BY FrameNoted DEF Setters
<1>2. ASSUME NEW m \in Setters(i), NEW n \in Setters(i), m # n, m = j,
             pc'[n] \in Flying
      PROVE  i \in mixed'
  <2>1. Is(j, "password") /\ Target(j) = i /\ n \in Jobs
    BY <1>2 DEF Setters
  <2>2. pc[n] \in Flying
    BY <1>2, <2>1, FrameLocal
  <2>3. CASE Start(j)
    BY <1>2, <2>1, <2>2, <2>3 DEF Start
  <2>4. CASE ~Start(j)
    BY <1>1, <1>2, <2>2, <2>4, FrameNoted DEF MeetInv
  <2> QED
    BY <2>3, <2>4
<1>3. CASE k # j /\ l # j
  BY <1>1, <1>3, FrameLocal DEF MeetInv
<1> QED
  BY <1>2, <1>3

LEMMA SetStep ==
  ASSUME TypeOK, KindInv, TodoInv, SetInv, NEW j \in Jobs, Step(j)
  PROVE  SetInv'
<1> SUFFICES ASSUME NEW e \in made', e.what = "password"
             PROVE  /\ e.by \in Setters(e.about)
                    /\ pc'[e.by] \notin {"idle", "findTeam", "password"}
  BY SettersKept DEF SetInv
<1>1. CASE e \notin made
  <2>1. e.by = j /\ e.about = Target(j) /\ At(j, "password")
        /\ pc'[j] \in {"lookup", "auditFailure"}
    BY <1>1, FrameMade, FrameNoted
  <2>2. Is(j, "password")
    BY <2>1 DEF KindInv, At
  <2> QED
    BY <2>1, <2>2, SetterPlace
<1>2. CASE e \in made
  <2>1. /\ e.by \in Setters(e.about) /\ e.by \in Jobs /\ Is(e.by, "password")
        /\ pc[e.by] \notin {"idle", "findTeam", "password"}
    BY <1>2 DEF SetInv, Setters
  <2>2. CASE e.by # j
    BY <2>1, <2>2, FrameLocal
  <2>3. CASE e.by = j
    <3>1. pc'[j] \notin {"idle", "findTeam", "password"}
      BY <2>1, <2>3, PasswordPath DEF Start, FindTeam, SetPassword, At
    <3> QED
      BY <2>1, <2>3, <3>1
  <2> QED
    BY <2>2, <2>3
<1> QED
  BY <1>1, <1>2

LEMMA PlaceStep ==
  ASSUME TypeOK, KindInv, TodoInv, BirthInv, MeetInv, PlaceInv,
         NEW j \in Jobs, Step(j)
  PROVE  PlaceInv'
<1> SUFFICES ASSUME NEW k \in Jobs, Is(k, "password")',
                    pc'[k] \in {"lookup", "audit"}
             PROVE  InPlace(k)'
  BY DEF PlaceInv
<1>1. /\ Is(k, "password") /\ Target(k)' = Target(k)
      /\ Target(k) \in Ids /\ k \in Setters(Target(k))
  <2>1. Is(k, "password")
    BY JobKept DEF Next, Step, Is
  <2> QED
    BY <2>1, SetterPlace, SettersKept
<1> DEFINE i == Target(k)
<1>2. CASE k # j
  <2>1. /\ pc[k] \in {"lookup", "audit"} /\ Did(k, i, "password")
        /\ Did(k, i, "password")'
    BY <1>1, <1>2, Others DEF PlaceInv, InPlace
  <2>2. name'[i] # None => name[i] # None
    <3>1. ~(i = j /\ Is(j, "create") /\ Early(j))
      BY <2>1, NotBorn DEF Did
    <3> QED
      BY <1>1, <3>1, FrameMade
  <2>3. name'[i] # None /\ i \notin mixed' => credential'[i] = k
    <3> SUFFICES ASSUME name'[i] # None, i \notin mixed'
                 PROVE  credential'[i] = k
      OBVIOUS
    <3>1. credential[i] = k /\ i \notin mixed
      BY <1>1, <2>1, <2>2, FrameNoted DEF PlaceInv, InPlace, Exists
    <3>2. ~(i = j /\ Is(j, "create") /\ Early(j))
      BY <2>1, NotBorn DEF Did
    <3>3. ~(At(j, "password") /\ i = Target(j))
      <4> SUFFICES ASSUME At(j, "password"), i = Target(j) PROVE FALSE
        OBVIOUS
      <4>1. Is(j, "password") /\ pc[j] \in Flying /\ pc[k] \in Flying
        BY <2>1 DEF KindInv, At, Flying
      <4> QED
        BY <1>1, <1>2, <3>1, <4>1, SetterPlace DEF MeetInv
    <3> QED
      BY <1>1, <3>1, <3>2, <3>3, FrameCredential
  <2> QED
    BY <1>1, <2>1, <2>3 DEF InPlace, Exists
<1>3. CASE k = j /\ pc'[j] = "lookup"
  <2>1. SetPassword(j)
    BY <1>1, <1>3, PasswordPath
  <2>2. Did(k, i, "password")' /\ credential'[i] = k
    BY <1>1, <1>3, <2>1 DEF SetPassword, Make, Did, TypeOK
  <2> QED
    BY <1>1, <2>2 DEF InPlace
<1>4. CASE k = j /\ pc'[j] = "audit"
  <2>1. Lookup(j)
    BY <1>1, <1>4, PasswordPath
  <2>2. UNCHANGED <<name, credential, made, mixed>> /\ pc[j] = "lookup"
    BY <2>1 DEF Lookup, keycloak, history, At
  <2> QED
    BY <1>1, <1>4, <2>2 DEF PlaceInv, InPlace, Did, Exists
<1> QED
  BY <1>2, <1>3, <1>4

LEMMA AttributedStep ==
  ASSUME TypeOK, KindInv, TodoInv, BirthInv, PlaceInv, PasswordAttributed,
         NEW j \in Jobs, Step(j)
  PROVE  PasswordAttributed'
<1> SUFFICES ASSUME NEW i \in Ids, name'[i] # None, i \notin mixed',
                    \A k \in Setters(i) :
                      ~(Did(k, i, "password")' /\ ~Succeeded(k)')
             PROVE  IF noted'[i] = None THEN credential'[i] \notin Setters(i)
                                        ELSE credential'[i] = noted'[i]
  BY SettersKept DEF PasswordAttributed, Exists
<1>1. i \notin mixed
  BY FrameNoted
<1>2. CASE name[i] = None
  <2>1. i = j /\ Is(j, "create") /\ Early(j)
    BY <1>2, FrameMade
  <2>2. ~Is(j, "password") /\ j \notin Setters(i)
    BY <2>1 DEF Is, Setters
  <2>3. noted'[i] = None
    BY <2>1, <2>2, FrameNoted, NotBorn
  <2>4. credential'[i] \in {"none", "update", j}
    BY <1>2, FrameCredential
  <2> QED
    BY <2>2, <2>3, <2>4, NamesDiffer DEF Setters
<1>3. CASE name[i] # None /\ Audit(j) /\ Is(j, "password") /\ i = Target(j)
  <2>1. noted'[i] = j /\ credential'[i] = credential[i] /\ pc[j] = "audit"
    BY <1>3 DEF Audit, keycloak, At, TypeOK
  <2>2. credential[i] = j
    BY <1>1, <1>3, <2>1 DEF PlaceInv, InPlace, Exists
  <2> QED
    BY <2>1, <2>2, NamesDiffer
<1>4. CASE name[i] # None /\ ~(Audit(j) /\ Is(j, "password") /\ i = Target(j))
  <2>1. noted'[i] = noted[i]
    BY <1>4, FrameNoted
  <2>2. credential'[i] = credential[i]
    <3>1. ~(i = j /\ Is(j, "create") /\ Early(j))
      BY <1>4, NotBorn
    <3>2. ~(At(j, "password") /\ i = Target(j) /\ Did(j, i, "password")'
            /\ pc'[j] \in {"lookup", "auditFailure"})
      <4> SUFFICES ASSUME At(j, "password"), i = Target(j),
                          Did(j, i, "password")',
                          pc'[j] \in {"lookup", "auditFailure"}
                   PROVE  FALSE
        OBVIOUS
      <4>1. j \in Setters(i)
        BY SetterPlace DEF KindInv, At
      <4>2. ~Succeeded(j)'
        BY DEF Succeeded
      <4> QED
        BY <4>1, <4>2
    <3> QED
      BY <3>1, <3>2, FrameCredential
  <2>3. \A k \in Setters(i) : ~(Did(k, i, "password") /\ ~Succeeded(k))
    <3> SUFFICES ASSUME NEW k \in Setters(i), Did(k, i, "password"), ~Succeeded(k)
                 PROVE  FALSE
      OBVIOUS
    <3>1. k \in Jobs /\ Is(k, "password") /\ Target(k) = i
      BY DEF Setters
    <3>2. Succeeded(k)'
      BY FrameMade DEF Did
    <3>3. k = j
      BY <3>1, <3>2, FrameLocal DEF Succeeded
    <3>4. ~Audit(j)
      BY <1>4, <3>1, <3>3
    <3>5. pc[j] # "answer"
      BY <3>3 DEF Succeeded
    <3> QED
      BY <3>1, <3>2, <3>3, <3>4, <3>5, PasswordPath DEF Succeeded, Answer, At
  <2> QED
    BY <1>1, <1>4, <2>1, <2>2, <2>3 DEF PasswordAttributed, Exists
<1> QED
  BY <1>2, <1>3, <1>4

----------------------------------------------------------------------------
(* The new accounts.                                                       *)

\* The entry of a creation is the same at all times.
LEMMA CreateEntry ==
  ASSUME TypeOK, KindInv, TodoInv, NEW j \in Jobs, Step(j), NEW k \in Jobs,
         Is(k, "create")
  PROVE  /\ EntryOf(k, "success")' = EntryOf(k, "success")
         /\ EntryOf(k, "success") \in audit => EntryOf(k, "success") \in audit'
<1>1. job' = job /\ audit \subseteq audit'
  BY JobKept, FrameTrail DEF Next, Step
<1> QED
  BY <1>1 DEF EntryOf, ActionOf, Target, Is

\* Nobody but its creator is at an account no other request is about.
LEMMA Alone ==
  ASSUME TypeOK, KindInv, TodoInv, NEW j \in Jobs, Step(j), NEW k \in Jobs,
         k # j, \A l \in Jobs : k \notin TargetsOf(l)
  PROVE  /\ credential'[k] = credential[k] /\ attribute'[k] = attribute[k]
         /\ teams'[k] = teams[k]
<1>1. Placed(j) => k # Target(j)
  BY Here DEF Placed
<1> QED
  BY <1>1, NamesDiffer, FrameAccount

LEMMA OtherCreation ==
  ASSUME TypeOK, KindInv, TodoInv, NEW j \in Jobs, Step(j), NEW k \in Jobs,
         k # j, Is(k, "create"), Creation(k)
  PROVE  Creation(k)'
<1>1. /\ pc'[k] = pc[k] /\ job'[k] = job[k] /\ team'[k] = team[k]
      /\ Proposed(k, k)' = Proposed(k, k)
      /\ Did(k, k, "create")' = Did(k, k, "create")
      /\ Succeeded(k)' = Succeeded(k)
      /\ At(k, "auditProposal")' = At(k, "auditProposal")
  BY Others DEF Succeeded
<1>2. \A l : TargetsOf(l)' = TargetsOf(l)
  BY JobKept DEF Next, Step
<1>3. EntryOf(k, "success") \in audit => (EntryOf(k, "success") \in audit)'
  BY CreateEntry
<1>4. (\A l \in Jobs : k \notin TargetsOf(l)) =>
        /\ credential'[k] = credential[k] /\ attribute'[k] = attribute[k]
        /\ teams'[k] = teams[k]
  BY Alone
<1> QED
  BY <1>1, <1>2, <1>3, <1>4 DEF Creation

\* A creation goes on.
LEMMA OwnCreation ==
  ASSUME TypeOK, KindInv, TodoInv, BirthInv, NEW j \in Jobs, Step(j),
         Is(j, "create"), Creation(j)
  PROVE  Creation(j)'
<1>t. /\ pc \in [Jobs -> Control] /\ team \in [Jobs -> Teams \cup {None}]
      /\ credential \in [Ids -> Jobs \cup {"old", "none", "update"}]
      /\ attribute \in [Ids -> Teams \cup {None}]
      /\ teams \in [Ids -> SUBSET Teams] /\ j \in Ids
  BY NamesDiffer DEF TypeOK
<1>j. /\ job' = job /\ (\A l : TargetsOf(l)' = TargetsOf(l)) /\ Target(j) = j
      /\ EntryOf(j, "success")' = EntryOf(j, "success")
      /\ EntryOf(j, "success") \in audit => EntryOf(j, "success") \in audit'
      /\ Proposed(j, j) => Proposed(j, j)'
  BY JobKept, Here, CreateEntry, FrameTrail DEF Next, Step, Proposed
<1>p. pc[j] \notin {"enable", "attribute", "target", "delete", "record",
                    "password", "lookup", "auditFailure"}
  BY DEF KindInv, Is, Deletes
<1>c. \A t : CallFor(j, t) = "post"
  BY CallIs
\* Before the account is made there is nothing to say but where the handler is.
<1>b. ASSUME Did(j, j, "create")' <=> Did(j, j, "create"), Early(j),
             pc'[j] \in {"findTeam", "post", "postBare"},
             pc'[j] # "findTeam" /\ job[j].team \in TopTeams => team'[j] = job[j].team
      PROVE  Creation(j)'
  <2>1. ~Did(j, j, "create")'
    BY <1>b, NotBorn
  <2> QED
    BY <1>b, <1>j, <2>1 DEF Creation, Succeeded, At
\* Afterwards most steps leave the account alone.
<1>a. ASSUME UNCHANGED <<credential, attribute, team>>,
             Did(j, j, "create")' <=> Did(j, j, "create"),
             pc[j] \notin {"idle", "findTeam"}
      PROVE  /\ job[j].team \in TopTeams /\ pc[j] # "failed"
                  => team'[j] = job[j].team
             /\ Did(j, j, "create")' /\ (\A k \in Jobs : j \notin TargetsOf(k))
                  => /\ credential'[j] = "none" <=> job[j].password = "none"
                     /\ job[j].admin => attribute'[j] = team'[j]
  BY <1>a DEF Creation
<1>1. CASE Start(j)
  <2>1. UNCHANGED <<made, team>> /\ pc[j] = "idle"
    BY <1>1 DEF Start, local, At
  <2>2. pc'[j] = IF job[j].team # None THEN "findTeam" ELSE "post"
    BY <1>1, <1>t, <1>c DEF Start, Goto
  <2> QED
    BY <1>b, <2>1, <2>2, NamesDiffer DEF Did, Early
<1>2. CASE FindTeam(j)
  <2>1. UNCHANGED made /\ pc[j] = "findTeam" /\ pc'[j] = "post"
    BY <1>2, <1>t, <1>c DEF FindTeam, history, At, Goto
  <2>2. job[j].team \in TopTeams => team'[j] = job[j].team
    BY <1>2, <1>t DEF FindTeam, Searched
  <2> QED
    BY <1>b, <2>1, <2>2 DEF Did, Early
<1>3. CASE Post(j) \/ PostBare(j)
  <2>1. pc'[j] = "fetch" /\ UNCHANGED team /\ pc[j] \in {"post", "postBare"}
    BY <1>3, <1>t DEF Post, PostBare, Created, Goto, local, At
  <2>2. credential'[j] = "none" <=> job[j].password = "none"
    <3>1. CASE Post(j)
      <4>1. credential'[j] = IF job[j].password = "none" THEN "none" ELSE j
        BY <3>1, <1>t DEF Post, Created
      <4> QED
        BY <4>1, NamesDiffer
    <3>2. CASE PostBare(j)
      <4>1. credential'[j] = IF job[j].temporary THEN "update" ELSE "none"
        BY <3>2, <1>t DEF PostBare, Created
      <4>2. job[j].password = "refused" /\ job[j].temporary
        BY <3>2 DEF PostBare, At, KindInv
      <4> QED
        BY <4>1, <4>2
    <3> QED
      BY <1>3, <3>1, <3>2
  <2>3. job[j].admin => attribute'[j] = team'[j]
    BY <1>3, <1>t, <2>1 DEF Post, PostBare, Created
  <2>4. job[j].team \in TopTeams => team[j] = job[j].team
    BY <2>1 DEF Creation
  <2> QED
    BY <1>j, <2>1, <2>2, <2>3, <2>4 DEF Creation, Succeeded, At
<1>4. CASE FallBack(j)
  <2>1. UNCHANGED <<made, team>> /\ pc[j] = "post" /\ pc'[j] = "postBare"
    BY <1>4, <1>t DEF FallBack, local, history, At, Goto
  <2> QED
    BY <1>b, <2>1 DEF Did, Early, Creation
<1>5. CASE Fetch(j)
  <2>1. /\ UNCHANGED <<made, team, credential, attribute>>
        /\ pc[j] = "fetch" /\ pc'[j] = "audit"
    BY <1>5, <1>t DEF Fetch, keycloak, local, history, At, Goto
  <2> QED
    BY <1>a, <1>j, <2>1 DEF Did, Creation, Succeeded, At
<1>9. CASE Join(j)
  <2>1. /\ UNCHANGED <<team, credential, attribute>> /\ team[j] \in teams'[j]
        /\ pc[j] = "join" /\ pc'[j] = "answer"
    BY <1>9, <1>t, <1>j DEF Join, local, At, Goto
  <2>2. Did(j, j, "create")' <=> Did(j, j, "create")
    BY <1>9 DEF Join, Make, Did
  <2>3. job[j].admin /\ EntryOf(j, "success") \in audit
    BY <2>1 DEF KindInv, Creation
  <2> QED
    BY <1>a, <1>j, <2>1, <2>2, <2>3 DEF Creation, Succeeded, At
<1>11. CASE Propose(j)
  <2>0. team[j] # None /\ pc[j] = "propose"
    BY <1>11 DEF Propose, KindInv, At
  <2>1. /\ UNCHANGED <<made, team, credential, attribute>>
        /\ pc'[j] = "auditProposal" /\ Proposed(j, j)'
    BY <1>11, <1>t, <1>j, <2>0 DEF Propose, keycloak, history, Goto, Proposed
  <2>2. EntryOf(j, "success") \in audit
    BY <2>0 DEF Creation
  <2> QED
    BY <1>a, <1>j, <2>0, <2>1, <2>2 DEF Did, Creation, Succeeded, At
<1>12. CASE AuditProposal(j)
  <2>1. /\ UNCHANGED <<made, team, credential, attribute>>
        /\ pc[j] = "auditProposal" /\ pc'[j] = "answer"
    BY <1>12, <1>t DEF AuditProposal, keycloak, history, At, Goto
  <2>2. /\ ~job[j].admin /\ Proposed(j, j)'
        /\ EntryOf(j, "success") \in audit
    BY <1>j, <2>1 DEF KindInv, Creation, At
  <2> QED
    BY <1>a, <1>j, <2>1, <2>2 DEF Did, Creation, Succeeded, At
<1>20. CASE Audit(j)
  <2>1. /\ UNCHANGED <<made, team, credential, attribute>>
        /\ EntryOf(j, "success") \in audit' /\ pc[j] = "audit"
    BY <1>20 DEF Audit, keycloak, At
  <2>2. pc'[j] = IF team[j] # None
                 THEN IF job[j].admin THEN "join" ELSE "propose"
                 ELSE "answer"
    BY <1>20, <1>t DEF Audit, Goto, Is
  <2> QED
    BY <1>a, <1>j, <2>1, <2>2 DEF Did, Creation, Succeeded, At
<1>23. CASE Answer(j)
  <2>1. /\ UNCHANGED <<made, team, credential, attribute, teams>>
        /\ pc[j] = "answer" /\ pc'[j] = "ok"
    BY <1>23, <1>t DEF Answer, keycloak, local, history, At, Goto
  <2> QED
    BY <1>a, <1>j, <2>1 DEF Did, Creation, Succeeded, At
<1>24. CASE Fail(j)
  <2>1. /\ UNCHANGED <<made, team, credential, attribute>>
        /\ pc'[j] = "failed"
    BY <1>24, <1>t DEF Fail, keycloak, local, history, Goto
  <2> QED
    BY <1>j, <2>1 DEF Did, Creation, Succeeded, At
<1>8. ~Leave(j)
  BY DEF Leave, KindInv, At, Is
<1>x. ~(\/ SetEnabled(j) \/ SetAttribute(j) \/ ReadTarget(j) \/ TargetError(j)
        \/ Delete(j) \/ Record(j) \/ SetPassword(j) \/ Lookup(j)
        \/ CallError(j) \/ AuditLost(j) \/ AuditFailure(j))
  BY <1>p DEF SetEnabled, SetAttribute, ReadTarget, TargetError, Delete, Record,
       SetPassword, Lookup, CallError, AuditLost, AuditFailure, At, Is
<1> QED
  BY <1>1, <1>2, <1>3, <1>4, <1>5, <1>8, <1>9, <1>11, <1>12, <1>20, <1>23,
       <1>24, <1>x DEF Step

LEMMA CreateStep ==
  ASSUME TypeOK, KindInv, TodoInv, BirthInv, CreateInv, NEW j \in Jobs, Step(j)
  PROVE  CreateInv'
<1> SUFFICES ASSUME NEW k \in Jobs, Is(k, "create")' PROVE Creation(k)'
  BY DEF CreateInv
<1>1. Is(k, "create") /\ Creation(k)
  BY JobKept DEF Next, Step, Is, CreateInv
<1> QED
  BY <1>1, OwnCreation, OtherCreation

----------------------------------------------------------------------------
LEMMA InitAccounts == Init => AInv
<1> SUFFICES ASSUME Init PROVE AInv
  OBVIOUS
<1>1. /\ pc = [j \in Jobs |-> "idle"] /\ made = {} /\ noted = [i \in Ids |-> None]
      /\ \A i \in Ids : credential[i] \in {"none", "old"}
  BY DEF Init
<1>2. CreateInv
  BY <1>1 DEF CreateInv, Creation, Succeeded, At, Did
<1>3. MeetInv /\ SetInv /\ PlaceInv
  BY <1>1 DEF MeetInv, SetInv, PlaceInv, Setters, Flying
<1>4. PasswordAttributed
  BY <1>1, NamesDiffer DEF PasswordAttributed, Setters
<1> QED
  BY <1>2, <1>3, <1>4 DEF AInv

LEMMA StutterAccounts == AInv /\ UNCHANGED vars => AInv'
<1> SUFFICES ASSUME AInv, UNCHANGED vars PROVE AInv'
  OBVIOUS
<1>1. /\ UNCHANGED <<name, teams, attribute, credential, audit, proposals>>
      /\ UNCHANGED <<job, pc, todo, team, made, noted, mixed>>
  BY DEF vars, keycloak, s3, local, history
<1>2. /\ \A k : TargetsOf(k)' = TargetsOf(k) /\ Target(k)' = Target(k)
      /\ \A k, i, w : Did(k, i, w)' = Did(k, i, w)
      /\ \A k, i : Proposed(k, i)' = Proposed(k, i)
      /\ \A k : Succeeded(k)' = Succeeded(k)
      /\ \A k, s : At(k, s)' = At(k, s) /\ Is(k, s)' = Is(k, s)
      /\ \A i : Exists(i)' = Exists(i)
  BY <1>1 DEF TargetsOf, Target, Did, Proposed, Succeeded, At, Is, Exists
<1>3. /\ \A k, o : EntryOf(k, o)' = EntryOf(k, o)
      /\ \A i : Setters(i)' = Setters(i)
  BY <1>1, <1>2 DEF EntryOf, ActionOf, Setters
<1>4. CreateInv'
  BY <1>1, <1>2, <1>3 DEF AInv, CreateInv, Creation
<1>5. MeetInv' /\ SetInv' /\ PlaceInv'
  BY <1>1, <1>2, <1>3 DEF AInv, MeetInv, SetInv, PlaceInv, InPlace
<1>6. PasswordAttributed'
  BY <1>1, <1>2, <1>3 DEF AInv, PasswordAttributed
<1> QED
  BY <1>4, <1>5, <1>6 DEF AInv

LEMMA StepAccounts == UInv /\ AInv /\ [Next]_vars => AInv'
<1> SUFFICES ASSUME UInv, AInv, [Next]_vars PROVE AInv'
  OBVIOUS
<1>1. ASSUME NEW j \in Jobs, Step(j) PROVE AInv'
  <2>1. CreateInv'
    BY <1>1, CreateStep DEF UInv, AInv
  <2>2. MeetInv' /\ SetInv' /\ PlaceInv'
    BY <1>1, MeetStep, SetStep, PlaceStep DEF UInv, AInv
  <2>3. PasswordAttributed'
    BY <1>1, AttributedStep DEF UInv, AInv
  <2> QED
    BY <2>1, <2>2, <2>3 DEF AInv
<1>2. Next => \E j \in Jobs : Step(j)
  BY DEF Next, Step
<1> QED
  BY <1>1, <1>2, StutterAccounts

\* AInv holds in every state of every behaviour.
THEOREM Accounts == Spec => []AInv
BY InitAccounts, StepAccounts, Invariance, PTL DEF Spec

\* An account whose creation create_user has answered with success is in the
\* audit trail, has the password of the form or must choose one, and has its
\* top-level team or a proposal for it, whatever became of the first call.
THEOREM CreationsAsAsked == Spec => []CreatedAsAsked
<1>1. UInv /\ AInv => CreatedAsAsked
  <2> SUFFICES ASSUME UInv, AInv, NEW j \in Jobs, Is(j, "create"),
                      Succeeded(j), Exists(j),
                      \A k \in Jobs : j \notin TargetsOf(k)
               PROVE  CreatedAsAsked!(j)!2
    BY DEF CreatedAsAsked
  <2>1. Creation(j) /\ pc[j] \in {"answer", "ok"}
    BY DEF AInv, CreateInv, Succeeded
  <2>2. Did(j, j, "create")
    BY DEF UInv, BirthInv, Exists
  <2>3. job[j].team \in TopTeams => team[j] = job[j].team /\ team[j] # None
    BY <2>1, NamesDiffer DEF Creation
  <2> QED
    BY <2>1, <2>2, <2>3 DEF Creation
<1> QED
  BY <1>1, Invariance, Accounts, PTL

\* The last set_password entry about an account names who has set the password
\* it has, unless two requests overlapped or the answer of one was lost.
THEOREM PasswordsAttributed == Spec => []PasswordAttributed
<1>1. AInv => PasswordAttributed
  BY DEF AInv
<1> QED
  BY <1>1, Accounts, PTL

=============================================================================
