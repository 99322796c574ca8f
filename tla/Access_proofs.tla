---------------------------- MODULE Access_proofs ----------------------------
(***************************************************************************)
(* Proofs about Access, for every set of users, requests and tasks and     *)
(* every limit.  XInv is the inductive invariant.                          *)
(***************************************************************************)
EXTENDS Access, TLAPS

\* Which requests come where.
KindInv ==
  \A r \in Requests :
    /\ ~At(r, "idle") => job[r] \in Task
    /\ pc[r] \in {"begin", "away", "reload", "exchange", "cycle"} => Is(r, "login")
    /\ pc[r] \in {"roles", "page", "role", "audit", "flash"}
         => Is(r, "panel") \/ Is(r, "change")
    /\ At(r, "page") => Is(r, "panel")
    /\ pc[r] \in {"role", "audit", "flash"} => Is(r, "change")
    /\ At(r, "load") => ~Is(r, "promote") /\ ~Is(r, "logout")

\* The session a request works with.
CopyInv ==
  \A r \in Requests :
    /\ pc[r] \in {"exchange", "cycle"} => sid[r] # None /\ copy[r].flow = r
    /\ pc[r] \in {"roles", "page", "role", "audit", "flash"} => sid[r] # None
    /\ At(r, "cycle") => claim[r] # None
    /\ pc[r] \in {"idle", "load", "flush"} => copy[r].user = None
    /\ pc[r] \in {"idle", "load", "reload"} => r \notin modified
    /\ claim[r] # None =>
         /\ pc[r] \in {"cycle", "respond"}
         /\ At(r, "respond") => sid[r] = None /\ copy[r].flow = None
    /\ r \in modified /\ sid[r] = None => pc[r] \in {"respond", "away"}
    /\ At(r, "respond") /\ r \in modified /\ sid[r] = None
         => claim[r] # None \/ copy[r].flow = r
    /\ copy[r].user # None /\ ~(pc[r] \in {"away", "reload"})
         => /\ sid[r] \notin Requests \X {"start"}
            /\ sid[r] = None => claim[r] # None

\* The tokens, messages and flows of requests other than q in a session.
Marked(s, q) ==
  \A r \in Requests \ {q} :
    /\ s.csrf = r \/ s.flash = r => At(r, "done")
    /\ s.flow = r => pc[r] \in {"away", "reload", "exchange", "cycle", "respond", "done"}

\* A token, message or flow of a request is found where she has put it.
MarkInv ==
  /\ \A i \in Id : store[i] # None => Marked(store[i], None)
  /\ \A r \in Requests :
       /\ Marked(copy[r], r)
       /\ copy[r].csrf = r => At(r, "respond") /\ Is(r, "panel") /\ r \in rightful
       /\ copy[r].flash = r => At(r, "respond") /\ Is(r, "change")
       /\ copy[r].flow = r =>
            /\ pc[r] \in {"away", "reload", "exchange", "cycle", "respond"}
            /\ Is(r, "login")

\* Whose request is past the check was an admin, and is one unless stripped.
RightInv ==
  \A r \in Requests :
    /\ InFlight(r) /\ (Is(r, "panel") \/ Is(r, "change")) /\ Admin(By(r))
         => r \in rightful
    /\ pc[r] \in {"page", "role", "audit", "flash"} => r \in rightful
    /\ At(r, "role") => ~SelfLockout(r) /\ (r \notin stripped => Admin(By(r)))
    /\ r \in made =>
         pc[r] \in {"audit", "flash", "respond"} /\ r \in rightful /\ Is(r, "change")
    /\ At(r, "audit") => r \in made
    /\ At(r, "flash") /\ r \in made => r \in audit

\* The counter of the promotions.
CountInv == passed = IF limiter.n < Limit THEN limiter.n ELSE Limit

\* The ids that logins are still going to make.
Unborn ==
  {<<r, "start">> : r \in {q \in Requests :
                            \/ pc[q] \in {"idle", "load", "begin"}
                            \/ At(q, "respond") /\ copy[q].flow = q}}
  \cup {<<r, "end">> : r \in {q \in Requests : ~At(q, "done")}}

\* They are nowhere yet.
BirthInv ==
  /\ \A i \in Unborn : store[i] = None /\ i \notin ended
  /\ \A u \in Users : cookie[u] \notin Unborn
  /\ \A r \in Requests : sid[r] \notin Unborn

XInv == /\ TypeOK /\ KindInv /\ CopyInv /\ MarkInv /\ RightInv /\ CountInv
        /\ BirthInv /\ LimiterSound /\ SessionsEnd /\ RoleAuditTrue

----------------------------------------------------------------------------
\* None is no value, and the names of users and requests are apart.
LEMMA ConstantFacts ==
  /\ Limit \in Nat /\ Tasks \in [Requests -> SUBSET Task]
  /\ None \notin Id /\ None \notin Requests /\ None \notin Role
  /\ None \notin Session /\ None \notin Task
  /\ Users \cap Requests = {} /\ Users \cap (Requests \X {"start", "end"}) = {}
BY AccessAssumption

\* A session with one field changed is a session.
LEMMA SessionUpdate ==
  ASSUME NEW s \in Session, NEW r \in Requests
  PROVE  /\ \A x \in Role : [s EXCEPT !.role = x] \in Session
         /\ [s EXCEPT !.csrf = r, !.flash = None] \in Session
         /\ [s EXCEPT !.flash = r] \in Session
         /\ [s EXCEPT !.flow = r] \in Session
         /\ \A u \in Users, x \in Role :
              [s EXCEPT !.user = u, !.role = x, !.flow = None] \in Session
BY DEF Session, Token

LEMMA EmptyType == Empty \in Session
BY DEF Empty, Session

\* What a call that changes a role does to the types.
LEMMA ChangeType ==
  ASSUME TypeOK, KindInv, NEW r \in Requests, ChangeRole(r)
  PROVE  /\ roles' \in [Users -> SUBSET Role]
         /\ rightful' \subseteq Requests /\ stripped' \subseteq Requests
         /\ made' \subseteq Requests /\ fault' \subseteq Fault
<1>1. job[r].target \in Users /\ job[r].role \in Role
  BY DEF ChangeRole, At, KindInv, Task
<1>2. roles' \in [Users -> SUBSET Role]
  BY <1>1 DEF ChangeRole, RolesNow, TypeOK
<1>3. rightful' \subseteq Requests /\ stripped' \subseteq Requests
  BY DEF ChangeRole, RolesNow, TypeOK
<1>4. made' \subseteq Requests /\ fault' \subseteq Fault
  BY DEF ChangeRole, TypeOK, Fault
<1> QED
  BY <1>2, <1>3, <1>4

\* Load finds a session, or starts with an empty one.
LEMMA LoadMeans ==
  ASSUME TypeOK, NEW r \in Requests, Load(r)
  PROVE  /\ pc[r] \in {"load", "reload"}
         /\ \/ /\ sid[r] # None /\ store[sid[r]] # None
               /\ sid' = sid /\ copy' = [copy EXCEPT ![r] = store[sid[r]]]
            \/ /\ sid' = [sid EXCEPT ![r] = None]
               /\ copy' = [copy EXCEPT ![r] = Empty]
         /\ pc' = [pc EXCEPT ![r] =
                     IF At(r, "reload")
                     THEN IF copy'[r].flow = r THEN "exchange" ELSE "respond"
                     ELSE IF Is(r, "login") THEN "begin"
                     ELSE IF copy'[r].user = None THEN "respond" ELSE "roles"]
         /\ UNCHANGED <<roles, redis, browser, job, modified, form, claim, shown,
                        history>>
<1>1. CASE sid[r] # None /\ store[sid[r]] # None
  <2>1. copy' = [copy EXCEPT ![r] = store[sid[r]]] /\ sid' = sid
    BY <1>1 DEF Load, TypeOK
  <2>2. copy'[r] = store[sid[r]]
    BY <2>1 DEF TypeOK
  <2> QED
    BY <1>1, <2>1, <2>2 DEF Load, Goto
<1>2. CASE ~(sid[r] # None /\ store[sid[r]] # None)
  <2>1. copy' = [copy EXCEPT ![r] = Empty] /\ sid' = [sid EXCEPT ![r] = None]
    BY <1>2 DEF Load
  <2>2. copy'[r] = Empty
    BY <2>1 DEF TypeOK
  <2> QED
    BY <1>2, <2>1, <2>2 DEF Load, Goto
<1> QED
  BY <1>1, <1>2

\* A request whose sender is an admin after a change of roles was taken note of.
LEMMA RightsMove ==
  ASSUME TypeOK, RightInv, NEW u \in Users, NEW R, RolesNow(u, R)
  PROVE  /\ rightful \subseteq rightful'
         /\ \A q \in Requests :
              /\ InFlight(q) /\ (Is(q, "panel") \/ Is(q, "change"))
                 /\ "admin" \in roles'[By(q)] => q \in rightful'
              /\ At(q, "role") /\ q \notin stripped' => "admin" \in roles'[By(q)]
BY DEF TypeOK, RolesNow, RightInv, Admin

\* None is the name of no session, and a login's ids are.
LEMMA NoneBorn == Unborn \subseteq Id /\ None \notin Unborn
BY ConstantFacts DEF Unborn, Id

\* A step keeps the types.
LEMMA TypeStep == TypeOK /\ KindInv /\ CopyInv /\ [Next]_vars => TypeOK'
<1> SUFFICES ASSUME TypeOK, KindInv, CopyInv, [Next]_vars PROVE TypeOK'
  OBVIOUS
<1> USE ConstantFacts
<1>1. ASSUME NEW r \in Requests, Send(r) PROVE TypeOK'
  <2>1. PICK t \in Tasks[r] :
          /\ job' = [job EXCEPT ![r] = t]
          /\ form' = form \/ \E p \in pages[t.by] : form' = [form EXCEPT ![r] = p]
          /\ \/ UNCHANGED <<sid, tabs>>
             \/ sid' = [sid EXCEPT ![r] = cookie[t.by]] /\ Overlap(r, t.by)
          /\ rightful' = IF Admin(t.by) THEN rightful \cup {r} ELSE rightful
          /\ \E s \in {"incr", "flush", "load"} : Goto(r, s)
    BY <1>1 DEF Send
  <2>2. t \in Task /\ t.by \in Users
    BY DEF Task
  <2>3. job' \in [Requests -> Task \cup {None}] /\ form' \in [Requests -> Token \cup {None}]
    BY <2>1, <2>2 DEF TypeOK
  <2>4. sid' \in [Requests -> Id \cup {None}] /\ tabs' \subseteq Users
    BY <2>1, <2>2 DEF TypeOK, Overlap
  <2>5. pc' \in [Requests -> Control] /\ rightful' \subseteq Requests
    BY <2>1 DEF Goto, TypeOK, Control, Flying
  <2> QED
    BY <1>1, <2>3, <2>4, <2>5 DEF Send, redis, browser, TypeOK
<1>2. ASSUME NEW r \in Requests, Load(r) PROVE TypeOK'
  BY <1>2 DEF Load, redis, browser, local, history, Goto, At, Is, By,
       InFlight, Flying, TypeOK, KindInv, CopyInv, Session, Empty, Token,
       Role, Control, Fault, Task, Id
<1>3. ASSUME NEW r \in Requests, Respond(r) PROVE TypeOK'
  <2>1. By(r) \in Users
    BY <1>3 DEF Respond, KindInv, At, By, Task
  <2>2. (IF sid[r] = None THEN NewId(r) ELSE sid[r]) \in Id
    BY DEF NewId, Id, TypeOK
  <2>3. store' \in [Id -> Session \cup {None}] /\ cookie' \in [Users -> Id \cup {None}]
    BY <1>3, <2>2 DEF Respond, browser, TypeOK
  <2>4. pages' \in [Users -> SUBSET Token] /\ newest' \in [Users -> Token \cup {None}]
    <3>1. r \in Token
      BY DEF Token
    <3> QED
      BY <1>3, <2>1, <3>1 DEF Respond, browser, TypeOK
  <2>5. CASE copy[r].flow = r
    BY <1>3, <2>3, <2>4, <2>5 DEF Respond, Goto, local, TypeOK, Control,
         Flying
  <2>6. CASE copy[r].flow # r
    <3>1. Finish(r) /\ UNCHANGED <<shown, roles, limiter, job, ended, passed, tabs, fault>>
      BY <1>3, <2>6 DEF Respond
    <3> QED
      BY <2>3, <2>4, <3>1, EmptyType DEF Finish, Goto, TypeOK, Control, Flying
  <2> QED
    BY <2>5, <2>6
<1>4. ASSUME NEW r \in Requests, Begin(r) PROVE TypeOK'
  <2>1. copy' \in [Requests -> Session]
    BY <1>4, SessionUpdate DEF Begin, TypeOK
  <2> QED
    BY <1>4, <2>1 DEF Begin, redis, browser, local, history, Goto, TypeOK,
         Control, Flying
<1>5. ASSUME NEW r \in Requests, Return(r) PROVE TypeOK'
  BY <1>5 DEF Return, Overlap, redis, browser, local, history, Goto, At, Is,
       By, InFlight, Flying, TypeOK, KindInv, CopyInv, Session, Empty, Token,
       Role, Control, Fault, Task, Id
<1>6. ASSUME NEW r \in Requests, Exchange(r) PROVE TypeOK'
  BY <1>6 DEF Exchange, FromClaims, redis, browser, local, history, Goto, At,
       Is, By, InFlight, Flying, TypeOK, KindInv, CopyInv, Session, Empty,
       Token, Role, Control, Fault, Task, Id
<1>7. ASSUME NEW r \in Requests, Cycle(r) PROVE TypeOK'
  <2>1. sid[r] \in Id /\ claim[r] \in Role /\ By(r) \in Users
    BY <1>7 DEF Cycle, CopyInv, KindInv, At, By, Task, TypeOK
  <2>2. [copy[r] EXCEPT !.user = By(r), !.role = claim[r], !.flow = None] \in Session
    BY <2>1, SessionUpdate DEF TypeOK
  <2>3. copy' \in [Requests -> Session]
    BY <1>7, <2>2 DEF Cycle, TypeOK
  <2>4. /\ store' \in [Id -> Session \cup {None}] /\ ended' \subseteq Id
        /\ sid' \in [Requests -> Id \cup {None}] /\ modified' \subseteq Requests
        /\ newest' \in [Users -> Token \cup {None}]
    BY <1>7, <2>1 DEF Cycle, TypeOK
  <2>5. pc' \in [Requests -> Control]
    BY <1>7 DEF Cycle, Goto, TypeOK, Control, Flying
  <2> QED
    BY <1>7, <2>3, <2>4, <2>5 DEF Cycle, browser, TypeOK
<1>8. ASSUME NEW r \in Requests, Logout(r) PROVE TypeOK'
  <2>1. sid[r] # None => sid[r] \in Id
    BY DEF TypeOK
  <2>2. /\ store' \in [Id -> Session \cup {None}] /\ ended' \subseteq Id
        /\ cookie' \in [Users -> Id \cup {None}]
        /\ newest' \in [Users -> Token \cup {None}]
        /\ copy' \in [Requests -> Session] /\ modified' \subseteq Requests
        /\ sid' = sid
    BY <1>8, <2>1, EmptyType DEF Logout, Flush, FlushFails, TypeOK
  <2>3. pc' \in [Requests -> Control]
    BY <1>8 DEF Logout, Goto, TypeOK, Control, Flying
  <2>4. UNCHANGED <<roles, limiter, pages, job, form, claim, shown, audit, made,
                    rightful, stripped, passed, tabs, fault>>
    BY <1>8 DEF Logout
  <2> QED
    BY <2>2, <2>3, <2>4 DEF TypeOK
<1>9. ASSUME NEW r \in Requests, Check(r) PROVE TypeOK'
  <2>1. By(r) \in Users /\ FromClaims(roles[By(r)]) \in Role
    BY <1>9 DEF Check, KindInv, At, By, Task, FromClaims, Role
  <2>2. copy' \in [Requests -> Session]
    BY <1>9, <2>1, SessionUpdate DEF Check, TypeOK
  <2>3. pc' \in [Requests -> Control] /\ modified' \subseteq Requests
    BY <1>9 DEF Check, Goto, Admitted, TypeOK, Control, Flying
  <2> QED
    BY <1>9, <2>2, <2>3 DEF Check, redis, browser, TypeOK
<1>10. ASSUME NEW r \in Requests, ShutOut(r) PROVE TypeOK'
  <2>1. sid[r] \in Id
    BY <1>10 DEF ShutOut, CopyInv, At, TypeOK
  <2>2. /\ store' \in [Id -> Session \cup {None}] /\ ended' \subseteq Id
        /\ cookie' \in [Users -> Id \cup {None}]
        /\ newest' \in [Users -> Token \cup {None}]
        /\ copy' \in [Requests -> Session] /\ modified' \subseteq Requests
        /\ sid' = sid
    BY <1>10, <2>1, EmptyType DEF ShutOut, Flush, FlushFails, TypeOK
  <2>3. pc' \in [Requests -> Control]
    BY <1>10 DEF ShutOut, Goto, TypeOK, Control, Flying
  <2>4. UNCHANGED <<roles, limiter, pages, job, form, claim, shown, audit, made,
                    rightful, stripped, passed, tabs, fault>>
    BY <1>10 DEF ShutOut
  <2> QED
    BY <2>2, <2>3, <2>4 DEF TypeOK
<1>11. ASSUME NEW r \in Requests, Page(r) PROVE TypeOK'
  <2>1. copy' \in [Requests -> Session]
    BY <1>11, SessionUpdate DEF Page, TypeOK
  <2>2. shown' \in [Requests -> Requests \cup {None}]
    BY <1>11 DEF Page, TypeOK, Session
  <2>3. pc' \in [Requests -> Control] /\ modified' \subseteq Requests
    BY <1>11 DEF Page, Goto, TypeOK, Control, Flying
  <2> QED
    BY <1>11, <2>1, <2>2, <2>3 DEF Page, redis, browser, history, TypeOK
<1>12. ASSUME NEW r \in Requests, RoleChanged(r) PROVE TypeOK'
  BY <1>12, ChangeType DEF RoleChanged, redis, browser, local, Goto, TypeOK,
       Control,
     Flying
<1>13. ASSUME NEW r \in Requests, RoleError(r) PROVE TypeOK'
  <2>1. CASE UNCHANGED <<roles, rightful, stripped, fault, made>>
    BY <1>13, <2>1 DEF RoleError, redis, browser, local, Goto, TypeOK,
         Control, Flying
  <2>2. CASE ChangeRole(r)
    BY <1>13, <2>2, ChangeType DEF RoleError, redis, browser, local, Goto,
         TypeOK, Control, Flying
  <2> QED
    BY <1>13, <2>1, <2>2 DEF RoleError
<1>14. ASSUME NEW r \in Requests, Audit(r) PROVE TypeOK'
  BY <1>14 DEF Audit, redis, browser, local, history, Goto, At, Is, By,
       InFlight, Flying, TypeOK, KindInv, CopyInv, Session, Empty, Token,
       Role, Control, Fault, Task, Id
<1>15. ASSUME NEW r \in Requests, SetFlash(r) PROVE TypeOK'
  <2>1. copy' \in [Requests -> Session]
    BY <1>15, SessionUpdate DEF SetFlash, TypeOK
  <2> QED
    BY <1>15, <2>1 DEF SetFlash, redis, browser, local, history, Goto,
         TypeOK, Control, Flying
<1>16. ASSUME NEW r \in Requests, Incr(r) PROVE TypeOK'
  <2>1. limiter' \in [n : Nat, ttl : BOOLEAN] /\ passed' \in Nat
    BY <1>16 DEF Incr, TypeOK
  <2> QED
    BY <1>16, <2>1 DEF Incr, browser, local, Goto, TypeOK, Control, Flying
<1>17. ASSUME NEW r \in Requests, SetTtl(r) PROVE TypeOK'
  <2>1. limiter' \in [n : Nat, ttl : BOOLEAN] /\ fault' \subseteq Fault
    BY <1>17 DEF SetTtl, TypeOK, Fault
  <2> QED
    BY <1>17, <2>1 DEF SetTtl, browser, local, Goto, TypeOK, Control, Flying
<1>18. ASSUME NEW r \in Requests, Promote(r) PROVE TypeOK'
  <2>1. /\ roles' \in [Users -> SUBSET Role]
        /\ rightful' \subseteq Requests /\ stripped' \subseteq Requests
    BY <1>18 DEF Promote, RolesNow, TypeOK, Role
  <2> QED
    BY <1>18, <2>1 DEF Promote, redis, browser, local, Goto, TypeOK, Control,
         Flying
<1>19. ASSUME NEW r \in Requests, Fail(r) PROVE TypeOK'
  BY <1>19 DEF Fail, Finish, redis, browser, local, history, Goto, At, Is,
       By, InFlight, Flying, TypeOK, KindInv, CopyInv, Session, Empty, Token,
       Role, Control, Fault, Task, Id
<1>20. ASSUME NEW id \in Id, SessionExpires(id) PROVE TypeOK'
  BY <1>20 DEF SessionExpires, redis, browser, local, history, Goto, At, Is,
       By, InFlight, Flying, TypeOK, KindInv, CopyInv, Session, Empty, Token,
       Role, Control, Fault, Task, Id
<1>21. ASSUME WindowEnds PROVE TypeOK'
  BY <1>21 DEF WindowEnds, redis, browser, local, history, Goto, At, Is, By,
       InFlight, Flying, TypeOK, KindInv, CopyInv, Session, Empty, Token,
       Role, Control, Fault, Task, Id
<1>22. CASE UNCHANGED vars
  BY <1>22 DEF vars, redis, browser, local, history, At, Is, By, InFlight,
       TypeOK, KindInv, CopyInv, Session, Empty, Token, Role, Control, Fault,
       Task, Id
<1> QED
  BY <1>1, <1>2, <1>3, <1>4, <1>5, <1>6, <1>7, <1>8, <1>9, <1>10, <1>11,
       <1>12, <1>13, <1>14, <1>15, <1>16, <1>17, <1>18, <1>19, <1>20, <1>21,
       <1>22 DEF Next

\* A step keeps which requests come where.
LEMMA KindStep ==
  TypeOK /\ KindInv /\ CopyInv /\ MarkInv /\ [Next]_vars
  => KindInv'
<1> SUFFICES ASSUME TypeOK, KindInv, CopyInv, MarkInv, [Next]_vars
             PROVE  KindInv'
  OBVIOUS
<1> USE ConstantFacts
<1>1. ASSUME NEW r \in Requests, Send(r) PROVE KindInv'
  BY <1>1 DEF Send, Overlap, redis, browser, local, history, Goto, At, Is,
       By, InFlight, Flying, TypeOK, KindInv, MarkInv
<1>2. ASSUME NEW r \in Requests, Load(r) PROVE KindInv'
  <2>1. job[r] \in Task
    BY LoadMeans, <1>2 DEF KindInv, At
  <2>2. CASE At(r, "reload")
    BY <1>2, <2>2, LoadMeans DEF At, Is, TypeOK, KindInv
  <2>3. CASE At(r, "load")
    BY <1>2, <2>1, <2>3, LoadMeans DEF At, Is, TypeOK, KindInv, Task, Kind
  <2> QED
    BY <1>2, <2>2, <2>3, LoadMeans DEF At
<1>3. ASSUME NEW r \in Requests, Respond(r) PROVE KindInv'
  BY <1>3 DEF Respond, Finish, NewId, redis, browser, local, history, Goto,
       At, Is, By, InFlight, Flying, TypeOK, KindInv, MarkInv
<1>4. ASSUME NEW r \in Requests, Begin(r) PROVE KindInv'
  BY <1>4 DEF Begin, redis, browser, local, history, Goto, At, Is, By,
       InFlight, Flying, TypeOK, KindInv, MarkInv
<1>5. ASSUME NEW r \in Requests, Return(r) PROVE KindInv'
  BY <1>5 DEF Return, Overlap, redis, browser, local, history, Goto, At, Is,
       By, InFlight, Flying, TypeOK, KindInv, MarkInv
<1>6. ASSUME NEW r \in Requests, Exchange(r) PROVE KindInv'
  BY <1>6 DEF Exchange, FromClaims, redis, browser, local, history, Goto, At,
       Is, By, InFlight, Flying, TypeOK, KindInv, MarkInv
<1>7. ASSUME NEW r \in Requests, Cycle(r) PROVE KindInv'
  BY <1>7 DEF Cycle, redis, browser, local, history, Goto, At, Is, By,
       InFlight, Flying, TypeOK, KindInv, MarkInv
<1>8. ASSUME NEW r \in Requests, Logout(r) PROVE KindInv'
  BY <1>8 DEF Logout, Flush, FlushFails, redis, browser, local, history,
       Goto, At, Is, By, InFlight, Flying, TypeOK, KindInv, MarkInv
<1>9. ASSUME NEW r \in Requests, Check(r) PROVE KindInv'
  BY <1>9 DEF Check, Admitted, FromClaims, SelfLockout, redis, browser,
       local, history, Goto, At, Is, By, InFlight, Flying, TypeOK, KindInv,
       MarkInv
<1>10. ASSUME NEW r \in Requests, ShutOut(r) PROVE KindInv'
  BY <1>10 DEF ShutOut, Flush, FlushFails, redis, browser, local, history,
       Goto, At, Is, By, InFlight, Flying, TypeOK, KindInv, MarkInv
<1>11. ASSUME NEW r \in Requests, Page(r) PROVE KindInv'
  BY <1>11 DEF Page, redis, browser, local, history, Goto, At, Is, By,
       InFlight, Flying, TypeOK, KindInv, MarkInv
<1>12. ASSUME NEW r \in Requests, RoleChanged(r) PROVE KindInv'
  BY <1>12 DEF RoleChanged, ChangeRole, RolesNow, redis, browser, local,
       history, Goto, At, Is, By, InFlight, Flying, TypeOK, KindInv, MarkInv
<1>13. ASSUME NEW r \in Requests, RoleError(r) PROVE KindInv'
  BY <1>13 DEF RoleError, ChangeRole, RolesNow, redis, browser, local,
       history, Goto, At, Is, By, InFlight, Flying, TypeOK, KindInv, MarkInv
<1>14. ASSUME NEW r \in Requests, Audit(r) PROVE KindInv'
  BY <1>14 DEF Audit, redis, browser, local, history, Goto, At, Is, By,
       InFlight, Flying, TypeOK, KindInv, MarkInv
<1>15. ASSUME NEW r \in Requests, SetFlash(r) PROVE KindInv'
  BY <1>15 DEF SetFlash, redis, browser, local, history, Goto, At, Is, By,
       InFlight, Flying, TypeOK, KindInv, MarkInv
<1>16. ASSUME NEW r \in Requests, Incr(r) PROVE KindInv'
  BY <1>16 DEF Incr, redis, browser, local, history, Goto, At, Is, By,
       InFlight, Flying, TypeOK, KindInv, MarkInv
<1>17. ASSUME NEW r \in Requests, SetTtl(r) PROVE KindInv'
  BY <1>17 DEF SetTtl, redis, browser, local, history, Goto, At, Is, By,
       InFlight, Flying, TypeOK, KindInv, MarkInv
<1>18. ASSUME NEW r \in Requests, Promote(r) PROVE KindInv'
  BY <1>18 DEF Promote, RolesNow, redis, browser, local, history, Goto, At,
       Is, By, InFlight, Flying, TypeOK, KindInv, MarkInv
<1>19. ASSUME NEW r \in Requests, Fail(r) PROVE KindInv'
  BY <1>19 DEF Fail, Finish, redis, browser, local, history, Goto, At, Is,
       By, InFlight, Flying, TypeOK, KindInv, MarkInv
<1>20. ASSUME NEW id \in Id, SessionExpires(id) PROVE KindInv'
  BY <1>20 DEF SessionExpires, redis, browser, local, history, Goto, At, Is,
       By, InFlight, Flying, TypeOK, KindInv, MarkInv
<1>21. ASSUME WindowEnds PROVE KindInv'
  BY <1>21 DEF WindowEnds, redis, browser, local, history, Goto, At, Is, By,
       InFlight, Flying, TypeOK, KindInv, MarkInv
<1>22. CASE UNCHANGED vars
  BY <1>22 DEF vars, redis, browser, local, history, At, Is, By, InFlight,
       TypeOK, KindInv, MarkInv
<1> QED
  BY <1>1, <1>2, <1>3, <1>4, <1>5, <1>6, <1>7, <1>8, <1>9, <1>10, <1>11,
       <1>12, <1>13, <1>14, <1>15, <1>16, <1>17, <1>18, <1>19, <1>20, <1>21,
       <1>22 DEF Next

\* A step keeps what is known of the session of a request.
LEMMA CopyStep ==
  TypeOK /\ KindInv /\ CopyInv /\ MarkInv /\ BirthInv /\ SessionsEnd /\ [Next]_vars
  => CopyInv'
<1> SUFFICES ASSUME TypeOK, KindInv, CopyInv, MarkInv, BirthInv, SessionsEnd, [Next]_vars
             PROVE  CopyInv'
  OBVIOUS
<1> USE ConstantFacts
<1>1. ASSUME NEW r \in Requests, Send(r) PROVE CopyInv'
  BY <1>1 DEF Send, Overlap, redis, browser, local, history, Goto, At, Is,
       By, InFlight, Flying, TypeOK, KindInv, CopyInv, MarkInv, Empty
<1>2. ASSUME NEW r \in Requests, Load(r) PROVE CopyInv'
  <2>1. /\ claim' = claim /\ modified' = modified /\ store' = store
        /\ claim[r] = None /\ r \notin modified
    BY <1>2, LoadMeans DEF CopyInv, redis
  <2>2. \A q \in Requests \ {r} :
          pc'[q] = pc[q] /\ sid'[q] = sid[q] /\ copy'[q] = copy[q]
    BY <1>2, LoadMeans DEF TypeOK
  <2>3. CASE sid'[r] = None /\ copy'[r] = Empty
    <3>1. pc'[r] \in {"begin", "respond"}
      BY <1>2, <2>3, LoadMeans DEF At, Empty, TypeOK
    <3> QED
      BY <2>1, <2>2, <2>3, <3>1 DEF CopyInv, At, Empty
  <2>4. CASE sid'[r] \in Id /\ sid'[r] # None /\ store[sid'[r]] # None
             /\ copy'[r] = store[sid'[r]]
    <3>1. /\ pc'[r] \in {"exchange", "begin", "respond", "roles"}
          /\ pc'[r] = "exchange" => copy'[r].flow = r
      BY <1>2, LoadMeans DEF At, TypeOK
    <3>2. copy'[r].user # None => sid'[r] \notin Requests \X {"start"}
      BY <2>4 DEF SessionsEnd
    <3> QED
      BY <2>1, <2>2, <2>4, <3>1, <3>2 DEF CopyInv, At
  <2> QED
    BY <1>2, <2>3, <2>4, LoadMeans DEF TypeOK
<1>3. ASSUME NEW r \in Requests, Respond(r) PROVE CopyInv'
  BY <1>3 DEF Respond, Finish, NewId, redis, browser, local, history, Goto,
       At, Is, By, InFlight, Flying, TypeOK, KindInv, CopyInv, MarkInv, Empty
<1>4. ASSUME NEW r \in Requests, Begin(r) PROVE CopyInv'
  BY <1>4 DEF Begin, redis, browser, local, history, Goto, At, Is, By,
       InFlight, Flying, TypeOK, KindInv, CopyInv, MarkInv, Empty
<1>5. ASSUME NEW r \in Requests, Return(r) PROVE CopyInv'
  BY <1>5 DEF Return, Overlap, redis, browser, local, history, Goto, At, Is,
       By, InFlight, Flying, TypeOK, KindInv, CopyInv, MarkInv, Empty
<1>6. ASSUME NEW r \in Requests, Exchange(r) PROVE CopyInv'
  BY <1>6 DEF Exchange, FromClaims, redis, browser, local, history, Goto, At,
       Is, By, InFlight, Flying, TypeOK, KindInv, CopyInv, MarkInv, Empty
<1>7. ASSUME NEW r \in Requests, Cycle(r) PROVE CopyInv'
  BY <1>7 DEF Cycle, At, Goto, TypeOK, CopyInv, Session
<1>8. ASSUME NEW r \in Requests, Logout(r) PROVE CopyInv'
  BY <1>8 DEF Logout, Flush, FlushFails, redis, browser, local, history,
       Goto, At, Is, By, InFlight, Flying, TypeOK, KindInv, CopyInv, MarkInv,
       Empty
<1>9. ASSUME NEW r \in Requests, Check(r) PROVE CopyInv'
  BY <1>9 DEF Check, Admitted, FromClaims, SelfLockout, redis, browser,
       local, history, Goto, At, Is, By, InFlight, Flying, TypeOK, KindInv,
       CopyInv, MarkInv, Empty
<1>10. ASSUME NEW r \in Requests, ShutOut(r) PROVE CopyInv'
  BY <1>10 DEF ShutOut, Flush, FlushFails, redis, browser, local, history,
       Goto, At, Is, By, InFlight, Flying, TypeOK, KindInv, CopyInv, MarkInv,
       Empty
<1>11. ASSUME NEW r \in Requests, Page(r) PROVE CopyInv'
  BY <1>11 DEF Page, redis, browser, local, history, Goto, At, Is, By,
       InFlight, Flying, TypeOK, KindInv, CopyInv, MarkInv, Empty
<1>12. ASSUME NEW r \in Requests, RoleChanged(r) PROVE CopyInv'
  BY <1>12 DEF RoleChanged, ChangeRole, RolesNow, redis, browser, local,
       history, Goto, At, Is, By, InFlight, Flying, TypeOK, KindInv, CopyInv,
       MarkInv, Empty
<1>13. ASSUME NEW r \in Requests, RoleError(r) PROVE CopyInv'
  BY <1>13 DEF RoleError, ChangeRole, RolesNow, redis, browser, local,
       history, Goto, At, Is, By, InFlight, Flying, TypeOK, KindInv, CopyInv,
       MarkInv, Empty
<1>14. ASSUME NEW r \in Requests, Audit(r) PROVE CopyInv'
  BY <1>14 DEF Audit, redis, browser, local, history, Goto, At, Is, By,
       InFlight, Flying, TypeOK, KindInv, CopyInv, MarkInv, Empty
<1>15. ASSUME NEW r \in Requests, SetFlash(r) PROVE CopyInv'
  BY <1>15 DEF SetFlash, redis, browser, local, history, Goto, At, Is, By,
       InFlight, Flying, TypeOK, KindInv, CopyInv, MarkInv, Empty
<1>16. ASSUME NEW r \in Requests, Incr(r) PROVE CopyInv'
  BY <1>16 DEF Incr, redis, browser, local, history, Goto, At, Is, By,
       InFlight, Flying, TypeOK, KindInv, CopyInv, MarkInv, Empty
<1>17. ASSUME NEW r \in Requests, SetTtl(r) PROVE CopyInv'
  BY <1>17 DEF SetTtl, redis, browser, local, history, Goto, At, Is, By,
       InFlight, Flying, TypeOK, KindInv, CopyInv, MarkInv, Empty
<1>18. ASSUME NEW r \in Requests, Promote(r) PROVE CopyInv'
  BY <1>18 DEF Promote, RolesNow, redis, browser, local, history, Goto, At,
       Is, By, InFlight, Flying, TypeOK, KindInv, CopyInv, MarkInv, Empty
<1>19. ASSUME NEW r \in Requests, Fail(r) PROVE CopyInv'
  BY <1>19 DEF Fail, Finish, redis, browser, local, history, Goto, At, Is,
       By, InFlight, Flying, TypeOK, KindInv, CopyInv, MarkInv, Empty
<1>20. ASSUME NEW id \in Id, SessionExpires(id) PROVE CopyInv'
  BY <1>20 DEF SessionExpires, redis, browser, local, history, Goto, At, Is,
       By, InFlight, Flying, TypeOK, KindInv, CopyInv, MarkInv, Empty
<1>21. ASSUME WindowEnds PROVE CopyInv'
  BY <1>21 DEF WindowEnds, redis, browser, local, history, Goto, At, Is, By,
       InFlight, Flying, TypeOK, KindInv, CopyInv, MarkInv, Empty
<1>22. CASE UNCHANGED vars
  BY <1>22 DEF vars, redis, browser, local, history, At, Is, By, InFlight,
       TypeOK, KindInv, CopyInv, MarkInv, Empty
<1> QED
  BY <1>1, <1>2, <1>3, <1>4, <1>5, <1>6, <1>7, <1>8, <1>9, <1>10, <1>11,
       <1>12, <1>13, <1>14, <1>15, <1>16, <1>17, <1>18, <1>19, <1>20, <1>21,
       <1>22 DEF Next

\* A step keeps where the tokens of a request are.
LEMMA MarkStep ==
  TypeOK /\ KindInv /\ CopyInv /\ MarkInv /\ RightInv /\ [Next]_vars
  => MarkInv'
<1> SUFFICES ASSUME TypeOK, KindInv, CopyInv, MarkInv, RightInv, [Next]_vars
             PROVE  MarkInv'
  OBVIOUS
<1> USE ConstantFacts
<1>1. ASSUME NEW r \in Requests, Send(r) PROVE MarkInv'
  BY <1>1 DEF Send, Overlap, redis, browser, local, history, Goto, At, Is,
       By, InFlight, Flying, TypeOK, KindInv, MarkInv, Marked, Empty
<1>2. ASSUME NEW r \in Requests, Load(r) PROVE MarkInv'
  BY <1>2 DEF Load, redis, browser, local, history, Goto, At, Is, By,
       InFlight, Flying, TypeOK, KindInv, MarkInv, Marked, Empty
<1>3. ASSUME NEW r \in Requests, Respond(r) PROVE MarkInv'
  BY SMTT(60), <1>3
     DEF Respond, Finish, NewId, redis, browser, local, history, Goto,
       At, Is, By, InFlight, Flying, TypeOK, KindInv, MarkInv, Marked, Empty
<1>4. ASSUME NEW r \in Requests, Begin(r) PROVE MarkInv'
  BY <1>4 DEF Begin, redis, browser, local, history, Goto, At, Is, By,
       InFlight, Flying, TypeOK, KindInv, MarkInv, Marked, Empty
<1>5. ASSUME NEW r \in Requests, Return(r) PROVE MarkInv'
  BY <1>5 DEF Return, Overlap, redis, browser, local, history, Goto, At, Is,
       By, InFlight, Flying, TypeOK, KindInv, MarkInv, Marked, Empty
<1>6. ASSUME NEW r \in Requests, Exchange(r) PROVE MarkInv'
  BY <1>6 DEF Exchange, FromClaims, redis, browser, local, history, Goto, At,
       Is, By, InFlight, Flying, TypeOK, KindInv, MarkInv, Marked, Empty
<1>7. ASSUME NEW r \in Requests, Cycle(r) PROVE MarkInv'
  BY <1>7 DEF Cycle, redis, browser, local, history, Goto, At, Is, By,
       InFlight, Flying, TypeOK, KindInv, MarkInv, Marked, Empty
<1>8. ASSUME NEW r \in Requests, Logout(r) PROVE MarkInv'
  BY <1>8 DEF Logout, Flush, FlushFails, redis, browser, local, history,
       Goto, At, Is, By, InFlight, Flying, TypeOK, KindInv, MarkInv, Marked,
       Empty
<1>9. ASSUME NEW r \in Requests, Check(r) PROVE MarkInv'
  BY <1>9 DEF Check, Admitted, FromClaims, SelfLockout, redis, browser,
       local, history, Goto, At, Is, By, InFlight, Flying, TypeOK, KindInv,
       MarkInv, Marked, Empty
<1>10. ASSUME NEW r \in Requests, ShutOut(r) PROVE MarkInv'
  BY SMTT(60), <1>10
     DEF ShutOut, Flush, FlushFails, redis, browser, local, history,
       Goto, At, Is, By, InFlight, Flying, TypeOK, KindInv, MarkInv, Marked,
       Empty
<1>11. ASSUME NEW r \in Requests, Page(r) PROVE MarkInv'
  <2>1. Is(r, "panel") /\ r \in rightful
    BY <1>11 DEF Page, KindInv, RightInv, At
  <2>2. /\ copy' = [copy EXCEPT ![r].csrf = r, ![r].flash = None]
        /\ pc' = [pc EXCEPT ![r] = "respond"]
        /\ UNCHANGED <<store, rightful, job>>
    BY <1>11 DEF Page, Goto, redis, history
  <2>3. \A s, q : Marked(s, q) => Marked(s, q)'
    BY <1>11, <2>2 DEF Marked, Page, At, TypeOK
  <2> QED
    BY <1>11, <2>1, <2>2, <2>3 DEF Page, MarkInv, Marked, At, Is, TypeOK,
         Session
<1>12. ASSUME NEW r \in Requests, RoleChanged(r) PROVE MarkInv'
  BY <1>12 DEF RoleChanged, ChangeRole, RolesNow, redis, browser, local,
       history, Goto, At, Is, By, InFlight, Flying, TypeOK, KindInv, MarkInv,
       Marked, Empty
<1>13. ASSUME NEW r \in Requests, RoleError(r) PROVE MarkInv'
  BY <1>13 DEF RoleError, ChangeRole, RolesNow, redis, browser, local,
       history, Goto, At, Is, By, InFlight, Flying, TypeOK, KindInv, MarkInv,
       Marked, Empty
<1>14. ASSUME NEW r \in Requests, Audit(r) PROVE MarkInv'
  BY <1>14 DEF Audit, redis, browser, local, history, Goto, At, Is, By,
       InFlight, Flying, TypeOK, KindInv, MarkInv, Marked, Empty
<1>15. ASSUME NEW r \in Requests, SetFlash(r) PROVE MarkInv'
  BY <1>15 DEF SetFlash, redis, browser, local, history, Goto, At, Is, By,
       InFlight, Flying, TypeOK, KindInv, MarkInv, Marked, Empty
<1>16. ASSUME NEW r \in Requests, Incr(r) PROVE MarkInv'
  BY <1>16 DEF Incr, redis, browser, local, history, Goto, At, Is, By,
       InFlight, Flying, TypeOK, KindInv, MarkInv, Marked, Empty
<1>17. ASSUME NEW r \in Requests, SetTtl(r) PROVE MarkInv'
  BY <1>17 DEF SetTtl, redis, browser, local, history, Goto, At, Is, By,
       InFlight, Flying, TypeOK, KindInv, MarkInv, Marked, Empty
<1>18. ASSUME NEW r \in Requests, Promote(r) PROVE MarkInv'
  BY <1>18 DEF Promote, RolesNow, redis, browser, local, history, Goto, At,
       Is, By, InFlight, Flying, TypeOK, KindInv, MarkInv, Marked, Empty
<1>19. ASSUME NEW r \in Requests, Fail(r) PROVE MarkInv'
  BY <1>19 DEF Fail, Finish, redis, browser, local, history, Goto, At, Is,
       By, InFlight, Flying, TypeOK, KindInv, MarkInv, Marked, Empty
<1>20. ASSUME NEW id \in Id, SessionExpires(id) PROVE MarkInv'
  BY <1>20 DEF SessionExpires, redis, browser, local, history, Goto, At, Is,
       By, InFlight, Flying, TypeOK, KindInv, MarkInv, Marked, Empty
<1>21. ASSUME WindowEnds PROVE MarkInv'
  BY <1>21 DEF WindowEnds, redis, browser, local, history, Goto, At, Is, By,
       InFlight, Flying, TypeOK, KindInv, MarkInv, Marked, Empty
<1>22. CASE UNCHANGED vars
  BY <1>22 DEF vars, redis, browser, local, history, At, Is, By, InFlight,
       TypeOK, KindInv, MarkInv, Marked, Empty
<1> QED
  BY <1>1, <1>2, <1>3, <1>4, <1>5, <1>6, <1>7, <1>8, <1>9, <1>10, <1>11,
       <1>12, <1>13, <1>14, <1>15, <1>16, <1>17, <1>18, <1>19, <1>20, <1>21,
       <1>22 DEF Next

\* A step keeps what the check has established.
LEMMA RightStep ==
  TypeOK /\ KindInv /\ MarkInv /\ RightInv /\ [Next]_vars
  => RightInv'
<1> SUFFICES ASSUME TypeOK, KindInv, MarkInv, RightInv, [Next]_vars
             PROVE  RightInv'
  OBVIOUS
<1> USE ConstantFacts
<1>1. ASSUME NEW r \in Requests, Send(r) PROVE RightInv'
  BY <1>1 DEF Send, Overlap, redis, browser, local, history, Goto, At, Is,
       By, InFlight, Flying, TypeOK, KindInv, RightInv, Admin, SelfLockout
<1>2. ASSUME NEW r \in Requests, Load(r) PROVE RightInv'
  BY <1>2 DEF Load, redis, browser, local, history, Goto, At, Is, By,
       InFlight, Flying, TypeOK, KindInv, RightInv, Admin, SelfLockout
<1>3. ASSUME NEW r \in Requests, Respond(r) PROVE RightInv'
  <2>1. /\ UNCHANGED <<roles, job>>
        /\ At(r, "respond")
    BY <1>3 DEF Respond
  <2>2. CASE copy[r].flow = r
    <3>1. /\ Is(r, "login") /\ UNCHANGED <<audit, made, rightful, stripped>>
          /\ pc' = [pc EXCEPT ![r] = "away"]
      BY <1>3, <2>2 DEF Respond, Goto, MarkInv
    <3> QED
      BY <2>1, <3>1 DEF At, Is, By, InFlight, Flying, TypeOK, RightInv, Admin,
         SelfLockout
  <2>3. CASE copy[r].flow # r
    <3>1. Finish(r)
      BY <1>3, <2>3 DEF Respond
    <3> QED
      BY <2>1, <3>1 DEF Finish, Goto, At, Is, By, InFlight, Flying, TypeOK,
           RightInv,
         Admin, SelfLockout
  <2> QED
    BY <2>2, <2>3
<1>4. ASSUME NEW r \in Requests, Begin(r) PROVE RightInv'
  BY <1>4 DEF Begin, redis, browser, local, history, Goto, At, Is, By,
       InFlight, Flying, TypeOK, KindInv, RightInv, Admin, SelfLockout
<1>5. ASSUME NEW r \in Requests, Return(r) PROVE RightInv'
  BY <1>5 DEF Return, Overlap, redis, browser, local, history, Goto, At, Is,
       By, InFlight, Flying, TypeOK, KindInv, RightInv, Admin, SelfLockout
<1>6. ASSUME NEW r \in Requests, Exchange(r) PROVE RightInv'
  BY <1>6 DEF Exchange, FromClaims, redis, browser, local, history, Goto, At,
       Is, By, InFlight, Flying, TypeOK, KindInv, RightInv, Admin, SelfLockout
<1>7. ASSUME NEW r \in Requests, Cycle(r) PROVE RightInv'
  BY <1>7 DEF Cycle, redis, browser, local, history, Goto, At, Is, By,
       InFlight, Flying, TypeOK, KindInv, RightInv, Admin, SelfLockout
<1>8. ASSUME NEW r \in Requests, Logout(r) PROVE RightInv'
  BY <1>8 DEF Logout, Flush, FlushFails, redis, browser, local, history,
       Goto, At, Is, By, InFlight, Flying, TypeOK, KindInv, RightInv, Admin,
       SelfLockout
<1>9. ASSUME NEW r \in Requests, Check(r) PROVE RightInv'
  BY <1>9 DEF Check, Admitted, FromClaims, SelfLockout, redis, browser,
       local, history, Goto, At, Is, By, InFlight, Flying, TypeOK, KindInv,
       RightInv, Admin, SelfLockout
<1>10. ASSUME NEW r \in Requests, ShutOut(r) PROVE RightInv'
  BY <1>10 DEF ShutOut, Flush, FlushFails, redis, browser, local, history,
       Goto, At, Is, By, InFlight, Flying, TypeOK, KindInv, RightInv, Admin,
       SelfLockout
<1>11. ASSUME NEW r \in Requests, Page(r) PROVE RightInv'
  BY <1>11 DEF Page, redis, browser, local, history, Goto, At, Is, By,
       InFlight, Flying, TypeOK, KindInv, RightInv, Admin, SelfLockout
<1>12. ASSUME NEW r \in Requests, RoleChanged(r) PROVE RightInv'
  BY <1>12 DEF RoleChanged, ChangeRole, RolesNow, redis, browser, local,
       history, Goto, At, Is, By, InFlight, Flying, TypeOK, KindInv,
       RightInv, Admin, SelfLockout
<1>13. ASSUME NEW r \in Requests, RoleError(r) PROVE RightInv'
  <2>1. CASE UNCHANGED <<roles, rightful, stripped, fault, made>>
    BY <1>13, <2>1 DEF RoleError, local, Goto, At, Is, By, InFlight, Flying,
         TypeOK,
       RightInv, Admin, SelfLockout
  <2>2. CASE ChangeRole(r)
    <3>1. job[r].target \in Users /\ job' = job /\ made' = made \cup {r} /\ audit' = audit
      BY <1>13, <2>2 DEF RoleError, KindInv, At, Task, ChangeRole
    <3>2. \E R : RolesNow(job[r].target, R)
      BY <1>13, <2>2 DEF RoleError, ChangeRole
    <3>3. pc' = [pc EXCEPT ![r] = "respond"] /\ At(r, "role") /\ Is(r, "change")
      BY <1>13, <2>2 DEF RoleError, Goto, At, KindInv
    <3> QED
      BY <3>1, <3>2, <3>3, RightsMove DEF At, Is, By, InFlight, Flying,
           TypeOK, RightInv,
         Admin, SelfLockout
  <2> QED
    BY <1>13, <2>1, <2>2 DEF RoleError
<1>14. ASSUME NEW r \in Requests, Audit(r) PROVE RightInv'
  BY <1>14 DEF Audit, redis, browser, local, history, Goto, At, Is, By,
       InFlight, Flying, TypeOK, KindInv, RightInv, Admin, SelfLockout
<1>15. ASSUME NEW r \in Requests, SetFlash(r) PROVE RightInv'
  BY <1>15 DEF SetFlash, redis, browser, local, history, Goto, At, Is, By,
       InFlight, Flying, TypeOK, KindInv, RightInv, Admin, SelfLockout
<1>16. ASSUME NEW r \in Requests, Incr(r) PROVE RightInv'
  BY <1>16 DEF Incr, redis, browser, local, history, Goto, At, Is, By,
       InFlight, Flying, TypeOK, KindInv, RightInv, Admin, SelfLockout
<1>17. ASSUME NEW r \in Requests, SetTtl(r) PROVE RightInv'
  BY <1>17 DEF SetTtl, redis, browser, local, history, Goto, At, Is, By,
       InFlight, Flying, TypeOK, KindInv, RightInv, Admin, SelfLockout
<1>18. ASSUME NEW r \in Requests, Promote(r) PROVE RightInv'
  <2>1. job[r].target \in Users /\ job' = job /\ made' = made /\ audit' = audit
    BY <1>18 DEF Promote, KindInv, At, Task, local
  <2>2. UNCHANGED <<roles, rightful, stripped>> \/ \E R : RolesNow(job[r].target, R)
    BY <1>18 DEF Promote
  <2>3. pc' = [pc EXCEPT ![r] = "respond"] /\ At(r, "promote")
    BY <1>18 DEF Promote, Goto
  <2>4. CASE UNCHANGED <<roles, rightful, stripped>>
    BY <2>1, <2>3, <2>4 DEF At, Is, By, InFlight, Flying, TypeOK, RightInv,
         Admin,
       SelfLockout
  <2>5. CASE \E R : RolesNow(job[r].target, R)
    BY <2>1, <2>3, <2>5, RightsMove DEF At, Is, By, InFlight, Flying, TypeOK,
       RightInv, Admin, SelfLockout
  <2> QED
    BY <2>2, <2>4, <2>5
<1>19. ASSUME NEW r \in Requests, Fail(r) PROVE RightInv'
  BY <1>19 DEF Fail, Finish, redis, browser, local, history, Goto, At, Is,
       By, InFlight, Flying, TypeOK, KindInv, RightInv, Admin, SelfLockout
<1>20. ASSUME NEW id \in Id, SessionExpires(id) PROVE RightInv'
  BY <1>20 DEF SessionExpires, redis, browser, local, history, Goto, At, Is,
       By, InFlight, Flying, TypeOK, KindInv, RightInv, Admin, SelfLockout
<1>21. ASSUME WindowEnds PROVE RightInv'
  BY <1>21 DEF WindowEnds, redis, browser, local, history, Goto, At, Is, By,
       InFlight, Flying, TypeOK, KindInv, RightInv, Admin, SelfLockout
<1>22. CASE UNCHANGED vars
  BY <1>22 DEF vars, redis, browser, local, history, At, Is, By, InFlight,
       TypeOK, KindInv, RightInv, Admin, SelfLockout
<1> QED
  BY <1>1, <1>2, <1>3, <1>4, <1>5, <1>6, <1>7, <1>8, <1>9, <1>10, <1>11,
       <1>12, <1>13, <1>14, <1>15, <1>16, <1>17, <1>18, <1>19, <1>20, <1>21,
       <1>22 DEF Next

\* A step keeps the counter in line with the attempts let through.
LEMMA CountStep ==
  TypeOK /\ CountInv /\ LimiterSound /\ [Next]_vars
  => (CountInv /\ LimiterSound)'
<1> SUFFICES ASSUME TypeOK, CountInv, LimiterSound, [Next]_vars
             PROVE  (CountInv /\ LimiterSound)'
  OBVIOUS
<1> USE ConstantFacts
<1>1. ASSUME NEW r \in Requests, Send(r) PROVE (CountInv /\ LimiterSound)'
  BY <1>1 DEF Send, Overlap, redis, browser, local, history, Goto, At, Is,
       By, InFlight, Flying, TypeOK, CountInv, LimiterSound
<1>2. ASSUME NEW r \in Requests, Load(r) PROVE (CountInv /\ LimiterSound)'
  BY <1>2 DEF Load, redis, browser, local, history, Goto, At, Is, By,
       InFlight, Flying, TypeOK, CountInv, LimiterSound
<1>3. ASSUME NEW r \in Requests, Respond(r) PROVE (CountInv /\ LimiterSound)'
  BY <1>3 DEF Respond, Finish, NewId, redis, browser, local, history, Goto,
       At, Is, By, InFlight, Flying, TypeOK, CountInv, LimiterSound
<1>4. ASSUME NEW r \in Requests, Begin(r) PROVE (CountInv /\ LimiterSound)'
  BY <1>4 DEF Begin, redis, browser, local, history, Goto, At, Is, By,
       InFlight, Flying, TypeOK, CountInv, LimiterSound
<1>5. ASSUME NEW r \in Requests, Return(r) PROVE (CountInv /\ LimiterSound)'
  BY <1>5 DEF Return, Overlap, redis, browser, local, history, Goto, At, Is,
       By, InFlight, Flying, TypeOK, CountInv, LimiterSound
<1>6. ASSUME NEW r \in Requests, Exchange(r) PROVE (CountInv /\ LimiterSound)'
  BY <1>6 DEF Exchange, FromClaims, redis, browser, local, history, Goto, At,
       Is, By, InFlight, Flying, TypeOK, CountInv, LimiterSound
<1>7. ASSUME NEW r \in Requests, Cycle(r) PROVE (CountInv /\ LimiterSound)'
  BY <1>7 DEF Cycle, redis, browser, local, history, Goto, At, Is, By,
       InFlight, Flying, TypeOK, CountInv, LimiterSound
<1>8. ASSUME NEW r \in Requests, Logout(r) PROVE (CountInv /\ LimiterSound)'
  BY <1>8 DEF Logout, Flush, FlushFails, redis, browser, local, history,
       Goto, At, Is, By, InFlight, Flying, TypeOK, CountInv, LimiterSound
<1>9. ASSUME NEW r \in Requests, Check(r) PROVE (CountInv /\ LimiterSound)'
  BY <1>9 DEF Check, Admitted, FromClaims, SelfLockout, redis, browser,
       local, history, Goto, At, Is, By, InFlight, Flying, TypeOK, CountInv,
       LimiterSound
<1>10. ASSUME NEW r \in Requests, ShutOut(r) PROVE (CountInv /\ LimiterSound)'
  BY <1>10 DEF ShutOut, Flush, FlushFails, redis, browser, local, history,
       Goto, At, Is, By, InFlight, Flying, TypeOK, CountInv, LimiterSound
<1>11. ASSUME NEW r \in Requests, Page(r) PROVE (CountInv /\ LimiterSound)'
  BY <1>11 DEF Page, redis, browser, local, history, Goto, At, Is, By,
       InFlight, Flying, TypeOK, CountInv, LimiterSound
<1>12. ASSUME NEW r \in Requests, RoleChanged(r) PROVE (CountInv /\ LimiterSound)'
  BY <1>12 DEF RoleChanged, ChangeRole, RolesNow, redis, browser, local,
       history, Goto, At, Is, By, InFlight, Flying, TypeOK, CountInv,
       LimiterSound
<1>13. ASSUME NEW r \in Requests, RoleError(r) PROVE (CountInv /\ LimiterSound)'
  BY <1>13 DEF RoleError, ChangeRole, RolesNow, redis, browser, local,
       history, Goto, At, Is, By, InFlight, Flying, TypeOK, CountInv,
       LimiterSound
<1>14. ASSUME NEW r \in Requests, Audit(r) PROVE (CountInv /\ LimiterSound)'
  BY <1>14 DEF Audit, redis, browser, local, history, Goto, At, Is, By,
       InFlight, Flying, TypeOK, CountInv, LimiterSound
<1>15. ASSUME NEW r \in Requests, SetFlash(r) PROVE (CountInv /\ LimiterSound)'
  BY <1>15 DEF SetFlash, redis, browser, local, history, Goto, At, Is, By,
       InFlight, Flying, TypeOK, CountInv, LimiterSound
<1>16. ASSUME NEW r \in Requests, Incr(r) PROVE (CountInv /\ LimiterSound)'
  BY <1>16 DEF Incr, redis, browser, local, history, Goto, At, Is, By,
       InFlight, Flying, TypeOK, CountInv, LimiterSound
<1>17. ASSUME NEW r \in Requests, SetTtl(r) PROVE (CountInv /\ LimiterSound)'
  BY <1>17 DEF SetTtl, redis, browser, local, history, Goto, At, Is, By,
       InFlight, Flying, TypeOK, CountInv, LimiterSound
<1>18. ASSUME NEW r \in Requests, Promote(r) PROVE (CountInv /\ LimiterSound)'
  BY <1>18 DEF Promote, RolesNow, redis, browser, local, history, Goto, At,
       Is, By, InFlight, Flying, TypeOK, CountInv, LimiterSound
<1>19. ASSUME NEW r \in Requests, Fail(r) PROVE (CountInv /\ LimiterSound)'
  BY <1>19 DEF Fail, Finish, redis, browser, local, history, Goto, At, Is,
       By, InFlight, Flying, TypeOK, CountInv, LimiterSound
<1>20. ASSUME NEW id \in Id, SessionExpires(id) PROVE (CountInv /\ LimiterSound)'
  BY <1>20 DEF SessionExpires, redis, browser, local, history, Goto, At, Is,
       By, InFlight, Flying, TypeOK, CountInv, LimiterSound
<1>21. ASSUME WindowEnds PROVE (CountInv /\ LimiterSound)'
  BY <1>21 DEF WindowEnds, redis, browser, local, history, Goto, At, Is, By,
       InFlight, Flying, TypeOK, CountInv, LimiterSound
<1>22. CASE UNCHANGED vars
  BY <1>22 DEF vars, redis, browser, local, history, At, Is, By, InFlight,
       TypeOK, CountInv, LimiterSound
<1> QED
  BY <1>1, <1>2, <1>3, <1>4, <1>5, <1>6, <1>7, <1>8, <1>9, <1>10, <1>11,
       <1>12, <1>13, <1>14, <1>15, <1>16, <1>17, <1>18, <1>19, <1>20, <1>21,
       <1>22 DEF Next

\* No step has an id unborn that is not.
LEMMA ShrinkStep ==
  TypeOK /\ KindInv /\ CopyInv /\ MarkInv /\ [Next]_vars
  => Unborn' \subseteq Unborn
<1> SUFFICES ASSUME TypeOK, KindInv, CopyInv, MarkInv, [Next]_vars
             PROVE  Unborn' \subseteq Unborn
  OBVIOUS
<1> USE ConstantFacts
<1>1. ASSUME NEW r \in Requests, Send(r) PROVE Unborn' \subseteq Unborn
  BY <1>1 DEF Send, Overlap, redis, browser, local, history, Goto, At, Is,
       By, InFlight, Flying, TypeOK, KindInv, MarkInv, Unborn, Empty
<1>2. ASSUME NEW r \in Requests, Load(r) PROVE Unborn' \subseteq Unborn
  BY <1>2 DEF Load, redis, browser, local, history, Goto, At, Is, By,
       InFlight, Flying, TypeOK, KindInv, MarkInv, Unborn, Empty
<1>3. ASSUME NEW r \in Requests, Respond(r) PROVE Unborn' \subseteq Unborn
  BY <1>3 DEF Respond, Finish, NewId, redis, browser, local, history, Goto,
       At, Is, By, InFlight, Flying, TypeOK, KindInv, MarkInv, Unborn, Empty
<1>4. ASSUME NEW r \in Requests, Begin(r) PROVE Unborn' \subseteq Unborn
  BY <1>4 DEF Begin, redis, browser, local, history, Goto, At, Is, By,
       InFlight, Flying, TypeOK, KindInv, MarkInv, Unborn, Empty
<1>5. ASSUME NEW r \in Requests, Return(r) PROVE Unborn' \subseteq Unborn
  BY <1>5 DEF Return, Overlap, redis, browser, local, history, Goto, At, Is,
       By, InFlight, Flying, TypeOK, KindInv, MarkInv, Unborn, Empty
<1>6. ASSUME NEW r \in Requests, Exchange(r) PROVE Unborn' \subseteq Unborn
  BY <1>6 DEF Exchange, FromClaims, redis, browser, local, history, Goto, At,
       Is, By, InFlight, Flying, TypeOK, KindInv, MarkInv, Unborn, Empty
<1>7. ASSUME NEW r \in Requests, Cycle(r) PROVE Unborn' \subseteq Unborn
  BY <1>7 DEF Cycle, redis, browser, local, history, Goto, At, Is, By,
       InFlight, Flying, TypeOK, KindInv, MarkInv, Unborn, Empty
<1>8. ASSUME NEW r \in Requests, Logout(r) PROVE Unborn' \subseteq Unborn
  BY <1>8 DEF Logout, Flush, FlushFails, redis, browser, local, history,
       Goto, At, Is, By, InFlight, Flying, TypeOK, KindInv, MarkInv, Unborn,
       Empty
<1>9. ASSUME NEW r \in Requests, Check(r) PROVE Unborn' \subseteq Unborn
  BY <1>9 DEF Check, Admitted, FromClaims, SelfLockout, redis, browser,
       local, history, Goto, At, Is, By, InFlight, Flying, TypeOK, KindInv,
       MarkInv, Unborn, Empty
<1>10. ASSUME NEW r \in Requests, ShutOut(r) PROVE Unborn' \subseteq Unborn
  BY <1>10 DEF ShutOut, Flush, FlushFails, redis, browser, local, history,
       Goto, At, Is, By, InFlight, Flying, TypeOK, KindInv, MarkInv, Unborn,
       Empty
<1>11. ASSUME NEW r \in Requests, Page(r) PROVE Unborn' \subseteq Unborn
  BY <1>11 DEF Page, redis, browser, local, history, Goto, At, Is, By,
       InFlight, Flying, TypeOK, KindInv, MarkInv, Unborn, Empty
<1>12. ASSUME NEW r \in Requests, RoleChanged(r) PROVE Unborn' \subseteq Unborn
  BY <1>12 DEF RoleChanged, ChangeRole, RolesNow, redis, browser, local,
       history, Goto, At, Is, By, InFlight, Flying, TypeOK, KindInv, MarkInv,
       Unborn, Empty
<1>13. ASSUME NEW r \in Requests, RoleError(r) PROVE Unborn' \subseteq Unborn
  BY <1>13 DEF RoleError, ChangeRole, RolesNow, redis, browser, local,
       history, Goto, At, Is, By, InFlight, Flying, TypeOK, KindInv, MarkInv,
       Unborn, Empty
<1>14. ASSUME NEW r \in Requests, Audit(r) PROVE Unborn' \subseteq Unborn
  BY <1>14 DEF Audit, redis, browser, local, history, Goto, At, Is, By,
       InFlight, Flying, TypeOK, KindInv, MarkInv, Unborn, Empty
<1>15. ASSUME NEW r \in Requests, SetFlash(r) PROVE Unborn' \subseteq Unborn
  BY <1>15 DEF SetFlash, redis, browser, local, history, Goto, At, Is, By,
       InFlight, Flying, TypeOK, KindInv, MarkInv, Unborn, Empty
<1>16. ASSUME NEW r \in Requests, Incr(r) PROVE Unborn' \subseteq Unborn
  BY <1>16 DEF Incr, redis, browser, local, history, Goto, At, Is, By,
       InFlight, Flying, TypeOK, KindInv, MarkInv, Unborn, Empty
<1>17. ASSUME NEW r \in Requests, SetTtl(r) PROVE Unborn' \subseteq Unborn
  BY <1>17 DEF SetTtl, redis, browser, local, history, Goto, At, Is, By,
       InFlight, Flying, TypeOK, KindInv, MarkInv, Unborn, Empty
<1>18. ASSUME NEW r \in Requests, Promote(r) PROVE Unborn' \subseteq Unborn
  BY <1>18 DEF Promote, RolesNow, redis, browser, local, history, Goto, At,
       Is, By, InFlight, Flying, TypeOK, KindInv, MarkInv, Unborn, Empty
<1>19. ASSUME NEW r \in Requests, Fail(r) PROVE Unborn' \subseteq Unborn
  BY <1>19 DEF Fail, Finish, redis, browser, local, history, Goto, At, Is,
       By, InFlight, Flying, TypeOK, KindInv, MarkInv, Unborn, Empty
<1>20. ASSUME NEW id \in Id, SessionExpires(id) PROVE Unborn' \subseteq Unborn
  BY <1>20 DEF SessionExpires, redis, browser, local, history, Goto, At, Is,
       By, InFlight, Flying, TypeOK, KindInv, MarkInv, Unborn, Empty
<1>21. ASSUME WindowEnds PROVE Unborn' \subseteq Unborn
  BY <1>21 DEF WindowEnds, redis, browser, local, history, Goto, At, Is, By,
       InFlight, Flying, TypeOK, KindInv, MarkInv, Unborn, Empty
<1>22. CASE UNCHANGED vars
  BY <1>22 DEF vars, redis, browser, local, history, At, Is, By, InFlight,
       TypeOK, KindInv, MarkInv, Unborn, Empty
<1> QED
  BY <1>1, <1>2, <1>3, <1>4, <1>5, <1>6, <1>7, <1>8, <1>9, <1>10, <1>11,
       <1>12, <1>13, <1>14, <1>15, <1>16, <1>17, <1>18, <1>19, <1>20, <1>21,
       <1>22 DEF Next

\* A step makes no id before its time.
LEMMA BirthStep ==
  TypeOK /\ KindInv /\ CopyInv /\ MarkInv /\ BirthInv /\ [Next]_vars
  => BirthInv'
<1> SUFFICES ASSUME TypeOK, KindInv, CopyInv, MarkInv, BirthInv, [Next]_vars
             PROVE  BirthInv'
  OBVIOUS
<1> USE ConstantFacts, NoneBorn
<1>0. Unborn' \subseteq Unborn
  BY ShrinkStep
<1>1. ASSUME NEW r \in Requests, Send(r) PROVE BirthInv'
  <2>1. PICK t \in Tasks[r] : sid' = sid \/ sid' = [sid EXCEPT ![r] = cookie[t.by]]
    BY <1>1 DEF Send
  <2>2. t.by \in Users
    BY DEF Task
  <2>3. UNCHANGED <<store, cookie, ended>>
    BY <1>1 DEF Send, redis, browser
  <2> QED
    BY <1>0, <2>1, <2>2, <2>3 DEF TypeOK, BirthInv
<1>2. ASSUME NEW r \in Requests, Load(r) PROVE BirthInv'
  BY <1>0, <1>2 DEF Load, redis, browser, local, history, Goto, At, Is, By,
       InFlight, Flying, TypeOK, BirthInv
<1>3. ASSUME NEW r \in Requests, Respond(r) PROVE BirthInv'
  <2> DEFINE id == IF sid[r] = None THEN NewId(r) ELSE sid[r]
  <2>1. /\ store' = store \/ (r \in modified /\ store' = [store EXCEPT ![id] = copy[r]])
        /\ cookie' = cookie
           \/ (r \in modified /\ cookie' = [cookie EXCEPT ![By(r)] = id])
        /\ ended' = ended /\ (sid' = sid \/ sid' = [sid EXCEPT ![r] = None])
    BY <1>3 DEF Respond, Finish, local, browser
  <2>2. ASSUME r \in modified PROVE id \notin Unborn'
    <3>1. CASE sid[r] # None
      BY <1>0, <3>1 DEF BirthInv
    <3>2. CASE sid[r] = None /\ claim[r] # None
      <4>1. Finish(r)
        BY <1>3, <3>2 DEF Respond, CopyInv, At
      <4>2. pc'[r] = "done" /\ id = <<r, "end">>
        BY <3>2, <4>1 DEF Finish, Goto, NewId, TypeOK
      <4> QED
        BY <4>2 DEF Unborn, At
    <3>3. CASE sid[r] = None /\ claim[r] = None
      <4>1. copy[r].flow = r
        BY <1>3, <2>2, <3>3 DEF Respond, CopyInv
      <4>2. pc'[r] = "away" /\ id = <<r, "start">>
        BY <1>3, <3>3, <4>1 DEF Respond, Goto, NewId, TypeOK
      <4> QED
        BY <4>2 DEF Unborn, At
    <3> QED
      BY <3>1, <3>2, <3>3
  <2> HIDE DEF id
  <2> QED
    BY <1>0, <2>1, <2>2 DEF TypeOK, BirthInv
<1>4. ASSUME NEW r \in Requests, Begin(r) PROVE BirthInv'
  BY <1>0, <1>4 DEF Begin, redis, browser, local, history, Goto, At, Is, By,
       InFlight, Flying, TypeOK, BirthInv
<1>5. ASSUME NEW r \in Requests, Return(r) PROVE BirthInv'
  <2>1. sid' = [sid EXCEPT ![r] = cookie[By(r)]] /\ By(r) \in Users
    BY <1>5 DEF Return, KindInv, At, By, Task
  <2>2. UNCHANGED <<store, cookie, ended>>
    BY <1>5 DEF Return, redis, browser
  <2> QED
    BY <1>0, <2>1, <2>2 DEF TypeOK, BirthInv
<1>6. ASSUME NEW r \in Requests, Exchange(r) PROVE BirthInv'
  BY <1>0, <1>6 DEF Exchange, FromClaims, redis, browser, local, history,
       Goto, At, Is, By, InFlight, Flying, TypeOK, BirthInv
<1>7. ASSUME NEW r \in Requests, Cycle(r) PROVE BirthInv'
  BY <1>0, <1>7 DEF Cycle, redis, browser, local, history, Goto, At, Is, By,
       InFlight, Flying, TypeOK, BirthInv
<1>8. ASSUME NEW r \in Requests, Logout(r) PROVE BirthInv'
  BY <1>0, <1>8 DEF Logout, Flush, FlushFails, redis, browser, local,
       history, Goto, At, Is, By, InFlight, Flying, TypeOK, BirthInv
<1>9. ASSUME NEW r \in Requests, Check(r) PROVE BirthInv'
  BY <1>0, <1>9 DEF Check, Admitted, FromClaims, SelfLockout, redis, browser,
       local, history, Goto, At, Is, By, InFlight, Flying, TypeOK, BirthInv
<1>10. ASSUME NEW r \in Requests, ShutOut(r) PROVE BirthInv'
  BY <1>0, <1>10 DEF ShutOut, Flush, FlushFails, redis, browser, local,
       history, Goto, At, Is, By, InFlight, Flying, TypeOK, BirthInv
<1>11. ASSUME NEW r \in Requests, Page(r) PROVE BirthInv'
  BY <1>0, <1>11 DEF Page, redis, browser, local, history, Goto, At, Is, By,
       InFlight, Flying, TypeOK, BirthInv
<1>12. ASSUME NEW r \in Requests, RoleChanged(r) PROVE BirthInv'
  BY <1>0, <1>12 DEF RoleChanged, ChangeRole, RolesNow, redis, browser,
       local, history, Goto, At, Is, By, InFlight, Flying, TypeOK, BirthInv
<1>13. ASSUME NEW r \in Requests, RoleError(r) PROVE BirthInv'
  BY <1>0, <1>13 DEF RoleError, ChangeRole, RolesNow, redis, browser, local,
       history, Goto, At, Is, By, InFlight, Flying, TypeOK, BirthInv
<1>14. ASSUME NEW r \in Requests, Audit(r) PROVE BirthInv'
  BY <1>0, <1>14 DEF Audit, redis, browser, local, history, Goto, At, Is, By,
       InFlight, Flying, TypeOK, BirthInv
<1>15. ASSUME NEW r \in Requests, SetFlash(r) PROVE BirthInv'
  BY <1>0, <1>15 DEF SetFlash, redis, browser, local, history, Goto, At, Is,
       By, InFlight, Flying, TypeOK, BirthInv
<1>16. ASSUME NEW r \in Requests, Incr(r) PROVE BirthInv'
  BY <1>0, <1>16 DEF Incr, redis, browser, local, history, Goto, At, Is, By,
       InFlight, Flying, TypeOK, BirthInv
<1>17. ASSUME NEW r \in Requests, SetTtl(r) PROVE BirthInv'
  BY <1>0, <1>17 DEF SetTtl, redis, browser, local, history, Goto, At, Is,
       By, InFlight, Flying, TypeOK, BirthInv
<1>18. ASSUME NEW r \in Requests, Promote(r) PROVE BirthInv'
  BY <1>0, <1>18 DEF Promote, RolesNow, redis, browser, local, history, Goto,
       At, Is, By, InFlight, Flying, TypeOK, BirthInv
<1>19. ASSUME NEW r \in Requests, Fail(r) PROVE BirthInv'
  BY <1>0, <1>19 DEF Fail, Finish, redis, browser, local, history, Goto, At,
       Is, By, InFlight, Flying, TypeOK, BirthInv
<1>20. ASSUME NEW id \in Id, SessionExpires(id) PROVE BirthInv'
  BY <1>0, <1>20 DEF SessionExpires, redis, browser, local, history, Goto,
       At, Is, By, InFlight, Flying, TypeOK, BirthInv
<1>21. ASSUME WindowEnds PROVE BirthInv'
  BY <1>0, <1>21 DEF WindowEnds, redis, browser, local, history, Goto, At,
       Is, By, InFlight, Flying, TypeOK, BirthInv
<1>22. CASE UNCHANGED vars
  BY <1>0, <1>22 DEF vars, redis, browser, local, history, At, Is, By,
       InFlight, TypeOK, BirthInv
<1> QED
  BY <1>1, <1>2, <1>3, <1>4, <1>5, <1>6, <1>7, <1>8, <1>9, <1>10, <1>11,
       <1>12, <1>13, <1>14, <1>15, <1>16, <1>17, <1>18, <1>19, <1>20, <1>21,
       <1>22 DEF Next

\* A step brings no session back.
LEMMA EndStep ==
  TypeOK /\ KindInv /\ CopyInv /\ MarkInv /\ BirthInv /\ SessionsEnd /\ [Next]_vars
  => SessionsEnd'
<1> SUFFICES ASSUME TypeOK, KindInv, CopyInv, MarkInv, BirthInv, SessionsEnd, [Next]_vars
             PROVE  SessionsEnd'
  OBVIOUS
<1> USE ConstantFacts
<1>1. ASSUME NEW r \in Requests, Send(r) PROVE SessionsEnd'
  BY <1>1 DEF Send, Overlap, redis, browser, local, history, Goto, At, Is,
       By, InFlight, Flying, TypeOK, CopyInv, BirthInv, SessionsEnd, Unborn,
       Empty
<1>2. ASSUME NEW r \in Requests, Load(r) PROVE SessionsEnd'
  BY <1>2 DEF Load, redis, browser, local, history, Goto, At, Is, By,
       InFlight, Flying, TypeOK, CopyInv, BirthInv, SessionsEnd, Unborn, Empty
<1>3. ASSUME NEW r \in Requests, Respond(r) PROVE SessionsEnd'
  BY <1>3 DEF Respond, Finish, NewId, redis, browser, local, history, Goto,
       At, Is, By, InFlight, Flying, TypeOK, CopyInv, BirthInv, SessionsEnd,
       Unborn, Empty
<1>4. ASSUME NEW r \in Requests, Begin(r) PROVE SessionsEnd'
  BY <1>4 DEF Begin, redis, browser, local, history, Goto, At, Is, By,
       InFlight, Flying, TypeOK, CopyInv, BirthInv, SessionsEnd, Unborn, Empty
<1>5. ASSUME NEW r \in Requests, Return(r) PROVE SessionsEnd'
  BY <1>5 DEF Return, Overlap, redis, browser, local, history, Goto, At, Is,
       By, InFlight, Flying, TypeOK, CopyInv, BirthInv, SessionsEnd, Unborn,
       Empty
<1>6. ASSUME NEW r \in Requests, Exchange(r) PROVE SessionsEnd'
  BY <1>6 DEF Exchange, FromClaims, redis, browser, local, history, Goto, At,
       Is, By, InFlight, Flying, TypeOK, CopyInv, BirthInv, SessionsEnd,
       Unborn, Empty
<1>7. ASSUME NEW r \in Requests, Cycle(r) PROVE SessionsEnd'
  BY <1>7 DEF Cycle, redis, browser, local, history, Goto, At, Is, By,
       InFlight, Flying, TypeOK, CopyInv, BirthInv, SessionsEnd, Unborn, Empty
<1>8. ASSUME NEW r \in Requests, Logout(r) PROVE SessionsEnd'
  BY <1>8 DEF Logout, Flush, FlushFails, redis, browser, local, history,
       Goto, At, Is, By, InFlight, Flying, TypeOK, CopyInv, BirthInv,
       SessionsEnd, Unborn, Empty
<1>9. ASSUME NEW r \in Requests, Check(r) PROVE SessionsEnd'
  BY <1>9 DEF Check, Admitted, FromClaims, SelfLockout, redis, browser,
       local, history, Goto, At, Is, By, InFlight, Flying, TypeOK, CopyInv,
       BirthInv, SessionsEnd, Unborn, Empty
<1>10. ASSUME NEW r \in Requests, ShutOut(r) PROVE SessionsEnd'
  BY <1>10 DEF ShutOut, Flush, FlushFails, redis, browser, local, history,
       Goto, At, Is, By, InFlight, Flying, TypeOK, CopyInv, BirthInv,
       SessionsEnd, Unborn, Empty
<1>11. ASSUME NEW r \in Requests, Page(r) PROVE SessionsEnd'
  BY <1>11 DEF Page, redis, browser, local, history, Goto, At, Is, By,
       InFlight, Flying, TypeOK, CopyInv, BirthInv, SessionsEnd, Unborn, Empty
<1>12. ASSUME NEW r \in Requests, RoleChanged(r) PROVE SessionsEnd'
  BY <1>12 DEF RoleChanged, ChangeRole, RolesNow, redis, browser, local,
       history, Goto, At, Is, By, InFlight, Flying, TypeOK, CopyInv,
       BirthInv, SessionsEnd, Unborn, Empty
<1>13. ASSUME NEW r \in Requests, RoleError(r) PROVE SessionsEnd'
  BY <1>13 DEF RoleError, ChangeRole, RolesNow, redis, browser, local,
       history, Goto, At, Is, By, InFlight, Flying, TypeOK, CopyInv,
       BirthInv, SessionsEnd, Unborn, Empty
<1>14. ASSUME NEW r \in Requests, Audit(r) PROVE SessionsEnd'
  BY <1>14 DEF Audit, redis, browser, local, history, Goto, At, Is, By,
       InFlight, Flying, TypeOK, CopyInv, BirthInv, SessionsEnd, Unborn, Empty
<1>15. ASSUME NEW r \in Requests, SetFlash(r) PROVE SessionsEnd'
  BY <1>15 DEF SetFlash, redis, browser, local, history, Goto, At, Is, By,
       InFlight, Flying, TypeOK, CopyInv, BirthInv, SessionsEnd, Unborn, Empty
<1>16. ASSUME NEW r \in Requests, Incr(r) PROVE SessionsEnd'
  BY <1>16 DEF Incr, redis, browser, local, history, Goto, At, Is, By,
       InFlight, Flying, TypeOK, CopyInv, BirthInv, SessionsEnd, Unborn, Empty
<1>17. ASSUME NEW r \in Requests, SetTtl(r) PROVE SessionsEnd'
  BY <1>17 DEF SetTtl, redis, browser, local, history, Goto, At, Is, By,
       InFlight, Flying, TypeOK, CopyInv, BirthInv, SessionsEnd, Unborn, Empty
<1>18. ASSUME NEW r \in Requests, Promote(r) PROVE SessionsEnd'
  BY <1>18 DEF Promote, RolesNow, redis, browser, local, history, Goto, At,
       Is, By, InFlight, Flying, TypeOK, CopyInv, BirthInv, SessionsEnd,
       Unborn, Empty
<1>19. ASSUME NEW r \in Requests, Fail(r) PROVE SessionsEnd'
  BY <1>19 DEF Fail, Finish, redis, browser, local, history, Goto, At, Is,
       By, InFlight, Flying, TypeOK, CopyInv, BirthInv, SessionsEnd, Unborn,
       Empty
<1>20. ASSUME NEW id \in Id, SessionExpires(id) PROVE SessionsEnd'
  BY <1>20 DEF SessionExpires, redis, browser, local, history, Goto, At, Is,
       By, InFlight, Flying, TypeOK, CopyInv, BirthInv, SessionsEnd, Unborn,
       Empty
<1>21. ASSUME WindowEnds PROVE SessionsEnd'
  BY <1>21 DEF WindowEnds, redis, browser, local, history, Goto, At, Is, By,
       InFlight, Flying, TypeOK, CopyInv, BirthInv, SessionsEnd, Unborn, Empty
<1>22. CASE UNCHANGED vars
  BY <1>22 DEF vars, redis, browser, local, history, At, Is, By, InFlight,
       TypeOK, CopyInv, BirthInv, SessionsEnd, Unborn, Empty
<1> QED
  BY <1>1, <1>2, <1>3, <1>4, <1>5, <1>6, <1>7, <1>8, <1>9, <1>10, <1>11,
       <1>12, <1>13, <1>14, <1>15, <1>16, <1>17, <1>18, <1>19, <1>20, <1>21,
       <1>22 DEF Next

\* A step writes no entry that is not true.
LEMMA AuditStep ==
  TypeOK /\ KindInv /\ MarkInv /\ RightInv /\ RoleAuditTrue /\ [Next]_vars
  => RoleAuditTrue'
<1> SUFFICES ASSUME TypeOK, KindInv, MarkInv, RightInv, RoleAuditTrue, [Next]_vars
             PROVE  RoleAuditTrue'
  OBVIOUS
<1> USE ConstantFacts
<1>1. ASSUME NEW r \in Requests, Send(r) PROVE RoleAuditTrue'
  BY <1>1 DEF Send, Overlap, redis, browser, local, history, Goto, At, Is,
       By, InFlight, Flying, TypeOK, MarkInv, RightInv, RoleAuditTrue, Empty
<1>2. ASSUME NEW r \in Requests, Load(r) PROVE RoleAuditTrue'
  BY <1>2 DEF Load, redis, browser, local, history, Goto, At, Is, By,
       InFlight, Flying, TypeOK, MarkInv, RightInv, RoleAuditTrue, Empty
<1>3. ASSUME NEW r \in Requests, Respond(r) PROVE RoleAuditTrue'
  BY <1>3 DEF Respond, Finish, NewId, redis, browser, local, history, Goto,
       At, Is, By, InFlight, Flying, TypeOK, MarkInv, RightInv,
       RoleAuditTrue, Empty
<1>4. ASSUME NEW r \in Requests, Begin(r) PROVE RoleAuditTrue'
  BY <1>4 DEF Begin, redis, browser, local, history, Goto, At, Is, By,
       InFlight, Flying, TypeOK, MarkInv, RightInv, RoleAuditTrue, Empty
<1>5. ASSUME NEW r \in Requests, Return(r) PROVE RoleAuditTrue'
  BY <1>5 DEF Return, Overlap, redis, browser, local, history, Goto, At, Is,
       By, InFlight, Flying, TypeOK, MarkInv, RightInv, RoleAuditTrue, Empty
<1>6. ASSUME NEW r \in Requests, Exchange(r) PROVE RoleAuditTrue'
  BY <1>6 DEF Exchange, FromClaims, redis, browser, local, history, Goto, At,
       Is, By, InFlight, Flying, TypeOK, MarkInv, RightInv, RoleAuditTrue,
       Empty
<1>7. ASSUME NEW r \in Requests, Cycle(r) PROVE RoleAuditTrue'
  BY <1>7 DEF Cycle, redis, browser, local, history, Goto, At, Is, By,
       InFlight, Flying, TypeOK, MarkInv, RightInv, RoleAuditTrue, Empty
<1>8. ASSUME NEW r \in Requests, Logout(r) PROVE RoleAuditTrue'
  BY <1>8 DEF Logout, Flush, FlushFails, redis, browser, local, history,
       Goto, At, Is, By, InFlight, Flying, TypeOK, MarkInv, RightInv,
       RoleAuditTrue, Empty
<1>9. ASSUME NEW r \in Requests, Check(r) PROVE RoleAuditTrue'
  BY <1>9 DEF Check, Admitted, FromClaims, SelfLockout, redis, browser,
       local, history, Goto, At, Is, By, InFlight, Flying, TypeOK, MarkInv,
       RightInv, RoleAuditTrue, Empty
<1>10. ASSUME NEW r \in Requests, ShutOut(r) PROVE RoleAuditTrue'
  BY <1>10 DEF ShutOut, Flush, FlushFails, redis, browser, local, history,
       Goto, At, Is, By, InFlight, Flying, TypeOK, MarkInv, RightInv,
       RoleAuditTrue, Empty
<1>11. ASSUME NEW r \in Requests, Page(r) PROVE RoleAuditTrue'
  BY <1>11 DEF Page, redis, browser, local, history, Goto, At, Is, By,
       InFlight, Flying, TypeOK, MarkInv, RightInv, RoleAuditTrue, Empty
<1>12. ASSUME NEW r \in Requests, RoleChanged(r) PROVE RoleAuditTrue'
  BY <1>12 DEF RoleChanged, ChangeRole, RolesNow, redis, browser, local,
       history, Goto, At, Is, By, InFlight, Flying, TypeOK, MarkInv,
       RightInv, RoleAuditTrue, Empty
<1>13. ASSUME NEW r \in Requests, RoleError(r) PROVE RoleAuditTrue'
  BY <1>13 DEF RoleError, ChangeRole, RolesNow, redis, browser, local,
       history, Goto, At, Is, By, InFlight, Flying, TypeOK, MarkInv,
       RightInv, RoleAuditTrue, Empty
<1>14. ASSUME NEW r \in Requests, Audit(r) PROVE RoleAuditTrue'
  BY <1>14 DEF Audit, redis, browser, local, history, Goto, At, Is, By,
       InFlight, Flying, TypeOK, MarkInv, RightInv, RoleAuditTrue, Empty
<1>15. ASSUME NEW r \in Requests, SetFlash(r) PROVE RoleAuditTrue'
  BY <1>15 DEF SetFlash, redis, browser, local, history, Goto, At, Is, By,
       InFlight, Flying, TypeOK, MarkInv, RightInv, RoleAuditTrue, Empty
<1>16. ASSUME NEW r \in Requests, Incr(r) PROVE RoleAuditTrue'
  BY <1>16 DEF Incr, redis, browser, local, history, Goto, At, Is, By,
       InFlight, Flying, TypeOK, MarkInv, RightInv, RoleAuditTrue, Empty
<1>17. ASSUME NEW r \in Requests, SetTtl(r) PROVE RoleAuditTrue'
  BY <1>17 DEF SetTtl, redis, browser, local, history, Goto, At, Is, By,
       InFlight, Flying, TypeOK, MarkInv, RightInv, RoleAuditTrue, Empty
<1>18. ASSUME NEW r \in Requests, Promote(r) PROVE RoleAuditTrue'
  BY <1>18 DEF Promote, RolesNow, redis, browser, local, history, Goto, At,
       Is, By, InFlight, Flying, TypeOK, MarkInv, RightInv, RoleAuditTrue,
       Empty
<1>19. ASSUME NEW r \in Requests, Fail(r) PROVE RoleAuditTrue'
  BY <1>19 DEF Fail, Finish, redis, browser, local, history, Goto, At, Is,
       By, InFlight, Flying, TypeOK, MarkInv, RightInv, RoleAuditTrue, Empty
<1>20. ASSUME NEW id \in Id, SessionExpires(id) PROVE RoleAuditTrue'
  BY <1>20 DEF SessionExpires, redis, browser, local, history, Goto, At, Is,
       By, InFlight, Flying, TypeOK, MarkInv, RightInv, RoleAuditTrue, Empty
<1>21. ASSUME WindowEnds PROVE RoleAuditTrue'
  BY <1>21 DEF WindowEnds, redis, browser, local, history, Goto, At, Is, By,
       InFlight, Flying, TypeOK, MarkInv, RightInv, RoleAuditTrue, Empty
<1>22. CASE UNCHANGED vars
  BY <1>22 DEF vars, redis, browser, local, history, At, Is, By, InFlight,
       TypeOK, MarkInv, RightInv, RoleAuditTrue, Empty
<1> QED
  BY <1>1, <1>2, <1>3, <1>4, <1>5, <1>6, <1>7, <1>8, <1>9, <1>10, <1>11,
       <1>12, <1>13, <1>14, <1>15, <1>16, <1>17, <1>18, <1>19, <1>20, <1>21,
       <1>22 DEF Next

\* What AdminRemains says of a step.
AdminKept ==
  /\ \E u \in Users : Admin(u)
  /\ fault' \cap {"crossed", "selfRemoved"} = {}
  => (\E u \in Users : Admin(u))'

\* Who takes an admin role away keeps her own, unless it is counted as a fault.
LEMMA ChangeKept ==
  ASSUME TypeOK, KindInv, RightInv, NEW r \in Requests, ChangeRole(r)
  PROVE  AdminKept
<1> SUFFICES ASSUME NEW u \in Users, Admin(u),
                    fault' \cap {"crossed", "selfRemoved"} = {}
             PROVE  \E v \in Users : "admin" \in roles'[v]
  BY DEF AdminKept, Admin
<1> DEFINE t == job[r].target
<1>1. job[r] \in Task /\ t \in Users /\ By(r) \in Users
  BY DEF ChangeRole, KindInv, At, Task, By
<1>2. roles' = [roles EXCEPT ![t] = IF job[r].gives THEN roles[t] \cup {job[r].role}
                                                    ELSE roles[t] \ {job[r].role}]
  BY DEF ChangeRole, RolesNow
<1>3. CASE job[r].gives \/ job[r].role # "admin" \/ u # t
  BY <1>1, <1>2, <1>3 DEF Admin, TypeOK
<1>4. CASE ~job[r].gives /\ job[r].role = "admin"
  <2>1. r \notin stripped /\ ~(t = By(r) /\ ~job[r].guarded)
    BY <1>4 DEF ChangeRole
  <2>2. Admin(By(r)) /\ ~SelfLockout(r)
    BY <2>1 DEF ChangeRole, RightInv
  <2>3. By(r) # t
    BY <1>4, <2>1, <2>2 DEF SelfLockout
  <2> QED
    BY <1>1, <1>2, <2>2, <2>3 DEF Admin, TypeOK
<1> QED
  BY <1>3, <1>4

\* No step takes the last admin role away.
LEMMA AdminStep == TypeOK /\ KindInv /\ RightInv /\ [Next]_vars => AdminKept
<1> SUFFICES ASSUME TypeOK, KindInv, RightInv, [Next]_vars PROVE AdminKept
  OBVIOUS
<1> USE ConstantFacts
<1>1. ASSUME NEW r \in Requests, Send(r) PROVE AdminKept
  BY <1>1 DEF Send, redis, browser, local, history, Admin, AdminKept
<1>2. ASSUME NEW r \in Requests, Load(r) PROVE AdminKept
  BY <1>2 DEF Load, redis, browser, local, history, Admin, AdminKept
<1>3. ASSUME NEW r \in Requests, Respond(r) PROVE AdminKept
  BY <1>3 DEF Respond, redis, browser, local, history, Admin, AdminKept
<1>4. ASSUME NEW r \in Requests, Begin(r) PROVE AdminKept
  BY <1>4 DEF Begin, redis, browser, local, history, Admin, AdminKept
<1>5. ASSUME NEW r \in Requests, Return(r) PROVE AdminKept
  BY <1>5 DEF Return, redis, browser, local, history, Admin, AdminKept
<1>6. ASSUME NEW r \in Requests, Exchange(r) PROVE AdminKept
  BY <1>6 DEF Exchange, redis, browser, local, history, Admin, AdminKept
<1>7. ASSUME NEW r \in Requests, Cycle(r) PROVE AdminKept
  BY <1>7 DEF Cycle, redis, browser, local, history, Admin, AdminKept
<1>8. ASSUME NEW r \in Requests, Logout(r) PROVE AdminKept
  BY <1>8 DEF Logout, redis, browser, local, history, Admin, AdminKept
<1>9. ASSUME NEW r \in Requests, Check(r) PROVE AdminKept
  BY <1>9 DEF Check, redis, browser, local, history, Admin, AdminKept
<1>10. ASSUME NEW r \in Requests, ShutOut(r) PROVE AdminKept
  BY <1>10 DEF ShutOut, redis, browser, local, history, Admin, AdminKept
<1>11. ASSUME NEW r \in Requests, Page(r) PROVE AdminKept
  BY <1>11 DEF Page, redis, browser, local, history, Admin, AdminKept
<1>12. ASSUME NEW r \in Requests, RoleChanged(r) PROVE AdminKept
  BY <1>12, ChangeKept DEF RoleChanged
<1>13. ASSUME NEW r \in Requests, RoleError(r) PROVE AdminKept
  <2>1. CASE UNCHANGED <<roles, rightful, stripped, fault, made>>
    BY <2>1 DEF AdminKept, Admin
  <2> QED
    BY <1>13, <2>1, ChangeKept DEF RoleError
<1>14. ASSUME NEW r \in Requests, Audit(r) PROVE AdminKept
  BY <1>14 DEF Audit, redis, browser, local, history, Admin, AdminKept
<1>15. ASSUME NEW r \in Requests, SetFlash(r) PROVE AdminKept
  BY <1>15 DEF SetFlash, redis, browser, local, history, Admin, AdminKept
<1>16. ASSUME NEW r \in Requests, Incr(r) PROVE AdminKept
  BY <1>16 DEF Incr, redis, browser, local, history, Admin, AdminKept
<1>17. ASSUME NEW r \in Requests, SetTtl(r) PROVE AdminKept
  BY <1>17 DEF SetTtl, redis, browser, local, history, Admin, AdminKept
<1>18. ASSUME NEW r \in Requests, Promote(r) PROVE AdminKept
  <2>1. \A u \in Users : roles[u] \subseteq roles'[u]
    BY <1>18 DEF Promote, RolesNow, TypeOK
  <2> QED
    BY <2>1 DEF AdminKept, Admin
<1>19. ASSUME NEW r \in Requests, Fail(r) PROVE AdminKept
  BY <1>19 DEF Fail, redis, browser, local, history, Admin, AdminKept
<1>20. ASSUME NEW id \in Id, SessionExpires(id) PROVE AdminKept
  BY <1>20 DEF SessionExpires, redis, browser, local, history, Admin,
       AdminKept
<1>21. ASSUME WindowEnds PROVE AdminKept
  BY <1>21 DEF WindowEnds, redis, browser, local, history, Admin, AdminKept
<1>22. CASE UNCHANGED vars
  BY <1>22 DEF vars, redis, browser, local, history, redis, browser, local,
       history, Admin, AdminKept
<1> QED
  BY <1>1, <1>2, <1>3, <1>4, <1>5, <1>6, <1>7, <1>8, <1>9, <1>10, <1>11,
       <1>12, <1>13, <1>14, <1>15, <1>16, <1>17, <1>18, <1>19, <1>20, <1>21,
       <1>22 DEF Next

----------------------------------------------------------------------------
(* The theorems.                                                           *)

\* A step keeps the invariant.
LEMMA XStep == XInv /\ [Next]_vars => XInv'
BY TypeStep, KindStep, CopyStep, MarkStep, RightStep, CountStep, BirthStep,
     EndStep,
   AuditStep DEF XInv

\* Nobody has sent anything; some are logged in.
LEMMA XInit == Init => XInv
<1> SUFFICES ASSUME Init PROVE XInv
  OBVIOUS
<1> USE ConstantFacts
<1>0. PICK In \in SUBSET Users, rl \in [Users -> Role] :
        /\ store = [i \in Id |-> IF i \in In
                                 THEN [Empty EXCEPT !.user = i, !.role = rl[i],
                                                    !.csrf = i]
                                 ELSE None]
        /\ cookie = [u \in Users |-> IF u \in In THEN u ELSE None]
        /\ pages = [u \in Users |-> IF u \in In THEN {u} ELSE {}]
        /\ newest = cookie
  BY DEF Init
<1>1. /\ \A q \in Requests : /\ pc[q] = "idle" /\ job[q] = None /\ sid[q] = None
                             /\ copy[q] = Empty /\ claim[q] = None
      /\ modified = {} /\ made = {} /\ audit = {} /\ ended = {} /\ passed = 0
      /\ limiter = [n |-> 0, ttl |-> FALSE]
  BY DEF Init
<1>2. store \in [Id -> Session \cup {None}]
  <2> SUFFICES ASSUME NEW i \in Id PROVE store[i] \in Session \cup {None}
    BY <1>0
  <2>1. CASE i \in In
    <3>1. store[i] = [Empty EXCEPT !.user = i, !.role = rl[i], !.csrf = i]
      BY <1>0, <2>1
    <3> QED
      BY <2>1, <3>1 DEF Empty, Session, Token
  <2>2. CASE i \notin In
    BY <1>0, <2>2
  <2> QED
    BY <2>1, <2>2
<1>3. /\ cookie \in [Users -> Id \cup {None}] /\ pages \in [Users -> SUBSET Token]
      /\ newest \in [Users -> Token \cup {None}]
  BY <1>0 DEF Id, Token
<1>4. TypeOK
  BY <1>2, <1>3, EmptyType DEF Init, TypeOK, Control
<1>5. KindInv /\ CopyInv /\ RightInv /\ CountInv /\ LimiterSound /\ RoleAuditTrue
  BY <1>1 DEF KindInv, CopyInv, RightInv, CountInv, LimiterSound,
       RoleAuditTrue, At,
     InFlight, Flying, Empty
<1>6. \A i \in Id : store[i] # None => /\ i \in Users /\ store[i].csrf = i
                                       /\ store[i].flash = None /\ store[i].flow = None
  BY <1>0 DEF Empty
<1>7. MarkInv
  BY <1>1, <1>6 DEF MarkInv, Marked, Empty
<1>8. Unborn \cap Users = {}
  BY DEF Unborn
<1>9. BirthInv
  BY <1>0, <1>1, <1>6, <1>8, NoneBorn DEF BirthInv
<1>10. SessionsEnd
  BY <1>1, <1>6 DEF SessionsEnd
<1> QED
  BY <1>4, <1>5, <1>7, <1>9, <1>10 DEF XInv

\* Every reachable state satisfies the invariant.
THEOREM Invariance == Spec => []XInv
BY XInit, XStep, PTL DEF Spec

\* Sessions, requests and the audit trail keep the shape of the code's types.
THEOREM AccessTyped == Spec => []TypeOK
BY Invariance, PTL DEF XInv

\* Roles are changed and the panel is shown at the request of people only who
\* were admins in Keycloak at some moment since they sent it.
THEOREM RolesFresh == Spec => []RoleFresh
<1>1. XInv => RoleFresh
  BY DEF XInv, RoleFresh, RightInv, MarkInv
<1> QED
  BY <1>1, Invariance, PTL

\* The last admin role goes only in one of the two ways that are not guarded.
THEOREM AdminsRemain == Spec => AdminRemains
<1>1. XInv /\ [Next]_vars
      => [ /\ \E u \in Users : Admin(u)
           /\ fault' \cap {"crossed", "selfRemoved"} = {}
           => (\E u \in Users : Admin(u))' ]_vars
  BY AdminStep DEF XInv, AdminKept
<1> QED
  BY <1>1, Invariance, PTL DEF Spec, AdminRemains

\* No window lets through more than the limit, and every window ends.
THEOREM LimiterWorks == Spec => []LimiterSound
BY Invariance, PTL DEF XInv

\* A session that has ended does not come back.
THEOREM SessionsStayEnded == Spec => []SessionsEnd
BY Invariance, PTL DEF XInv

\* The audit trail tells the truth about roles.
THEOREM RolesAudited == Spec => []RoleAuditTrue
BY Invariance, PTL DEF XInv

=============================================================================
