------------------------ MODULE AccessBrowser_proofs ------------------------
(***************************************************************************)
(* Proofs about the browsers of Access: what their sessions, the messages  *)
(* in them and the tokens of their pages are, whatever requests follow one *)
(* another.  BInv is the inductive invariant, on top of XInv.              *)
(***************************************************************************)
EXTENDS Access_proofs

\* A request that works with its copy of a session.
Browses(r) == InFlight(r) /\ ~Is(r, "promote")
Live(r) == Browses(r) /\ pc[r] \notin {"load", "reload"}

\* A browser of which no two requests overlapped has one under way.
SoloInv ==
  \A q, r \in Requests :
    Browses(q) /\ Browses(r) /\ By(q) = By(r) /\ By(r) \notin tabs => q = r

\* What a request holds before it has loaded its session, and what each session
\* and each form has.
Whole(s) == s.user = None => s.role = None

Hand(r) ==
  /\ Whole(copy[r])
  /\ pc[r] \in {"idle", "load", "flush", "done"} => copy[r] = Empty
  /\ At(r, "flush") => ~Is(r, "promote")
  /\ copy[r].csrf = r => r \in modified /\ sid[r] # None
  /\ At(r, "idle") => sid[r] = None
  /\ InFlight(r) /\ Is(r, "promote")
       => copy[r] = Empty /\ sid[r] = None /\ r \notin modified
  /\ pc[r] \in {"roles", "page", "role", "audit", "flash"}
       => copy[r].user # None
  /\ InFlight(r) /\ Is(r, "change") => form[r] # None
  /\ shown[r] # None => pc[r] \in {"respond", "done"} /\ Is(r, "panel")
  /\ shown[r] # None /\ At(r, "respond")
       => copy[r].flash = None /\ r \in modified /\ sid[r] # None

HandInv == /\ \A i \in Id : store[i] # None => Whole(store[i])
           /\ \A r \in Requests : Hand(r)

\* A session id belongs to one user, and so do the messages in her session.
OwnedBy(i, u) ==
  \/ i = u
  \/ i \in Requests \X {"start", "end"} /\ ~At(i[1], "idle") /\ By(i[1]) = u

Own(r) ==
  /\ sid[r] # None => OwnedBy(sid[r], By(r))
  /\ copy[r].flash # None => By(copy[r].flash) = By(r)
  /\ shown[r] # None => By(shown[r]) = By(r) /\ At(shown[r], "done")

OwnInv ==
  /\ \A u \in Users : cookie[u] # None => OwnedBy(cookie[u], u)
  /\ \A i \in Id : store[i] # None /\ store[i].flash # None
                   => OwnedBy(i, By(store[i].flash))
  /\ \A r \in Requests : Own(r)

\* The sessions a message is in.
Keep(m) == {i \in Id : store[i] # None /\ store[i].flash = m}

\* A message that has been shown is in no session any more.
Flash(m) ==
  /\ \A i, j \in Keep(m) : i = j
  /\ \A r \in Requests :
       /\ Live(r) /\ (copy[r].flash = m \/ shown[r] = m)
            => Keep(m) \subseteq {sid[r]}
       /\ At(r, "done") /\ shown[r] = m
            => /\ Keep(m) = {}
               /\ \A q \in Requests : /\ Live(q) => copy[q].flash # m
                                      /\ shown[q] = m => q = r

FlashInv == \A m \in Requests : ~At(m, "idle") /\ By(m) \notin tabs => Flash(m)

\* The session of a browser has the token of its newest page.
Current(s, u) == newest[u] # None /\ s.user # None => s.csrf = newest[u]

\* And the only request of the browser works with that session.
Held(r) ==
  /\ sid[r] # None => cookie[By(r)] \in {sid[r], None}
  /\ pc[r] \in {"load", "reload"} => cookie[By(r)] = sid[r]
  /\ Live(r) /\ copy[r].csrf # r => Current(copy[r], By(r))

PageInv ==
  /\ \A u \in Users \ tabs :
       cookie[u] # None /\ store[cookie[u]] # None => Current(store[cookie[u]], u)
  /\ \A r \in Requests : Browses(r) /\ By(r) \notin tabs => Held(r)

BInv == SoloInv /\ HandInv /\ OwnInv /\ FlashInv /\ PageInv

----------------------------------------------------------------------------
(* The steps, by what they do to sessions and browsers.                    *)

\* The requests other than r are left alone.
Alone(r) ==
  \A q \in Requests \ {r} :
    /\ pc'[q] = pc[q] /\ job'[q] = job[q] /\ sid'[q] = sid[q]
    /\ copy'[q] = copy[q] /\ form'[q] = form[q] /\ claim'[q] = claim[q]
    /\ shown'[q] = shown[q] /\ (q \in modified' <=> q \in modified)

\* A step of a handler between the load of the session and the answer.
Work(r) ==
  /\ Alone(r)
  /\ UNCHANGED <<store, cookie, newest, job, tabs>>
  /\ pc[r] \in Flying \ {"load", "reload", "away", "flush", "cycle", "respond"}
  /\ pc'[r] \in Flying \ {"load", "reload", "away", "flush"}
  /\ pc'[r] \in {"roles", "page", "role", "audit", "flash"}
       => pc[r] \in {"roles", "page", "role", "audit", "flash"}
  /\ sid'[r] = sid[r] /\ form'[r] = form[r] /\ shown'[r] = shown[r]
  /\ claim'[r] = None \/ pc'[r] = "cycle"
  /\ copy'[r].user = copy[r].user /\ copy'[r].csrf = copy[r].csrf
  /\ copy'[r].role = copy[r].role \/ copy[r].user # None
  /\ copy'[r].flash = copy[r].flash \/ (copy'[r].flash = r /\ pc[r] = "flash")
  /\ Is(r, "promote") => copy'[r] = copy[r] /\ (r \in modified' <=> r \in modified)

\* A session is ended by its request.
Drop(r) ==
  /\ Alone(r)
  /\ UNCHANGED <<job, tabs>>
  /\ pc[r] \in {"flush", "roles"} /\ pc'[r] = "respond"
  /\ sid'[r] = sid[r] /\ form'[r] = form[r] /\ shown'[r] = shown[r]
  /\ claim'[r] = claim[r]
  /\ store' = store \/ (sid[r] # None /\ store' = [store EXCEPT ![sid[r]] = None])
  /\ copy'[r] = copy[r] \/ copy'[r] = Empty
  /\ cookie' = cookie
     \/ (cookie[By(r)] = sid[r] /\ cookie' = [cookie EXCEPT ![By(r)] = None])
  /\ newest' = [newest EXCEPT ![By(r)] = None]

\* Nothing of this changes.
Same == UNCHANGED <<store, cookie, newest, job, pc, sid, copy, modified, form,
                    claim, shown, tabs>>

\* Steps that are steps of their own.
Other(r) == Send(r) \/ Load(r) \/ Respond(r) \/ Return(r) \/ Cycle(r)
            \/ Page(r) \/ Fail(r)

\* The steps of a handler are work.
LEMMA WorkSteps ==
  ASSUME TypeOK, KindInv, CopyInv, HandInv, NEW r \in Requests,
         \/ Begin(r) \/ Exchange(r) \/ Check(r) \/ RoleChanged(r) \/ RoleError(r)
         \/ Audit(r) \/ SetFlash(r) \/ Incr(r) \/ SetTtl(r) \/ Promote(r)
  PROVE  Work(r)
<1> USE ConstantFacts
<1>0. claim[r] = None \/ pc[r] \in {"cycle", "respond"}
  BY DEF CopyInv
<1>1. CASE Begin(r)
  BY <1>0, <1>1 DEF Work, Alone, Begin, redis, browser, local, history, Goto,
       At, Is, Flying, TypeOK, KindInv, CopyInv, HandInv, Hand, Session
<1>2. CASE Exchange(r)
  BY <1>0, <1>2 DEF Work, Alone, Exchange, FromClaims, redis, browser, local,
       history, Goto, At, Is, Flying, TypeOK, KindInv, CopyInv, HandInv,
       Session
<1>3. CASE Check(r)
  <2>1. copy' = [copy EXCEPT ![r] = [copy[r] EXCEPT !.role = FromClaims(roles[By(r)])]]
    BY <1>3 DEF Check
  <2>2. /\ copy'[r].user = copy[r].user /\ copy'[r].csrf = copy[r].csrf
        /\ copy'[r].flash = copy[r].flash
    BY <2>1 DEF TypeOK, Session
  <2>3. \E s \in {"respond", "page", "flash", "role"} : pc' = [pc EXCEPT ![r] = s]
    BY <1>3 DEF Check, Admitted, Goto
  <2>4. pc[r] = "roles" /\ copy[r].user # None /\ ~Is(r, "promote")
    BY <1>3 DEF Check, At, KindInv, HandInv, Hand, Is
  <2>5. UNCHANGED <<store, cookie, newest, job, sid, form, claim, shown, tabs>>
    BY <1>3 DEF Check, redis, browser
  <2>6. Alone(r)
    BY <1>3, <2>1, <2>3, <2>5 DEF Alone, Check, TypeOK
  <2>7. pc'[r] \in {"respond", "page", "flash", "role"}
    BY <2>3 DEF TypeOK
  <2> QED
    BY <1>0, <2>2, <2>4, <2>5, <2>6, <2>7 DEF Work, Flying, Is
<1>4. CASE RoleChanged(r)
  BY <1>0, <1>4 DEF Work, Alone, RoleChanged, ChangeRole, RolesNow, redis,
       browser, local, history, Goto, At, Is, Flying, TypeOK, KindInv,
       CopyInv, HandInv, Session
<1>5. CASE RoleError(r)
  BY <1>0, <1>5 DEF Work, Alone, RoleError, ChangeRole, RolesNow, redis,
       browser, local, history, Goto, At, Is, Flying, TypeOK, KindInv,
       CopyInv, HandInv, Session
<1>6. CASE Audit(r)
  BY <1>0, <1>6 DEF Work, Alone, Audit, redis, browser, local, history, Goto,
       At, Is, Flying, TypeOK, KindInv, CopyInv, HandInv, Hand, Session
<1>7. CASE SetFlash(r)
  BY <1>0, <1>7 DEF Work, Alone, SetFlash, redis, browser, local, history,
       Goto, At, Is, Flying, TypeOK, KindInv, CopyInv, HandInv, Hand, Session
<1>8. CASE Incr(r)
  BY <1>0, <1>8 DEF Work, Alone, Incr, redis, browser, local, history, Goto,
       At, Is, Flying, TypeOK, KindInv, CopyInv, HandInv, Hand, Session
<1>9. CASE SetTtl(r)
  BY <1>0, <1>9 DEF Work, Alone, SetTtl, redis, browser, local, history, Goto,
       At, Is, Flying, TypeOK, KindInv, CopyInv, HandInv, Hand, Session
<1>10. CASE Promote(r)
  BY <1>0, <1>10 DEF Work, Alone, Promote, RolesNow, redis, browser, local,
       history, Goto, At, Is, Flying, TypeOK, KindInv, CopyInv, HandInv,
       Session
<1> QED
  BY <1>1, <1>2, <1>3, <1>4, <1>5, <1>6, <1>7, <1>8, <1>9, <1>10

LEMMA DropSteps ==
  ASSUME TypeOK, KindInv, NEW r \in Requests, Logout(r) \/ ShutOut(r)
  PROVE  Drop(r)
<1>1. CASE Logout(r)
  BY <1>1 DEF Drop, Alone, Logout, Flush, FlushFails, local, Goto, At, TypeOK
<1>2. CASE ShutOut(r)
  BY <1>2 DEF Drop, Alone, ShutOut, Flush, FlushFails, local, Goto, At, TypeOK
<1> QED
  BY <1>1, <1>2

\* Every step is of one of these shapes.
LEMMA Shapes ==
  ASSUME TypeOK, KindInv, CopyInv, HandInv, [Next]_vars
  PROVE  \/ \E r \in Requests : Work(r) \/ Drop(r) \/ Other(r)
         \/ \E id \in Id : SessionExpires(id)
         \/ Same
<1>1. CASE WindowEnds \/ UNCHANGED vars
  BY <1>1 DEF WindowEnds, vars, Same, redis, browser, local, history
<1> QED
  BY <1>1, WorkSteps, DropSteps DEF Next, Other

----------------------------------------------------------------------------
(* What the other steps do.                                                *)

\* The id a session is saved under.
Place(r) == IF sid[r] = None THEN NewId(r) ELSE sid[r]

\* Nothing is left in the hands of r.
Empties(r) ==
  /\ pc'[r] = "done" /\ sid'[r] = None /\ copy'[r] = Empty
  /\ form'[r] = None /\ claim'[r] = None /\ r \notin modified'

LEMMA SendMeans ==
  ASSUME TypeOK, HandInv, NEW r \in Requests, Send(r)
  PROVE  /\ Alone(r) /\ UNCHANGED <<store, cookie, newest>> /\ pc[r] = "idle"
         /\ job'[r] \in Task /\ pc'[r] \in {"incr", "flush", "load"}
         /\ Is(r, "promote")' <=> pc'[r] = "incr"
         /\ pc'[r] = "incr" => sid'[r] = None
         /\ pc'[r] # "incr" => sid'[r] = cookie[By(r)']
         /\ copy'[r] = Empty /\ shown'[r] = None /\ claim'[r] = claim[r]
         /\ r \in modified' <=> r \in modified
         /\ Is(r, "change")' => form'[r] # None
         /\ tabs \subseteq tabs'
         /\ pc'[r] # "incr" => \A q \in Requests \ {r} :
              Browses(q) /\ By(q) = By(r)' => By(q) \in tabs'
<1> USE ConstantFacts
<1>1. PICK t \in Tasks[r] :
        /\ job' = [job EXCEPT ![r] = t]
        /\ IF t.kind = "change"
           THEN \E p \in pages[t.by] : form' = [form EXCEPT ![r] = p]
           ELSE UNCHANGED form
        /\ IF t.kind = "promote" THEN UNCHANGED <<sid, tabs>>
           ELSE sid' = [sid EXCEPT ![r] = cookie[t.by]] /\ Overlap(r, t.by)
        /\ Goto(r, CASE t.kind = "promote" -> "incr"
                     [] t.kind = "logout" -> "flush"
                     [] OTHER -> "load")
  BY DEF Send
<1>2. t \in Task /\ t.by \in Users
  BY DEF Task
<1>3. job'[r] = t
  BY <1>1 DEF TypeOK
<1>4. pc' = [pc EXCEPT ![r] = IF t.kind = "promote" THEN "incr"
                              ELSE IF t.kind = "logout" THEN "flush" ELSE "load"]
  BY <1>1 DEF Goto
<1>5. /\ UNCHANGED <<store, cookie, newest, copy, shown, claim, modified>>
      /\ pc[r] = "idle" /\ copy[r] = Empty /\ sid[r] = None /\ shown[r] = None
  BY DEF Send, HandInv, Hand, At, redis, browser
<1>6. t.kind = "change" => form'[r] \in Token
  BY <1>1, <1>2 DEF TypeOK
<1>7. None \notin Token
  BY DEF Token, Id
<1>8. form' = form \/ \E p : form' = [form EXCEPT ![r] = p]
  BY <1>1
<1>9. sid' = sid \/ sid' = [sid EXCEPT ![r] = cookie[t.by]]
  BY <1>1
<1>10. Alone(r)
  BY <1>1, <1>4, <1>5, <1>8, <1>9 DEF Alone, TypeOK
<1>11. tabs \subseteq tabs'
  BY <1>1 DEF Overlap
<1>12. t.kind # "promote" =>
         /\ sid'[r] = cookie[t.by]
         /\ \A q \in Requests \ {r} : Browses(q) /\ By(q) = t.by => By(q) \in tabs'
  BY <1>1 DEF Overlap, Browses, TypeOK
<1>13. pc'[r] = IF t.kind = "promote" THEN "incr"
                ELSE IF t.kind = "logout" THEN "flush" ELSE "load"
  BY <1>4 DEF TypeOK
<1>14. t.kind = "promote" => sid' = sid
  BY <1>1
<1> QED
  BY <1>2, <1>3, <1>5, <1>6, <1>7, <1>10, <1>11, <1>12, <1>13, <1>14 DEF Is, By

LEMMA RespondMeans ==
  ASSUME TypeOK, NEW r \in Requests, Respond(r)
  PROVE  /\ Alone(r) /\ UNCHANGED <<job, tabs>> /\ pc[r] = "respond"
         /\ \/ store' = store
            \/ r \in modified /\ store' = [store EXCEPT ![Place(r)] = copy[r]]
         /\ r \in modified /\ store' = store
              => \/ sid[r] # None /\ store[sid[r]] = None
                 \/ store = [store EXCEPT ![Place(r)] = copy[r]]
         /\ \/ cookie' = cookie
            \/ r \in modified /\ cookie' = [cookie EXCEPT ![By(r)] = Place(r)]
         /\ IF Is(r, "panel") /\ copy[r].csrf = r
            THEN newest' = [newest EXCEPT ![By(r)] = r] ELSE newest' = newest
         /\ shown'[r] = shown[r]
         /\ Empties(r) \/ (pc'[r] = "away" /\ UNCHANGED local)
<1>1. \/ Finish(r) /\ UNCHANGED shown
      \/ Goto(r, "away") /\ UNCHANGED local
  BY DEF Respond
<1>2. Alone(r) /\ shown'[r] = shown[r]
  BY <1>1 DEF Alone, Respond, Finish, Goto, local, TypeOK
<1>3. Empties(r) \/ (pc'[r] = "away" /\ UNCHANGED local)
  BY <1>1 DEF Empties, Finish, Goto, TypeOK
<1> QED
  BY <1>2, <1>3 DEF Respond, Place, At, browser

LEMMA ReturnMeans ==
  ASSUME TypeOK, NEW r \in Requests, Return(r)
  PROVE  /\ Alone(r) /\ UNCHANGED <<store, cookie, newest, job>>
         /\ pc[r] = "away" /\ pc'[r] = "reload" /\ sid'[r] = cookie[By(r)]
         /\ copy'[r] = copy[r] /\ form'[r] = form[r] /\ claim'[r] = claim[r]
         /\ shown'[r] = shown[r] /\ r \notin modified'
         /\ tabs \subseteq tabs'
         /\ \A q \in Requests \ {r} :
              Browses(q) /\ By(q) = By(r) => By(q) \in tabs'
BY DEF Return, Overlap, Alone, Browses, Goto, At, redis, browser, TypeOK

LEMMA CycleMeans ==
  ASSUME TypeOK, CopyInv, NEW r \in Requests, Cycle(r)
  PROVE  /\ Alone(r) /\ UNCHANGED <<cookie, job, tabs>>
         /\ pc[r] = "cycle" /\ pc'[r] = "respond"
         /\ sid[r] # None /\ sid'[r] = None
         /\ store' = [store EXCEPT ![sid[r]] = None]
         /\ newest' = [newest EXCEPT ![By(r)] = None]
         /\ copy'[r].user = By(r) /\ copy'[r].flash = copy[r].flash
         /\ copy'[r].csrf = copy[r].csrf /\ r \in modified'
         /\ form'[r] = form[r] /\ claim'[r] = claim[r] /\ shown'[r] = shown[r]
<1>1. copy' = [copy EXCEPT ![r] = [copy[r] EXCEPT !.user = By(r), !.role = claim[r],
                                                  !.flow = None]]
  BY DEF Cycle
<1>2. /\ copy'[r].user = By(r) /\ copy'[r].flash = copy[r].flash
      /\ copy'[r].csrf = copy[r].csrf
  BY <1>1 DEF Session, TypeOK
<1>3. Alone(r) /\ pc'[r] = "respond" /\ sid'[r] = None
  BY <1>1 DEF Cycle, Alone, Goto, TypeOK
<1>4. sid[r] # None
  BY DEF Cycle, CopyInv, At
<1> QED
  BY <1>2, <1>3, <1>4 DEF Cycle, At, browser

LEMMA PageMeans ==
  ASSUME TypeOK, NEW r \in Requests, Page(r)
  PROVE  /\ Alone(r) /\ UNCHANGED <<store, cookie, newest, job, tabs>>
         /\ pc[r] = "page" /\ pc'[r] = "respond"
         /\ copy'[r].user = copy[r].user /\ copy'[r].role = copy[r].role
         /\ copy'[r].csrf = r /\ copy'[r].flash = None
         /\ shown'[r] = copy[r].flash /\ r \in modified'
         /\ sid'[r] = sid[r] /\ form'[r] = form[r] /\ claim'[r] = claim[r]
BY DEF Page, Alone, Goto, At, redis, browser, history, Session, TypeOK

LEMMA FailMeans ==
  ASSUME TypeOK, NEW r \in Requests, Fail(r)
  PROVE  /\ Alone(r) /\ UNCHANGED <<store, cookie, newest, job, tabs>>
         /\ InFlight(r) /\ Empties(r) /\ shown'[r] = None
BY DEF Fail, Finish, Alone, Empties, Goto, redis, browser, TypeOK

LEMMA LoadFinds ==
  ASSUME TypeOK, KindInv, NEW r \in Requests, Load(r)
  PROVE  /\ Alone(r) /\ UNCHANGED <<store, cookie, newest, job, tabs>>
         /\ pc[r] \in {"load", "reload"} /\ ~Is(r, "promote")
         /\ pc'[r] \in {"exchange", "respond", "begin", "roles"}
         /\ pc'[r] = "roles" => copy'[r].user # None
         /\ \/ /\ sid[r] # None /\ store[sid[r]] # None
               /\ sid'[r] = sid[r] /\ copy'[r] = store[sid[r]]
            \/ sid'[r] = None /\ copy'[r] = Empty
         /\ form'[r] = form[r] /\ claim'[r] = claim[r] /\ shown'[r] = shown[r]
         /\ r \in modified' <=> r \in modified
<1>1. Alone(r)
  BY LoadMeans DEF Alone, TypeOK
<1>2. /\ pc[r] \in {"load", "reload"}
      /\ UNCHANGED <<store, cookie, newest, job, tabs, form, claim, shown, modified>>
  BY LoadMeans DEF redis, browser, history
<1>3. ~Is(r, "promote")
  BY <1>2 DEF KindInv, At, Is
<1>4. \/ /\ sid[r] # None /\ store[sid[r]] # None
         /\ sid'[r] = sid[r] /\ copy'[r] = store[sid[r]]
      \/ sid'[r] = None /\ copy'[r] = Empty
  BY LoadMeans DEF TypeOK
<1>5. pc'[r] = IF At(r, "reload")
               THEN IF copy'[r].flow = r THEN "exchange" ELSE "respond"
               ELSE IF Is(r, "login") THEN "begin"
               ELSE IF copy'[r].user = None THEN "respond" ELSE "roles"
  BY LoadMeans DEF TypeOK
<1>6. /\ pc'[r] \in {"exchange", "respond", "begin", "roles"}
      /\ pc'[r] = "roles" => copy'[r].user # None
  BY <1>5
<1> QED
  BY <1>1, <1>2, <1>3, <1>4, <1>6

----------------------------------------------------------------------------
(* The invariants, one by one.                                             *)

\* A browser has a second request under way only when that is taken note of.
LEMMA SoloStep ==
  TypeOK /\ KindInv /\ CopyInv /\ HandInv /\ SoloInv /\ [Next]_vars => SoloInv'
<1> SUFFICES ASSUME TypeOK, KindInv, CopyInv, HandInv, SoloInv, [Next]_vars
             PROVE  SoloInv'
  OBVIOUS
<1> USE DEF SoloInv, Browses, InFlight, Flying, Is, By, At, Alone
<1>1. ASSUME NEW r \in Requests, Work(r) PROVE SoloInv'
  <2>1. Browses(r)' => Browses(r)
    BY <1>1 DEF Work
  <2> QED
    BY <1>1, <2>1 DEF Work
<1>2. ASSUME NEW r \in Requests, Drop(r) PROVE SoloInv'
  BY <1>2 DEF Drop
<1>3. ASSUME NEW r \in Requests, Send(r) PROVE SoloInv'
  BY <1>3, SendMeans
<1>4. ASSUME NEW r \in Requests, Load(r) PROVE SoloInv'
  BY <1>4, LoadFinds
<1>5. ASSUME NEW r \in Requests, Respond(r) PROVE SoloInv'
  BY <1>5, RespondMeans DEF Empties
<1>6. ASSUME NEW r \in Requests, Return(r) PROVE SoloInv'
  BY <1>6, ReturnMeans
<1>7. ASSUME NEW r \in Requests, Cycle(r) PROVE SoloInv'
  BY <1>7, CycleMeans
<1>8. ASSUME NEW r \in Requests, Page(r) PROVE SoloInv'
  BY <1>8, PageMeans
<1>9. ASSUME NEW r \in Requests, Fail(r) PROVE SoloInv'
  BY <1>9, FailMeans DEF Empties
<1>10. ASSUME NEW id \in Id, SessionExpires(id) PROVE SoloInv'
  BY <1>10 DEF SessionExpires, local
<1>11. CASE Same
  BY <1>11 DEF Same
<1> QED
  BY <1>1, <1>2, <1>3, <1>4, <1>5, <1>6, <1>7, <1>8, <1>9, <1>10, <1>11,
     Shapes DEF Other

\* A copy is whole, and empty before it is loaded and after.
LEMMA HandAlone ==
  ASSUME HandInv, NEW r \in Requests, Alone(r), NEW q \in Requests \ {r}
  PROVE  Hand(q)'
<1>1. /\ Is(q, "promote")' <=> Is(q, "promote")
      /\ Is(q, "change")' <=> Is(q, "change")
      /\ Is(q, "panel")' <=> Is(q, "panel")
      /\ InFlight(q)' <=> InFlight(q)
      /\ Whole(copy[q])' <=> Whole(copy[q])
  BY DEF Alone, Is, InFlight, Whole
<1> QED
  BY <1>1 DEF HandInv, Hand, Alone, At

LEMMA HandStep ==
  TypeOK /\ KindInv /\ CopyInv /\ MarkInv /\ HandInv /\ [Next]_vars => HandInv'
<1> SUFFICES ASSUME TypeOK, KindInv, CopyInv, MarkInv, HandInv, [Next]_vars
             PROVE  HandInv'
  OBVIOUS
<1>0. ASSUME NEW r \in Requests, Alone(r), Hand(r)',
             \A i \in Id : store'[i] = store[i] \/ store'[i] = None
                            \/ store'[i] = copy[r]
      PROVE  HandInv'
  <2>1. ASSUME NEW i \in Id, store'[i] # None PROVE Whole(store[i])'
    BY <1>0, <2>1 DEF HandInv, Hand, Whole
  <2> QED
    BY <1>0, <2>1, HandAlone DEF HandInv
<1>a. \A r \in Requests : Hand(r)
  BY DEF HandInv
<1>b. ~Whole(Empty) => FALSE
  BY DEF Whole, Empty
<1> USE ConstantFacts DEF Hand, Whole, Is, By, At, InFlight, Flying
<1>1. ASSUME NEW r \in Requests, Work(r) PROVE HandInv'
  <2>1. copy[r].csrf # r
    BY <1>1 DEF Work, MarkInv
  <2>2. r \in modified' \/ copy'[r].csrf # r
    BY <1>1, <2>1 DEF Work
  <2> QED
    BY <1>a, <1>0, <1>1, <2>2 DEF Work
<1>2. ASSUME NEW r \in Requests, Drop(r) PROVE HandInv'
  <2>1. copy[r].csrf # r /\ r \in Requests /\ Empty.csrf # r
    BY <1>2 DEF Drop, MarkInv, Empty
  <2>2. ~Is(r, "promote") /\ shown'[r] = None
    BY <1>2, <1>a DEF Drop, KindInv
  <2>3. Hand(r)'
    BY <1>a, <1>b, <1>2, <2>1, <2>2 DEF Drop
  <2>4. \A i \in Id : store'[i] = store[i] \/ store'[i] = None
    BY <1>2 DEF Drop, TypeOK
  <2>5. Alone(r)
    BY <1>2 DEF Drop
  <2> QED
    BY <1>0, <2>3, <2>4, <2>5
<1>3. ASSUME NEW r \in Requests, Send(r) PROVE HandInv'
  <2>1. Empty.csrf # r
    BY DEF Empty
  <2>2. Hand(r)'
    BY <1>a, <1>b, <1>3, <2>1, SendMeans DEF CopyInv
  <2> QED
    BY <1>0, <1>3, <2>2, SendMeans
<1>4. ASSUME NEW r \in Requests, Load(r) PROVE HandInv'
  <2>1. copy'[r].csrf # r /\ Whole(copy'[r])
    <3>1. CASE copy'[r] = Empty
      BY <3>1, <1>b DEF Empty
    <3>2. CASE sid[r] # None /\ store[sid[r]] # None /\ copy'[r] = store[sid[r]]
      <4>1. sid[r] \in Id /\ store[sid[r]].csrf = r => pc[r] = "done"
        BY <3>2 DEF TypeOK, MarkInv, Marked
      <4>2. sid[r] \in Id /\ pc[r] # "done"
        BY <1>4, <3>2, LoadFinds DEF TypeOK
      <4> QED
        BY <3>2, <4>1, <4>2 DEF HandInv
    <3> QED
      BY <1>4, <3>1, <3>2, LoadFinds
  <2>2. UNCHANGED <<store, job>> /\ shown[r] = None
    BY <1>4, <1>a, LoadFinds
  <2>3. Hand(r)'
    BY <1>a, <1>4, <2>1, <2>2, LoadFinds
  <2> QED
    BY <1>0, <1>4, <2>2, <2>3, LoadFinds
<1>5. ASSUME NEW r \in Requests, Respond(r) PROVE HandInv'
  <2>1. Empty.csrf # r
    BY DEF Empty
  <2>2. CASE Empties(r)
    <3>1. Hand(r)'
      BY <1>a, <1>b, <1>5, <2>1, <2>2, RespondMeans DEF Empties
    <3> QED
      BY <1>0, <1>5, <3>1, RespondMeans DEF TypeOK
  <2>3. CASE pc'[r] = "away" /\ UNCHANGED local
    <3>1. copy[r].flow = r /\ ~Empties(r)
      BY <1>5, <2>3 DEF Respond, Finish, Goto, Empties, TypeOK
    <3>2. Is(r, "login") /\ copy[r].csrf # r
      BY <3>1 DEF MarkInv
    <3>3. copy'[r] = copy[r] /\ UNCHANGED <<shown, modified, sid, form>>
      BY <2>3 DEF local
    <3>4. shown[r] = None
      BY <1>a, <3>2
    <3>5. Hand(r)'
      BY <1>a, <1>5, <2>3, <3>2, <3>3, <3>4, RespondMeans
    <3> QED
      BY <1>0, <1>5, <3>5, RespondMeans DEF TypeOK
  <2> QED
    BY <1>5, <2>2, <2>3, RespondMeans
<1>6. ASSUME NEW r \in Requests, Return(r) PROVE HandInv'
  <2>1. copy[r].csrf # r /\ Is(r, "login") /\ shown[r] = None
    BY <1>6, <1>a, ReturnMeans DEF MarkInv, KindInv
  <2> QED
    BY <1>a, <1>0, <1>6, <2>1, ReturnMeans
<1>7. ASSUME NEW r \in Requests, Cycle(r) PROVE HandInv'
  <2>1. copy[r].csrf # r /\ Is(r, "login") /\ shown[r] = None /\ By(r) # None
    BY <1>7, <1>a, CycleMeans DEF MarkInv, KindInv, Task, Id
  <2>2. \A i \in Id : store'[i] = store[i] \/ store'[i] = None
    BY <1>7, CycleMeans DEF TypeOK
  <2> QED
    BY <1>a, <1>0, <1>7, <2>1, <2>2, CycleMeans
<1>8. ASSUME NEW r \in Requests, Page(r) PROVE HandInv'
  <2>1. Is(r, "panel") /\ sid[r] # None
    BY <1>8, PageMeans DEF KindInv, CopyInv
  <2> QED
    BY <1>a, <1>0, <1>8, <2>1, PageMeans
<1>9. ASSUME NEW r \in Requests, Fail(r) PROVE HandInv'
  <2>1. Empty.csrf # r
    BY DEF Empty
  <2> QED
    BY <1>b, <1>0, <1>9, <2>1, FailMeans DEF Empties
<1>10. ASSUME NEW id \in Id, SessionExpires(id) PROVE HandInv'
  BY <1>10 DEF HandInv, SessionExpires, local, TypeOK
<1>11. CASE Same
  BY <1>11 DEF HandInv, Same
<1> QED
  BY <1>1, <1>2, <1>3, <1>4, <1>5, <1>6, <1>7, <1>8, <1>9, <1>10, <1>11,
     Shapes DEF Other

\* What was said of an id or a message stays true.
LEMMA OwnKept ==
  ASSUME TypeOK, NEW r \in Requests, Alone(r), pc'[r] # "idle",
         pc[r] = "idle" \/ job'[r] = job[r]
  PROVE  /\ \A i, u : OwnedBy(i, u) => OwnedBy(i, u)'
         /\ \A m \in Requests : pc[m] # "idle" => By(m)' = By(m) /\ pc'[m] # "idle"
         /\ \A m \in Requests : At(m, "done") /\ m # r => At(m, "done")'
<1>1. \A m \in Requests : pc[m] # "idle" => By(m)' = By(m) /\ pc'[m] # "idle"
  BY DEF Alone, By
<1>2. ASSUME NEW i, NEW u, OwnedBy(i, u) PROVE OwnedBy(i, u)'
  <2>1. CASE i \in Requests \X {"start", "end"} /\ ~At(i[1], "idle") /\ By(i[1]) = u
    <3>1. i[1] \in Requests
      BY <2>1
    <3> QED
      BY <2>1, <3>1, <1>1 DEF OwnedBy, At
  <2> QED
    BY <1>2, <2>1 DEF OwnedBy
<1> QED
  BY <1>1, <1>2 DEF Alone, At

\* No two users own one id.
LEMMA OneOwner ==
  ASSUME NEW i \in Id, NEW u \in Users, NEW v \in Users, OwnedBy(i, u), OwnedBy(i, v)
  PROVE  u = v
BY ConstantFacts DEF OwnedBy, Id

\* Where a session is saved.
LEMMA PlaceOwned ==
  ASSUME OwnInv, NEW r \in Requests, pc[r] = "respond"
  PROVE  OwnedBy(Place(r), By(r))
<1>1. CASE sid[r] # None
  BY <1>1 DEF OwnInv, Own, Place
<1>2. CASE sid[r] = None
  <2>1. Place(r) \in Requests \X {"start", "end"} /\ Place(r)[1] = r
    BY <1>2 DEF Place, NewId
  <2> QED
    BY <2>1 DEF OwnedBy, At
<1> QED
  BY <1>1, <1>2

\* A message in a session is of a request that has ended, or of this one.
LEMMA Ended ==
  ASSUME TypeOK, MarkInv
  PROVE  /\ \A i \in Id : store[i] # None /\ store[i].flash # None
              => store[i].flash \in Requests /\ At(store[i].flash, "done")
         /\ \A q \in Requests : copy[q].flash # None
              => /\ copy[q].flash \in Requests
                 /\ \/ At(copy[q].flash, "done")
                    \/ copy[q].flash = q /\ At(q, "respond")
<1>1. \A i \in Id : store[i] # None => store[i].flash \in Requests \cup {None}
  BY DEF TypeOK, Session
<1>2. \A q \in Requests : copy[q].flash \in Requests \cup {None}
  BY DEF TypeOK, Session
<1> QED
  BY <1>1, <1>2, ConstantFacts DEF MarkInv, Marked

LEMMA OwnStep ==
  XInv /\ HandInv /\ OwnInv /\ [Next]_vars => OwnInv'
<1> SUFFICES ASSUME XInv, HandInv, OwnInv, [Next]_vars
             PROVE  OwnInv'
  OBVIOUS
<1>t. TypeOK /\ KindInv /\ CopyInv /\ MarkInv
  BY DEF XInv
<1>0. ASSUME NEW r \in Requests, Alone(r), pc'[r] # "idle",
             pc[r] = "idle" \/ job'[r] = job[r],
             \A u \in Users : \/ cookie'[u] = cookie[u] \/ cookie'[u] = None
                              \/ OwnedBy(cookie'[u], u),
             \A i \in Id : \/ store'[i] = store[i] \/ store'[i] = None
                           \/ /\ store'[i] = copy[r] /\ pc[r] # "idle"
                              /\ OwnedBy(i, By(r)),
             ~At(r, "done"), Own(r)'
      PROVE  OwnInv'
  <2>1. ASSUME NEW u \in Users, cookie'[u] # None PROVE OwnedBy(cookie[u], u)'
    <3>1. OwnedBy(cookie'[u], u)
      BY <1>0, <2>1 DEF OwnInv
    <3>2. \A i : OwnedBy(i, u) => OwnedBy(i, u)'
      BY <1>0, <1>t, OwnKept
    <3>3. \A i : OwnedBy(i, u)' => i = u \/ (/\ i \in Requests \X {"start", "end"}
                                            /\ ~At(i[1], "idle")' /\ By(i[1])' = u)
      BY DEF OwnedBy
    <3> QED
      BY <3>1, <3>2, <3>3 DEF OwnedBy
  <2>2. ASSUME NEW i \in Id, store'[i] # None, store'[i].flash # None
        PROVE  OwnedBy(i, By(store[i].flash))'
    <3>1. PICK m \in Requests : /\ m = store'[i].flash /\ pc[m] # "idle"
                                /\ OwnedBy(i, By(m))
      <4>1. CASE store'[i] = store[i]
        BY <1>t, <2>2, <4>1, Ended DEF OwnInv, At
      <4>2. CASE store'[i] = copy[r] /\ pc[r] # "idle" /\ OwnedBy(i, By(r))
        BY <1>t, <2>2, <4>2, Ended DEF OwnInv, Own, At
      <4> QED
        BY <1>0, <2>2, <4>1, <4>2
    <3>2. By(m)' = By(m) /\ OwnedBy(i, By(m))'
      BY <1>0, <1>t, <3>1, OwnKept
    <3> QED
      BY <3>1, <3>2
  <2>3. ASSUME NEW q \in Requests \ {r} PROVE Own(q)'
    <3>1. sid'[q] = sid[q] /\ copy'[q] = copy[q] /\ shown'[q] = shown[q]
      BY <1>0 DEF Alone
    <3>2. job'[q] = job[q] /\ By(q)' = By(q)
      BY <1>0 DEF Alone, By
    <3>3. sid[q] # None => OwnedBy(sid[q], By(q))'
      <4> SUFFICES ASSUME sid[q] # None PROVE OwnedBy(sid[q], By(q))'
        OBVIOUS
      <4>1. PICK i, u : i = sid[q] /\ u = By(q) /\ OwnedBy(i, u)
        BY DEF OwnInv, Own
      <4>2. OwnedBy(i, u)'
        BY <1>0, <1>t, <4>1, OwnKept
      <4> QED
        BY <3>1, <3>2, <4>1, <4>2 DEF OwnedBy
    <3>0. \A m \in Requests : pc[m] # "idle" => By(m)' = By(m)
      BY <1>0, <1>t, OwnKept
    <3>4. copy[q].flash # None => By(copy[q].flash)' = By(q)'
      <4> SUFFICES ASSUME copy[q].flash # None PROVE By(copy[q].flash)' = By(q)'
        OBVIOUS
      <4>1. PICK m \in Requests : m = copy[q].flash /\ pc[m] # "idle"
        BY <1>t, Ended DEF At
      <4>2. By(m) = By(q)
        BY <4>1 DEF OwnInv, Own
      <4> QED
        BY <3>0, <3>1, <3>2, <4>1, <4>2
    <3>5. shown[q] # None => By(shown[q])' = By(q)' /\ At(shown[q], "done")'
      <4> SUFFICES ASSUME shown[q] # None
                   PROVE  By(shown[q])' = By(q)' /\ At(shown[q], "done")'
        OBVIOUS
      <4>1. PICK m \in Requests : m = shown[q] /\ At(m, "done") /\ By(m) = By(q)
        BY <1>t DEF OwnInv, Own, TypeOK
      <4>2. pc[m] # "idle" /\ m # r
        BY <1>0, <4>1 DEF At
      <4>3. At(m, "done")'
        BY <1>0, <4>1, <4>2 DEF At, Alone
      <4> QED
        BY <3>0, <3>1, <3>2, <4>1, <4>2, <4>3
    <3> QED
      BY <3>1, <3>3, <3>4, <3>5 DEF Own
  <2> QED
    BY <1>0, <2>1, <2>2, <2>3 DEF OwnInv
<1>a. \A r \in Requests : Own(r)
  BY DEF OwnInv
<1>b. Empty.flash = None
  BY DEF Empty
<1>1. ASSUME NEW r \in Requests, Work(r) PROVE OwnInv'
  <2>1. By(r)' = By(r) /\ Alone(r)
    BY <1>1 DEF Work, By
  <2>2. shown'[r] = None /\ pc[r] # "idle" /\ pc'[r] # "idle" /\ pc[r] # "done"
    BY <1>1, <1>t DEF HandInv, Hand, Work, Flying
  <2>3. \A m \in Requests : By(m)' = By(m)
    BY <1>1 DEF Work, By
  <2>4. copy'[r].flash # None => By(copy[r].flash)' = By(r)'
    <3>1. CASE copy'[r].flash = copy[r].flash
      BY <1>a, <1>t, <2>1, <2>3, <3>1, Ended DEF Own
    <3>2. CASE copy'[r].flash = r
      BY <3>2 DEF By
    <3> QED
      BY <1>1, <3>1, <3>2 DEF Work
  <2>5. sid'[r] # None => OwnedBy(sid[r], By(r))'
    BY <1>1, <1>a, <2>1, <2>2, <2>3 DEF Own, OwnedBy, Work, Alone, At
  <2> QED
    BY <1>0, <1>1, <2>1, <2>2, <2>4, <2>5 DEF Own, Work, At
<1>2. ASSUME NEW r \in Requests, Drop(r) PROVE OwnInv'
  <2>1. By(r)' = By(r) /\ Alone(r) /\ \A m \in Requests : By(m)' = By(m)
    BY <1>2 DEF Drop, By
  <2>2. shown'[r] = None
    BY <1>2 DEF HandInv, Hand, Drop
  <2>3. copy'[r].flash # None => By(copy[r].flash)' = By(r)'
    BY <1>2, <1>a, <1>b, <1>t, <2>1, Ended DEF Own, Drop
  <2>4. sid'[r] # None => OwnedBy(sid[r], By(r))'
    BY <1>2, <1>a, <2>1 DEF Own, OwnedBy, Drop, Alone, At
  <2>5. /\ \A i \in Id : store'[i] = store[i] \/ store'[i] = None
        /\ \A u \in Users : cookie'[u] = cookie[u] \/ cookie'[u] = None
    BY <1>2, <1>t DEF Drop, TypeOK
  <2> QED
    BY <1>0, <1>2, <2>1, <2>2, <2>3, <2>4, <2>5 DEF Own, Drop, At
<1>3. ASSUME NEW r \in Requests, Send(r) PROVE OwnInv'
  <2>1. sid'[r] # None => OwnedBy(sid[r], By(r))'
    <3> SUFFICES ASSUME sid'[r] # None PROVE OwnedBy(sid[r], By(r))'
      OBVIOUS
    <3>1. job'[r].by \in Users /\ sid'[r] = cookie[job'[r].by]
      BY <1>3, <1>t, SendMeans DEF Task, By
    <3>2. PICK i, u : i = sid'[r] /\ u = job'[r].by /\ OwnedBy(i, u)
      BY <3>1 DEF OwnInv
    <3>3. OwnedBy(i, u)'
      BY <1>3, <1>t, <3>2, SendMeans, OwnKept
    <3> QED
      BY <3>2, <3>3 DEF OwnedBy, By
  <2>2. Own(r)'
    BY <1>3, <1>b, <1>t, <2>1, SendMeans DEF Own
  <2> QED
    BY <1>0, <1>3, <1>t, <2>2, SendMeans DEF At
<1>4. ASSUME NEW r \in Requests, Load(r) PROVE OwnInv'
  <2>1. /\ \A m \in Requests : By(m)' = By(m)
        /\ Alone(r) /\ pc[r] # "idle" /\ pc'[r] # "idle" /\ pc[r] # "done"
        /\ UNCHANGED <<store, cookie, job>>
    BY <1>4, <1>t, LoadFinds DEF By
  <2>2. shown'[r] = None
    BY <1>4, <1>t, LoadFinds DEF HandInv, Hand
  <2>3. \A i, u : OwnedBy(i, u) => OwnedBy(i, u)'
    BY <1>t, <2>1, OwnKept
  <2>4. CASE sid'[r] = None /\ copy'[r] = Empty
    BY <1>0, <1>b, <2>1, <2>2, <2>4 DEF Own, At
  <2>5. CASE sid[r] # None /\ store[sid[r]] # None /\ sid'[r] = sid[r]
             /\ copy'[r] = store[sid[r]]
    <3>1. By(r) \in Users /\ sid[r] \in Id /\ OwnedBy(sid[r], By(r))
      BY <1>a, <1>t, <2>1, <2>5 DEF Own, TypeOK, KindInv, Task, By, At
    <3>2. ASSUME copy'[r].flash # None PROVE By(copy[r].flash)' = By(r)'
      <4>1. PICK m \in Requests : m = store[sid[r]].flash /\ At(m, "done")
        BY <1>t, <2>5, <3>1, <3>2, Ended
      <4>2. OwnedBy(sid[r], By(m))
        BY <2>5, <3>1, <3>2, <4>1 DEF OwnInv
      <4>3. By(m) \in Users
        BY <1>t, <4>1 DEF KindInv, At, Task, By
      <4>4. By(m) = By(r)
        BY <3>1, <4>2, <4>3, OneOwner
      <4> QED
        BY <2>1, <2>5, <4>1, <4>4
    <3>3. OwnedBy(sid[r], By(r))'
      <4>1. PICK i, u : i = sid[r] /\ u = By(r) /\ OwnedBy(i, u)
        BY <3>1
      <4>2. OwnedBy(i, u)'
        BY <2>3, <4>1
      <4> QED
        BY <2>1, <2>5, <4>1, <4>2 DEF OwnedBy
    <3> QED
      BY <1>0, <2>1, <2>2, <3>2, <3>3 DEF Own, At
  <2> QED
    BY <1>4, <1>t, <2>4, <2>5, LoadFinds
<1>5. ASSUME NEW r \in Requests, Respond(r) PROVE OwnInv'
  <2>1. /\ \A m \in Requests : By(m)' = By(m)
        /\ Alone(r) /\ pc[r] = "respond" /\ pc'[r] # "idle"
    BY <1>5, <1>t, RespondMeans DEF By, Empties
  <2>2. OwnedBy(Place(r), By(r))
    BY <2>1, PlaceOwned
  <2>3. \A i \in Id : store'[i] = store[i]
                     \/ (store'[i] = copy[r] /\ OwnedBy(i, By(r)))
    BY <1>5, <1>t, <2>2, RespondMeans DEF TypeOK
  <2>4. \A u \in Users : cookie'[u] = cookie[u] \/ OwnedBy(cookie'[u], u)
    BY <1>5, <1>t, <2>2, RespondMeans DEF TypeOK
  <2>5. shown'[r] # None => By(shown[r])' = By(r)' /\ At(shown[r], "done")'
    <3> SUFFICES ASSUME shown'[r] # None
                 PROVE  By(shown[r])' = By(r)' /\ At(shown[r], "done")'
      OBVIOUS
    <3>1. PICK m \in Requests : m = shown[r] /\ m = shown'[r] /\ At(m, "done")
                                /\ By(m) = By(r)
      BY <1>5, <1>a, <1>t, RespondMeans DEF Own, TypeOK
    <3> QED
      BY <2>1, <3>1 DEF At, Alone
  <2>6. sid'[r] # None => OwnedBy(sid[r], By(r))'
    BY <1>5, <1>a, <1>t, <2>1, RespondMeans DEF Own, OwnedBy, Empties, local, Alone, At
  <2>7. copy'[r].flash # None => By(copy[r].flash)' = By(r)'
    BY <1>5, <1>a, <1>b, <1>t, <2>1, Ended, RespondMeans DEF Own, Empties, local
  <2> QED
    BY <1>0, <1>5, <1>t, <2>1, <2>3, <2>4, <2>5, <2>6, <2>7, RespondMeans DEF Own, At
<1>6. ASSUME NEW r \in Requests, Return(r) PROVE OwnInv'
  <2>1. /\ \A m \in Requests : By(m)' = By(m)
        /\ Alone(r) /\ UNCHANGED <<store, cookie, job>>
        /\ pc[r] = "away" /\ pc'[r] = "reload"
        /\ copy'[r] = copy[r] /\ sid'[r] = cookie[By(r)]
    BY <1>6, <1>t, ReturnMeans DEF By
  <2>2. shown'[r] = None
    BY <1>6, <1>t, ReturnMeans DEF HandInv, Hand
  <2>3. copy'[r].flash # None => By(copy[r].flash)' = By(r)'
    BY <1>a, <1>t, <2>1, Ended DEF Own
  <2>4. By(r) \in Users
    BY <1>t, <2>1 DEF KindInv, At, Task, By
  <2>5. sid'[r] # None => OwnedBy(sid[r], By(r))'
    BY <2>1, <2>4 DEF OwnInv, OwnedBy, At, Alone
  <2> QED
    BY <1>0, <2>1, <2>2, <2>3, <2>5 DEF Own, At
<1>7. ASSUME NEW r \in Requests, Cycle(r) PROVE OwnInv'
  <2>1. /\ \A m \in Requests : By(m)' = By(m)
        /\ Alone(r) /\ UNCHANGED <<cookie, job>>
        /\ pc[r] = "cycle" /\ pc'[r] = "respond"
        /\ copy'[r].flash = copy[r].flash /\ sid'[r] = None
        /\ \A i \in Id : store'[i] = store[i] \/ store'[i] = None
    BY <1>7, <1>t, CycleMeans DEF By, TypeOK
  <2>2. shown'[r] = None
    BY <1>7, <1>t, CycleMeans DEF HandInv, Hand
  <2>3. copy'[r].flash # None => By(copy[r].flash)' = By(r)'
    BY <1>a, <1>t, <2>1, Ended DEF Own
  <2> QED
    BY <1>0, <2>1, <2>2, <2>3 DEF Own, At
<1>8. ASSUME NEW r \in Requests, Page(r) PROVE OwnInv'
  <2>1. /\ \A m \in Requests : By(m)' = By(m)
        /\ Alone(r) /\ UNCHANGED <<store, cookie, job>>
        /\ pc[r] = "page" /\ pc'[r] = "respond"
        /\ copy'[r].flash = None /\ sid'[r] = sid[r] /\ shown'[r] = copy[r].flash
    BY <1>8, <1>t, PageMeans DEF By
  <2>2. sid'[r] # None => OwnedBy(sid[r], By(r))'
    BY <1>a, <2>1 DEF Own, OwnedBy, At, Alone
  <2>3. shown'[r] # None => By(shown[r])' = By(r)' /\ At(shown[r], "done")'
    <3> SUFFICES ASSUME shown'[r] # None
                 PROVE  By(shown[r])' = By(r)' /\ At(shown[r], "done")'
      OBVIOUS
    <3>1. PICK m \in Requests : m = copy[r].flash /\ At(m, "done") /\ By(m) = By(r)
      BY <1>a, <1>t, <2>1, Ended DEF Own, At
    <3> QED
      BY <2>1, <3>1 DEF At, Alone
  <2> QED
    BY <1>0, <2>1, <2>2, <2>3 DEF Own, At
<1>9. ASSUME NEW r \in Requests, Fail(r) PROVE OwnInv'
  <2>1. Own(r)'
    BY <1>9, <1>b, <1>t, FailMeans DEF Own, Empties
  <2> QED
    BY <1>0, <1>9, <1>t, <2>1, FailMeans DEF Empties, InFlight, Flying, At
<1>10. ASSUME NEW id \in Id, SessionExpires(id) PROVE OwnInv'
  BY <1>10, <1>t DEF OwnInv, Own, OwnedBy, SessionExpires, local, browser, At, By, TypeOK
<1>11. CASE Same
  BY <1>11 DEF OwnInv, Own, OwnedBy, Same, At, By
<1> QED
  BY <1>t, <1>1, <1>2, <1>3, <1>4, <1>5, <1>6, <1>7, <1>8, <1>9, <1>10, <1>11,
     Shapes DEF Other

\* Messages move with the step of one request.
LEMMA FlashAlone ==
  ASSUME NEW r \in Requests, Alone(r), NEW m \in Requests, Flash(m),
         Keep(m)' \subseteq Keep(m),
         Live(r)' /\ (copy'[r].flash = m \/ shown'[r] = m) => Keep(m)' \subseteq {sid'[r]},
         pc'[r] = "done" => shown'[r] # m,
         \A q \in Requests : At(q, "done") /\ shown[q] = m
           => (Live(r)' => copy'[r].flash # m) /\ shown'[r] # m
  PROVE  Flash(m)'
<1>1. ASSUME NEW q \in Requests \ {r} PROVE Live(q)' <=> Live(q)
  BY <1>1 DEF Alone, Live, Browses, InFlight, Is
<1>2. \A q \in Requests \ {r} : /\ copy'[q] = copy[q] /\ shown'[q] = shown[q]
                                /\ sid'[q] = sid[q] /\ (At(q, "done")' <=> At(q, "done"))
  BY DEF Alone, At
<1>3. At(r, "done")' => shown'[r] # m
  BY DEF At
<1>4. \A i, j \in Keep(m)' : i = j
  BY DEF Flash
<1>5. ASSUME NEW q \in Requests, Live(q)', (copy[q].flash = m \/ shown[q] = m)'
      PROVE  Keep(m)' \subseteq {sid[q]}'
  BY <1>1, <1>2, <1>5 DEF Flash
<1>6. ASSUME NEW q \in Requests, At(q, "done")', shown'[q] = m
      PROVE  /\ Keep(m)' = {}
             /\ \A p \in Requests : /\ Live(p)' => copy'[p].flash # m
                                    /\ shown'[p] = m => p = q
  BY <1>1, <1>2, <1>3, <1>6 DEF Flash
<1> QED
  BY <1>4, <1>5, <1>6 DEF Flash

\* A message is read once.
LEMMA FlashStep ==
  XInv /\ SoloInv /\ HandInv /\ OwnInv /\ FlashInv /\ [Next]_vars => FlashInv'
<1> SUFFICES ASSUME XInv, SoloInv, HandInv, OwnInv, FlashInv, [Next]_vars,
                    NEW m \in Requests, ~At(m, "idle")', By(m)' \notin tabs'
             PROVE  Flash(m)'
  BY DEF FlashInv
<1>t. TypeOK /\ KindInv /\ CopyInv /\ MarkInv
  BY DEF XInv
<1>e. Empty.flash # m
  BY ConstantFacts DEF Empty
<1> USE DEF Live, Browses, InFlight, Flying, Is, At, Keep
<1>0. ASSUME NEW r \in Requests, Alone(r), pc[r] # "idle" \/ m # r,
             job'[r] = job[r] \/ m # r, tabs \subseteq tabs'
      PROVE  Flash(m)
  <2>1. By(m)' = By(m) /\ ~At(m, "idle")
    BY <1>0 DEF Alone, By
  <2> QED
    BY <1>0, <2>1 DEF FlashInv
<1>a. \A r \in Requests : Hand(r)
  BY DEF HandInv
<1>1. ASSUME NEW r \in Requests, Work(r) PROVE Flash(m)'
  <2>1. Flash(m) /\ Alone(r) /\ Keep(m)' = Keep(m)
    BY <1>0, <1>1 DEF Work
  <2>2. CASE copy'[r].flash = copy[r].flash
    <3>1. Live(r)' => Live(r)
      BY <1>1 DEF Work
    <3>2. pc'[r] # "done" /\ sid'[r] = sid[r] /\ shown'[r] = shown[r]
      BY <1>1 DEF Work
    <3>3. shown[r] # m
      BY <1>1, <1>a, ConstantFacts DEF Work, Hand
    <3> QED
      BY <2>1, <2>2, <3>1, <3>2, <3>3, FlashAlone DEF Flash
  <2>3. CASE copy'[r].flash = r /\ r # m
    BY <1>1, <1>a, <2>1, <2>3, FlashAlone, ConstantFacts DEF Work, Hand
  <2>4. CASE r = m /\ pc[r] = "flash"
    <3>1. Keep(m) = {} /\ \A q \in Requests : shown[q] # m
      BY <1>t, <2>4, Ended, ConstantFacts DEF OwnInv, Own
    <3> QED
      BY <1>1, <2>1, <3>1, FlashAlone DEF Work
  <2> QED
    BY <1>1, <2>2, <2>3, <2>4 DEF Work
<1>2. ASSUME NEW r \in Requests, Drop(r) PROVE Flash(m)'
  <2>1. Flash(m) /\ Alone(r)
    BY <1>0, <1>2 DEF Drop
  <2>2. Keep(m)' \subseteq Keep(m)
    BY <1>2, <1>t DEF Drop, TypeOK
  <2>3. Live(r) /\ shown'[r] # m /\ pc'[r] # "done" /\ sid'[r] = sid[r]
    BY <1>2, <1>a, <1>t, ConstantFacts DEF Drop, Hand, KindInv
  <2>4. copy'[r] = copy[r] \/ copy'[r].flash # m
    BY <1>2, <1>e DEF Drop
  <2> QED
    BY <2>1, <2>2, <2>3, <2>4, FlashAlone DEF Flash
<1>3. ASSUME NEW r \in Requests, Send(r) PROVE Flash(m)'
  <2>1. Alone(r) /\ pc[r] = "idle" /\ pc'[r] # "done" /\ Keep(m)' = Keep(m)
        /\ copy'[r].flash # m /\ shown'[r] # m
    BY <1>3, <1>t, <1>e, ConstantFacts, SendMeans
  <2>2. CASE r # m
    BY <1>0, <1>3, <1>t, <2>1, <2>2, SendMeans, FlashAlone
  <2>3. CASE r = m
    <3>1. \A q \in Requests : copy[q].flash # m
      BY <1>t, <2>1, <2>3, Ended, ConstantFacts
    <3>2. \A q \in Requests : copy'[q].flash # m
      BY <2>1, <3>1 DEF Alone
    <3>3. Keep(m) = {} /\ \A q \in Requests : shown[q] # m
      BY <1>t, <2>1, <2>3, Ended, ConstantFacts DEF OwnInv, Own
    <3>4. Keep(m)' = {} /\ \A q \in Requests : shown'[q] # m
      BY <2>1, <3>3 DEF Alone
    <3> QED
      BY <3>2, <3>4 DEF Flash
  <2> QED
    BY <2>2, <2>3
<1>4. ASSUME NEW r \in Requests, Load(r) PROVE Flash(m)'
  <2>1. /\ Alone(r) /\ Keep(m)' = Keep(m) /\ pc[r] # "idle" /\ pc'[r] # "done"
        /\ UNCHANGED <<job, tabs>>
    BY <1>4, <1>t, LoadFinds
  <2>2. Flash(m)
    BY <1>0, <2>1
  <2>3. shown'[r] # m
    BY <1>4, <1>t, <1>a, LoadFinds, ConstantFacts DEF Hand
  <2>4. copy'[r].flash = m => sid[r] \in Keep(m) /\ sid'[r] = sid[r]
    BY <1>4, <1>t, <1>e, LoadFinds DEF TypeOK
  <2>5. copy'[r].flash = m => Keep(m) \subseteq {sid'[r]}
    BY <2>2, <2>4 DEF Flash
  <2> QED
    BY <2>1, <2>2, <2>3, <2>4, <2>5, FlashAlone DEF Flash
<1>5. ASSUME NEW r \in Requests, Respond(r) PROVE Flash(m)'
  <2>1. /\ Alone(r) /\ UNCHANGED <<job, tabs>> /\ pc[r] = "respond"
        /\ shown'[r] = shown[r] /\ pc'[r] \in {"done", "away"}
    BY <1>5, <1>t, RespondMeans DEF Empties
  <2>2. Flash(m)
    BY <1>0, <2>1
  <2>3. ASSUME copy[r].flash = m \/ shown[r] = m
        PROVE  /\ Live(r) \/ r \notin modified
               /\ \A q \in Requests :
                    Live(q) /\ (copy[q].flash = m \/ shown[q] = m) => q = r
    <3>1. \A q \in Requests : copy[q].flash = m \/ shown[q] = m => By(q) = By(m)
      BY ConstantFacts DEF OwnInv, Own
    <3>2. By(m) \notin tabs
      BY <2>1 DEF By
    <3>3. Live(r)
      BY <2>1, <2>3, <1>a, <1>e, ConstantFacts DEF Hand
    <3> QED
      BY <2>3, <3>1, <3>2, <3>3 DEF SoloInv
  <2>4. ASSUME NEW q \in Requests \ {r} PROVE Live(q)' <=> Live(q)
    BY <2>1, <2>4 DEF Alone
  <2>5. \A q \in Requests \ {r} : /\ copy'[q] = copy[q] /\ shown'[q] = shown[q]
                                  /\ sid'[q] = sid[q] /\ (At(q, "done")' <=> At(q, "done"))
    BY <2>1 DEF Alone
  <2>6. ~Live(r)'
    BY <2>1
  <2>7. CASE copy[r].flash = m
    <3>1. shown[r] # m /\ \A q \in Requests : At(q, "done") => shown[q] # m
      BY <2>1, <2>2, <2>3, <2>7, <1>a, <1>e, ConstantFacts DEF Flash, Hand
    <3>2. Keep(m)' \subseteq Keep(m) \cup {Place(r)}
      BY <1>5, <1>t, RespondMeans DEF TypeOK
    <3>3. Live(r)
      BY <2>1, <2>7, <1>a, <1>e DEF Hand
    <3>4. Keep(m) \subseteq {sid[r]} /\ None \notin Keep(m)
      BY <2>2, <2>7, <3>3, ConstantFacts DEF Flash
    <3>5. Keep(m) \subseteq {Place(r)}
      BY <3>4 DEF Place
    <3>6. \A q \in Requests : Live(q)' => copy'[q].flash # m /\ shown'[q] # m
      BY <2>3, <2>4, <2>5, <2>6, <2>7
    <3>7. \A q \in Requests : At(q, "done")' => shown'[q] # m
      BY <2>1, <2>5, <3>1
    <3> QED
      BY <3>2, <3>5, <3>6, <3>7 DEF Flash
  <2>8. CASE copy[r].flash # m /\ shown[r] = m
    <3>1. r \in modified /\ sid[r] # None /\ Live(r)
      BY <2>1, <2>8, <1>a, <1>e, ConstantFacts DEF Hand
    <3>2. sid[r] \in Id /\ Place(r) = sid[r]
      BY <1>t, <3>1 DEF TypeOK, Place
    <3>3. store'[sid[r]] = None \/ store'[sid[r]] = copy[r]
      BY <1>5, <1>t, <3>1, <3>2, RespondMeans DEF TypeOK
    <3>4. Keep(m) \subseteq {sid[r]}
      BY <2>2, <2>8, <3>1 DEF Flash
    <3>5. Keep(m)' \subseteq Keep(m) \ {sid[r]}
      BY <1>5, <1>t, <2>8, <3>2, <3>3, RespondMeans DEF TypeOK
    <3>6. \A q \in Requests \ {r} : Live(q) => copy[q].flash # m /\ shown[q] # m
      BY <2>3, <2>8
    <3>7. \A q \in Requests \ {r} : shown[q] # m
      <4> SUFFICES ASSUME NEW q \in Requests \ {r}, shown[q] = m PROVE FALSE
        OBVIOUS
      <4>1. CASE At(q, "done")
        BY <2>1, <2>2, <2>8, <4>1 DEF Flash
      <4>2. CASE At(q, "respond")
        BY <3>6, <4>2, <1>a, ConstantFacts DEF Hand
      <4> QED
        BY <4>1, <4>2, <1>a, ConstantFacts DEF Hand
    <3>8. Keep(m)' = {} /\ \A q \in Requests : Live(q)' => copy'[q].flash # m
      BY <2>4, <2>5, <2>6, <3>4, <3>5, <3>6
    <3>9. \A q \in Requests : shown'[q] = m => q = r
      BY <2>5, <3>7
    <3> QED
      BY <3>8, <3>9 DEF Flash
  <2>9. CASE copy[r].flash # m /\ shown[r] # m
    <3>1. Keep(m)' \subseteq Keep(m)
      BY <1>5, <1>t, <2>9, RespondMeans DEF TypeOK
    <3> QED
      BY <2>1, <2>2, <2>6, <2>9, <3>1, FlashAlone
  <2> QED
    BY <2>7, <2>8, <2>9
<1>6. ASSUME NEW r \in Requests, Return(r) PROVE Flash(m)'
  BY <1>0, <1>6, <1>t, <1>a, ReturnMeans, FlashAlone, ConstantFacts DEF Hand
<1>7. ASSUME NEW r \in Requests, Cycle(r) PROVE Flash(m)'
  <2>1. /\ Alone(r) /\ pc[r] = "cycle" /\ pc'[r] # "done" /\ UNCHANGED <<job, tabs>>
        /\ Keep(m)' \subseteq Keep(m) \ {sid[r]} /\ copy'[r].flash = copy[r].flash
    BY <1>7, <1>t, CycleMeans DEF TypeOK
  <2>2. Flash(m)
    BY <1>0, <2>1
  <2>3. shown'[r] # m /\ Live(r)
    BY <1>7, <1>t, <1>a, CycleMeans, ConstantFacts DEF Hand, KindInv
  <2> QED
    BY <2>1, <2>2, <2>3, FlashAlone DEF Flash
<1>8. ASSUME NEW r \in Requests, Page(r) PROVE Flash(m)'
  <2>1. /\ Alone(r) /\ Keep(m)' = Keep(m) /\ pc[r] = "page" /\ pc'[r] = "respond"
        /\ UNCHANGED <<job, tabs>> /\ sid'[r] = sid[r]
        /\ copy'[r].flash # m /\ shown'[r] = copy[r].flash
    BY <1>8, <1>t, PageMeans, ConstantFacts
  <2>2. Flash(m)
    BY <1>0, <2>1
  <2>3. Live(r)
    BY <2>1, <1>t DEF KindInv
  <2> QED
    BY <2>1, <2>2, <2>3, FlashAlone DEF Flash
<1>9. ASSUME NEW r \in Requests, Fail(r) PROVE Flash(m)'
  <2>1. /\ Alone(r) /\ Keep(m)' = Keep(m) /\ pc[r] # "idle" /\ pc'[r] = "done"
        /\ UNCHANGED <<job, tabs>> /\ shown'[r] # m
    BY <1>9, <1>t, FailMeans, ConstantFacts DEF Empties
  <2> QED
    BY <1>0, <2>1, FlashAlone
<1>10. ASSUME NEW id \in Id, SessionExpires(id) PROVE Flash(m)'
  <2>1. /\ Keep(m)' \subseteq Keep(m)
        /\ UNCHANGED <<job, pc, copy, shown, sid, tabs>>
    BY <1>10, <1>t DEF SessionExpires, local, TypeOK
  <2>2. Flash(m)
    BY <2>1 DEF FlashInv, By
  <2> QED
    BY <2>1, <2>2 DEF Flash
<1>11. CASE Same
  BY <1>11 DEF Same, FlashInv, Flash, By
<1> QED
  BY <1>t, <1>1, <1>2, <1>3, <1>4, <1>5, <1>6, <1>7, <1>8, <1>9, <1>10, <1>11,
     Shapes DEF Other

\* A step that changes no session and no browser.
LEMMA PageQuiet ==
  ASSUME PageInv, KindInv', NEW r \in Requests, Alone(r), tabs \subseteq tabs',
         UNCHANGED <<store, cookie, newest>>,
         Browses(r)' /\ By(r)' \notin tabs' => Held(r)'
  PROVE  PageInv'
<1>1. ASSUME NEW u \in Users \ tabs', cookie'[u] # None, store'[cookie'[u]] # None
      PROVE  Current(store[cookie[u]], u)'
  BY <1>1 DEF PageInv, Current
<1>2. ASSUME NEW q \in Requests \ {r}, Browses(q)', By(q)' \notin tabs'
      PROVE  Held(q)'
  <2>1. Browses(q) /\ By(q)' = By(q) /\ By(q) \notin tabs
    BY <1>2 DEF Alone, Browses, InFlight, Is, By
  <2>2. Held(q)
    BY <2>1 DEF PageInv
  <2>3. Live(q)' => Live(q)
    BY <1>2 DEF Alone, Live, Browses, InFlight, Is
  <2> QED
    BY <2>1, <2>2, <2>3 DEF Held, Current, Alone
<1> QED
  BY <1>1, <1>2 DEF PageInv

\* A step of a request changes the session of its own browser at most, and
\* there the request is the only one.
LEMMA PageAlone ==
  ASSUME TypeOK, KindInv, OwnInv, SoloInv, PageInv, NEW r \in Requests, Alone(r),
         UNCHANGED <<job, tabs>>, Browses(r),
         \A v \in Users \ {By(r)} :
           /\ cookie'[v] = cookie[v] /\ newest'[v] = newest[v]
           /\ cookie[v] # None => store'[cookie[v]] \in {store[cookie[v]], None},
         By(r) \notin tabs /\ cookie'[By(r)] # None /\ store'[cookie'[By(r)]] # None
           => Current(store[cookie[By(r)]], By(r))',
         Browses(r)' /\ By(r) \notin tabs => Held(r)'
  PROVE  PageInv'
<1>0. \A q \in Requests : By(q)' = By(q)
  BY DEF By
<1>1. ASSUME NEW u \in Users \ tabs', cookie'[u] # None, store'[cookie'[u]] # None
      PROVE  Current(store[cookie[u]], u)'
  <2>1. CASE u = By(r)
    BY <1>1, <2>1, <1>0 DEF Current
  <2>2. CASE u # By(r)
    BY <1>1, <2>2 DEF PageInv, Current
  <2> QED
    BY <2>1, <2>2
<1>2. ASSUME NEW q \in Requests \ {r}, Browses(q)', By(q)' \notin tabs'
      PROVE  Held(q)'
  <2>1. Browses(q) /\ By(q) \notin tabs
    BY <1>0, <1>2 DEF Alone, Browses, InFlight, Is
  <2>2. By(q) # By(r) /\ By(q) \in Users
    BY <2>1 DEF SoloInv, KindInv, Browses, InFlight, Flying, At, Task, By
  <2>3. Held(q) /\ cookie'[By(q)] = cookie[By(q)] /\ newest'[By(q)] = newest[By(q)]
    BY <2>1, <2>2 DEF PageInv
  <2>4. Live(q)' => Live(q)
    BY <1>2 DEF Alone, Live, Browses, InFlight, Is
  <2> QED
    BY <1>0, <2>3, <2>4 DEF Held, Current, Alone
<1>3. Browses(r)' /\ By(r)' \notin tabs' => Held(r)'
  BY <1>0
<1> QED
  BY <1>1, <1>2, <1>3 DEF PageInv

\* The token of a page is where the next form looks for it.
LEMMA PageStep ==
  XInv /\ SoloInv /\ HandInv /\ OwnInv /\ PageInv /\ [Next]_vars => PageInv'
<1> SUFFICES ASSUME XInv, SoloInv, HandInv, OwnInv, PageInv, [Next]_vars
             PROVE  PageInv'
  OBVIOUS
<1>t. TypeOK /\ KindInv /\ CopyInv /\ MarkInv /\ KindInv'
  BY XStep DEF XInv
<1>a. \A r \in Requests : Hand(r)
  BY DEF HandInv
<1>u. \A r \in Requests : ~At(r, "idle") => By(r) \in Users
  BY <1>t DEF KindInv, Task, By
<1>e. \A u : Current(Empty, u)
  BY DEF Current, Empty
<1>1. ASSUME NEW r \in Requests, Work(r) PROVE PageInv'
  <2>1. /\ UNCHANGED <<store, cookie, newest, job, tabs>> /\ sid'[r] = sid[r]
        /\ pc[r] \notin {"load", "reload"} /\ pc'[r] \notin {"load", "reload"}
        /\ copy'[r].csrf = copy[r].csrf /\ copy'[r].user = copy[r].user
    BY <1>1 DEF Work
  <2>2. ASSUME Browses(r)', By(r)' \notin tabs' PROVE Held(r)'
    <3>1. Live(r) /\ By(r)' = By(r) /\ By(r) \notin tabs
      BY <1>1, <2>1, <2>2 DEF Live, Browses, InFlight, Is, By, Work
    <3>2. Held(r)
      BY <3>1 DEF PageInv, Live
    <3> QED
      BY <2>1, <3>1, <3>2 DEF Held, Current
  <2> QED
    BY <1>1, <1>t, <2>1, <2>2, PageQuiet DEF Work
<1>2. ASSUME NEW r \in Requests, Drop(r) PROVE PageInv'
  <2>1. Browses(r) /\ By(r) \in Users
    BY <1>2, <1>a, <1>t, <1>u DEF Drop, Browses, InFlight, Flying, At, Is, Hand, KindInv
  <2>2. newest'[By(r)] = None /\ By(r)' = By(r)
    BY <1>2, <1>t, <2>1 DEF Drop, TypeOK, By
  <2>3. \A s : Current(s, By(r))'
    BY <2>2 DEF Current
  <2>4. \A v \in Users \ {By(r)} :
           /\ cookie'[v] = cookie[v] /\ newest'[v] = newest[v]
           /\ cookie[v] # None => store'[cookie[v]] \in {store[cookie[v]], None}
    BY <1>2, <1>t DEF Drop, TypeOK
  <2>5. By(r) \notin tabs => Held(r)'
    <3>1. By(r) \notin tabs => Held(r)
      BY <2>1 DEF PageInv
    <3>2. cookie'[By(r)] \in {cookie[By(r)], None}
      BY <1>2, <1>t, <2>1 DEF Drop, TypeOK
    <3> QED
      BY <1>2, <2>2, <2>3, <3>1, <3>2 DEF Held, Drop
  <2> QED
    BY <1>2, <1>t, <2>1, <2>2, <2>3, <2>4, <2>5, PageAlone DEF Drop
<1>3. ASSUME NEW r \in Requests, Send(r) PROVE PageInv'
  <2>1. Browses(r)' => Held(r)'
    <3>1. Browses(r)' => pc'[r] # "incr"
      BY <1>3, <1>t, <1>a, SendMeans DEF Browses
    <3> QED
      BY <1>3, <1>t, <3>1, SendMeans DEF HandInv, Held, Current, Empty
  <2> QED
    BY <1>3, <1>t, <2>1, SendMeans, PageQuiet
<1>4. ASSUME NEW r \in Requests, Load(r) PROVE PageInv'
  <2>1. ASSUME Browses(r)', By(r)' \notin tabs' PROVE Held(r)'
    <3>1. /\ pc[r] \in {"load", "reload"} /\ pc'[r] \notin {"load", "reload"}
          /\ ~Is(r, "promote") /\ By(r)' = By(r) /\ tabs' = tabs
          /\ UNCHANGED <<store, cookie, newest>>
      BY <1>4, <1>t, LoadFinds DEF By
    <3>2. Held(r) /\ By(r) \in Users \ tabs
      BY <2>1, <3>1, <1>u DEF PageInv, Browses, InFlight, Flying, At
    <3>3. CASE sid'[r] = None /\ copy'[r] = Empty
      BY <3>1, <3>3 DEF Held, Current, Empty
    <3>4. CASE /\ sid[r] # None /\ store[sid[r]] # None
               /\ sid'[r] = sid[r] /\ copy'[r] = store[sid[r]]
      <4>1. cookie[By(r)] = sid[r] /\ Current(store[sid[r]], By(r))
        BY <3>1, <3>2, <3>4 DEF Held, PageInv
      <4> QED
        BY <3>1, <3>4, <4>1 DEF Held, Current
    <3> QED
      BY <1>4, <1>t, <3>3, <3>4, LoadFinds
  <2> QED
    BY <1>4, <1>t, <2>1, LoadFinds, PageQuiet
<1>5. ASSUME NEW r \in Requests, Respond(r) PROVE PageInv'
  <2>1. /\ Alone(r) /\ UNCHANGED <<job, tabs>> /\ pc[r] = "respond"
        /\ pc'[r] \in {"done", "away"} /\ By(r) \in Users
    BY <1>5, <1>t, <1>u, RespondMeans DEF Empties, At
  <2>2. CASE Is(r, "promote")
    <3>1. r \notin modified /\ copy[r].csrf # r
      BY <1>a, <2>1, <2>2 DEF Hand, InFlight, Flying
    <3>2. UNCHANGED <<store, cookie, newest>> /\ ~Browses(r)'
      BY <1>5, <1>t, <2>1, <3>1, RespondMeans DEF Browses, InFlight, Flying
    <3> QED
      BY <1>t, <2>1, <3>2, PageQuiet
  <2>3. CASE ~Is(r, "promote")
    <3>1. Browses(r) /\ Live(r) /\ ~Browses(r)'
      BY <2>1, <2>3 DEF Live, Browses, InFlight, Flying
    <3>2. Place(r) \in Id /\ OwnedBy(Place(r), By(r))
      BY <1>t, <2>1, PlaceOwned DEF TypeOK, Place, NewId, Id
    <3>3. \A i \in Id : store'[i] = store[i] \/ i = Place(r)
      BY <1>5, <1>t, <3>2, RespondMeans DEF TypeOK
    <3>4. ASSUME NEW v \in Users \ {By(r)}
          PROVE  /\ cookie'[v] = cookie[v] /\ newest'[v] = newest[v]
                 /\ cookie[v] # None => store'[cookie[v]] \in {store[cookie[v]], None}
      <4>1. cookie'[v] = cookie[v] /\ newest'[v] = newest[v]
        BY <1>5, <1>t, <2>1, RespondMeans DEF TypeOK
      <4>2. cookie[v] # None => cookie[v] \in Id /\ OwnedBy(cookie[v], v)
        BY <1>t DEF OwnInv, TypeOK
      <4>3. cookie[v] # None => cookie[v] # Place(r)
        BY <2>1, <3>2, <4>2, OneOwner
      <4> QED
        BY <3>3, <4>1, <4>2, <4>3
    <3>5. ASSUME By(r) \notin tabs, cookie'[By(r)] # None, store'[cookie'[By(r)]] # None
          PROVE  Current(store[cookie[By(r)]], By(r))'
      <4>h. Held(r)
        BY <3>1, <3>5 DEF PageInv
      <4>c. \/ cookie'[By(r)] = cookie[By(r)]
            \/ r \in modified /\ cookie'[By(r)] = Place(r)
        BY <1>5, <1>t, <2>1, RespondMeans DEF TypeOK
      <4>s. r \in modified => \/ store'[Place(r)] = copy[r]
                              \/ sid[r] # None /\ store'[Place(r)] = None
        BY <1>5, <1>t, <3>2, RespondMeans DEF TypeOK, Place
      <4>u. r \notin modified => store' = store
        BY <1>5, <1>t, RespondMeans
      <4>1. CASE Is(r, "panel") /\ copy[r].csrf = r
        <5>1. newest'[By(r)] = r /\ By(r)' = By(r)
          BY <1>5, <1>t, <2>1, <4>1, RespondMeans DEF TypeOK, By
        <5>2. r \in modified /\ sid[r] # None
          BY <1>a, <4>1 DEF Hand
        <5>3. cookie'[By(r)] = Place(r)
          BY <3>5, <4>h, <4>c, <5>2 DEF Held, Place
        <5> QED
          BY <3>5, <4>1, <4>s, <5>1, <5>2, <5>3 DEF Current
      <4>2. CASE ~(Is(r, "panel") /\ copy[r].csrf = r)
        <5>1. newest' = newest /\ By(r)' = By(r)
          BY <1>5, <1>t, <2>1, <4>2, RespondMeans DEF By
        <5>2. copy[r].csrf # r
          BY <1>t, <4>2 DEF MarkInv
        <5>3. Current(copy[r], By(r))
          BY <3>1, <4>h, <5>2 DEF Held
        <5>4. CASE cookie'[By(r)] = Place(r) /\ r \in modified
          BY <3>5, <4>s, <5>1, <5>3, <5>4 DEF Current
        <5>5. CASE cookie'[By(r)] = cookie[By(r)]
          <6>1. cookie[By(r)] \in Id
            BY <1>t, <2>1, <3>5, <5>5 DEF TypeOK
          <6>2. CASE store'[cookie[By(r)]] = store[cookie[By(r)]]
            BY <2>1, <3>5, <5>1, <5>5, <6>2 DEF PageInv, Current
          <6>3. CASE cookie[By(r)] = Place(r) /\ r \in modified
            BY <3>5, <4>s, <5>1, <5>3, <5>5, <6>3 DEF Current
          <6> QED
            BY <3>3, <4>u, <6>1, <6>2, <6>3
        <5> QED
          BY <4>c, <5>4, <5>5
      <4> QED
        BY <4>1, <4>2
    <3> QED
      BY <1>t, <2>1, <3>1, <3>4, <3>5, PageAlone
  <2> QED
    BY <2>2, <2>3
<1>6. ASSUME NEW r \in Requests, Return(r) PROVE PageInv'
  <2>1. Held(r)'
    BY <1>6, <1>t, ReturnMeans DEF Held, By, Live
  <2> QED
    BY <1>6, <1>t, <2>1, ReturnMeans, PageQuiet
<1>7. ASSUME NEW r \in Requests, Cycle(r) PROVE PageInv'
  <2>1. Browses(r) /\ By(r) \in Users
    BY <1>7, <1>t, <1>u, CycleMeans DEF Browses, InFlight, Flying, At, Is, KindInv
  <2>2. newest'[By(r)] = None /\ By(r)' = By(r)
    BY <1>7, <1>t, <2>1, CycleMeans DEF TypeOK, By
  <2>3. \A s : Current(s, By(r))'
    BY <2>2 DEF Current
  <2>4. \A v \in Users \ {By(r)} :
           /\ cookie'[v] = cookie[v] /\ newest'[v] = newest[v]
           /\ cookie[v] # None => store'[cookie[v]] \in {store[cookie[v]], None}
    BY <1>7, <1>t, CycleMeans DEF TypeOK
  <2>5. Held(r)'
    BY <1>7, <1>t, <2>3, CycleMeans DEF Held
  <2> QED
    BY <1>7, <1>t, <2>1, <2>2, <2>3, <2>4, <2>5, CycleMeans, PageAlone
<1>8. ASSUME NEW r \in Requests, Page(r) PROVE PageInv'
  <2>1. Browses(r) /\ By(r)' = By(r)
    BY <1>8, <1>t, PageMeans DEF Browses, InFlight, Flying, At, Is, KindInv, By
  <2>2. By(r)' \notin tabs' => Held(r)'
    BY <1>8, <1>t, <2>1, PageMeans DEF Held, PageInv
  <2> QED
    BY <1>8, <1>t, <2>2, PageMeans, PageQuiet
<1>9. ASSUME NEW r \in Requests, Fail(r) PROVE PageInv'
  <2>1. ~Browses(r)'
    BY <1>9, <1>t, FailMeans DEF Empties, Browses, InFlight, Flying
  <2> QED
    BY <1>9, <1>t, <2>1, FailMeans, PageQuiet
<1>10. ASSUME NEW id \in Id, SessionExpires(id) PROVE PageInv'
  <2>1. /\ UNCHANGED <<job, pc, copy, sid, cookie, tabs>>
        /\ store' = [store EXCEPT ![id] = None]
        /\ \A u \in Users : /\ newest'[u] = newest[u] \/ newest'[u] = None
                            /\ cookie[u] = id => newest'[u] = None
    BY <1>10 DEF SessionExpires, local, browser
  <2>2. ASSUME NEW u \in Users \ tabs', cookie'[u] # None, store'[cookie'[u]] # None
        PROVE  Current(store[cookie[u]], u)'
    BY <1>t, <2>1, <2>2 DEF PageInv, Current, TypeOK
  <2>3. ASSUME NEW r \in Requests, Browses(r)', By(r)' \notin tabs'
        PROVE  Held(r)'
    <3>1. Browses(r) /\ By(r) \in Users /\ Held(r)
      BY <1>u, <2>1, <2>3 DEF PageInv, Browses, InFlight, Flying, At, Is, By
    <3> QED
      BY <2>1, <3>1 DEF Held, Current, Live, Browses, InFlight, Is, By
  <2> QED
    BY <2>2, <2>3 DEF PageInv
<1>11. CASE Same
  BY <1>11 DEF PageInv, Same, Held, Current, Live, Browses, InFlight, Is, By
<1> QED
  BY <1>t, <1>1, <1>2, <1>3, <1>4, <1>5, <1>6, <1>7, <1>8, <1>9, <1>10, <1>11,
     Shapes DEF Other

----------------------------------------------------------------------------
\* To begin with, a browser is logged in with one page, or not.
LEMMA BInit == Init => BInv
<1> SUFFICES ASSUME Init PROVE BInv
  OBVIOUS
<1> USE ConstantFacts
<1>0. PICK In \in SUBSET Users, rl \in [Users -> Role] :
        /\ store = [i \in Id |-> IF i \in In
                                 THEN [Empty EXCEPT !.user = i, !.role = rl[i],
                                                    !.csrf = i]
                                 ELSE None]
        /\ cookie = [u \in Users |-> IF u \in In THEN u ELSE None]
        /\ newest = cookie
  BY DEF Init
<1>1. /\ pc = [r \in Requests |-> "idle"] /\ copy = [r \in Requests |-> Empty]
      /\ sid = [r \in Requests |-> None] /\ shown = [r \in Requests |-> None]
      /\ modified = {}
  BY DEF Init
<1>2. \A r \in Requests : ~InFlight(r) /\ ~Browses(r) /\ ~Live(r)
  BY <1>1 DEF InFlight, Browses, Live, Flying
<1>3. ASSUME NEW i \in Id, store[i] # None
      PROVE  i \in Users /\ store[i].flash = None /\ store[i].user = i /\ store[i].csrf = i
  BY <1>0, <1>3 DEF Empty
<1>4. SoloInv
  BY <1>2 DEF SoloInv
<1>5. HandInv
  <2>1. \A r \in Requests : Hand(r)
    BY <1>1, <1>2 DEF Hand, Whole, Empty, At
  <2> QED
    BY <1>3, <2>1 DEF HandInv, Whole
<1>6. OwnInv
  <2>1. \A u \in Users : cookie[u] # None => OwnedBy(cookie[u], u)
    BY <1>0 DEF OwnedBy
  <2>2. \A r \in Requests : Own(r)
    BY <1>1 DEF Own, Empty
  <2> QED
    BY <1>3, <2>1, <2>2 DEF OwnInv
<1>7. FlashInv
  BY <1>1 DEF FlashInv, At
<1>8. PageInv
  <2>1. ASSUME NEW u \in Users, cookie[u] # None, store[cookie[u]] # None
        PROVE  Current(store[cookie[u]], u)
    <3>1. cookie[u] = u /\ newest[u] = u /\ u \in Id
      BY <1>0, <2>1 DEF Id
    <3> QED
      BY <1>3, <2>1, <3>1 DEF Current
  <2> QED
    BY <1>2, <2>1 DEF PageInv
<1> QED
  BY <1>4, <1>5, <1>6, <1>7, <1>8 DEF BInv

\* BInv is inductive on top of XInv.
LEMMA BStep == XInv /\ BInv /\ [Next]_vars => BInv'
BY SoloStep, HandStep, OwnStep, FlashStep, PageStep DEF BInv, XInv

\* What the sessions, messages and pages of a browser have to do with each
\* other, in every state.
THEOREM Browsers == Spec => []BInv
<1>1. Init /\ []XInv /\ [][Next]_vars => []BInv
  BY BInit, BStep, PTL
<1> QED
  BY <1>1, Invariance, PTL DEF Spec

\* The message that session.remove takes out of the session for a page is on no
\* other page of that browser, unless its requests overlapped.
THEOREM FlashesOnce == Spec => []FlashOnce
<1>1. XInv /\ BInv => FlashOnce
  <2> SUFFICES ASSUME XInv, BInv, NEW q \in Requests, NEW r \in Requests,
                      At(q, "done"), At(r, "done"), shown[q] # None,
                      shown[q] = shown[r], By(r) \notin tabs
               PROVE  q = r
    BY DEF FlashOnce
  <2>1. shown[r] \in Requests
    BY DEF XInv, TypeOK
  <2>2. By(shown[r]) = By(r) /\ ~At(shown[r], "idle")
    BY DEF BInv, OwnInv, Own, At
  <2>3. Flash(shown[r])
    BY <2>1, <2>2 DEF BInv, FlashInv
  <2> QED
    BY <2>3 DEF Flash
<1> QED
  BY <1>1, Invariance, Browsers, PTL

\* The form check of the panel refuses no form of the newest page, unless
\* requests of the browser overlapped.
THEOREM MismatchesExplained == Spec => []MismatchExplained
<1>1. XInv /\ BInv => MismatchExplained
  <2> SUFFICES ASSUME XInv, BInv, NEW r \in Requests, At(r, "respond"),
                      Is(r, "change"), copy[r].role = "admin",
                      copy[r].csrf # form[r], form[r] = newest[By(r)],
                      By(r) \notin tabs
               PROVE  FALSE
    BY DEF MismatchExplained
  <2>1. Browses(r) /\ Live(r)
    BY DEF Browses, Live, InFlight, Flying, At, Is
  <2>2. Hand(r) /\ Held(r)
    BY <2>1 DEF BInv, HandInv, PageInv
  <2>3. form[r] # None
    BY <2>1, <2>2 DEF Hand, Browses
  <2>4. copy[r].user # None
    BY <2>2, ConstantFacts DEF Hand, Whole, Role
  <2>5. copy[r].csrf # r
    BY DEF XInv, MarkInv, Is
  <2> QED
    BY <2>1, <2>2, <2>3, <2>4, <2>5 DEF Held, Current
<1> QED
  BY <1>1, Invariance, Browsers, PTL

=============================================================================
