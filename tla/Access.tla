------------------------------- MODULE Access -------------------------------
(***************************************************************************)
(* Who may do what: logins and sessions (routes/auth.rs), the role check   *)
(* of every request (routes/mod.rs), the administration panel and the      *)
(* other handlers that give and take roles (routes/admin.rs, users.rs),    *)
(* and the emergency promotion with its rate limit (routes/emergency.rs).  *)
(*                                                                         *)
(* A session is one record in Redis.  The session layer loads it with the  *)
(* first access of a request, the handler works on that copy, and the      *)
(* whole copy is written back with the answer, if it was modified and the  *)
(* answer is no server error.  Roles are in Keycloak and are asked for on  *)
(* every request.                                                          *)
(***************************************************************************)
EXTENDS Naturals

CONSTANTS Users,     \* people, each with a browser of her own
          Requests,  \* what they send; a login is two HTTP requests
          Tasks,     \* what each request may ask for
          Limit,     \* attempts at a promotion in one window: 3 in the code
          None

Role == {"admin", "operator"}

\* panel: GET /admin.  change: a form that gives or takes a role; only that of
\* revoke_access is guarded against taking one's own admin role.
Kind == {"login", "logout", "panel", "change", "promote"}
Task == [kind : Kind, by : Users, target : Users, role : Role,
         gives : BOOLEAN, guarded : BOOLEAN]

\* Session ids, tokens of forms, flash messages and login flows are named after
\* the request that makes them, or after the user whose session was there to
\* begin with.  A login makes an id when it starts and one when it ends.
Token == Users \cup Requests
Id == Users \cup (Requests \X {"start", "end"})
Session == [user : Users \cup {None}, role : Role \cup {None},
            csrf : Token \cup {None}, flash : Requests \cup {None},
            flow : Requests \cup {None}]
Empty == [user |-> None, role |-> None, csrf |-> None, flash |-> None,
          flow |-> None]

ASSUME AccessAssumption ==
  /\ Tasks \in [Requests -> SUBSET Task]
  /\ Limit \in Nat
  /\ None \notin Id \cup Requests \cup Role \cup Session \cup Task
  /\ Users \cap Requests = {}
  /\ Users \cap (Requests \X {"start", "end"}) = {}

Flying == {"load", "begin", "away", "reload", "exchange", "verify", "cycle",
           "flush", "roles", "page", "role", "audit", "flash",
           "respond", "incr", "ttl", "promote"}
Control == {"idle", "done"} \cup Flying

\* crossed      an admin role was taken by somebody who had lost hers since she
\*              was let in
\* selfRemoved  somebody took her own admin role on the page of a user
\* noTtl        the call that gives the attempts counter its TTL has failed
Fault == {"crossed", "selfRemoved", "noTtl"}

VARIABLES
  roles,     \* Keycloak: the effective roles of a user
  store,     \* Redis: the session records
  limiter,   \* Redis: the attempts counter, and whether it has a TTL
  cookie,    \* the session id a browser holds
  pages,     \* the form tokens of the pages a browser has shown
  job, pc,   \* a request, and where its handler is
  sid,       \* the session id it works with
  copy,      \* the session as it holds it
  modified,  \* requests that have changed their copy
  form,      \* the token of the form it was sent from
  claim,     \* the role in the token a login has received
  shown,     \* the flash message on a page
  audit,     \* history: requests under way with a success entry
  made,      \* history: those that have changed a role
  rightful,  \* history: those whose sender has been an admin since sending
  stripped,  \* history: those whose sender lost that role since the check
  ended,     \* history: session ids that were deleted
  passed,    \* history: attempts let through in this window
  newest,    \* history: the token of the last page of a browser
  tabs,      \* history: browsers that had two requests under way at once
  fault      \* history

redis == <<store, limiter>>
browser == <<cookie, pages>>
local == <<sid, copy, modified, form, claim, shown>>
history == <<audit, made, rightful, stripped, ended, passed, newest,
             tabs, fault>>
vars == <<roles, redis, browser, job, pc, local, history>>

At(r, s) == pc[r] = s
Goto(r, s) == pc' = [pc EXCEPT ![r] = s]
Is(r, k) == job[r].kind = k
By(r) == job[r].by
InFlight(r) == pc[r] \in Flying \ {"away"}
Admin(u) == "admin" \in roles[u]

\* Nobody is without a role.
Mutant_DefaultRole(R) == IF "admin" \in R THEN "admin"
                         ELSE IF "operator" \in R THEN "operator" ELSE "user"

\* Role::from_claims.
FromClaims(R) == IF "admin" \in R THEN "admin"
                 ELSE IF "operator" \in R THEN "operator" ELSE None

\* A browser is logged in, its cached role perhaps out of date, or not.
Init ==
  /\ roles \in [Users -> SUBSET Role]
  /\ \E In \in SUBSET Users : \E r \in [Users -> Role] :
       /\ store = [i \in Id |-> IF i \in In
                                THEN [Empty EXCEPT !.user = i, !.role = r[i],
                                                   !.csrf = i]
                                ELSE None]
       /\ cookie = [u \in Users |-> IF u \in In THEN u ELSE None]
       /\ pages = [u \in Users |-> IF u \in In THEN {u} ELSE {}]
       /\ newest = cookie
  /\ limiter = [n |-> 0, ttl |-> FALSE]
  /\ job = [r \in Requests |-> None]
  /\ pc = [r \in Requests |-> "idle"]
  /\ sid = [r \in Requests |-> None]
  /\ copy = [r \in Requests |-> Empty]
  /\ modified = {}
  /\ form = [r \in Requests |-> None]
  /\ claim = [r \in Requests |-> None]
  /\ shown = [r \in Requests |-> None]
  /\ audit = {} /\ made = {}
  /\ rightful = {} /\ stripped = {}
  /\ ended = {}
  /\ passed = 0
  /\ tabs = {}
  /\ fault = {}

\* Request r is not the only one of browser u that is under way.
Overlap(r, u) ==
  tabs' = IF \E q \in Requests \ {r} :
               InFlight(q) /\ By(q) = u /\ ~Is(q, "promote")
          THEN tabs \cup {u} ELSE tabs

\* What a change of the roles of u means for the requests under way.
RolesNow(u, R) ==
  /\ roles' = [roles EXCEPT ![u] = R]
  /\ rightful' = rightful \cup
       {q \in Requests : InFlight(q) /\ By(q) = u /\ "admin" \in R}
  /\ stripped' = stripped \cup
       {q \in Requests : At(q, "role") /\ By(q) = u /\ "admin" \notin R}

\* The end of a request, and of its locals.
Finish(r) ==
  /\ Goto(r, "done")
  /\ sid' = [sid EXCEPT ![r] = None]
  /\ copy' = [copy EXCEPT ![r] = Empty]
  /\ modified' = modified \ {r}
  /\ form' = [form EXCEPT ![r] = None]
  /\ claim' = [claim EXCEPT ![r] = None]
  /\ audit' = audit \ {r}
  /\ made' = made \ {r}
  /\ rightful' = rightful \ {r}
  /\ stripped' = stripped \ {r}

----------------------------------------------------------------------------
(* Faulty variants of actions below; see ChangeQueue.                      *)

\* The role in the session is trusted.
Mutant_CachedRole(r) ==
  /\ At(r, "roles")
  /\ IF copy[r].role = "admin"
     THEN Goto(r, IF Is(r, "panel") THEN "page" ELSE "role")
     ELSE Goto(r, "respond")
  /\ UNCHANGED <<roles, redis, browser, job, local, history>>

\* The message is read and left in the session.
Mutant_FlashStays(r) ==
  /\ At(r, "page")
  /\ copy' = [copy EXCEPT ![r].csrf = r]
  /\ shown' = [shown EXCEPT ![r] = copy[r].flash]
  /\ modified' = modified \cup {r}
  /\ Goto(r, "respond")
  /\ UNCHANGED <<roles, redis, browser, job, sid, form, claim, history>>

\* The id of the session stays as it was.
Mutant_NoCycle(r) ==
  /\ At(r, "cycle")
  /\ copy' = [copy EXCEPT ![r].user = By(r), ![r].role = claim[r],
                           ![r].flow = None]
  /\ modified' = modified \cup {r}
  /\ Goto(r, "respond")
  /\ UNCHANGED <<roles, redis, browser, job, sid, form, claim, shown, history>>

\* The `?` after audit_failure is forgotten.
Mutant_ErrorIgnored(r) ==
  /\ At(r, "role")
  /\ Goto(r, "audit")
  /\ UNCHANGED <<roles, redis, browser, job, local, history>>

\* The session is saved whatever the answer.
Mutant_ErrorSaved(r) ==
  /\ pc[r] \in Flying
  /\ store' = IF sid[r] # None /\ store[sid[r]] # None
              THEN [store EXCEPT ![sid[r]] = copy[r]] ELSE store
  /\ Finish(r)
  /\ UNCHANGED <<roles, limiter, browser, job, shown, ended, passed, newest,
                 tabs, fault>>

\* The counter gets no TTL.
Mutant_NoExpire(r) ==
  /\ At(r, "incr")
  /\ limiter' = [limiter EXCEPT !.n = @ + 1]
  /\ Goto(r, IF limiter.n < Limit THEN "promote" ELSE "respond")
  /\ passed' = IF limiter.n < Limit THEN passed + 1 ELSE passed
  /\ UNCHANGED <<roles, store, browser, job, local, audit, made,
                 rightful, stripped, ended, newest, tabs, fault>>

----------------------------------------------------------------------------
(* The session around a request.                                           *)

\* A form is sent from any page the browser has shown.
Send(r) ==
  /\ At(r, "idle")
  /\ \E t \in Tasks[r] :
       /\ job' = [job EXCEPT ![r] = t]
       /\ IF t.kind = "change"
          THEN \E p \in pages[t.by] : form' = [form EXCEPT ![r] = p]
          ELSE UNCHANGED form
       /\ IF t.kind = "promote" THEN UNCHANGED <<sid, tabs>>
          ELSE sid' = [sid EXCEPT ![r] = cookie[t.by]] /\ Overlap(r, t.by)
       /\ rightful' = IF Admin(t.by) THEN rightful \cup {r} ELSE rightful
       /\ Goto(r, CASE t.kind = "promote" -> "incr"
                    [] t.kind = "logout" -> "flush"
                    [] OTHER -> "load")
  /\ UNCHANGED <<roles, redis, browser, copy, modified, claim, shown,
                 audit, made, stripped, ended, passed, newest, fault>>

\* The first access.  An id that is not in Redis counts for nothing.
Load(r) ==
  /\ pc[r] \in {"load", "reload"}
  /\ LET found == sid[r] # None /\ store[sid[r]] # None
         s == IF found THEN store[sid[r]] ELSE Empty
     IN  /\ sid' = [sid EXCEPT ![r] = IF found THEN @ ELSE None]
         /\ copy' = [copy EXCEPT ![r] = s]
         /\ Goto(r, IF At(r, "reload")
                    THEN IF s.flow = r THEN "exchange" ELSE "respond"
                    ELSE IF Is(r, "login") THEN "begin"
                    ELSE IF s.user = None THEN "respond" ELSE "roles")
  /\ UNCHANGED <<roles, redis, browser, job, modified, form, claim, shown,
                 history>>

NewId(r) == <<r, IF claim[r] = None THEN "start" ELSE "end">>

\* The copy is saved if it was modified: under a new id if it has none, else
\* only if there is a record of that id still.  The answer may not arrive.
Respond(r) ==
  /\ At(r, "respond")
  /\ LET id == IF sid[r] = None THEN NewId(r) ELSE sid[r]
         shows == Is(r, "panel") /\ copy[r].csrf = r
     IN  /\ store' = IF r \in modified /\ (sid[r] = None \/ store[id] # None)
                     THEN [store EXCEPT ![id] = copy[r]] ELSE store
         /\ \/ /\ cookie' = IF r \in modified
                            THEN [cookie EXCEPT ![By(r)] = id] ELSE cookie
               /\ pages' = IF shows THEN [pages EXCEPT ![By(r)] = @ \cup {r}]
                                    ELSE pages
            \/ UNCHANGED browser
         /\ newest' = IF shows THEN [newest EXCEPT ![By(r)] = r] ELSE newest
  /\ IF copy[r].flow = r
     THEN /\ Goto(r, "away")
          /\ UNCHANGED <<local, audit, made, rightful, stripped>>
     ELSE Finish(r) /\ UNCHANGED shown
  /\ UNCHANGED <<roles, limiter, job, ended, passed, tabs, fault>>

\* session.flush(): the record is deleted and the cookie removed.
Flush(r) ==
  /\ store' = IF sid[r] = None THEN store ELSE [store EXCEPT ![sid[r]] = None]
  /\ ended' = ended \cup ({sid[r]} \ {None})
  /\ cookie' = [cookie EXCEPT ![By(r)] = IF @ = sid[r] THEN None ELSE @]
  /\ newest' = [newest EXCEPT ![By(r)] = None]
  /\ UNCHANGED <<sid, copy, modified>>

\* Its deletion fails: the error is ignored and the cleared session saved.
FlushFails(r) ==
  /\ copy' = [copy EXCEPT ![r] = Empty]
  /\ modified' = modified \cup {r}
  /\ newest' = [newest EXCEPT ![By(r)] = None]
  /\ UNCHANGED <<sid, store, ended, cookie>>

SessionExpires(id) ==
  /\ store[id] # None
  /\ store' = [store EXCEPT ![id] = None]
  /\ ended' = ended \cup {id}
  /\ newest' = [u \in Users |-> IF cookie[u] = id THEN None ELSE newest[u]]
  /\ UNCHANGED <<roles, limiter, browser, job, pc, local, audit, made,
                 rightful, stripped, passed, tabs, fault>>

----------------------------------------------------------------------------
(* start_login, callback and logout.                                       *)

\* A state and a nonce are stored, the browser goes to Keycloak.
Begin(r) ==
  /\ At(r, "begin")
  /\ copy' = [copy EXCEPT ![r].flow = r]
  /\ modified' = modified \cup {r}
  /\ Goto(r, "respond")
  /\ UNCHANGED <<roles, redis, browser, job, sid, form, claim, shown, history>>

\* Keycloak sends the browser back with a code.
Return(r) ==
  /\ At(r, "away")
  /\ sid' = [sid EXCEPT ![r] = cookie[By(r)]]
  /\ modified' = modified \ {r}
  /\ Overlap(r, By(r))
  /\ Goto(r, "reload")
  /\ UNCHANGED <<roles, redis, browser, job, copy, form, claim, shown,
                 audit, made, rightful, stripped, ended, passed,
                 newest, fault>>

\* exchange_code and session_user_from_token.  The token must name a role of
\* this application.
Exchange(r) ==
  /\ At(r, "exchange")
  /\ FromClaims(roles[By(r)]) # None
  /\ claim' = [claim EXCEPT ![r] = FromClaims(roles[By(r)])]
  /\ Goto(r, "cycle")
  /\ UNCHANGED <<roles, redis, browser, job, sid, copy, modified, form, shown,
                 history>>

\* cycle_id deletes the record; the answer creates one with a new id.
Cycle(r) ==
  /\ At(r, "cycle")
  /\ copy' = [copy EXCEPT ![r].user = By(r), ![r].role = claim[r],
                           ![r].flow = None]
  /\ modified' = modified \cup {r}
  /\ store' = [store EXCEPT ![sid[r]] = None]
  /\ ended' = ended \cup {sid[r]}
  /\ sid' = [sid EXCEPT ![r] = None]
  /\ newest' = [newest EXCEPT ![By(r)] = None]
  /\ Goto(r, "respond")
  /\ UNCHANGED <<roles, limiter, browser, job, form, claim, shown, audit, made,
                 rightful, stripped, passed, tabs, fault>>

Logout(r) ==
  /\ At(r, "flush")
  /\ Flush(r) \/ (sid[r] # None /\ FlushFails(r))
  /\ Goto(r, "respond")
  /\ UNCHANGED <<roles, limiter, pages, job, form, claim, shown, audit, made,
                 rightful, stripped, passed, tabs, fault>>

----------------------------------------------------------------------------
(* require_admin, then the handler.                                        *)

\* The guard compares the role only with its own kind of form.
Mutant_NoGuard(r) == job[r].gives /\ job[r].target = By(r)

\* Prevent self-lockout.
SelfLockout(r) == /\ job[r].guarded
                  /\ ~job[r].gives
                  /\ job[r].target = By(r)
                  /\ job[r].role = "admin"

\* Where a request goes whose sender is now an admin.
Admitted(r) == IF Is(r, "panel") THEN "page"
               ELSE IF copy[r].csrf # form[r] THEN "respond"
               ELSE IF SelfLockout(r) THEN "flash" ELSE "role"

\* The roles are asked for, the cached one is refreshed; without a role the
\* session ends.
Check(r) ==
  /\ At(r, "roles")
  /\ FromClaims(roles[By(r)]) # None
  /\ LET now == FromClaims(roles[By(r)]) IN
       /\ copy' = [copy EXCEPT ![r].role = now]
       /\ modified' = IF copy[r].role = now THEN modified
                                            ELSE modified \cup {r}
       /\ Goto(r, IF now = "admin" THEN Admitted(r) ELSE "respond")
  /\ UNCHANGED <<roles, redis, browser, job, sid, form, claim, shown, audit,
                 made, rightful, stripped, ended, passed, newest, tabs, fault>>

ShutOut(r) ==
  /\ At(r, "roles")
  /\ FromClaims(roles[By(r)]) = None
  /\ Flush(r) \/ FlushFails(r)
  /\ Goto(r, "respond")
  /\ UNCHANGED <<roles, limiter, pages, job, form, claim, shown, audit, made,
                 rightful, stripped, passed, tabs, fault>>

\* admin_panel: a new form token is stored, the flash message taken out.
Page(r) ==
  /\ At(r, "page")
  /\ copy' = [copy EXCEPT ![r].csrf = r, ![r].flash = None]
  /\ shown' = [shown EXCEPT ![r] = copy[r].flash]
  /\ modified' = modified \cup {r}
  /\ Goto(r, "respond")
  /\ UNCHANGED <<roles, redis, browser, job, sid, form, claim, history>>

\* assign_realm_role or remove_realm_role.
ChangeRole(r) ==
  /\ At(r, "role")
  /\ LET t == job[r].target
         x == job[r].role
     IN  /\ RolesNow(t, IF job[r].gives THEN roles[t] \cup {x}
                                        ELSE roles[t] \ {x})
         /\ fault' = IF job[r].gives \/ x # "admin" THEN fault
                     ELSE fault
                          \cup (IF r \in stripped THEN {"crossed"} ELSE {})
                          \cup (IF t = By(r) /\ ~job[r].guarded
                                THEN {"selfRemoved"} ELSE {})
  /\ made' = made \cup {r}

RoleChanged(r) ==
  /\ ChangeRole(r)
  /\ Goto(r, "audit")
  /\ UNCHANGED <<redis, browser, job, local, audit, ended, passed,
                 newest, tabs>>

\* The call is reported as failed, with effect or without: audit_failure, and
\* the error is answered.
RoleError(r) ==
  /\ At(r, "role")
  /\ UNCHANGED <<roles, rightful, stripped, fault, made>> \/ ChangeRole(r)
  /\ Goto(r, "respond")
  /\ UNCHANGED <<redis, browser, job, local, audit, ended, passed,
                 newest, tabs>>

Audit(r) ==
  /\ At(r, "audit")
  /\ audit' = audit \cup {r}
  /\ Goto(r, "flash")
  /\ UNCHANGED <<roles, redis, browser, job, local, made, rightful,
                 stripped, ended, passed, newest, tabs, fault>>

SetFlash(r) ==
  /\ At(r, "flash")
  /\ copy' = [copy EXCEPT ![r].flash = r]
  /\ modified' = modified \cup {r}
  /\ Goto(r, "respond")
  /\ UNCHANGED <<roles, redis, browser, job, sid, form, claim, shown, history>>

----------------------------------------------------------------------------
(* emergency_promote.                                                      *)

\* INCR; the first attempt of a window gives the key its TTL.
Incr(r) ==
  /\ At(r, "incr")
  /\ limiter' = [limiter EXCEPT !.n = @ + 1]
  /\ Goto(r, IF limiter.n = 0 THEN "ttl"
             ELSE IF limiter.n < Limit THEN "promote" ELSE "respond")
  /\ passed' = IF limiter.n < Limit THEN passed + 1 ELSE passed
  /\ UNCHANGED <<roles, store, browser, job, local, audit, made,
                 rightful, stripped, ended, newest, tabs, fault>>

\* Its result is ignored.
SetTtl(r) ==
  /\ At(r, "ttl")
  /\ \/ limiter' = [limiter EXCEPT !.ttl = TRUE] /\ UNCHANGED fault
     \/ fault' = fault \cup {"noTtl"} /\ UNCHANGED limiter
  /\ Goto(r, IF Limit = 0 THEN "respond" ELSE "promote")
  /\ UNCHANGED <<roles, store, browser, job, local, audit, made,
                 rightful, stripped, ended, passed, newest, tabs>>

\* The token is wrong or a call fails, or the target becomes an admin; the
\* entry is written as best it can.
Promote(r) ==
  /\ At(r, "promote")
  /\ \/ UNCHANGED <<roles, rightful, stripped>>
     \/ RolesNow(job[r].target, roles[job[r].target] \cup {"admin"})
  /\ Goto(r, "respond")
  /\ UNCHANGED <<redis, browser, job, local, audit, made, ended,
                 passed, newest, tabs, fault>>

WindowEnds ==
  /\ limiter.ttl
  /\ limiter' = [n |-> 0, ttl |-> FALSE]
  /\ passed' = 0
  /\ UNCHANGED <<roles, store, browser, job, pc, local, audit, made,
                 rightful, stripped, ended, newest, tabs, fault>>

----------------------------------------------------------------------------
\* A server error, or the client leaves or the process stops: nothing is saved.
Fail(r) ==
  /\ InFlight(r)
  /\ Finish(r)
  /\ shown' = [shown EXCEPT ![r] = None]
  /\ fault' = IF At(r, "ttl") THEN fault \cup {"noTtl"} ELSE fault
  /\ UNCHANGED <<roles, redis, browser, job, ended, passed, newest, tabs>>

Next ==
  \/ \E r \in Requests :
       \/ Send(r) \/ Load(r) \/ Respond(r)
       \/ Begin(r) \/ Return(r) \/ Exchange(r) \/ Cycle(r) \/ Logout(r)
       \/ Check(r) \/ ShutOut(r) \/ Page(r)
       \/ RoleChanged(r) \/ RoleError(r) \/ Audit(r) \/ SetFlash(r)
       \/ Incr(r) \/ SetTtl(r) \/ Promote(r)
       \/ Fail(r)
  \/ \E id \in Id : SessionExpires(id)
  \/ WindowEnds

Spec == Init /\ [][Next]_vars

----------------------------------------------------------------------------
(* Properties.                                                             *)

\* Every variable keeps the shape the code gives it.
TypeOK ==
  /\ roles \in [Users -> SUBSET Role]
  /\ store \in [Id -> Session \cup {None}]
  /\ limiter \in [n : Nat, ttl : BOOLEAN]
  /\ cookie \in [Users -> Id \cup {None}]
  /\ pages \in [Users -> SUBSET Token]
  /\ job \in [Requests -> Task \cup {None}]
  /\ pc \in [Requests -> Control]
  /\ sid \in [Requests -> Id \cup {None}]
  /\ copy \in [Requests -> Session]
  /\ form \in [Requests -> Token \cup {None}]
  /\ claim \in [Requests -> Role \cup {None}]
  /\ shown \in [Requests -> Requests \cup {None}]
  /\ \A S \in {modified, audit, made, rightful, stripped} :
       S \subseteq Requests
  /\ ended \subseteq Id
  /\ passed \in Nat
  /\ newest \in [Users -> Token \cup {None}]
  /\ tabs \subseteq Users
  /\ fault \subseteq Fault

\* Whoever changed a role or was shown the panel was an admin in Keycloak at
\* some moment since the request was sent, whatever her session said.
RoleFresh ==
  \A r \in Requests :
    r \in made \/ copy[r].csrf = r => r \in rightful

\* No step takes away the last admin role, unless somebody took her own on the
\* page of a user, which is not guarded, or took another's when she had lost
\* hers: two admins who revoke each other at the same time.
AdminRemains ==
  [][ /\ \E u \in Users : Admin(u)
      /\ fault' \cap {"crossed", "selfRemoved"} = {}
      => (\E u \in Users : Admin(u))' ]_vars

\* No more than the limit is let through in one window, and every window ends:
\* the counter has a TTL unless the call that sets it failed.
LimiterSound ==
  /\ passed <= Limit
  /\ limiter.n > 0 /\ (\A r \in Requests : ~At(r, "ttl"))
     => limiter.ttl \/ "noTtl" \in fault

\* A message is shown on one page at most, unless requests of the browser
\* overlapped: the later answer then writes it back.
FlashOnce ==
  \A q, r \in Requests :
    /\ At(q, "done") /\ At(r, "done")
    /\ shown[q] # None /\ shown[q] = shown[r]
    /\ By(r) \notin tabs
    => q = r

\* A form of the newest page of a session is not refused for its token, unless
\* requests of the browser overlapped.  A page that failed is no newer page.
MismatchExplained ==
  \A r \in Requests :
    /\ At(r, "respond") /\ Is(r, "change")
    /\ copy[r].role = "admin" /\ copy[r].csrf # form[r]
    => form[r] # newest[By(r)] \/ By(r) \in tabs

\* A session that was ended by a logout, a login, the loss of all roles or its
\* expiry does not come back, although requests that loaded it before may save
\* it after; and the id a login started with never names a session of a user.
SessionsEnd ==
  \A i \in Id :
    /\ i \in ended => store[i] = None
    /\ store[i] # None /\ store[i].user # None
       => i \notin Requests \X {"start"}

\* Who reads in the audit trail that a role was changed can rely on it, and
\* nobody is told of a change of which the audit trail has no entry.
RoleAuditTrue ==
  /\ audit \subseteq made
  /\ \A r \in made : copy[r].flash = r => r \in audit
=============================================================================
