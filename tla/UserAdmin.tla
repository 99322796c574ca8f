----------------------------- MODULE UserAdmin -----------------------------
(***************************************************************************)
(* The handlers of routes/users.rs that make accounts, end them, edit      *)
(* several at once and set passwords, and the traces they leave: the audit *)
(* trail, the deletion entries of the changes log, and the proposals of    *)
(* operators.  Each handler is a line of calls to Keycloak and S3; every   *)
(* call may fail, with or without effect, and other handlers run between   *)
(* two of them.                                                            *)
(*                                                                         *)
(* How one account is edited, write by write, is AccountUpdate; what       *)
(* becomes of a proposal is ChangeQueue.                                   *)
(***************************************************************************)
EXTENDS Naturals, Sequences

CONSTANTS Jobs,         \* requests
          Tasks,        \* what a request may ask for
          Old,          \* ids of the accounts there are to begin with
          Names,        \* usernames
          TopTeams,     \* groups at the top of Keycloak's tree
          NestedTeams,  \* groups below one of them
          None

\* The id of a new account: its creator's name serves.
Ids == Old \cup Jobs
Teams == TopTeams \cup NestedTeams

\* A request: who sends it, its form, and the accounts it is about.
Kind == {"create", "delete", "bulkDelete", "bulkEdit", "password"}
Task == [kind : Kind, admin : BOOLEAN, actor : Names, name : Names,
         targets : Seq(Ids), team : Teams \cup {None},
         enable : BOOLEAN \cup {None},
         password : {"none", "accepted", "refused"}, temporary : BOOLEAN]

ASSUME TasksAssumption ==
  /\ Tasks \subseteq Task
  /\ None \notin Ids \cup Names \cup Teams \cup BOOLEAN
  /\ Old \cap Jobs = {}
  /\ Jobs \cap {"old", "none", "update"} = {}
  /\ TopTeams \cap NestedTeams = {}
  /\ \A t \in Tasks :
       /\ t.kind = "create" <=> t.targets = <<>>
       /\ t.kind \in {"delete", "password"} => Len(t.targets) = 1
       /\ t.kind \in {"delete", "bulkDelete", "password"} => t.admin
       \* The page lists an account once.
       /\ \A m, n \in 1..Len(t.targets) : t.targets[m] = t.targets[n] => m = n

Action == {"create_user", "delete_user", "bulk_edit", "set_password",
           "propose_change"}
Entry == [by : Jobs, about : Ids \cup {None}, action : Action,
          outcome : {"success", "failure"}]
Write == [by : Jobs, about : Ids]
Effect == [by : Jobs, about : Ids,
           what : {"create", "delete", "password", "enable", "join"}]

Flying == {"findTeam", "post", "postBare", "fetch", "join", "attribute",
           "target", "delete", "record", "password", "lookup", "enable",
           "leave", "propose", "auditProposal", "audit", "auditFailure",
           "answer"}
Control == {"idle", "ok", "failed"} \cup Flying

VARIABLES
  name,        \* Keycloak: the username of an account, None if there is none
  enabled, teams, attribute,  \* its state, its groups, its team attribute
  credential,  \* whose password it has: "old", "none", "update" (required
               \* action UPDATE_PASSWORD), or the job that set it
  audit,       \* the audit trail
  log,         \* deletion entries of the changes log
  proposals,   \* proposals waiting for an admin
  job, pc,     \* a request, and where its handler is
  todo,        \* the accounts it still has to deal with, the present one first
  team,        \* the group it found for the team it was asked for
  skipped,     \* bulk_delete: the accounts it reports as skipped
  made,        \* history: the changes made to Keycloak
  hidden,      \* history: those whose call was reported as failed
  lost,        \* history: best-effort writes that failed
  noted,       \* history: the last set_password entry about an account
  mixed        \* history: accounts two password requests have met on

keycloak == <<name, enabled, teams, attribute, credential>>
s3 == <<audit, log, proposals>>
local == <<todo, team, skipped>>
history == <<made, hidden, lost, noted, mixed>>
vars == <<keycloak, s3, job, pc, local, history>>

At(j, s) == pc[j] = s
Goto(j, s) == pc' = [pc EXCEPT ![j] = s]
Is(j, k) == job[j].kind = k
Exists(i) == name[i] # None
TargetsOf(j) == {job[j].targets[n] : n \in 1..Len(job[j].targets)}
Target(j) == IF Is(j, "create") THEN j ELSE Head(todo[j])
Self(j) == name[Target(j)] = job[j].actor
Did(j, i, w) == [by |-> j, about |-> i, what |-> w] \in made
Make(j, w) == made' = made \cup {[by |-> j, about |-> Target(j), what |-> w]}

Init ==
  /\ name \in [Ids -> Names \cup {None}]
  /\ \A i \in Jobs : name[i] = None
  /\ \A i, k \in Old : name[i] = name[k] /\ name[i] # None => i = k
  /\ enabled = [i \in Ids |-> TRUE]
  /\ teams \in [Ids -> {{}} \cup {{t} : t \in Teams}]
  /\ attribute = [i \in Ids |-> IF teams[i] = {} THEN None
                                ELSE CHOOSE t \in teams[i] : TRUE]
  /\ \A i \in Ids : name[i] = None => teams[i] = {}
  /\ credential = [i \in Ids |-> IF name[i] = None THEN "none" ELSE "old"]
  /\ audit = {} /\ log = {} /\ proposals = {}
  /\ job \in [Jobs -> Tasks]
  /\ pc = [j \in Jobs |-> "idle"]
  /\ todo = [j \in Jobs |-> job[j].targets]
  /\ team = [j \in Jobs |-> None]
  /\ skipped = [j \in Jobs |-> {}]
  /\ made = {} /\ hidden = {} /\ lost = {}
  /\ noted = [i \in Ids |-> None]
  /\ mixed = {}

----------------------------------------------------------------------------
(* The order of the calls.                                                 *)

\* A team that was not found is assigned like any other.
Mutant_TeamNotFound(j, t) ==
  CASE job[j].kind = "create" -> "post"
    [] job[j].kind = "password" -> "password"
    [] job[j].kind \in {"delete", "bulkDelete"} -> "target"
    [] OTHER -> IF ~job[j].admin THEN "propose"
                ELSE IF job[j].enable # None THEN "enable" ELSE "leave"

\* The first call for an account, once the team asked for is found to be t.
CallFor(j, t) ==
  CASE job[j].kind = "create" -> "post"
    [] job[j].kind = "password" -> "password"
    [] job[j].kind \in {"delete", "bulkDelete"} -> "target"
    [] Is(j, "bulkEdit") /\ ~job[j].admin -> "propose"
    [] Is(j, "bulkEdit") /\ job[j].admin /\ job[j].enable # None -> "enable"
    [] OTHER -> IF t # None THEN "leave" ELSE "audit"

\* The loop of a batch goes on with the next account.
NextTarget(j) ==
  /\ todo' = [todo EXCEPT ![j] = Tail(@)]
  /\ Goto(j, CASE Len(todo[j]) > 1 -> CallFor(j, team[j])
               [] Is(j, "bulkEdit") /\ job[j].admin /\ Len(todo[j]) = 1
                    -> "audit"
               [] OTHER -> "answer")

Skip(j) ==
  /\ skipped' = [skipped EXCEPT ![j] = @ \cup {Target(j)}]
  /\ NextTarget(j)

\* Jobs that set the password of account i.
Setters(i) == {j \in Jobs : Is(j, "password") /\ Target(j) = i}

----------------------------------------------------------------------------
(* Faulty variants of actions below; see ChangeQueue.                      *)

\* A password the realm refuses is dropped, temporary or not.
Mutant_AlwaysFallsBack(j) ==
  /\ At(j, "post")
  /\ job[j].password = "refused"
  /\ Goto(j, "postBare")
  /\ UNCHANGED <<keycloak, s3, job, local, history>>

\* The `?` after audit_failure is forgotten.
Mutant_ErrorIgnored(j) ==
  /\ At(j, "delete") \/ At(j, "password")
  /\ Goto(j, IF At(j, "delete") THEN "record" ELSE "lookup")
  /\ UNCHANGED <<keycloak, s3, job, local, history>>

\* A failed deletion of a batch is not reported.
Mutant_NotReported(j) ==
  /\ At(j, "auditFailure")
  /\ UNCHANGED <<audit, lost>>
  /\ IF Is(j, "bulkDelete") THEN NextTarget(j) /\ UNCHANGED skipped
     ELSE Goto(j, "failed") /\ UNCHANGED <<todo, skipped>>
  /\ UNCHANGED <<keycloak, log, proposals, job, team, made, hidden, noted,
                 mixed>>

\* The loop of a bulk edit goes on after an error.
Mutant_EditGoesOn(j) ==
  /\ pc[j] \in Flying
  /\ IF Is(j, "bulkEdit") /\ ~At(j, "findTeam") /\ ~At(j, "audit")
     THEN NextTarget(j) ELSE Goto(j, "failed") /\ UNCHANGED todo
  /\ UNCHANGED <<keycloak, s3, job, team, skipped, history>>

----------------------------------------------------------------------------
(* A request is sent when the accounts it is about have been listed.       *)

Start(j) ==
  /\ At(j, "idle")
  /\ \A i \in TargetsOf(j) \cap Jobs : Did(i, i, "create")
  /\ Goto(j, IF job[j].team # None THEN "findTeam" ELSE CallFor(j, None))
  /\ mixed' = IF Is(j, "password")
                 /\ \E k \in Setters(Target(j)) : pc[k] \in Flying
              THEN mixed \cup {Target(j)} ELSE mixed
  /\ UNCHANGED <<keycloak, s3, job, local, made, hidden, lost, noted>>

\* list_groups: a child that could not be fetched is missing.
GroupLists == {S \in SUBSET Teams : TopTeams \subseteq S}

\* create_user looks at the top of the tree, bulk_edit flattens it.
Searched(j, S) == IF Is(j, "create") THEN TopTeams ELSE S

\* A team that is not found is no team at all.
FindTeam(j) ==
  /\ At(j, "findTeam")
  /\ \E S \in GroupLists :
       LET t == IF job[j].team \in Searched(j, S) THEN job[j].team ELSE None
       IN  team' = [team EXCEPT ![j] = t] /\ Goto(j, CallFor(j, t))
  /\ UNCHANGED <<keycloak, s3, job, todo, skipped, history>>

----------------------------------------------------------------------------
(* create_user.                                                            *)

\* The attribute names the team at once if an admin chose it.
Created(j, c) ==
  /\ \A i \in Ids : name[i] # job[j].name
  /\ name' = [name EXCEPT ![j] = job[j].name]
  /\ attribute' = [attribute EXCEPT ![j] = IF job[j].admin THEN team[j]
                                                           ELSE None]
  /\ credential' = [credential EXCEPT ![j] = c]
  /\ Make(j, "create")
  /\ Goto(j, "fetch")
  /\ UNCHANGED <<enabled, teams, s3, job, local, hidden, lost, noted, mixed>>

Post(j) ==
  /\ At(j, "post")
  /\ job[j].password # "refused"
  /\ Created(j, IF job[j].password = "none" THEN "none" ELSE j)

\* The realm refuses a temporary password: once more without it.
FallBack(j) ==
  /\ At(j, "post")
  /\ job[j].password = "refused" /\ job[j].temporary
  /\ Goto(j, "postBare")
  /\ UNCHANGED <<keycloak, s3, job, local, history>>

PostBare(j) ==
  /\ At(j, "postBare")
  /\ Created(j, IF job[j].temporary THEN "update" ELSE "none")

\* The new account is read back by the id in the Location header.
Fetch(j) ==
  /\ At(j, "fetch")
  /\ Exists(j)
  /\ Goto(j, "audit")
  /\ UNCHANGED <<keycloak, s3, job, local, history>>

----------------------------------------------------------------------------
(* bulk_edit, and the team of a new account.                               *)

SetEnabled(j) ==
  /\ At(j, "enable")
  /\ Exists(Target(j))
  /\ enabled' = [enabled EXCEPT ![Target(j)] = job[j].enable]
  /\ Make(j, "enable")
  /\ IF team[j] # None THEN Goto(j, "leave") /\ UNCHANGED todo
                       ELSE NextTarget(j)
  /\ UNCHANGED <<name, teams, attribute, credential, s3, job, team, skipped,
                 hidden, lost, noted, mixed>>

\* All other teams are left, one call each in AccountUpdate.
Leave(j) ==
  /\ At(j, "leave")
  /\ Exists(Target(j))
  /\ teams' = [teams EXCEPT ![Target(j)] = @ \cap {team[j]}]
  /\ Goto(j, "join")
  /\ UNCHANGED <<name, enabled, attribute, credential, s3, job, local,
                 history>>

Join(j) ==
  /\ At(j, "join")
  /\ Exists(Target(j))
  /\ teams' = [teams EXCEPT ![Target(j)] = @ \cup {team[j]}]
  /\ Make(j, "join")
  /\ Goto(j, IF Is(j, "create") THEN "answer" ELSE "attribute")
  /\ UNCHANGED <<name, enabled, attribute, credential, s3, job, local,
                 hidden, lost, noted, mixed>>

SetAttribute(j) ==
  /\ At(j, "attribute")
  /\ Exists(Target(j))
  /\ attribute' = [attribute EXCEPT ![Target(j)] = team[j]]
  /\ NextTarget(j)
  /\ UNCHANGED <<name, enabled, teams, credential, s3, job, team, skipped,
                 history>>

\* An operator's wish is queued.  bulk_edit compares it with the account
\* first; create_user does not look at the account again.
Propose(j) ==
  /\ At(j, "propose")
  /\ Is(j, "bulkEdit") => Exists(Target(j))
  /\ IF team[j] = None /\ job[j].enable \in {None, enabled[Target(j)]}
     THEN NextTarget(j) /\ UNCHANGED proposals
     ELSE /\ proposals' = proposals \cup {[by |-> j, about |-> Target(j)]}
          /\ Goto(j, "auditProposal") /\ UNCHANGED todo
  /\ UNCHANGED <<keycloak, audit, log, job, team, skipped, history>>

AuditProposal(j) ==
  /\ At(j, "auditProposal")
  /\ audit' = audit \cup {[by |-> j, about |-> Target(j),
                           action |-> "propose_change", outcome |-> "success"]}
  /\ IF Is(j, "create") THEN Goto(j, "answer") /\ UNCHANGED todo
                        ELSE NextTarget(j)
  /\ UNCHANGED <<keycloak, log, proposals, job, team, skipped, history>>

----------------------------------------------------------------------------
(* delete_user and bulk_delete.                                            *)

\* get_user, the typed username, and the guard of one's own account.
ReadTarget(j) ==
  /\ At(j, "target")
  /\ Exists(Target(j))
  /\ IF Self(j)
     THEN IF Is(j, "bulkDelete") THEN Skip(j)
          ELSE Goto(j, "answer") /\ UNCHANGED <<todo, skipped>>
     ELSE /\ Goto(j, IF Is(j, "delete") /\ job[j].name # name[Target(j)]
                     THEN "answer" ELSE "delete")
          /\ UNCHANGED <<todo, skipped>>
  /\ UNCHANGED <<keycloak, s3, job, team, history>>

\* bulk_delete reports an account it cannot read and goes on.
TargetError(j) ==
  /\ At(j, "target")
  /\ Is(j, "bulkDelete")
  /\ Skip(j)
  /\ UNCHANGED <<keycloak, s3, job, team, history>>

Gone(i) ==
  /\ name' = [name EXCEPT ![i] = None]
  /\ teams' = [teams EXCEPT ![i] = {}]
  /\ attribute' = [attribute EXCEPT ![i] = None]
  /\ credential' = [credential EXCEPT ![i] = "none"]
  /\ enabled' = [enabled EXCEPT ![i] = TRUE]

Delete(j) ==
  /\ At(j, "delete")
  /\ Exists(Target(j))
  /\ Gone(Target(j))
  /\ Make(j, "delete")
  /\ Goto(j, "record")
  /\ UNCHANGED <<s3, job, local, hidden, lost, noted, mixed>>

\* record_deletion: best effort.
Record(j) ==
  /\ At(j, "record")
  /\ \/ log' = log \cup {[by |-> j, about |-> Target(j)]} /\ UNCHANGED lost
     \/ lost' = lost \cup {[by |-> j, about |-> Target(j)]} /\ UNCHANGED log
  /\ Goto(j, "audit")
  /\ UNCHANGED <<keycloak, audit, proposals, job, local, made, hidden, noted,
                 mixed>>

----------------------------------------------------------------------------
(* set_user_password.                                                      *)

SetPassword(j) ==
  /\ At(j, "password")
  /\ Exists(Target(j))
  /\ credential' = [credential EXCEPT ![Target(j)] = j]
  /\ Make(j, "password")
  /\ Goto(j, "lookup")
  /\ UNCHANGED <<name, enabled, teams, attribute, s3, job, local, hidden, lost,
                 noted, mixed>>

\* The account is read for the entry.
Lookup(j) ==
  /\ At(j, "lookup")
  /\ Exists(Target(j))
  /\ Goto(j, "audit")
  /\ UNCHANGED <<keycloak, s3, job, local, history>>

----------------------------------------------------------------------------
(* The audit trail.                                                        *)

\* The call of a deletion or of a password fails, or its answer does.
CallError(j) ==
  /\ At(j, "delete") \/ At(j, "password")
  /\ \/ UNCHANGED <<keycloak, made, hidden>>
     \/ /\ Exists(Target(j))
        /\ IF At(j, "delete")
           THEN Gone(Target(j)) /\ Make(j, "delete")
           ELSE /\ credential' = [credential EXCEPT ![Target(j)] = j]
                /\ UNCHANGED <<name, enabled, teams, attribute>>
                /\ Make(j, "password")
        /\ hidden' = hidden \cup {[by |-> j, about |-> Target(j)]}
  /\ Goto(j, "auditFailure")
  /\ UNCHANGED <<s3, job, local, lost, noted, mixed>>

ActionOf(j) ==
  CASE Is(j, "create") -> "create_user"
    [] job[j].kind \in {"delete", "bulkDelete"} -> "delete_user"
    [] Is(j, "bulkEdit") -> "bulk_edit"
    [] Is(j, "password") -> "set_password"

EntryOf(j, o) == [by |-> j,
                  about |-> IF Is(j, "bulkEdit") THEN None ELSE Target(j),
                  action |-> ActionOf(j), outcome |-> o]

\* append_audit after the work is done.
Audit(j) ==
  /\ At(j, "audit")
  /\ audit' = audit \cup {EntryOf(j, "success")}
  /\ noted' = IF Is(j, "password") THEN [noted EXCEPT ![Target(j)] = j]
                                   ELSE noted
  /\ IF Is(j, "bulkDelete") THEN NextTarget(j)
     ELSE /\ Goto(j, IF Is(j, "create") /\ team[j] # None
                     THEN IF job[j].admin THEN "join" ELSE "propose"
                     ELSE "answer")
          /\ UNCHANGED todo
  /\ UNCHANGED <<keycloak, log, proposals, job, team, skipped, made, hidden,
                 lost, mixed>>

\* bulk_delete ignores an entry that cannot be written.
AuditLost(j) ==
  /\ At(j, "audit")
  /\ Is(j, "bulkDelete")
  /\ lost' = lost \cup {EntryOf(j, "success")}
  /\ NextTarget(j)
  /\ UNCHANGED <<keycloak, s3, job, team, skipped, made, hidden, noted, mixed>>

\* audit_failure, and its counterpart in the loop of bulk_delete.
AuditFailure(j) ==
  /\ At(j, "auditFailure")
  /\ \/ audit' = audit \cup {EntryOf(j, "failure")} /\ UNCHANGED lost
     \/ lost' = lost \cup {EntryOf(j, "failure")} /\ UNCHANGED audit
  /\ IF Is(j, "bulkDelete") THEN Skip(j)
     ELSE Goto(j, "failed") /\ UNCHANGED <<todo, skipped>>
  /\ UNCHANGED <<keycloak, log, proposals, job, team, made, hidden, noted,
                 mixed>>

\* The flash message and the redirect, or the report of a batch.
Answer(j) ==
  /\ At(j, "answer")
  /\ Goto(j, "ok")
  /\ UNCHANGED <<keycloak, s3, job, local, history>>

\* Any other error is answered at once; the same if the client leaves.  An
\* error of a call that took effect is the call followed by this.
Fail(j) ==
  /\ pc[j] \in Flying
  /\ Goto(j, "failed")
  /\ UNCHANGED <<keycloak, s3, job, local, history>>

Next == \E j \in Jobs :
  \/ Start(j) \/ FindTeam(j)
  \/ Post(j) \/ FallBack(j) \/ PostBare(j) \/ Fetch(j)
  \/ SetEnabled(j) \/ Leave(j) \/ Join(j) \/ SetAttribute(j)
  \/ Propose(j) \/ AuditProposal(j)
  \/ ReadTarget(j) \/ TargetError(j) \/ Delete(j) \/ Record(j)
  \/ SetPassword(j) \/ Lookup(j)
  \/ CallError(j) \/ Audit(j) \/ AuditLost(j) \/ AuditFailure(j)
  \/ Answer(j) \/ Fail(j)

Spec == Init /\ [][Next]_vars

----------------------------------------------------------------------------
(* Properties.                                                             *)

Succeeded(j) == pc[j] \in {"answer", "ok"}
Proposed(j, i) == [by |-> j, about |-> i] \in proposals

\* Every variable keeps the shape the code gives it.
TypeOK ==
  /\ name \in [Ids -> Names \cup {None}]
  /\ enabled \in [Ids -> BOOLEAN]
  /\ teams \in [Ids -> SUBSET Teams]
  /\ attribute \in [Ids -> Teams \cup {None}]
  /\ credential \in [Ids -> Jobs \cup {"old", "none", "update"}]
  /\ audit \subseteq Entry
  /\ log \subseteq Write
  /\ proposals \subseteq Write
  /\ job \in [Jobs -> Tasks]
  /\ pc \in [Jobs -> Control]
  /\ todo \in [Jobs -> Seq(Ids)]
  /\ team \in [Jobs -> Teams \cup {None}]
  /\ skipped \in [Jobs -> SUBSET Ids]
  /\ made \subseteq Effect
  /\ hidden \subseteq Write
  /\ lost \subseteq Write \cup Entry
  /\ noted \in [Ids -> Jobs \cup {None}]
  /\ mixed \subseteq Ids

\* An account whose creation was answered with success is in the audit trail;
\* it has the password of its form or must choose one; and its team, unless it
\* is a nested one, is joined and named by the attribute, or waits for an
\* approval.  An account another request was about is left out.
CreatedAsAsked ==
  \A j \in Jobs :
    /\ Is(j, "create") /\ Succeeded(j) /\ Exists(j)
    /\ \A k \in Jobs : j \notin TargetsOf(k)
    => LET t == job[j].team IN
       /\ EntryOf(j, "success") \in audit
       /\ credential[j] = "none" <=> job[j].password = "none"
       /\ t \in TopTeams => IF job[j].admin
                            THEN t \in teams[j] /\ attribute[j] = t
                            ELSE Proposed(j, j)

\* An account that grafter deleted has an entry in the changes log or in the
\* audit trail, be it one of a failure, as soon as the handler has turned to
\* something else, unless it was stopped or both writes failed.
DeletionTraced ==
  \A j \in Jobs, i \in Ids :
    /\ Did(j, i, "delete")
    /\ ~At(j, "failed")
    /\ ~(pc[j] \in Flying \ {"answer"} /\ Target(j) = i)
    => \/ [by |-> j, about |-> i] \in log
       \/ \E e \in audit \cup (lost \cap Entry) : e.by = j /\ e.about = i

\* What the changes log and the audit trail say of a deletion is true: of two
\* requests that delete an account one at most is recorded as having done so,
\* and an entry of a failure is wrong only if an answer of Keycloak was lost.
HistoryTrue ==
  /\ \A d \in log : Did(d.by, d.about, "delete") /\ ~Exists(d.about)
  /\ \A e \in audit :
       /\ e.action = "delete_user"
       /\ [by |-> e.by, about |-> e.about] \notin hidden
       => (e.outcome = "success" <=> Did(e.by, e.about, "delete"))
  /\ \A d, e \in log : d.about = e.about => d = e

\* bulk_delete leaves no account in an unknown state: when it answers, each one
\* has either been deleted by it or is reported as skipped.
BatchAnswered ==
  \A j \in Jobs :
    Is(j, "bulkDelete") /\ Succeeded(j)
    => \A i \in TargetsOf(j) :
         \/ i \in skipped[j] <=> ~Did(j, i, "delete")
         \/ [by |-> j, about |-> i] \in hidden /\ i \in skipped[j]

\* The one entry of a bulk edit speaks of all its accounts, and it is true of
\* all of them; an operator's bulk edit that is answered with success has
\* queued and recorded a proposal for each.  The exception is a team that was
\* not found: the answer and the entry do not show it.
BulkEditTrue ==
  \A j \in Jobs :
    Is(j, "bulkEdit") =>
    /\ Succeeded(j) /\ job[j].admin => EntryOf(j, "success") \in audit
    /\ \A i \in TargetsOf(j) :
         /\ EntryOf(j, "success") \in audit
            => /\ job[j].enable # None => Did(j, i, "enable")
               /\ team[j] # None => Did(j, i, "join")
         /\ Succeeded(j) /\ ~job[j].admin /\ team[j] # None
            => /\ Proposed(j, i)
               /\ \E e \in audit : e.by = j /\ e.about = i

\* The last entry about an account's password names who has set it, unless two
\* such requests overlapped or the change of one was answered with an error.
PasswordAttributed ==
  \A i \in Ids :
    /\ Exists(i)
    /\ i \notin mixed
    /\ \A j \in Setters(i) : ~(Did(j, i, "password") /\ ~Succeeded(j))
    => IF noted[i] = None THEN credential[i] \notin Setters(i)
                          ELSE credential[i] = noted[i]
=============================================================================
