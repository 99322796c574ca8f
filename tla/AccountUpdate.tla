--------------------------- MODULE AccountUpdate ---------------------------
(***************************************************************************)
(* The writers of one Keycloak account: the edit form (applied at once for *)
(* an admin, after an approval for an operator), the bulk edit, its        *)
(* proposed form, and the notes form.  The locks of ChangeQueue are per    *)
(* change, so none of these exclude each other.                            *)
(*                                                                         *)
(* The account is three objects read and written by separate calls: its    *)
(* representation (read, merged and PUT as a whole), its groups, and the   *)
(* metadata object grafter keeps in S3 (read and PUT as a whole).          *)
(***************************************************************************)
CONSTANTS Jobs,         \* handlers, or an edit followed by its approval
          Teams,        \* groups that are teams: the id, and the name
          OtherGroups,  \* NON_TEAM_GROUPS
          Phones, Texts,
          None,         \* no team, an empty text
          Tasks         \* what a job may be asked to do

Fields == {"enabled", "team", "phone"}
MetaFields == {"notes", "reason"}
Attributes == {"team", "phone"}

User == [enabled : BOOLEAN, team : Teams \cup {None}, phone : Phones]
UserMeta == [notes : Texts \cup {None}, reason : Texts \cup {None}]

ValueOf(f) == CASE f = "enabled" -> BOOLEAN
                [] f = "team" -> Teams \cup {None}
                [] f = "phone" -> Phones
                [] OTHER -> Texts \cup {None}

\* A set of field changes (UpdateUser, a diff, what a person typed) is a
\* function on the fields it changes.
IsFieldChanges(d) ==
  /\ DOMAIN d \subseteq Fields \cup MetaFields
  /\ \A f \in DOMAIN d : d[f] \in ValueOf(f)

Nothing == [f \in {} |-> None]
Only(d, F) == [f \in DOMAIN d \cap F |-> d[f]]
Over(d, obj) == [f \in DOMAIN d \cup DOMAIN obj |->
                   IF f \in DOMAIN d THEN d[f] ELSE obj[f]]

\* wish is what the person who sends the job wants changed.
Kind == {"edit", "proposeBulk", "bulk", "notes"}

FormPhase == {"page", "pageTeam", "pageMeta", "submit", "submitTeam"}
Finished == {"ok", "failed"}
\* The steps from the first read of a write to the last write.
Applying == {"get", "put", "meta", "metaPut", "groups", "leave",
             "attr", "attrGet", "attrPut"}
Control == FormPhase \cup Applying \cup Finished \cup {"apply"}

\* stalePut   a representation was PUT over one that its writer had not read
\* staleForm  a form was compared with an account that had changed since
\* staleMeta  a metadata object was PUT over one its writer had not read
\* crossed    a team move began while another one was under way
\* torn       a team move ended early
Fault == {"stalePut", "staleForm", "staleMeta", "crossed", "torn"}

ASSUME ConstantsAssumption ==
  /\ Teams \cap OtherGroups = {}
  /\ None \notin Teams \cup OtherGroups \cup Texts \cup Phones
  /\ \A t \in Tasks :
       /\ t.kind \in Kind
       /\ t.kind = "edit" => DOMAIN t.wish \subseteq Fields \cup {"reason"}
       /\ t.kind \in {"bulk", "proposeBulk"} =>
            /\ DOMAIN t.wish \subseteq {"enabled", "team"}
            /\ "team" \in DOMAIN t.wish => t.wish["team"] # None
       /\ t.kind = "notes" => DOMAIN t.wish = {"notes"}
       /\ IsFieldChanges(t.wish)

VARIABLES
  user, groups, meta,  \* the account
  job, pc,             \* a job, and where it is
  form,                \* the edit form as it will be submitted
  seen,                \* the representation of the job's last GET
  attributes,          \* set_user_attribute: the attributes to be written
  metaSeen,            \* the metadata object of the job's last GET
  diff,                \* the field changes to apply
  todo,                \* the groups still to leave
  fresh, metaFresh,    \* history: jobs whose reads are up to date
  want,                \* history: each field as last asked for
  fault                \* history: the faults the account has met

account == <<user, groups, meta>>
local == <<form, seen, attributes, metaSeen, diff, todo>>
history == <<fresh, metaFresh, want, fault>>
vars == <<account, job, pc, local, history>>

NoMeta == [notes |-> None, reason |-> None]

At(j, s) == pc[j] = s
Goto(j, s) == pc' = [pc EXCEPT ![j] = s]
Asks(j, f) == f \in DOMAIN diff[j]
IsBulk(j) == job[j].kind = "bulk"

\* The team a page shows: `find` over the groups, whose order in Keycloak's
\* answers depends on nothing else.
TeamShown == IF groups \cap Teams = {} THEN None
             ELSE CHOOSE t \in groups \cap Teams : TRUE

\* The jobs whose team move is between its first read and its last write.
Moving == {j \in Jobs : pc[j] \in Applying /\ Asks(j, "team")}
InForm == {j \in Jobs : pc[j] \in FormPhase}

FirstStep == [edit |-> "page", proposeBulk |-> "submit",
              bulk |-> "apply", notes |-> "meta"]

Init ==
  /\ user \in [enabled : BOOLEAN, team : Teams \cup {None}, phone : Phones]
  /\ \E G \in SUBSET OtherGroups :
       groups = G \cup (IF user.team = None THEN {} ELSE {user.team})
  /\ meta = NoMeta
  /\ job \in [Jobs -> Tasks]
  /\ pc = [j \in Jobs |-> FirstStep[job[j].kind]]
  /\ form = [j \in Jobs |-> job[j].wish]
  /\ diff = [j \in Jobs |-> IF IsBulk(j) THEN job[j].wish ELSE Nothing]
  /\ seen = [j \in Jobs |-> user]
  /\ attributes = [j \in Jobs |-> Nothing]
  /\ metaSeen = [j \in Jobs |-> NoMeta]
  /\ todo = [j \in Jobs |-> {}]
  /\ fresh = {}
  /\ metaFresh = {}
  /\ want = Over(user, meta)
  /\ fault = {}

\* Where a job goes once it is through with the representation, and with
\* the metadata.
AfterMeta(j) == IF Asks(j, "team") THEN "groups" ELSE "ok"
AfterPut(j) == IF Asks(j, "reason") THEN "meta" ELSE AfterMeta(j)

\* What a job writes to the metadata object, and where it goes then.
MetaUpdate(j) == IF job[j].kind = "notes" THEN job[j].wish
                 ELSE Only(diff[j], {"reason"})

AfterSave(j) == IF job[j].kind = "notes" THEN "ok" ELSE AfterMeta(j)

----------------------------------------------------------------------------
(* Faulty variants of actions below; see ChangeQueue.                      *)

\* A cleared team is joined like any other.
Mutant_JoinEmpty(j) ==
  /\ At(j, "leave")
  /\ todo[j] = {}
  /\ groups' = groups \cup {diff[j]["team"]}
  /\ fresh' = fresh \ InForm
  /\ Goto(j, IF IsBulk(j) THEN "attr" ELSE "ok")
  /\ UNCHANGED <<user, meta, job, local, metaFresh, want, fault>>

\* The new team is joined before the old ones are left.
Mutant_JoinFirst(j) ==
  /\ At(j, "leave")
  /\ groups' = groups \cup ({diff[j]["team"]} \ {None})
  /\ fresh' = fresh \ InForm
  /\ Goto(j, IF IsBulk(j) THEN "attr" ELSE "ok")
  /\ UNCHANGED <<user, meta, job, local, metaFresh, want, fault>>

\* A bulk edit moves the user and leaves the attribute as it was.
Mutant_AttributeForgotten(j) ==
  /\ At(j, "leave")
  /\ todo[j] = {}
  /\ groups' = groups \cup ({diff[j]["team"]} \ {None})
  /\ fresh' = fresh \ InForm
  /\ Goto(j, "ok")
  /\ UNCHANGED <<user, meta, job, local, metaFresh, want, fault>>

\* update_user merges into the representation read when the form came.
Mutant_GetOnce(j) ==
  /\ \/ At(j, "get") /\ Goto(j, "put") /\ fresh' = fresh \cup {j}
     \/ At(j, "attrGet") /\ Goto(j, "attrPut") /\ fresh' = fresh
  /\ UNCHANGED <<account, job, local, metaFresh, want, fault>>

\* The metadata object is saved without what it already held.
Mutant_MetaReplaced(j) ==
  /\ At(j, "metaPut")
  /\ meta' = Over(MetaUpdate(j), NoMeta)
  /\ want' = Over(MetaUpdate(j), want)
  /\ fault' = IF j \in metaFresh THEN fault ELSE fault \cup {"staleMeta"}
  /\ metaFresh' = {}
  /\ Goto(j, AfterSave(j))
  /\ UNCHANGED <<user, groups, job, local, fresh>>

----------------------------------------------------------------------------
(* user_detail: the edit form is rendered, a person changes some fields.   *)

PageUser(j) ==
  /\ At(j, "page")
  /\ form' = [form EXCEPT ![j] = Over(@, Only(user, {"enabled", "phone"}))]
  /\ fresh' = fresh \cup {j}
  /\ Goto(j, "pageTeam")
  /\ UNCHANGED <<account, job, seen, attributes, metaSeen, diff, todo,
                 metaFresh, want, fault>>

PageTeam(j) ==
  /\ At(j, "pageTeam")
  /\ form' = [form EXCEPT ![j] = Over(@, [team |-> TeamShown])]
  /\ Goto(j, "pageMeta")
  /\ UNCHANGED <<account, job, seen, attributes, metaSeen, diff, todo, history>>

\* The reason on record is prefilled.
PageMeta(j) ==
  /\ At(j, "pageMeta")
  /\ form' = [form EXCEPT ![j] = Over(@, Only(meta, {"reason"}))]
  /\ Goto(j, "submit")
  /\ UNCHANGED <<account, job, seen, attributes, metaSeen, diff, todo, history>>

----------------------------------------------------------------------------
(* edit_user and the operator branch of bulk_edit: the diff is computed    *)
(* against the account as it is when the form arrives.  For an operator it *)
(* is then queued, and "apply" is reached when an admin approves it.       *)

Changed(f, existing) == {x \in DOMAIN f \cap Fields : f[x] # existing[x]}

\* The diff of a form; a reason goes along with a change of "enabled" only.
FormDiff(f, existing) ==
  Only(f, Changed(f, existing)
            \cup IF "enabled" \in Changed(f, existing) /\ f["reason"] # None
                 THEN {"reason"} ELSE {})

\* A bulk proposal names the team whether the user is in it or not.
BulkDiff(f, existing) == Only(f, Changed(f, existing) \cup {"team"})

Submitted(j, d) ==
  /\ diff' = [diff EXCEPT ![j] = d]
  /\ Goto(j, IF d = Nothing THEN "ok" ELSE "apply")

SubmitUser(j) ==
  /\ At(j, "submit")
  /\ seen' = [seen EXCEPT ![j] = user]
  /\ IF job[j].kind = "edit"
     THEN Goto(j, "submitTeam") /\ diff' = diff
     ELSE Submitted(j, BulkDiff(form[j], user))
  /\ UNCHANGED <<account, job, form, attributes, metaSeen, todo, history>>

SubmitTeam(j) ==
  /\ At(j, "submitTeam")
  /\ Submitted(j, FormDiff(form[j], [seen[j] EXCEPT !.team = TeamShown]))
  /\ fault' = IF j \in fresh THEN fault ELSE fault \cup {"staleForm"}
  /\ UNCHANGED <<account, job, form, seen, attributes, metaSeen, todo,
                 fresh, metaFresh, want>>

----------------------------------------------------------------------------
(* apply_change_diff, and the body of bulk_edit's loop for an admin.       *)

Begin(j) ==
  /\ At(j, "apply")
  /\ Goto(j, IF IsBulk(j) /\ ~Asks(j, "enabled") THEN AfterMeta(j) ELSE "get")
  /\ fault' = IF Asks(j, "team") /\ Moving # {} THEN fault \cup {"crossed"}
              ELSE fault
  /\ UNCHANGED <<account, job, local, fresh, metaFresh, want>>

\* update_user: GET, merge, PUT of the whole representation.
Get(j) ==
  /\ \/ At(j, "get") /\ Goto(j, "put") /\ fresh' = fresh \cup {j}
     \/ At(j, "attrGet") /\ Goto(j, "attrPut") /\ fresh' = fresh
  /\ seen' = [seen EXCEPT ![j] = user]
  /\ UNCHANGED <<account, job, form, attributes, metaSeen, diff, todo,
                 metaFresh, want, fault>>

\* The update that update_user is called with.
Update(j) ==
  IF At(j, "attrPut") THEN attributes[j]
  ELSE Only(diff[j], IF IsBulk(j) THEN {"enabled"} ELSE Fields)

\* The fields of the update that somebody asked to change.
Wanted(j) == IF At(j, "attrPut") THEN {"team"}
             ELSE DOMAIN job[j].wish \cap Fields

Put(j) ==
  /\ pc[j] \in {"put", "attrPut"}
  /\ user' = Over(Update(j), seen[j])
  /\ want' = Over(Only(Update(j), Wanted(j)), want)
  /\ fault' = IF j \in fresh THEN fault ELSE fault \cup {"stalePut"}
  /\ fresh' = {}
  /\ Goto(j, IF At(j, "attrPut") THEN "ok" ELSE AfterPut(j))
  /\ UNCHANGED <<groups, meta, job, local, metaFresh>>

\* get_user_groups: an approved team replaces every group, a bulk edit only
\* the teams.
ReadGroups(j) ==
  /\ At(j, "groups")
  /\ todo' = [todo EXCEPT ![j] =
                (IF IsBulk(j) THEN groups \cap Teams ELSE groups)
                  \ {diff[j]["team"]}]
  /\ Goto(j, "leave")
  /\ UNCHANGED <<account, job, form, seen, attributes, metaSeen, diff, history>>

LeaveGroup(j) ==
  /\ At(j, "leave")
  /\ \E g \in todo[j] :
       /\ groups' = groups \ {g}
       /\ todo' = [todo EXCEPT ![j] = @ \ {g}]
  /\ fresh' = fresh \ InForm
  /\ UNCHANGED <<user, meta, job, pc, form, seen, attributes, metaSeen, diff,
                 metaFresh, want, fault>>

JoinGroup(j) ==
  /\ At(j, "leave")
  /\ todo[j] = {}
  /\ groups' = groups \cup ({diff[j]["team"]} \ {None})
  /\ fresh' = fresh \ InForm
  /\ Goto(j, IF IsBulk(j) THEN "attr" ELSE "ok")
  /\ UNCHANGED <<user, meta, job, local, metaFresh, want, fault>>

\* set_user_attribute: the attributes are read, then handed to update_user.
ReadAttributes(j) ==
  /\ At(j, "attr")
  /\ attributes' = [attributes EXCEPT ![j] =
                      Over(Only(diff[j], {"team"}), Only(user, Attributes))]
  /\ fresh' = fresh \cup {j}
  /\ Goto(j, "attrGet")
  /\ UNCHANGED <<account, job, form, seen, metaSeen, diff, todo,
                 metaFresh, want, fault>>

----------------------------------------------------------------------------
(* save_notes, and the reason kept by apply_change_diff.                   *)

GetMeta(j) ==
  /\ At(j, "meta")
  /\ metaSeen' = [metaSeen EXCEPT ![j] = meta]
  /\ metaFresh' = metaFresh \cup {j}
  /\ Goto(j, "metaPut")
  /\ UNCHANGED <<account, job, form, seen, attributes, diff, todo,
                 fresh, want, fault>>

PutMeta(j) ==
  /\ At(j, "metaPut")
  /\ meta' = Over(MetaUpdate(j), metaSeen[j])
  /\ want' = Over(MetaUpdate(j), want)
  /\ fault' = IF j \in metaFresh THEN fault ELSE fault \cup {"staleMeta"}
  /\ metaFresh' = {}
  /\ Goto(j, AfterSave(j))
  /\ UNCHANGED <<user, groups, job, local, fresh>>

\* apply_change_diff goes on when the metadata cannot be read or saved.
MetaError(j) ==
  /\ pc[j] \in {"meta", "metaPut"}
  /\ job[j].kind # "notes"
  /\ Goto(j, AfterMeta(j))
  /\ UNCHANGED <<account, job, local, history>>

----------------------------------------------------------------------------
(* A call fails, the handler's future is dropped, or the queued edit is    *)
(* not approved.  A call that fails after taking effect is the call        *)
(* followed by this.                                                       *)

Fail(j) ==
  /\ pc[j] \notin Finished
  /\ Goto(j, "failed")
  /\ fault' = IF j \in Moving THEN fault \cup {"torn"} ELSE fault
  /\ UNCHANGED <<account, job, local, fresh, metaFresh, want>>

Next == \E j \in Jobs :
  \/ PageUser(j) \/ PageTeam(j) \/ PageMeta(j)
  \/ SubmitUser(j) \/ SubmitTeam(j)
  \/ Begin(j) \/ Get(j) \/ Put(j)
  \/ ReadGroups(j) \/ LeaveGroup(j) \/ JoinGroup(j) \/ ReadAttributes(j)
  \/ GetMeta(j) \/ PutMeta(j) \/ MetaError(j)
  \/ Fail(j)

Spec == Init /\ [][Next]_vars

----------------------------------------------------------------------------
(* Properties.                                                             *)

TypeOK ==
  /\ user \in User
  /\ groups \subseteq Teams \cup OtherGroups
  /\ meta \in UserMeta
  /\ job \in [Jobs -> Tasks]
  /\ pc \in [Jobs -> Control]
  /\ \A held \in {form, diff, attributes} :
       DOMAIN held = Jobs /\ \A j \in Jobs : IsFieldChanges(held[j])
  /\ seen \in [Jobs -> User]
  /\ metaSeen \in [Jobs -> UserMeta]
  /\ todo \in [Jobs -> SUBSET (Teams \cup OtherGroups)]
  /\ fresh \subseteq Jobs
  /\ metaFresh \subseteq Jobs
  /\ IsFieldChanges(want) /\ DOMAIN want = Fields \cup MetaFields
  /\ fault \subseteq Fault

\* A user is in at most one team at any time, the middle of a move included,
\* unless two moves overlapped.
TeamExclusive ==
  "crossed" \notin fault => \A t, u \in groups \cap Teams : t = u

\* When no move is under way, the team attribute names the team the user is
\* in, unless moves overlapped, one ended early, or a representation was
\* written over one its writer had not read.
TeamAgrees ==
  /\ Moving = {}
  /\ fault \cap {"crossed", "torn", "stalePut"} = {}
  => user.team = TeamShown

\* Each field of the account is what was last asked for it: a writer changes
\* no field but those it was asked to, though it writes them all.
LastWriteKept ==
  fault \cap {"stalePut", "staleForm"} = {}
    => \A f \in Fields : user[f] = want[f]

\* Notes and reason share an object; neither writer undoes the other's work.
MetaKept ==
  "staleMeta" \notin fault => \A f \in MetaFields : meta[f] = want[f]

----------------------------------------------------------------------------
(* What a comment says; refuted by a run of its own.                       *)

\* apply_change_diff: "Team assignment is exclusive: leaving every current
\* group before joining the new one".
TeamAssignmentIsExclusive ==
  (\A j \in Jobs : At(j, "ok")) => \A t, u \in groups \cap Teams : t = u
=============================================================================
