----------------------- MODULE AccountUpdate_proofs -----------------------
(***************************************************************************)
(* Proofs about AccountUpdate, for every set of jobs, teams, other groups  *)
(* and tasks.  AInv is the inductive invariant.                            *)
(***************************************************************************)
EXTENDS AccountUpdate, TLAPS

\* What the kind of a job says of where it is and what it holds.
TaskInv ==
  \A j \in Jobs :
    /\ IsBulk(j) => pc[j] \notin FormPhase /\ diff[j] = job[j].wish
    /\ job[j].kind = "proposeBulk" =>
         /\ pc[j] \notin {"page", "pageTeam", "pageMeta", "submitTeam"}
         /\ form[j] = job[j].wish
    /\ job[j].kind = "notes" =>
         pc[j] \in {"meta", "metaPut"} \cup Finished /\ diff[j] = Nothing
    /\ pc[j] \in {"groups", "leave"} => Asks(j, "team")
    /\ pc[j] \in {"attr", "attrGet", "attrPut"} => IsBulk(j) /\ Asks(j, "team")
    /\ pc[j] \in {"attrGet", "attrPut"} =>
         /\ DOMAIN attributes[j] = Attributes
         /\ attributes[j]["team"] = diff[j]["team"]

\* A copy that is still fresh is what the account holds.
ReadInv ==
  \A j \in Jobs :
    /\ j \in fresh /\ pc[j] \in {"put", "attrPut", "submitTeam"} => seen[j] = user
    /\ j \in fresh /\ pc[j] \in {"attrGet", "attrPut"}
         => attributes[j]["phone"] = user["phone"]
    /\ j \in metaFresh /\ At(j, "metaPut") => metaSeen[j] = meta

\* A fresh form differs from the account where a person changed it.
FormInv ==
  \A j \in Jobs :
    job[j].kind = "edit" =>
      /\ At(j, "page") => form[j] = job[j].wish
      /\ At(j, "pageTeam") =>
           DOMAIN form[j] = DOMAIN job[j].wish \cup {"enabled", "phone"}
      /\ pc[j] \in {"pageTeam", "pageMeta", "submit", "submitTeam"} /\ j \in fresh =>
           \A f \in {"enabled", "phone"} \ DOMAIN job[j].wish :
             f \in DOMAIN form[j] /\ form[j][f] = user[f]
      /\ pc[j] \in {"pageMeta", "submit", "submitTeam"} /\ j \in fresh =>
           \/ "team" \in DOMAIN job[j].wish
           \/ "team" \in DOMAIN form[j] /\ form[j]["team"] = TeamShown

\* A diff holds nothing that was not asked for.
AskedInv ==
  "staleForm" \notin fault =>
    \A j \in Jobs : DOMAIN diff[j] \cap Fields \subseteq DOMAIN job[j].wish

\* One move at a time; it knows all the teams the user is still in.
LeaveInv ==
  "crossed" \notin fault =>
    /\ \A j, k \in Moving : j = k
    /\ \A j \in Jobs :
         At(j, "leave") => groups \cap Teams \subseteq todo[j] \cup {diff[j]["team"]}

\* Which of the attribute and the groups is ahead while a move is under way.
AgreeInv ==
  fault \cap {"crossed", "torn", "stalePut"} = {} =>
    /\ Moving = {} => user["team"] = TeamShown
    /\ \A j \in Moving :
         /\ pc[j] \in {"get", "put"} => user["team"] = TeamShown
         /\ ~IsBulk(j) /\ pc[j] \in {"meta", "metaPut", "groups", "leave"}
              => user["team"] = diff[j]["team"]
         /\ IsBulk(j) /\ pc[j] \in {"attr", "attrGet", "attrPut"}
              => TeamShown = diff[j]["team"]

AInv == /\ TypeOK /\ TaskInv /\ ReadInv /\ FormInv /\ AskedInv
        /\ LeaveInv /\ AgreeInv
        /\ TeamExclusive /\ LastWriteKept /\ MetaKept

----------------------------------------------------------------------------
(* Field changes, and types.                                               *)

\* A representation is a set of field changes that changes every field.
LEMMA UserFields ==
  ASSUME NEW u \in User
  PROVE  IsFieldChanges(u) /\ DOMAIN u = Fields
BY DEF IsFieldChanges, User, Fields, MetaFields, ValueOf

\* So is a metadata object.
LEMMA MetaIsChanges ==
  ASSUME NEW m \in UserMeta
  PROVE  IsFieldChanges(m) /\ DOMAIN m = MetaFields
BY DEF IsFieldChanges, UserMeta, Fields, MetaFields, ValueOf

\* Restricting a set of changes.
LEMMA OnlyType ==
  ASSUME NEW d, IsFieldChanges(d), NEW F
  PROVE  IsFieldChanges(Only(d, F)) /\ DOMAIN Only(d, F) = DOMAIN d \cap F
BY DEF IsFieldChanges, Only

\* Merging two sets of changes.
LEMMA OverType ==
  ASSUME NEW d, IsFieldChanges(d), NEW e, IsFieldChanges(e)
  PROVE  /\ IsFieldChanges(Over(d, e))
         /\ DOMAIN Over(d, e) = DOMAIN d \cup DOMAIN e
BY DEF IsFieldChanges, Over

\* A representation with some of its fields changed is a representation.
LEMMA OverUser ==
  ASSUME NEW d, IsFieldChanges(d), DOMAIN d \subseteq Fields, NEW u \in User
  PROVE  Over(d, u) \in User
<1>1. DOMAIN u = Fields
  BY DEF User, Fields
<1>2. \A f \in Fields : Over(d, u)[f] = IF f \in DOMAIN d THEN d[f] ELSE u[f]
  BY <1>1 DEF Over
<1>3. Over(d, u) = [enabled |-> Over(d, u)["enabled"], team |-> Over(d, u)["team"],
                    phone |-> Over(d, u)["phone"]]
  BY <1>1, <1>2 DEF Over, Fields
<1>4. /\ Over(d, u)["enabled"] \in BOOLEAN
      /\ Over(d, u)["team"] \in Teams \cup {None}
      /\ Over(d, u)["phone"] \in Phones
  BY <1>2 DEF IsFieldChanges, ValueOf, Fields, User
<1> QED
  BY <1>3, <1>4 DEF User

\* save_notes and the reason: a metadata object stays one.
LEMMA OverMeta ==
  ASSUME NEW d, IsFieldChanges(d), DOMAIN d \subseteq MetaFields, NEW m \in UserMeta
  PROVE  Over(d, m) \in UserMeta
<1>1. DOMAIN m = MetaFields
  BY DEF UserMeta, MetaFields
<1>2. \A f \in MetaFields : Over(d, m)[f] = IF f \in DOMAIN d THEN d[f] ELSE m[f]
  BY <1>1 DEF Over
<1>3. Over(d, m) = [notes |-> Over(d, m)["notes"], reason |-> Over(d, m)["reason"]]
  BY <1>1, <1>2 DEF Over, MetaFields
<1>4. Over(d, m)["notes"] \in Texts \cup {None} /\ Over(d, m)["reason"] \in Texts \cup {None}
  BY <1>2 DEF IsFieldChanges, ValueOf, MetaFields, UserMeta
<1> QED
  BY <1>3, <1>4 DEF UserMeta

\* What ConstantsAssumption says of the task of a job.
LEMMA TaskType ==
  ASSUME TypeOK, NEW j \in Jobs
  PROVE  /\ job[j].kind \in Kind
         /\ IsFieldChanges(job[j].wish)
         /\ IsBulk(j) => DOMAIN job[j].wish \subseteq {"enabled", "team"}
         /\ job[j].kind = "notes" => DOMAIN job[j].wish = {"notes"}
<1>1. job[j] \in Tasks
  BY DEF TypeOK
<1> QED
  BY <1>1, ConstantsAssumption DEF IsBulk

\* A page shows a team the user is in, or none.
LEMMA TeamShownType ==
  TeamShown \in Teams \cup {None} /\ (groups \cap Teams = {} => TeamShown = None)
<1>1. groups \cap Teams # {} => (CHOOSE t \in groups \cap Teams : TRUE) \in groups \cap Teams
  OBVIOUS
<1> QED
  BY <1>1 DEF TeamShown

\* What update_user is called with.
LEMMA UpdateType ==
  ASSUME TypeOK, TaskInv, NEW j \in Jobs, pc[j] \in {"put", "attrPut"}
  PROVE  IsFieldChanges(Update(j)) /\ DOMAIN Update(j) \subseteq Fields
<1>1. IsFieldChanges(diff[j]) /\ IsFieldChanges(attributes[j])
  BY DEF TypeOK
<1>2. CASE At(j, "attrPut")
  <2>1. Update(j) = attributes[j]
    BY <1>2 DEF Update
  <2>2. DOMAIN attributes[j] = Attributes
    BY <1>2 DEF TaskInv, At
  <2> QED
    BY <1>1, <2>1, <2>2 DEF Attributes, Fields
<1>3. CASE ~At(j, "attrPut") /\ IsBulk(j)
  <2>1. Update(j) = Only(diff[j], {"enabled"})
    BY <1>3 DEF Update
  <2>2. IsFieldChanges(Only(diff[j], {"enabled"}))
        /\ DOMAIN Only(diff[j], {"enabled"}) = DOMAIN diff[j] \cap {"enabled"}
    BY <1>1, OnlyType
  <2> QED
    BY <2>1, <2>2 DEF Fields
<1>4. CASE ~At(j, "attrPut") /\ ~IsBulk(j)
  <2>1. Update(j) = Only(diff[j], Fields)
    BY <1>4 DEF Update
  <2>2. IsFieldChanges(Only(diff[j], Fields))
        /\ DOMAIN Only(diff[j], Fields) = DOMAIN diff[j] \cap Fields
    BY <1>1, OnlyType
  <2> QED
    BY <2>1, <2>2
<1> QED
  BY <1>2, <1>3, <1>4

\* What is saved in the metadata object.
LEMMA MetaUpdateType ==
  ASSUME TypeOK, NEW j \in Jobs
  PROVE  IsFieldChanges(MetaUpdate(j)) /\ DOMAIN MetaUpdate(j) \subseteq MetaFields
<1>1. IsFieldChanges(diff[j])
  BY DEF TypeOK
<1>2. CASE job[j].kind = "notes"
  <2>1. MetaUpdate(j) = job[j].wish
    BY <1>2 DEF MetaUpdate
  <2> QED
    BY <1>2, <2>1, TaskType DEF MetaFields
<1>3. CASE job[j].kind # "notes"
  <2>1. MetaUpdate(j) = Only(diff[j], {"reason"})
    BY <1>3 DEF MetaUpdate
  <2>2. IsFieldChanges(Only(diff[j], {"reason"}))
        /\ DOMAIN Only(diff[j], {"reason"}) = DOMAIN diff[j] \cap {"reason"}
    BY <1>1, OnlyType
  <2> QED
    BY <2>1, <2>2 DEF MetaFields
<1> QED
  BY <1>2, <1>3

\* Where a job goes after its PUTs.
LEMMA NextStepType ==
  ASSUME NEW j \in Jobs
  PROVE  /\ AfterMeta(j) \in {"groups", "ok"}
         /\ AfterPut(j) \in {"meta", "groups", "ok"}
         /\ AfterSave(j) \in {"groups", "ok"}
BY DEF AfterMeta, AfterPut, AfterSave

\* The smallest sets of changes.
LEMMA SingletonChanges ==
  /\ \A t \in Teams \cup {None} : IsFieldChanges([team |-> t])
  /\ IsFieldChanges(Nothing)
BY DEF IsFieldChanges, Nothing, Fields, MetaFields, ValueOf

\* The initial states are of the right type.
LEMMA InitAType == Init => TypeOK
<1> SUFFICES ASSUME Init PROVE TypeOK
  OBVIOUS
<1>1. user \in User /\ meta \in UserMeta /\ NoMeta \in UserMeta
  BY DEF Init, User, UserMeta, NoMeta
<1>2. groups \subseteq Teams \cup OtherGroups
  BY <1>1 DEF Init, User
<1>3. \A j \in Jobs : job[j] \in Tasks /\ job[j].kind \in Kind /\ IsFieldChanges(job[j].wish)
  BY ConstantsAssumption DEF Init
<1>4. pc \in [Jobs -> Control]
  BY <1>3 DEF Init, FirstStep, Kind, Control, FormPhase, Applying
<1>5. \A j \in Jobs : /\ IsFieldChanges(form[j])
                      /\ IsFieldChanges(diff[j])
                      /\ IsFieldChanges(attributes[j])
  BY <1>3, SingletonChanges DEF Init
<1>6. IsFieldChanges(want) /\ DOMAIN want = Fields \cup MetaFields
  BY SMTT(60), <1>1, UserFields, MetaIsChanges, OverType DEF Init
<1> QED
  BY <1>1, <1>2, <1>4, <1>5, <1>6 DEF Init, TypeOK

\* TypeOK is preserved; TaskInv says which fields the written objects have.
LEMMA ATypeStep == TypeOK /\ TaskInv /\ [Next]_vars => TypeOK'
<1> SUFFICES ASSUME TypeOK, TaskInv, [Next]_vars PROVE TypeOK'
  OBVIOUS
<1> USE DEF TypeOK, account, local, history, Goto, At
<1>1. ASSUME NEW j \in Jobs, PageUser(j) PROVE TypeOK'
  <2>1. IsFieldChanges(Over(form[j], Only(user, {"enabled", "phone"})))
    BY UserFields, OnlyType, OverType
  <2> QED
    BY <1>1, <2>1 DEF PageUser, Control, FormPhase, Applying, Finished
<1>2. ASSUME NEW j \in Jobs, PageTeam(j) PROVE TypeOK'
  <2>1. IsFieldChanges(Over(form[j], [team |-> TeamShown]))
    BY TeamShownType, SingletonChanges, OverType
  <2> QED
    BY <1>2, <2>1 DEF PageTeam, Control, FormPhase, Applying, Finished
<1>3. ASSUME NEW j \in Jobs, PageMeta(j) PROVE TypeOK'
  <2>1. IsFieldChanges(Over(form[j], Only(meta, {"reason"})))
    BY MetaIsChanges, OnlyType, OverType
  <2> QED
    BY <1>3, <2>1 DEF PageMeta, Control, FormPhase, Applying, Finished
<1>4. ASSUME NEW j \in Jobs, SubmitUser(j) PROVE TypeOK'
  <2>0. IsFieldChanges(form[j])
    OBVIOUS
  <2>1. IsFieldChanges(Only(form[j], Changed(form[j], user) \cup {"team"}))
    BY <2>0, OnlyType
  <2>2. IsFieldChanges(BulkDiff(form[j], user))
    BY <2>1 DEF BulkDiff
  <2> DEFINE d == BulkDiff(form[j], user)
  <2> HIDE DEF d
  <2>3. CASE job[j].kind = "edit"
    BY <1>4, <2>3 DEF SubmitUser, Control, FormPhase, Applying, Finished
  <2>4. CASE job[j].kind # "edit"
    <3>1. Submitted(j, d)
      BY <1>4, <2>4 DEF SubmitUser, d
    <3>2. IsFieldChanges(d)
      BY <2>2 DEF d
    <3> QED
      BY <1>4, <3>1, <3>2 DEF SubmitUser, Submitted, Control, FormPhase,
           Applying, Finished
  <2> QED
    BY <2>3, <2>4
<1>5. ASSUME NEW j \in Jobs, SubmitTeam(j) PROVE TypeOK'
  <2> DEFINE d == FormDiff(form[j], [seen[j] EXCEPT !.team = TeamShown])
  <2>1. IsFieldChanges(d)
    BY OnlyType DEF FormDiff
  <2> HIDE DEF d
  <2>2. Submitted(j, d)
    BY <1>5 DEF SubmitTeam, d
  <2> QED
    BY <1>5, <2>1, <2>2 DEF SubmitTeam, Submitted, Fault, Control, FormPhase,
         Applying, Finished
<1>6. ASSUME NEW j \in Jobs, Begin(j) PROVE TypeOK'
  BY <1>6, NextStepType DEF Begin, Fault, Control, FormPhase, Applying, Finished
<1>7. ASSUME NEW j \in Jobs, Get(j) PROVE TypeOK'
  BY <1>7 DEF Get, Control, FormPhase, Applying, Finished
<1>8. ASSUME NEW j \in Jobs, Put(j) PROVE TypeOK'
  <2>1. Over(Update(j), seen[j]) \in User
    BY <1>8, UpdateType, OverUser DEF Put
  <2>2. IsFieldChanges(Only(Update(j), Wanted(j)))
        /\ DOMAIN Only(Update(j), Wanted(j)) = DOMAIN Update(j) \cap Wanted(j)
    <3>1. IsFieldChanges(Update(j))
      BY <1>8, UpdateType DEF Put
    <3> QED
      BY <3>1, OnlyType
  <2>3. DOMAIN Update(j) \subseteq Fields
    BY <1>8, UpdateType DEF Put
  <2>4. want' = Over(Only(Update(j), Wanted(j)), want)
    BY <1>8 DEF Put
  <2>5. IsFieldChanges(want')
        /\ DOMAIN want' = DOMAIN Only(Update(j), Wanted(j)) \cup DOMAIN want
    BY <2>2, <2>4, OverType
  <2>6. IsFieldChanges(want') /\ DOMAIN want' = Fields \cup MetaFields
    BY <2>2, <2>3, <2>5
  <2> QED
    BY <1>8, <2>1, <2>6, NextStepType DEF Put, Fault, Control, FormPhase,
         Applying, Finished
<1>9. ASSUME NEW j \in Jobs, ReadGroups(j) PROVE TypeOK'
  BY <1>9 DEF ReadGroups, Control, FormPhase, Applying, Finished
<1>10. ASSUME NEW j \in Jobs, LeaveGroup(j) PROVE TypeOK'
  BY <1>10 DEF LeaveGroup, Control, FormPhase, Applying, Finished
<1>11. ASSUME NEW j \in Jobs, JoinGroup(j) PROVE TypeOK'
  <2>1. diff[j]["team"] \in Teams \cup {None}
    BY <1>11 DEF JoinGroup, TaskInv, Asks, IsFieldChanges, ValueOf
  <2> QED
    BY <1>11, <2>1 DEF JoinGroup, Control, FormPhase, Applying, Finished
<1>12. ASSUME NEW j \in Jobs, ReadAttributes(j) PROVE TypeOK'
  <2>1. IsFieldChanges(Over(Only(diff[j], {"team"}), Only(user, Attributes)))
    BY UserFields, OnlyType, OverType
  <2> QED
    BY <1>12, <2>1 DEF ReadAttributes, Control, FormPhase, Applying, Finished
<1>13. ASSUME NEW j \in Jobs, GetMeta(j) PROVE TypeOK'
  BY <1>13 DEF GetMeta, Control, FormPhase, Applying, Finished
<1>14. ASSUME NEW j \in Jobs, PutMeta(j) PROVE TypeOK'
  <2>0. IsFieldChanges(MetaUpdate(j)) /\ DOMAIN MetaUpdate(j) \subseteq MetaFields
    BY MetaUpdateType
  <2>1. Over(MetaUpdate(j), metaSeen[j]) \in UserMeta
    BY <2>0, OverMeta
  <2>2. want' = Over(MetaUpdate(j), want)
    BY <1>14 DEF PutMeta
  <2>3. IsFieldChanges(want') /\ DOMAIN want' = DOMAIN MetaUpdate(j) \cup DOMAIN want
    BY <2>0, <2>2, OverType
  <2>4. DOMAIN want' = Fields \cup MetaFields
    BY <2>0, <2>3
  <2> QED
    BY <1>14, <2>1, <2>3, <2>4, NextStepType DEF PutMeta, Fault, Control,
         FormPhase, Applying, Finished
<1>15. ASSUME NEW j \in Jobs, MetaError(j) PROVE TypeOK'
  BY <1>15, NextStepType DEF MetaError, Control, FormPhase, Applying, Finished
<1>16. ASSUME NEW j \in Jobs, Fail(j) PROVE TypeOK'
  BY <1>16 DEF Fail, Fault, Control, FormPhase, Applying, Finished
<1>17. CASE UNCHANGED vars
  BY <1>17 DEF vars, Control, FormPhase, Applying, Finished
<1> QED
  BY <1>1, <1>2, <1>3, <1>4, <1>5, <1>6, <1>7, <1>8, <1>9, <1>10, <1>11, <1>12,
       <1>13, <1>14, <1>15, <1>16, <1>17 DEF Next

\* TaskInv is preserved.
LEMMA TaskStep == TypeOK /\ TaskInv /\ [Next]_vars => TaskInv'
<1> SUFFICES ASSUME TypeOK, TaskInv, [Next]_vars PROVE TaskInv'
  OBVIOUS
<1> USE DEF TypeOK, account, local, history, Goto, At
<1>1. ASSUME NEW j \in Jobs, PageUser(j) PROVE TaskInv'
  BY <1>1 DEF PageUser, TaskInv, Asks, IsBulk, FormPhase, Finished
<1>2. ASSUME NEW j \in Jobs, PageTeam(j) PROVE TaskInv'
  BY <1>2 DEF PageTeam, TaskInv, Asks, IsBulk, FormPhase, Finished
<1>3. ASSUME NEW j \in Jobs, PageMeta(j) PROVE TaskInv'
  BY <1>3 DEF PageMeta, TaskInv, Asks, IsBulk, FormPhase, Finished
<1>4. ASSUME NEW j \in Jobs, SubmitUser(j) PROVE TaskInv'
  <2>1. \A k \in Jobs : k # j => diff'[k] = diff[k] /\ pc'[k] = pc[k]
    BY <1>4 DEF SubmitUser, Submitted
  <2>2. ~IsBulk(j) /\ job[j].kind # "notes" /\ pc'[j] \in {"submitTeam", "ok", "apply"}
    BY <1>4 DEF SubmitUser, Submitted, TaskInv, Asks, IsBulk, FormPhase,
         Finished
  <2>3. job[j].kind = "edit" \/ pc'[j] # "submitTeam"
    BY <1>4 DEF SubmitUser, Submitted
  <2>4. job' = job /\ form' = form /\ attributes' = attributes
    BY <1>4 DEF SubmitUser
  <2> QED
    BY <2>1, <2>2, <2>3, <2>4 DEF TaskInv, Asks, IsBulk, FormPhase, Finished
<1>5. ASSUME NEW j \in Jobs, SubmitTeam(j) PROVE TaskInv'
  <2>1. \A k \in Jobs : k # j => diff'[k] = diff[k] /\ pc'[k] = pc[k]
    BY <1>5 DEF SubmitTeam, Submitted
  <2>2. ~IsBulk(j) /\ job[j].kind # "notes" /\ pc'[j] \in {"ok", "apply"}
    BY <1>5 DEF SubmitTeam, Submitted, TaskInv, Asks, IsBulk, FormPhase,
         Finished
  <2>3. job' = job /\ form' = form /\ attributes' = attributes
    BY <1>5 DEF SubmitTeam
  <2> QED
    BY <2>1, <2>2, <2>3 DEF TaskInv, Asks, IsBulk, FormPhase, Finished
<1>6. ASSUME NEW j \in Jobs, Begin(j) PROVE TaskInv'
  BY <1>6 DEF Begin, AfterMeta, TaskInv, Asks, IsBulk, FormPhase, Finished
<1>7. ASSUME NEW j \in Jobs, Get(j) PROVE TaskInv'
  BY <1>7 DEF Get, TaskInv, Asks, IsBulk, FormPhase, Finished
<1>8. ASSUME NEW j \in Jobs, Put(j) PROVE TaskInv'
  BY <1>8 DEF Put, AfterMeta, AfterPut, TaskInv, Asks, IsBulk, FormPhase,
       Finished
<1>9. ASSUME NEW j \in Jobs, ReadGroups(j) PROVE TaskInv'
  BY <1>9 DEF ReadGroups, TaskInv, Asks, IsBulk, FormPhase, Finished
<1>10. ASSUME NEW j \in Jobs, LeaveGroup(j) PROVE TaskInv'
  BY <1>10 DEF LeaveGroup, TaskInv, Asks, IsBulk, FormPhase, Finished
<1>11. ASSUME NEW j \in Jobs, JoinGroup(j) PROVE TaskInv'
  BY <1>11 DEF JoinGroup, TaskInv, Asks, IsBulk, FormPhase, Finished
<1>12. ASSUME NEW j \in Jobs, ReadAttributes(j) PROVE TaskInv'
  <2>1. DOMAIN Over(Only(diff[j], {"team"}), Only(user, Attributes)) = Attributes
    <3>1. DOMAIN user = Fields /\ IsFieldChanges(diff[j]) /\ IsFieldChanges(user)
      BY UserFields
    <3>2. DOMAIN Only(user, Attributes) = Attributes
      BY <3>1 DEF Only, Attributes, Fields
    <3>3. DOMAIN Only(diff[j], {"team"}) \subseteq Attributes
      BY <3>1 DEF Only, Attributes
    <3> QED
      BY <3>2, <3>3 DEF Over
  <2>2. "team" \in DOMAIN diff[j]
    BY <1>12 DEF ReadAttributes, TaskInv, Asks
  <2>3. Over(Only(diff[j], {"team"}), Only(user, Attributes))["team"] = diff[j]["team"]
    BY <2>2 DEF Over, Only
  <2> DEFINE read == Over(Only(diff[j], {"team"}), Only(user, Attributes))
  <2> HIDE DEF read
  <2>4. attributes' = [attributes EXCEPT ![j] = read]
    BY <1>12 DEF ReadAttributes, read
  <2>5. DOMAIN attributes'[j] = Attributes /\ attributes'[j]["team"] = diff[j]["team"]
    BY <2>1, <2>3, <2>4 DEF read
  <2>6. \A k \in Jobs : k # j => attributes'[k] = attributes[k]
    BY <2>4
  <2> QED
    BY <1>12, <2>5, <2>6 DEF ReadAttributes, TaskInv, Asks, IsBulk, FormPhase,
         Finished
<1>13. ASSUME NEW j \in Jobs, GetMeta(j) PROVE TaskInv'
  BY <1>13 DEF GetMeta, TaskInv, Asks, IsBulk, FormPhase, Finished
<1>14. ASSUME NEW j \in Jobs, PutMeta(j) PROVE TaskInv'
  BY <1>14 DEF PutMeta, AfterMeta, AfterSave, TaskInv, Asks, IsBulk, FormPhase,
       Finished
<1>15. ASSUME NEW j \in Jobs, MetaError(j) PROVE TaskInv'
  BY <1>15 DEF MetaError, AfterMeta, TaskInv, Asks, IsBulk, FormPhase, Finished
<1>16. ASSUME NEW j \in Jobs, Fail(j) PROVE TaskInv'
  BY <1>16 DEF Fail, TaskInv, Asks, IsBulk, FormPhase, Finished
<1>17. CASE UNCHANGED vars
  BY <1>17 DEF vars, TaskInv, Asks, IsBulk, FormPhase, Finished
<1> QED
  BY <1>1, <1>2, <1>3, <1>4, <1>5, <1>6, <1>7, <1>8, <1>9, <1>10, <1>11, <1>12,
       <1>13, <1>14, <1>15, <1>16, <1>17 DEF Next

\* ReadInv is preserved.
LEMMA ReadStep == TypeOK /\ ReadInv /\ [Next]_vars => ReadInv'
<1> SUFFICES ASSUME TypeOK, ReadInv, [Next]_vars PROVE ReadInv'
  OBVIOUS
<1> USE DEF TypeOK, account, local, history, Goto, At
<1>1. ASSUME NEW j \in Jobs, PageUser(j) PROVE ReadInv'
  BY <1>1 DEF PageUser, ReadInv, Finished
<1>2. ASSUME NEW j \in Jobs, PageTeam(j) PROVE ReadInv'
  BY <1>2 DEF PageTeam, ReadInv, Finished
<1>3. ASSUME NEW j \in Jobs, PageMeta(j) PROVE ReadInv'
  BY <1>3 DEF PageMeta, ReadInv, Finished
<1>4. ASSUME NEW j \in Jobs, SubmitUser(j) PROVE ReadInv'
  BY <1>4 DEF SubmitUser, Submitted, ReadInv, Finished
<1>5. ASSUME NEW j \in Jobs, SubmitTeam(j) PROVE ReadInv'
  BY <1>5 DEF SubmitTeam, Submitted, ReadInv, Finished
<1>6. ASSUME NEW j \in Jobs, Begin(j) PROVE ReadInv'
  BY <1>6, NextStepType DEF Begin, ReadInv, Finished
<1>7. ASSUME NEW j \in Jobs, Get(j) PROVE ReadInv'
  BY <1>7 DEF Get, ReadInv, Finished
<1>8. ASSUME NEW j \in Jobs, Put(j) PROVE ReadInv'
  BY <1>8, NextStepType DEF Put, ReadInv, Finished
<1>9. ASSUME NEW j \in Jobs, ReadGroups(j) PROVE ReadInv'
  BY <1>9 DEF ReadGroups, ReadInv, Finished
<1>10. ASSUME NEW j \in Jobs, LeaveGroup(j) PROVE ReadInv'
  BY <1>10 DEF LeaveGroup, ReadInv, Finished
<1>11. ASSUME NEW j \in Jobs, JoinGroup(j) PROVE ReadInv'
  BY <1>11 DEF JoinGroup, ReadInv, Finished
<1>12. ASSUME NEW j \in Jobs, ReadAttributes(j) PROVE ReadInv'
  <2> DEFINE read == Over(Only(diff[j], {"team"}), Only(user, Attributes))
  <2>1. read["phone"] = user["phone"]
    <3>1. DOMAIN user = Fields
      BY UserFields
    <3> QED
      BY <3>1 DEF Over, Only, Attributes, Fields
  <2> HIDE DEF read
  <2>2. attributes' = [attributes EXCEPT ![j] = read]
    BY <1>12 DEF ReadAttributes, read
  <2>3. /\ attributes'[j]["phone"] = user["phone"]
        /\ \A k \in Jobs : k # j => attributes'[k] = attributes[k]
    BY <2>1, <2>2
  <2> QED
    BY <1>12, <2>3 DEF ReadAttributes, ReadInv, Finished
<1>13. ASSUME NEW j \in Jobs, GetMeta(j) PROVE ReadInv'
  BY <1>13 DEF GetMeta, ReadInv, Finished
<1>14. ASSUME NEW j \in Jobs, PutMeta(j) PROVE ReadInv'
  BY <1>14, NextStepType DEF PutMeta, ReadInv, Finished
<1>15. ASSUME NEW j \in Jobs, MetaError(j) PROVE ReadInv'
  BY <1>15, NextStepType DEF MetaError, ReadInv, Finished
<1>16. ASSUME NEW j \in Jobs, Fail(j) PROVE ReadInv'
  BY <1>16 DEF Fail, ReadInv, Finished
<1>17. CASE UNCHANGED vars
  BY <1>17 DEF vars, ReadInv, Finished
<1> QED
  BY <1>1, <1>2, <1>3, <1>4, <1>5, <1>6, <1>7, <1>8, <1>9, <1>10, <1>11, <1>12,
       <1>13, <1>14, <1>15, <1>16, <1>17 DEF Next

\* The team shown depends on the groups alone.
LEMMA TeamShownStays ==
  ASSUME groups' = groups
  PROVE  TeamShown' = TeamShown
BY DEF TeamShown

\* FormInv is preserved.
LEMMA FormStep == TypeOK /\ FormInv /\ [Next]_vars => FormInv'
<1> SUFFICES ASSUME TypeOK, FormInv, [Next]_vars PROVE FormInv'
  OBVIOUS
<1> USE DEF TypeOK, account, local, history, Goto, At
<1>1. ASSUME NEW j \in Jobs, PageUser(j) PROVE FormInv'
  <2> DEFINE shown == Only(user, {"enabled", "phone"})
  <2> DEFINE page == Over(form[j], shown)
  <2>1. /\ DOMAIN page = DOMAIN form[j] \cup DOMAIN shown
        /\ \A f \in DOMAIN form[j] : page[f] = form[j][f]
        /\ \A f \in DOMAIN shown \ DOMAIN form[j] : page[f] = shown[f]
    BY DEF Over
  <2>2. /\ DOMAIN shown = {"enabled", "phone"}
        /\ \A f \in {"enabled", "phone"} : shown[f] = user[f]
    <3>1. DOMAIN user = Fields
      BY UserFields
    <3> QED
      BY <3>1 DEF Only, Fields
  <2> HIDE DEF page
  <2>3. form' = [form EXCEPT ![j] = page]
    BY <1>1 DEF PageUser, page
  <2>4. form'[j] = page /\ \A k \in Jobs : k # j => form'[k] = form[k]
    BY <2>3
  <2> HIDE DEF shown
  <2> QED
    BY <1>1, <2>1, <2>2, <2>4, TeamShownStays DEF PageUser, FormInv, FormPhase,
         Finished
<1>2. ASSUME NEW j \in Jobs, PageTeam(j) PROVE FormInv'
  <2> DEFINE shown == [team |-> TeamShown]
  <2> DEFINE page == Over(form[j], shown)
  <2>1. /\ DOMAIN page = DOMAIN form[j] \cup DOMAIN shown
        /\ \A f \in DOMAIN form[j] : page[f] = form[j][f]
        /\ \A f \in DOMAIN shown \ DOMAIN form[j] : page[f] = shown[f]
    BY DEF Over
  <2>2. DOMAIN shown = {"team"} /\ shown["team"] = TeamShown
    OBVIOUS
  <2> HIDE DEF page
  <2>3. form' = [form EXCEPT ![j] = page]
    BY <1>2 DEF PageTeam, page
  <2>4. form'[j] = page /\ \A k \in Jobs : k # j => form'[k] = form[k]
    BY <2>3
  <2> HIDE DEF shown
  <2> QED
    BY <1>2, <2>1, <2>2, <2>4, TeamShownStays DEF PageTeam, FormInv, FormPhase,
         Finished
<1>3. ASSUME NEW j \in Jobs, PageMeta(j) PROVE FormInv'
  <2> DEFINE shown == Only(meta, {"reason"})
  <2> DEFINE page == Over(form[j], shown)
  <2>1. /\ DOMAIN page = DOMAIN form[j] \cup DOMAIN shown
        /\ \A f \in DOMAIN form[j] : page[f] = form[j][f]
        /\ \A f \in DOMAIN shown \ DOMAIN form[j] : page[f] = shown[f]
    BY DEF Over
  <2>2. TRUE
    OBVIOUS
  <2> HIDE DEF page
  <2>3. form' = [form EXCEPT ![j] = page]
    BY <1>3 DEF PageMeta, page
  <2>4. form'[j] = page /\ \A k \in Jobs : k # j => form'[k] = form[k]
    BY <2>3
  <2> HIDE DEF shown
  <2> QED
    BY <1>3, <2>1, <2>2, <2>4, TeamShownStays DEF PageMeta, FormInv, FormPhase,
         Finished
<1>4. ASSUME NEW j \in Jobs, SubmitUser(j) PROVE FormInv'
  BY <1>4, TeamShownStays DEF SubmitUser, Submitted, FormInv, FormPhase,
       Finished
<1>5. ASSUME NEW j \in Jobs, SubmitTeam(j) PROVE FormInv'
  BY <1>5, TeamShownStays DEF SubmitTeam, Submitted, FormInv, FormPhase,
       Finished
<1>6. ASSUME NEW j \in Jobs, Begin(j) PROVE FormInv'
  BY <1>6, TeamShownStays, NextStepType DEF Begin, FormInv, FormPhase, Finished
<1>7. ASSUME NEW j \in Jobs, Get(j) PROVE FormInv'
  BY TeamShownStays, <1>7 DEF Get, FormInv, FormPhase, Finished
<1>8. ASSUME NEW j \in Jobs, Put(j) PROVE FormInv'
  BY <1>8, NextStepType DEF Put, FormInv, FormPhase, Finished
<1>9. ASSUME NEW j \in Jobs, ReadGroups(j) PROVE FormInv'
  BY TeamShownStays, <1>9 DEF ReadGroups, FormInv, FormPhase, Finished
<1>10. ASSUME NEW j \in Jobs, LeaveGroup(j) PROVE FormInv'
  BY <1>10 DEF LeaveGroup, InForm, FormInv, FormPhase, Finished
<1>11. ASSUME NEW j \in Jobs, JoinGroup(j) PROVE FormInv'
  BY <1>11 DEF JoinGroup, InForm, FormInv, FormPhase, Finished
<1>12. ASSUME NEW j \in Jobs, ReadAttributes(j) PROVE FormInv'
  BY TeamShownStays, <1>12 DEF ReadAttributes, FormInv, FormPhase, Finished
<1>13. ASSUME NEW j \in Jobs, GetMeta(j) PROVE FormInv'
  BY TeamShownStays, <1>13 DEF GetMeta, FormInv, FormPhase, Finished
<1>14. ASSUME NEW j \in Jobs, PutMeta(j) PROVE FormInv'
  BY <1>14, TeamShownStays, NextStepType DEF PutMeta, FormInv, FormPhase,
       Finished
<1>15. ASSUME NEW j \in Jobs, MetaError(j) PROVE FormInv'
  BY <1>15, TeamShownStays, NextStepType DEF MetaError, FormInv, FormPhase,
       Finished
<1>16. ASSUME NEW j \in Jobs, Fail(j) PROVE FormInv'
  BY TeamShownStays, <1>16 DEF Fail, FormInv, FormPhase, Finished
<1>17. CASE UNCHANGED vars
  BY <1>17, TeamShownStays DEF vars, FormInv, FormPhase, Finished
<1> QED
  BY <1>1, <1>2, <1>3, <1>4, <1>5, <1>6, <1>7, <1>8, <1>9, <1>10, <1>11, <1>12,
       <1>13, <1>14, <1>15, <1>16, <1>17 DEF Next

\* AskedInv is preserved.
LEMMA AskedStep ==
  TypeOK /\ TaskInv /\ ReadInv /\ FormInv /\ AskedInv /\ [Next]_vars
    => AskedInv'
<1> SUFFICES ASSUME TypeOK, TaskInv, ReadInv, FormInv, AskedInv, [Next]_vars
             PROVE  AskedInv'
  OBVIOUS
<1> USE DEF TypeOK, account, local, history, Goto, At
<1>1. ASSUME NEW j \in Jobs, PageUser(j) PROVE AskedInv'
  BY <1>1 DEF PageUser, AskedInv
<1>2. ASSUME NEW j \in Jobs, PageTeam(j) PROVE AskedInv'
  BY <1>2 DEF PageTeam, AskedInv
<1>3. ASSUME NEW j \in Jobs, PageMeta(j) PROVE AskedInv'
  BY <1>3 DEF PageMeta, AskedInv
<1>4. ASSUME NEW j \in Jobs, SubmitUser(j) PROVE AskedInv'
  <2>1. \A k \in Jobs : k # j => diff'[k] = diff[k]
    BY <1>4 DEF SubmitUser, Submitted
  <2>2. job' = job /\ fault' = fault
    BY <1>4 DEF SubmitUser, history
  <2>3. CASE job[j].kind = "edit"
    BY <1>4, <2>2, <2>3 DEF SubmitUser, AskedInv
  <2>4. CASE job[j].kind # "edit"
    <3>1. job[j].kind = "proposeBulk"
      BY <1>4, <2>4, TaskType DEF SubmitUser, TaskInv, Kind, IsBulk, FormPhase,
           Finished
    <3>2. form[j] = job[j].wish
      BY <3>1 DEF TaskInv
    <3>3. diff'[j] = Only(form[j], Changed(form[j], user) \cup {"team"})
      BY <1>4, <2>4 DEF SubmitUser, Submitted, BulkDiff
    <3>4. DOMAIN diff'[j] \subseteq DOMAIN job[j].wish
      BY <3>2, <3>3 DEF Only
    <3> QED
      BY <2>1, <2>2, <3>4 DEF AskedInv
  <2> QED
    BY <2>3, <2>4
<1>5. ASSUME NEW j \in Jobs, SubmitTeam(j) PROVE AskedInv'
  <2> DEFINE now == [seen[j] EXCEPT !.team = TeamShown]
  <2>1. \A k \in Jobs : k # j => diff'[k] = diff[k]
    BY <1>5 DEF SubmitTeam, Submitted
  <2>2. job' = job /\ fault \subseteq fault'
    BY <1>5 DEF SubmitTeam
  <2>3. diff'[j] = FormDiff(form[j], now)
    BY <1>5 DEF SubmitTeam, Submitted
  <2>4. DOMAIN diff'[j] \cap Fields \subseteq Changed(form[j], now)
    BY <2>3 DEF FormDiff, Only, Changed, Fields
  <2>5. ASSUME j \in fresh PROVE Changed(form[j], now) \subseteq DOMAIN job[j].wish
    <3>1. job[j].kind = "edit"
      BY <1>5, TaskType DEF SubmitTeam, TaskInv, Kind, IsBulk, FormPhase,
           Finished
    <3>2. seen[j] = user /\ user \in User
      BY <1>5, <2>5 DEF SubmitTeam, ReadInv
    <3>3. now["enabled"] = user["enabled"] /\ now["phone"] = user["phone"]
          /\ now["team"] = TeamShown
      BY <3>2 DEF User
    <3>4. \A f \in {"enabled", "phone"} \ DOMAIN job[j].wish : form[j][f] = user[f]
      BY <1>5, <2>5, <3>1 DEF SubmitTeam, FormInv
    <3>5. "team" \in DOMAIN job[j].wish \/ form[j]["team"] = TeamShown
      BY <1>5, <2>5, <3>1 DEF SubmitTeam, FormInv
    <3> HIDE DEF now
    <3> QED
      BY <3>3, <3>4, <3>5 DEF Changed, Fields
  <2>6. j \in fresh \/ "staleForm" \in fault'
    BY <1>5 DEF SubmitTeam
  <2> QED
    BY <2>1, <2>2, <2>4, <2>5, <2>6 DEF AskedInv
<1>6. ASSUME NEW j \in Jobs, Begin(j) PROVE AskedInv'
  BY <1>6 DEF Begin, AskedInv
<1>7. ASSUME NEW j \in Jobs, Get(j) PROVE AskedInv'
  BY <1>7 DEF Get, AskedInv
<1>8. ASSUME NEW j \in Jobs, Put(j) PROVE AskedInv'
  BY <1>8 DEF Put, AskedInv
<1>9. ASSUME NEW j \in Jobs, ReadGroups(j) PROVE AskedInv'
  BY <1>9 DEF ReadGroups, AskedInv
<1>10. ASSUME NEW j \in Jobs, LeaveGroup(j) PROVE AskedInv'
  BY <1>10 DEF LeaveGroup, AskedInv
<1>11. ASSUME NEW j \in Jobs, JoinGroup(j) PROVE AskedInv'
  BY <1>11 DEF JoinGroup, AskedInv
<1>12. ASSUME NEW j \in Jobs, ReadAttributes(j) PROVE AskedInv'
  BY <1>12 DEF ReadAttributes, AskedInv
<1>13. ASSUME NEW j \in Jobs, GetMeta(j) PROVE AskedInv'
  BY <1>13 DEF GetMeta, AskedInv
<1>14. ASSUME NEW j \in Jobs, PutMeta(j) PROVE AskedInv'
  BY <1>14 DEF PutMeta, AskedInv
<1>15. ASSUME NEW j \in Jobs, MetaError(j) PROVE AskedInv'
  BY <1>15 DEF MetaError, AskedInv
<1>16. ASSUME NEW j \in Jobs, Fail(j) PROVE AskedInv'
  BY <1>16 DEF Fail, AskedInv
<1>17. CASE UNCHANGED vars
  BY <1>17 DEF vars, AskedInv
<1> QED
  BY <1>1, <1>2, <1>3, <1>4, <1>5, <1>6, <1>7, <1>8, <1>9, <1>10, <1>11, <1>12,
       <1>13, <1>14, <1>15, <1>16, <1>17 DEF Next

\* Every step lets the set of moves under way shrink, or finds it empty and
\* puts at most one there, or is on record as a crossing.
OneMoveMore ==
  \/ Moving' \subseteq Moving
  \/ Moving = {} /\ \E j \in Jobs : Moving' \subseteq {j}
  \/ "crossed" \in fault'

\* No step puts a second move under way without recording it.
LEMMA MovingStep == TypeOK /\ TaskInv /\ [Next]_vars => OneMoveMore
<1> SUFFICES ASSUME TypeOK, TaskInv, [Next]_vars PROVE OneMoveMore
  OBVIOUS
<1> USE DEF TypeOK, account, local, history, Goto, At
<1>1. ASSUME NEW j \in Jobs, PageUser(j) PROVE OneMoveMore
  BY <1>1 DEF PageUser, OneMoveMore, Moving, Applying, Asks, FormPhase, Finished
<1>2. ASSUME NEW j \in Jobs, PageTeam(j) PROVE OneMoveMore
  BY <1>2 DEF PageTeam, OneMoveMore, Moving, Applying, Asks, FormPhase, Finished
<1>3. ASSUME NEW j \in Jobs, PageMeta(j) PROVE OneMoveMore
  BY <1>3 DEF PageMeta, OneMoveMore, Moving, Applying, Asks, FormPhase, Finished
<1>4. ASSUME NEW j \in Jobs, SubmitUser(j) PROVE OneMoveMore
  <2>1. \A k \in Jobs : k # j => diff'[k] = diff[k] /\ pc'[k] = pc[k]
    BY <1>4 DEF SubmitUser, Submitted
  <2>2. pc'[j] \in {"submitTeam", "ok", "apply"}
    BY <1>4 DEF SubmitUser, Submitted
  <2> QED
    BY <2>1, <2>2 DEF OneMoveMore, Moving, Applying, Asks, FormPhase, Finished
<1>5. ASSUME NEW j \in Jobs, SubmitTeam(j) PROVE OneMoveMore
  <2>1. \A k \in Jobs : k # j => diff'[k] = diff[k] /\ pc'[k] = pc[k]
    BY <1>5 DEF SubmitTeam, Submitted
  <2>2. pc'[j] \in {"ok", "apply"}
    BY <1>5 DEF SubmitTeam, Submitted
  <2> QED
    BY <2>1, <2>2 DEF OneMoveMore, Moving, Applying, Asks, FormPhase, Finished
<1>6. ASSUME NEW j \in Jobs, Begin(j) PROVE OneMoveMore
  <2>1. /\ diff' = diff /\ pc[j] \notin Applying
        /\ \A k \in Jobs : k # j => pc'[k] = pc[k]
    BY <1>6 DEF Begin, Applying
  <2>2. Moving' \subseteq Moving \cup {j}
    BY <2>1 DEF Moving, Asks
  <2>3. ~Asks(j, "team") => Moving' \subseteq Moving
    BY <2>1 DEF Moving, Asks
  <2>4. Asks(j, "team") /\ Moving # {} => "crossed" \in fault'
    BY <1>6 DEF Begin
  <2> QED
    BY <2>2, <2>3, <2>4 DEF OneMoveMore
<1>7. ASSUME NEW j \in Jobs, Get(j) PROVE OneMoveMore
  BY <1>7 DEF Get, OneMoveMore, Moving, Applying, Asks, FormPhase, Finished
<1>8. ASSUME NEW j \in Jobs, Put(j) PROVE OneMoveMore
  BY <1>8, NextStepType DEF Put, OneMoveMore, Moving, Applying, Asks,
       FormPhase, Finished
<1>9. ASSUME NEW j \in Jobs, ReadGroups(j) PROVE OneMoveMore
  BY <1>9 DEF ReadGroups, OneMoveMore, Moving, Applying, Asks, FormPhase,
       Finished
<1>10. ASSUME NEW j \in Jobs, LeaveGroup(j) PROVE OneMoveMore
  BY <1>10 DEF LeaveGroup, OneMoveMore, Moving, Applying, Asks, FormPhase,
       Finished
<1>11. ASSUME NEW j \in Jobs, JoinGroup(j) PROVE OneMoveMore
  BY <1>11 DEF JoinGroup, OneMoveMore, Moving, Applying, Asks, FormPhase,
       Finished
<1>12. ASSUME NEW j \in Jobs, ReadAttributes(j) PROVE OneMoveMore
  BY <1>12 DEF ReadAttributes, OneMoveMore, Moving, Applying, Asks, FormPhase,
       Finished
<1>13. ASSUME NEW j \in Jobs, GetMeta(j) PROVE OneMoveMore
  BY <1>13 DEF GetMeta, OneMoveMore, Moving, Applying, Asks, FormPhase, Finished
<1>14. ASSUME NEW j \in Jobs, PutMeta(j) PROVE OneMoveMore
  BY <1>14, NextStepType DEF PutMeta, OneMoveMore, Moving, Applying, Asks,
       FormPhase, Finished
<1>15. ASSUME NEW j \in Jobs, MetaError(j) PROVE OneMoveMore
  BY <1>15, NextStepType DEF MetaError, OneMoveMore, Moving, Applying, Asks,
       FormPhase, Finished
<1>16. ASSUME NEW j \in Jobs, Fail(j) PROVE OneMoveMore
  BY <1>16 DEF Fail, OneMoveMore, Moving, Applying, Asks, FormPhase, Finished
<1>17. CASE UNCHANGED vars
  BY <1>17 DEF vars, OneMoveMore, Moving, Applying, Asks, FormPhase, Finished
<1> QED
  BY <1>1, <1>2, <1>3, <1>4, <1>5, <1>6, <1>7, <1>8, <1>9, <1>10, <1>11, <1>12,
       <1>13, <1>14, <1>15, <1>16, <1>17 DEF Next

\* A fault is never forgotten.
LEMMA FaultsStay == TypeOK /\ [Next]_vars => fault \subseteq fault'
<1> SUFFICES ASSUME TypeOK, [Next]_vars PROVE fault \subseteq fault'
  OBVIOUS
<1> USE DEF account, local, history
<1>1. ASSUME NEW j \in Jobs, PageUser(j) PROVE fault \subseteq fault'
  BY <1>1 DEF PageUser
<1>2. ASSUME NEW j \in Jobs, PageTeam(j) PROVE fault \subseteq fault'
  BY <1>2 DEF PageTeam
<1>3. ASSUME NEW j \in Jobs, PageMeta(j) PROVE fault \subseteq fault'
  BY <1>3 DEF PageMeta
<1>4. ASSUME NEW j \in Jobs, SubmitUser(j) PROVE fault \subseteq fault'
  BY <1>4 DEF SubmitUser
<1>5. ASSUME NEW j \in Jobs, SubmitTeam(j) PROVE fault \subseteq fault'
  BY <1>5 DEF SubmitTeam
<1>6. ASSUME NEW j \in Jobs, Begin(j) PROVE fault \subseteq fault'
  BY <1>6 DEF Begin
<1>7. ASSUME NEW j \in Jobs, Get(j) PROVE fault \subseteq fault'
  BY <1>7 DEF Get
<1>8. ASSUME NEW j \in Jobs, Put(j) PROVE fault \subseteq fault'
  BY <1>8 DEF Put
<1>9. ASSUME NEW j \in Jobs, ReadGroups(j) PROVE fault \subseteq fault'
  BY <1>9 DEF ReadGroups
<1>10. ASSUME NEW j \in Jobs, LeaveGroup(j) PROVE fault \subseteq fault'
  BY <1>10 DEF LeaveGroup
<1>11. ASSUME NEW j \in Jobs, JoinGroup(j) PROVE fault \subseteq fault'
  BY <1>11 DEF JoinGroup
<1>12. ASSUME NEW j \in Jobs, ReadAttributes(j) PROVE fault \subseteq fault'
  BY <1>12 DEF ReadAttributes
<1>13. ASSUME NEW j \in Jobs, GetMeta(j) PROVE fault \subseteq fault'
  BY <1>13 DEF GetMeta
<1>14. ASSUME NEW j \in Jobs, PutMeta(j) PROVE fault \subseteq fault'
  BY <1>14 DEF PutMeta
<1>15. ASSUME NEW j \in Jobs, MetaError(j) PROVE fault \subseteq fault'
  BY <1>15 DEF MetaError
<1>16. ASSUME NEW j \in Jobs, Fail(j) PROVE fault \subseteq fault'
  BY <1>16 DEF Fail
<1>17. CASE UNCHANGED vars
  BY <1>17 DEF vars
<1> QED
  BY <1>1, <1>2, <1>3, <1>4, <1>5, <1>6, <1>7, <1>8, <1>9, <1>10, <1>11, <1>12,
       <1>13, <1>14, <1>15, <1>16, <1>17 DEF Next

\* One move at a time, and at most one team: the new one is joined last.
LEMMA LeaveStep ==
  TypeOK /\ TaskInv /\ LeaveInv /\ TeamExclusive /\ [Next]_vars
    => (LeaveInv /\ TeamExclusive)'
<1> SUFFICES ASSUME TypeOK, TaskInv, LeaveInv, TeamExclusive, [Next]_vars
             PROVE  (LeaveInv /\ TeamExclusive)'
  OBVIOUS
<1> USE DEF TypeOK, account, local, history, Goto, At
<1> DEFINE Quiet ==
      /\ groups' = groups
      /\ \A k \in Jobs : pc'[k] = "leave" =>
           pc[k] = "leave" /\ diff'[k] = diff[k] /\ todo'[k] = todo[k]
<1>0. /\ fault \subseteq fault'
      /\ "crossed" \notin fault' /\ LeaveInv => \A j, k \in Moving' : j = k
  BY MovingStep, FaultsStay DEF OneMoveMore, LeaveInv
<1>1. ASSUME NEW j \in Jobs, PageUser(j) PROVE (LeaveInv /\ TeamExclusive)'
  <2>1. Quiet
    BY <1>1 DEF PageUser, Submitted, Applying, FormPhase
  <2> QED
    BY <2>1, <1>0 DEF LeaveInv, TeamExclusive
<1>2. ASSUME NEW j \in Jobs, PageTeam(j) PROVE (LeaveInv /\ TeamExclusive)'
  <2>1. Quiet
    BY <1>2 DEF PageTeam, Submitted, Applying, FormPhase
  <2> QED
    BY <2>1, <1>0 DEF LeaveInv, TeamExclusive
<1>3. ASSUME NEW j \in Jobs, PageMeta(j) PROVE (LeaveInv /\ TeamExclusive)'
  <2>1. Quiet
    BY <1>3 DEF PageMeta, Submitted, Applying, FormPhase
  <2> QED
    BY <2>1, <1>0 DEF LeaveInv, TeamExclusive
<1>4. ASSUME NEW j \in Jobs, SubmitUser(j) PROVE (LeaveInv /\ TeamExclusive)'
  <2>1. Quiet
    BY <1>4 DEF SubmitUser, Submitted, Applying, FormPhase
  <2> QED
    BY <2>1, <1>0 DEF LeaveInv, TeamExclusive
<1>5. ASSUME NEW j \in Jobs, SubmitTeam(j) PROVE (LeaveInv /\ TeamExclusive)'
  <2>1. Quiet
    BY <1>5 DEF SubmitTeam, Submitted, Applying, FormPhase
  <2> QED
    BY <2>1, <1>0 DEF LeaveInv, TeamExclusive
<1>6. ASSUME NEW j \in Jobs, Begin(j) PROVE (LeaveInv /\ TeamExclusive)'
  <2>1. Quiet
    BY <1>6, NextStepType DEF Begin, Submitted, Applying, FormPhase
  <2> QED
    BY <2>1, <1>0 DEF LeaveInv, TeamExclusive
<1>7. ASSUME NEW j \in Jobs, Get(j) PROVE (LeaveInv /\ TeamExclusive)'
  <2>1. Quiet
    BY <1>7 DEF Get, Submitted, Applying, FormPhase
  <2> QED
    BY <2>1, <1>0 DEF LeaveInv, TeamExclusive
<1>8. ASSUME NEW j \in Jobs, Put(j) PROVE (LeaveInv /\ TeamExclusive)'
  <2>1. Quiet
    BY <1>8, NextStepType DEF Put, Submitted, Applying, FormPhase
  <2> QED
    BY <2>1, <1>0 DEF LeaveInv, TeamExclusive
<1>9. ASSUME NEW j \in Jobs, ReadGroups(j) PROVE (LeaveInv /\ TeamExclusive)'
  <2>1. /\ groups' = groups /\ diff' = diff
        /\ \A k \in Jobs : k # j /\ pc'[k] = "leave" =>
             pc[k] = "leave" /\ todo'[k] = todo[k]
    BY <1>9 DEF ReadGroups
  <2>2. groups \cap Teams \subseteq todo'[j] \cup {diff[j]["team"]}
    BY <1>9 DEF ReadGroups
  <2> QED
    BY <2>1, <2>2, <1>0 DEF LeaveInv, TeamExclusive
<1>10. ASSUME NEW j \in Jobs, LeaveGroup(j) PROVE (LeaveInv /\ TeamExclusive)'
  <2>1. PICK g \in todo[j] : /\ groups' = groups \ {g}
                             /\ todo' = [todo EXCEPT ![j] = todo[j] \ {g}]
    BY <1>10 DEF LeaveGroup
  <2>2. pc' = pc /\ diff' = diff
    BY <1>10 DEF LeaveGroup
  <2>3. \A k \in Jobs : k # j => todo'[k] = todo[k]
    BY <2>1
  <2>4. todo'[j] = todo[j] \ {g}
    BY <2>1
  <2> QED
    BY <2>1, <2>2, <2>3, <2>4, <1>0 DEF LeaveInv, TeamExclusive
<1>11. ASSUME NEW j \in Jobs, JoinGroup(j) PROVE (LeaveInv /\ TeamExclusive)'
  <2>1. diff' = diff /\ todo' = todo /\ pc'[j] # "leave"
        /\ \A k \in Jobs : k # j => pc'[k] = pc[k]
    BY <1>11 DEF JoinGroup
  <2>2. \A k \in Jobs : pc[k] = "leave" => k \in Moving
    BY DEF TaskInv, Moving, Applying
  <2>3. \A k \in Jobs : "crossed" \notin fault => pc'[k] # "leave"
    BY <1>11, <2>1, <2>2 DEF JoinGroup, LeaveInv
  <2>4. "crossed" \notin fault => groups \cap Teams \subseteq {diff[j]["team"]}
    BY <1>11 DEF JoinGroup, LeaveInv
  <2>5. groups' \subseteq groups \cup {diff[j]["team"]}
    BY <1>11 DEF JoinGroup
  <2> QED
    BY <2>3, <2>4, <2>5, <1>0 DEF LeaveInv, TeamExclusive
<1>12. ASSUME NEW j \in Jobs, ReadAttributes(j) PROVE (LeaveInv /\ TeamExclusive)'
  <2>1. Quiet
    BY <1>12 DEF ReadAttributes, Submitted, Applying, FormPhase
  <2> QED
    BY <2>1, <1>0 DEF LeaveInv, TeamExclusive
<1>13. ASSUME NEW j \in Jobs, GetMeta(j) PROVE (LeaveInv /\ TeamExclusive)'
  <2>1. Quiet
    BY <1>13 DEF GetMeta, Submitted, Applying, FormPhase
  <2> QED
    BY <2>1, <1>0 DEF LeaveInv, TeamExclusive
<1>14. ASSUME NEW j \in Jobs, PutMeta(j) PROVE (LeaveInv /\ TeamExclusive)'
  <2>1. Quiet
    BY <1>14, NextStepType DEF PutMeta, Submitted, Applying, FormPhase
  <2> QED
    BY <2>1, <1>0 DEF LeaveInv, TeamExclusive
<1>15. ASSUME NEW j \in Jobs, MetaError(j) PROVE (LeaveInv /\ TeamExclusive)'
  <2>1. Quiet
    BY <1>15, NextStepType DEF MetaError, Submitted, Applying, FormPhase
  <2> QED
    BY <2>1, <1>0 DEF LeaveInv, TeamExclusive
<1>16. ASSUME NEW j \in Jobs, Fail(j) PROVE (LeaveInv /\ TeamExclusive)'
  <2>1. Quiet
    BY <1>16 DEF Fail, Submitted, Applying, FormPhase
  <2> QED
    BY <2>1, <1>0 DEF LeaveInv, TeamExclusive
<1>17. CASE UNCHANGED vars
  BY <1>17, <1>0 DEF vars, LeaveInv, TeamExclusive
<1> QED
  BY <1>1, <1>2, <1>3, <1>4, <1>5, <1>6, <1>7, <1>8, <1>9, <1>10, <1>11, <1>12,
       <1>13, <1>14, <1>15, <1>16, <1>17 DEF Next

\* AgreeInv is preserved: Put writes the attribute, JoinGroup completes the groups.
LEMMA AgreeStep ==
  TypeOK /\ TaskInv /\ ReadInv /\ LeaveInv /\ AgreeInv /\ [Next]_vars
    => AgreeInv'
<1> SUFFICES ASSUME TypeOK, TaskInv, ReadInv, LeaveInv, AgreeInv, [Next]_vars
             PROVE  AgreeInv'
  OBVIOUS
<1> USE DEF TypeOK, account, local, history, Goto, At
<1>0. fault \subseteq fault'
  BY FaultsStay
<1>1. ASSUME NEW j \in Jobs, PageUser(j) PROVE AgreeInv'
  <2>1. user' = user /\ TeamShown' = TeamShown /\ diff' = diff /\ job' = job
    BY <1>1, TeamShownStays DEF PageUser
  <2>2. Moving' = Moving
    BY <1>1 DEF PageUser, Moving, Applying, Asks, FormPhase, Finished
  <2> QED
    BY <1>1, <2>1, <2>2, <1>0 DEF PageUser, AgreeInv, IsBulk
<1>2. ASSUME NEW j \in Jobs, PageTeam(j) PROVE AgreeInv'
  <2>1. user' = user /\ TeamShown' = TeamShown /\ diff' = diff /\ job' = job
    BY <1>2, TeamShownStays DEF PageTeam
  <2>2. Moving' = Moving
    BY <1>2 DEF PageTeam, Moving, Applying, Asks, FormPhase, Finished
  <2> QED
    BY <1>2, <2>1, <2>2, <1>0 DEF PageTeam, AgreeInv, IsBulk
<1>3. ASSUME NEW j \in Jobs, PageMeta(j) PROVE AgreeInv'
  <2>1. user' = user /\ TeamShown' = TeamShown /\ diff' = diff /\ job' = job
    BY <1>3, TeamShownStays DEF PageMeta
  <2>2. Moving' = Moving
    BY <1>3 DEF PageMeta, Moving, Applying, Asks, FormPhase, Finished
  <2> QED
    BY <1>3, <2>1, <2>2, <1>0 DEF PageMeta, AgreeInv, IsBulk
<1>4. ASSUME NEW j \in Jobs, SubmitUser(j) PROVE AgreeInv'
  <2>1. user' = user /\ TeamShown' = TeamShown /\ job' = job
    BY <1>4, TeamShownStays DEF SubmitUser
  <2>2. /\ \A k \in Jobs : k # j => diff'[k] = diff[k] /\ pc'[k] = pc[k]
        /\ pc[j] \notin Applying /\ pc'[j] \notin Applying
    BY <1>4 DEF SubmitUser, Submitted, Applying
  <2>3. Moving' = Moving
    BY <2>2 DEF Moving, Asks
  <2>4. \A k \in Moving : k # j
    BY <2>2 DEF Moving
  <2> QED
    BY <2>1, <2>2, <2>3, <2>4, <1>0 DEF AgreeInv, IsBulk, Moving
<1>5. ASSUME NEW j \in Jobs, SubmitTeam(j) PROVE AgreeInv'
  <2>1. user' = user /\ TeamShown' = TeamShown /\ job' = job
    BY <1>5, TeamShownStays DEF SubmitTeam
  <2>2. /\ \A k \in Jobs : k # j => diff'[k] = diff[k] /\ pc'[k] = pc[k]
        /\ pc[j] \notin Applying /\ pc'[j] \notin Applying
    BY <1>5 DEF SubmitTeam, Submitted, Applying
  <2>3. Moving' = Moving
    BY <2>2 DEF Moving, Asks
  <2>4. \A k \in Moving : k # j
    BY <2>2 DEF Moving
  <2> QED
    BY <2>1, <2>2, <2>3, <2>4, <1>0 DEF AgreeInv, IsBulk, Moving
<1>6. ASSUME NEW j \in Jobs, Begin(j) PROVE AgreeInv'
  <2>1. user' = user /\ TeamShown' = TeamShown /\ diff' = diff /\ job' = job
    BY <1>6, TeamShownStays DEF Begin
  <2>2. pc[j] \notin Applying /\ \A k \in Jobs : k # j => pc'[k] = pc[k]
    BY <1>6 DEF Begin, Applying
  <2>3. CASE ~Asks(j, "team")
    <3>1. Moving' = Moving /\ \A k \in Moving : k # j
      BY <2>1, <2>2, <2>3 DEF Moving, Asks
    <3> QED
      BY <2>1, <2>2, <3>1, <1>0 DEF AgreeInv, IsBulk, Moving
  <2>4. CASE Asks(j, "team") /\ Moving # {}
    <3>1. "crossed" \in fault'
      BY <1>6, <2>4 DEF Begin
    <3> QED
      BY <3>1 DEF AgreeInv
  <2>5. CASE Asks(j, "team") /\ Moving = {}
    <3>1. pc'[j] = "get" \/ (IsBulk(j) /\ pc'[j] = "groups")
      BY <1>6, <2>5 DEF Begin, AfterMeta, IsBulk
    <3>2. Moving' = {j}
      BY <2>1, <2>2, <2>5, <3>1 DEF Moving, Asks, Applying
    <3> QED
      BY <2>1, <2>5, <3>1, <3>2, <1>0 DEF AgreeInv, IsBulk
  <2> QED
    BY <2>3, <2>4, <2>5
<1>7. ASSUME NEW j \in Jobs, Get(j) PROVE AgreeInv'
  <2>1. user' = user /\ TeamShown' = TeamShown /\ diff' = diff /\ job' = job
        /\ \A k \in Jobs : k # j => pc'[k] = pc[k]
    BY <1>7, TeamShownStays DEF Get
  <2>2. \/ pc[j] = "get" /\ pc'[j] = "put"
        \/ pc[j] = "attrGet" /\ pc'[j] = "attrPut"
    BY <1>7 DEF Get
  <2>3. Moving' = Moving
    BY <2>1, <2>2 DEF Moving, Asks, Applying
  <2>4. Moving \subseteq Jobs
    BY DEF Moving
  <2> QED
    BY <1>0, <2>1, <2>2, <2>3, <2>4 DEF AgreeInv, IsBulk
<1>8. ASSUME NEW j \in Jobs, Put(j) PROVE AgreeInv'
  <2>1. TeamShown' = TeamShown /\ diff' = diff /\ job' = job
        /\ \A k \in Jobs : k # j => pc'[k] = pc[k]
    BY <1>8, TeamShownStays DEF Put
  <2>2. user' = Over(Update(j), seen[j]) /\ DOMAIN seen[j] = Fields
    BY <1>8, UserFields DEF Put
  <2>3. user'["team"] = IF "team" \in DOMAIN Update(j) THEN Update(j)["team"]
                        ELSE seen[j]["team"]
    BY <2>2 DEF Over, Fields
  <2>4. SUFFICES ASSUME fault' \cap {"crossed", "torn", "stalePut"} = {}
                 PROVE  AgreeInv'
    BY DEF AgreeInv
  <2>5. j \in fresh /\ seen[j] = user
    BY <1>8, <2>4 DEF Put, ReadInv
  <2>6. \A k, l \in Moving : k = l
    BY <1>0, <2>4 DEF LeaveInv
  <2>7. CASE At(j, "attrPut")
    <3>1. Update(j) = attributes[j] /\ j \in Moving /\ IsBulk(j) /\ pc'[j] = "ok"
      BY <1>8, <2>7 DEF Put, Update, TaskInv, Moving, Applying
    <3>2. "team" \in DOMAIN attributes[j] /\ attributes[j]["team"] = diff[j]["team"]
      BY <2>7 DEF TaskInv, Attributes
    <3>3. user'["team"] = TeamShown
      BY <1>0, <2>3, <2>4, <2>7, <3>1, <3>2 DEF AgreeInv
    <3>4. Moving' = {}
      BY <2>1, <2>6, <3>1 DEF Moving, Asks, Applying
    <3> QED
      BY <2>1, <3>3, <3>4 DEF AgreeInv
  <2>8. CASE pc[j] = "put" /\ ~Asks(j, "team")
    <3>1. "team" \notin DOMAIN Update(j)
      BY <2>8 DEF Update, Only, Asks
    <3>2. user'["team"] = user["team"]
      BY <2>3, <2>5, <3>1
    <3>3. Moving' = Moving /\ \A k \in Moving : k # j
      BY <2>1, <2>8 DEF Moving, Asks
    <3> QED
      BY <1>0, <2>1, <2>4, <3>2, <3>3 DEF AgreeInv, IsBulk, Moving
  <2>9. CASE pc[j] = "put" /\ Asks(j, "team")
    <3>1. pc'[j] \in {"meta", "groups"}
      BY <1>8, <2>9 DEF Put, AfterPut, AfterMeta
    <3>2. Moving' = {j} /\ j \in Moving
      BY <2>1, <2>6, <2>9, <3>1 DEF Moving, Asks, Applying
    <3>3. ~IsBulk(j) => user'["team"] = diff[j]["team"]
      <4>1. SUFFICES ASSUME ~IsBulk(j) PROVE user'["team"] = diff[j]["team"]
        OBVIOUS
      <4>2. Update(j) = Only(diff[j], Fields)
        BY <2>9, <4>1 DEF Update
      <4> QED
        BY <2>3, <2>9, <4>2 DEF Only, Asks, Fields
    <3> QED
      BY <2>1, <3>1, <3>2, <3>3 DEF AgreeInv, IsBulk
  <2> QED
    BY <1>8, <2>7, <2>8, <2>9 DEF Put
<1>9. ASSUME NEW j \in Jobs, ReadGroups(j) PROVE AgreeInv'
  <2>1. user' = user /\ TeamShown' = TeamShown /\ diff' = diff /\ job' = job
    BY <1>9, TeamShownStays DEF ReadGroups
  <2>2. Moving' = Moving
    BY <1>9 DEF ReadGroups, Moving, Applying, Asks, FormPhase, Finished
  <2> QED
    BY <1>9, <2>1, <2>2, <1>0 DEF ReadGroups, AgreeInv, IsBulk
<1>10. ASSUME NEW j \in Jobs, LeaveGroup(j) PROVE AgreeInv'
  <2>1. user' = user /\ diff' = diff /\ job' = job /\ pc' = pc /\ pc[j] = "leave"
    BY <1>10 DEF LeaveGroup
  <2>2. Moving' = Moving /\ j \in Moving
    BY <2>1 DEF Moving, Asks, TaskInv, Applying
  <2>3. "crossed" \notin fault' => \A k \in Moving : k = j
    BY <1>0, <2>2 DEF LeaveInv
  <2> QED
    BY <1>0, <2>1, <2>2, <2>3 DEF AgreeInv, IsBulk
<1>11. ASSUME NEW j \in Jobs, JoinGroup(j) PROVE AgreeInv'
  <2>1. /\ user' = user /\ diff' = diff /\ job' = job /\ pc[j] = "leave"
        /\ \A k \in Jobs : k # j => pc'[k] = pc[k]
    BY <1>11 DEF JoinGroup
  <2>2. j \in Moving /\ pc'[j] = IF IsBulk(j) THEN "attr" ELSE "ok"
    BY <1>11 DEF JoinGroup, Moving, TaskInv, Applying
  <2>3. SUFFICES ASSUME fault' \cap {"crossed", "torn", "stalePut"} = {}
                 PROVE  AgreeInv'
    BY DEF AgreeInv
  <2>4. \A k \in Moving : k = j
    BY <1>0, <2>2, <2>3 DEF LeaveInv
  <2>5. Moving' \subseteq {j}
    BY <2>1, <2>4 DEF Moving, Asks
  <2>6. groups \cap Teams \subseteq {diff[j]["team"]}
    BY <1>11, <1>0, <2>3 DEF JoinGroup, LeaveInv
  <2>7. diff[j]["team"] \in Teams \cup {None}
    BY <2>1 DEF TaskInv, Asks, IsFieldChanges, ValueOf
  <2>8. TeamShown' = diff[j]["team"]
    <3>1. CASE diff[j]["team"] = None
      <4>1. groups' \cap Teams = {}
        BY <1>11, <2>6, <3>1, ConstantsAssumption DEF JoinGroup
      <4> QED
        BY <3>1, <4>1 DEF TeamShown
    <3>2. CASE diff[j]["team"] # None
      <4>1. groups' \cap Teams = {diff[j]["team"]}
        BY <1>11, <2>6, <2>7, <3>2 DEF JoinGroup
      <4> QED
        BY <4>1 DEF TeamShown
    <3> QED
      BY <3>1, <3>2
  <2>9. CASE IsBulk(j)
    <3>1. Moving' = {j} /\ pc'[j] = "attr"
      BY <2>1, <2>2, <2>5, <2>9 DEF Moving, Asks, Applying
    <3> QED
      BY <2>1, <2>8, <2>9, <3>1 DEF AgreeInv, IsBulk
  <2>10. CASE ~IsBulk(j)
    <3>1. Moving' = {} /\ user["team"] = diff[j]["team"]
      BY <1>0, <2>1, <2>2, <2>3, <2>5, <2>10 DEF Moving, Applying, AgreeInv
    <3> QED
      BY <2>1, <2>8, <3>1 DEF AgreeInv
  <2> QED
    BY <2>9, <2>10
<1>12. ASSUME NEW j \in Jobs, ReadAttributes(j) PROVE AgreeInv'
  <2>1. user' = user /\ TeamShown' = TeamShown /\ diff' = diff /\ job' = job
    BY <1>12, TeamShownStays DEF ReadAttributes
  <2>2. Moving' = Moving
    BY <1>12 DEF ReadAttributes, Moving, Applying, Asks, FormPhase, Finished
  <2> QED
    BY <1>12, <2>1, <2>2, <1>0 DEF ReadAttributes, AgreeInv, IsBulk
<1>13. ASSUME NEW j \in Jobs, GetMeta(j) PROVE AgreeInv'
  <2>1. user' = user /\ TeamShown' = TeamShown /\ diff' = diff /\ job' = job
    BY <1>13, TeamShownStays DEF GetMeta
  <2>2. Moving' = Moving
    BY <1>13 DEF GetMeta, Moving, Applying, Asks, FormPhase, Finished
  <2> QED
    BY <1>13, <2>1, <2>2, <1>0 DEF GetMeta, AgreeInv, IsBulk
<1>14. ASSUME NEW j \in Jobs, PutMeta(j) PROVE AgreeInv'
  <2>1. user' = user /\ TeamShown' = TeamShown /\ diff' = diff /\ job' = job
    BY <1>14, TeamShownStays DEF PutMeta
  <2>2. Moving' = Moving
    BY <1>14 DEF PutMeta, Moving, Applying, Asks, FormPhase, Finished, TaskInv,
         AfterSave, AfterMeta, Nothing
  <2> QED
    BY <1>14, <2>1, <2>2, <1>0 DEF PutMeta, AgreeInv, IsBulk, TaskInv,
         AfterSave, AfterMeta, Nothing
<1>15. ASSUME NEW j \in Jobs, MetaError(j) PROVE AgreeInv'
  <2>1. user' = user /\ TeamShown' = TeamShown /\ diff' = diff /\ job' = job
    BY <1>15, TeamShownStays DEF MetaError
  <2>2. Moving' = Moving
    BY <1>15 DEF MetaError, Moving, Applying, Asks, FormPhase, Finished,
         AfterMeta
  <2> QED
    BY <1>15, <2>1, <2>2, <1>0 DEF MetaError, AgreeInv, IsBulk, AfterMeta
<1>16. ASSUME NEW j \in Jobs, Fail(j) PROVE AgreeInv'
  <2>1. user' = user /\ TeamShown' = TeamShown /\ diff' = diff /\ job' = job
        /\ \A k \in Jobs : k # j => pc'[k] = pc[k]
    BY <1>16, TeamShownStays DEF Fail
  <2>2. CASE j \in Moving
    BY <1>16, <2>2 DEF Fail, AgreeInv
  <2>3. CASE j \notin Moving
    <3>1. Moving' = Moving
      BY <1>16, <2>1, <2>3 DEF Fail, Moving, Asks, Applying
    <3> QED
      BY <1>0, <2>1, <2>3, <3>1 DEF AgreeInv, IsBulk, Moving
  <2> QED
    BY <2>2, <2>3
<1>17. CASE UNCHANGED vars
  BY <1>17, TeamShownStays DEF vars, AgreeInv, Moving, Asks, IsBulk
<1> QED
  BY <1>1, <1>2, <1>3, <1>4, <1>5, <1>6, <1>7, <1>8, <1>9, <1>10, <1>11, <1>12,
       <1>13, <1>14, <1>15, <1>16, <1>17 DEF Next

\* Put and PutMeta write what they read, but for what they were asked to change.
LEMMA KeptStep ==
  TypeOK /\ TaskInv /\ ReadInv /\ AskedInv /\ LastWriteKept /\ MetaKept /\ [Next]_vars
    => (LastWriteKept /\ MetaKept)'
<1> SUFFICES ASSUME TypeOK, TaskInv, ReadInv, AskedInv, LastWriteKept, MetaKept, [Next]_vars
             PROVE  (LastWriteKept /\ MetaKept)'
  OBVIOUS
<1> USE DEF TypeOK, account, local, history, Goto, At
<1>0. fault \subseteq fault'
  BY FaultsStay
<1>1. ASSUME NEW j \in Jobs, PageUser(j) PROVE (LastWriteKept /\ MetaKept)'
  BY <1>1, <1>0 DEF PageUser, LastWriteKept, MetaKept
<1>2. ASSUME NEW j \in Jobs, PageTeam(j) PROVE (LastWriteKept /\ MetaKept)'
  BY <1>2, <1>0 DEF PageTeam, LastWriteKept, MetaKept
<1>3. ASSUME NEW j \in Jobs, PageMeta(j) PROVE (LastWriteKept /\ MetaKept)'
  BY <1>3, <1>0 DEF PageMeta, LastWriteKept, MetaKept
<1>4. ASSUME NEW j \in Jobs, SubmitUser(j) PROVE (LastWriteKept /\ MetaKept)'
  BY <1>4, <1>0 DEF SubmitUser, LastWriteKept, MetaKept
<1>5. ASSUME NEW j \in Jobs, SubmitTeam(j) PROVE (LastWriteKept /\ MetaKept)'
  BY <1>5, <1>0 DEF SubmitTeam, LastWriteKept, MetaKept
<1>6. ASSUME NEW j \in Jobs, Begin(j) PROVE (LastWriteKept /\ MetaKept)'
  BY <1>6, <1>0 DEF Begin, LastWriteKept, MetaKept
<1>7. ASSUME NEW j \in Jobs, Get(j) PROVE (LastWriteKept /\ MetaKept)'
  BY <1>7, <1>0 DEF Get, LastWriteKept, MetaKept
<1>8. ASSUME NEW j \in Jobs, Put(j) PROVE (LastWriteKept /\ MetaKept)'
  <2> DEFINE U == Update(j)
  <2> DEFINE W == Only(U, Wanted(j))
  <2>1. user' = Over(U, seen[j]) /\ want' = Over(W, want) /\ meta' = meta
    BY <1>8 DEF Put
  <2>2. DOMAIN U \subseteq Fields /\ DOMAIN seen[j] = Fields /\ DOMAIN user = Fields
    BY <1>8, UpdateType, UserFields DEF Put
  <2>3. DOMAIN W = DOMAIN U \cap Wanted(j) /\ \A f \in DOMAIN W : W[f] = U[f]
    BY DEF Only
  <2>4. j \in fresh \/ "stalePut" \in fault'
    BY <1>8 DEF Put
  <2>5. ASSUME j \in fresh, "staleForm" \notin fault'
        PROVE  /\ seen[j] = user
               /\ \A f \in DOMAIN U \ Wanted(j) : U[f] = user[f]
    <3>1. seen[j] = user
      BY <1>8, <2>5 DEF Put, ReadInv
    <3>2. CASE At(j, "attrPut")
      <4>1. U = attributes[j] /\ Wanted(j) = {"team"}
        BY <3>2 DEF Update, Wanted
      <4>2. DOMAIN attributes[j] = {"team", "phone"}
        BY <3>2 DEF TaskInv, Attributes
      <4>3. attributes[j]["phone"] = user["phone"]
        BY <2>5, <3>2 DEF ReadInv
      <4> QED
        BY <3>1, <4>1, <4>2, <4>3
    <3>3. CASE ~At(j, "attrPut")
      <4>1. U = Only(diff[j], IF IsBulk(j) THEN {"enabled"} ELSE Fields)
        BY <3>3 DEF Update
      <4>2. DOMAIN U \subseteq DOMAIN diff[j]
        BY <4>1 DEF Only
      <4>3. DOMAIN diff[j] \cap Fields \subseteq DOMAIN job[j].wish
        BY <1>0, <2>5 DEF AskedInv
      <4>4. Wanted(j) = DOMAIN job[j].wish \cap Fields
        BY <3>3 DEF Wanted
      <4>5. DOMAIN U \subseteq Wanted(j)
        BY <2>2, <4>2, <4>3, <4>4
      <4> QED
        BY <3>1, <4>5
    <3> QED
      BY <3>2, <3>3
  <2> HIDE DEF U, W
  <2>6. \A f \in Fields :
          /\ user'[f] = IF f \in DOMAIN U THEN U[f] ELSE seen[j][f]
          /\ want'[f] = IF f \in DOMAIN W THEN W[f] ELSE want[f]
    BY <2>1, <2>2 DEF Over, Fields
  <2>7. \A f \in MetaFields : want'[f] = want[f]
    BY <2>1, <2>2, <2>3 DEF Over, Fields, MetaFields
  <2>8. LastWriteKept'
    BY <1>0, <2>3, <2>4, <2>5, <2>6 DEF LastWriteKept
  <2>9. MetaKept'
    BY <1>0, <2>1, <2>7 DEF MetaKept
  <2> QED
    BY <2>8, <2>9
<1>9. ASSUME NEW j \in Jobs, ReadGroups(j) PROVE (LastWriteKept /\ MetaKept)'
  BY <1>9, <1>0 DEF ReadGroups, LastWriteKept, MetaKept
<1>10. ASSUME NEW j \in Jobs, LeaveGroup(j) PROVE (LastWriteKept /\ MetaKept)'
  BY <1>10, <1>0 DEF LeaveGroup, LastWriteKept, MetaKept
<1>11. ASSUME NEW j \in Jobs, JoinGroup(j) PROVE (LastWriteKept /\ MetaKept)'
  BY <1>11, <1>0 DEF JoinGroup, LastWriteKept, MetaKept
<1>12. ASSUME NEW j \in Jobs, ReadAttributes(j) PROVE (LastWriteKept /\ MetaKept)'
  BY <1>12, <1>0 DEF ReadAttributes, LastWriteKept, MetaKept
<1>13. ASSUME NEW j \in Jobs, GetMeta(j) PROVE (LastWriteKept /\ MetaKept)'
  BY <1>13, <1>0 DEF GetMeta, LastWriteKept, MetaKept
<1>14. ASSUME NEW j \in Jobs, PutMeta(j) PROVE (LastWriteKept /\ MetaKept)'
  <2> DEFINE U == MetaUpdate(j)
  <2>1. meta' = Over(U, metaSeen[j]) /\ want' = Over(U, want) /\ user' = user
    BY <1>14 DEF PutMeta
  <2>2. DOMAIN U \subseteq MetaFields /\ DOMAIN metaSeen[j] = MetaFields
    BY MetaUpdateType, MetaIsChanges
  <2>3. (j \in metaFresh /\ metaSeen[j] = meta) \/ "staleMeta" \in fault'
    BY <1>14 DEF PutMeta, ReadInv
  <2> HIDE DEF U
  <2>4. \A f \in MetaFields :
          /\ meta'[f] = IF f \in DOMAIN U THEN U[f] ELSE metaSeen[j][f]
          /\ want'[f] = IF f \in DOMAIN U THEN U[f] ELSE want[f]
    BY <2>1, <2>2 DEF Over, MetaFields
  <2>5. \A f \in Fields : want'[f] = want[f]
    BY <2>1, <2>2 DEF Over, Fields, MetaFields
  <2>6. LastWriteKept'
    BY <1>0, <2>1, <2>5 DEF LastWriteKept
  <2>7. MetaKept'
    BY <1>0, <2>3, <2>4 DEF MetaKept
  <2> QED
    BY <2>6, <2>7
<1>15. ASSUME NEW j \in Jobs, MetaError(j) PROVE (LastWriteKept /\ MetaKept)'
  BY <1>15, <1>0 DEF MetaError, LastWriteKept, MetaKept
<1>16. ASSUME NEW j \in Jobs, Fail(j) PROVE (LastWriteKept /\ MetaKept)'
  BY <1>16, <1>0 DEF Fail, LastWriteKept, MetaKept
<1>17. CASE UNCHANGED vars
  BY <1>17 DEF vars, LastWriteKept, MetaKept
<1> QED
  BY <1>1, <1>2, <1>3, <1>4, <1>5, <1>6, <1>7, <1>8, <1>9, <1>10, <1>11, <1>12,
       <1>13, <1>14, <1>15, <1>16, <1>17 DEF Next

\* The initial states satisfy the invariant.
LEMMA InitAInv == Init => AInv
<1> SUFFICES ASSUME Init PROVE AInv
  OBVIOUS
<1>1. TypeOK
  BY InitAType
<1>2. /\ \A j \in Jobs : job[j].kind \in Kind /\ pc[j] = FirstStep[job[j].kind]
      /\ \A j \in Jobs : form[j] = job[j].wish
                         /\ diff[j] = IF IsBulk(j) THEN job[j].wish ELSE Nothing
      /\ fresh = {} /\ metaFresh = {} /\ fault = {}
  BY <1>1, TaskType DEF Init
<1>3. TaskInv
  <2>1. /\ FirstStep["edit"] = "page" /\ FirstStep["proposeBulk"] = "submit"
        /\ FirstStep["bulk"] = "apply" /\ FirstStep["notes"] = "meta"
    BY DEF FirstStep
  <2>2. \A j \in Jobs : /\ job[j].kind = "bulk" => pc[j] = "apply"
                        /\ job[j].kind = "proposeBulk" => pc[j] = "submit"
                        /\ job[j].kind = "notes" => pc[j] = "meta"
                        /\ pc[j] \in {"page", "submit", "apply", "meta"}
    BY <1>2, <2>1 DEF Kind
  <2> QED
    BY <1>2, <2>2 DEF TaskInv, IsBulk, FormPhase, Finished
<1>4. ReadInv /\ FormInv
  BY <1>2 DEF ReadInv, FormInv, FirstStep, At
<1>5. Moving = {}
  BY <1>2 DEF Moving, Asks, Nothing, IsBulk, Kind, FirstStep, Applying
<1>6. AskedInv
  BY <1>2 DEF AskedInv, Nothing
<1>7. groups \cap Teams = IF user["team"] = None THEN {} ELSE {user["team"]}
  BY <1>1, ConstantsAssumption DEF Init, TypeOK, User
<1>8. user["team"] = TeamShown
  BY <1>7 DEF TeamShown
<1>9. LeaveInv /\ TeamExclusive
  BY <1>2, <1>5, <1>7 DEF LeaveInv, TeamExclusive, At, Kind, FirstStep
<1>10. AgreeInv
  BY <1>5, <1>8 DEF AgreeInv
<1>11. DOMAIN user = Fields /\ DOMAIN meta = MetaFields
  BY <1>1, UserFields, MetaIsChanges DEF TypeOK
<1>12. LastWriteKept /\ MetaKept
  BY <1>11 DEF Init, Over, LastWriteKept, MetaKept, Fields, MetaFields
<1> QED
  BY <1>1, <1>3, <1>4, <1>6, <1>9, <1>10, <1>12 DEF AInv

\* Every step preserves the invariant.
LEMMA AInvStep == AInv /\ [Next]_vars => AInv'
<1> SUFFICES ASSUME AInv, [Next]_vars PROVE AInv'
  OBVIOUS
<1>1. /\ TypeOK /\ TaskInv /\ ReadInv /\ FormInv /\ AskedInv
      /\ LeaveInv /\ AgreeInv
      /\ TeamExclusive /\ LastWriteKept /\ MetaKept
  BY DEF AInv
<1>2. TypeOK' /\ TaskInv' /\ ReadInv' /\ FormInv'
  BY <1>1, ATypeStep, TaskStep, ReadStep, FormStep
<1>3. AskedInv' /\ AgreeInv'
  BY <1>1, AskedStep, AgreeStep
<1>4. (LeaveInv /\ TeamExclusive)' /\ (LastWriteKept /\ MetaKept)'
  BY <1>1, LeaveStep, KeptStep
<1> QED
  BY <1>2, <1>3, <1>4 DEF AInv

\* AInv holds in every reachable state.
LEMMA AInvAlways == Spec => []AInv
BY InitAInv, AInvStep, PTL DEF Spec

----------------------------------------------------------------------------
(* The results.                                                            *)

\* Every variable keeps its type: in particular update_user always PUTs a
\* whole representation, and save_notes a whole metadata object.
THEOREM AccountTypeCorrect == Spec => []TypeOK
<1>1. AInv => TypeOK
  BY DEF AInv
<1> QED
  BY <1>1, AInvAlways, PTL

\* The exclusive assignment of apply_change_diff and of bulk_edit: a user is
\* never in two teams, a move's middle included, as long as no move begins
\* while another is under way.
THEOREM ExclusiveTeams == Spec => []TeamExclusive
<1>1. AInv => TeamExclusive
  BY DEF AInv
<1> QED
  BY <1>1, AInvAlways, PTL

\* The team is kept twice, as a group and as an attribute; whoever moves a
\* user and in whatever order it writes the two, they agree between moves
\* that ran to their end, one after the other, on what they had read.
THEOREM AgreeingTeams == Spec => []TeamAgrees
<1>1. AInv => TeamAgrees
  BY DEF AInv, AgreeInv, TeamAgrees
<1> QED
  BY <1>1, AInvAlways, PTL

\* update_user writes every field of the account, from a form that holds
\* every field; yet a job changes only the fields somebody asked it to
\* change, unless it wrote over a representation, or compared its form with
\* an account, that had changed since it read it.
THEOREM LastWritesKept == Spec => []LastWriteKept
<1>1. AInv => LastWriteKept
  BY DEF AInv
<1> QED
  BY <1>1, AInvAlways, PTL

\* save_notes and the reason of apply_change_diff share one object in S3 and
\* write it whole; neither takes back what the other wrote, unless it wrote
\* over an object it had not read.
THEOREM MetadataKept == Spec => []MetaKept
<1>1. AInv => MetaKept
  BY DEF AInv
<1> QED
  BY <1>1, AInvAlways, PTL

=============================================================================
