------------------------- MODULE ChangeQueue_proofs -------------------------
(***************************************************************************)
(* Proofs about ChangeQueue, for every set of changes, requests and users. *)
(* IInv is the inductive invariant: what the lock, the two buckets and the *)
(* handlers' positions have to do with each other.                         *)
(***************************************************************************)
EXTENDS ChangeQueue, TLAPS

\* Nothing that lets a second handler work on the old state happened to c.
Orderly(c) == fault[c] \cap {"overrun", "lingering"} = {}

\* Job facts that only Init establishes.
JobInv ==
  \A r, s \in Requests :
    /\ job[r].kind = "propose" /\ job[s].kind = "propose"
    /\ ChangeOf(r) = ChangeOf(s)
    => r = s

\* Where a handler may be, and what it must have done to get there.
ControlInv ==
  \A r \in Requests :
    /\ At(r, "propose") => job[r].kind = "propose"
    /\ pc[r] \in Applying => IsApproval(r)
    /\ pc[r] \in Applying \cup {"put"} => copy[r] \in PendingChange
    /\ effect[r] # "none" =>
         /\ IsApproval(r)
         /\ pc[r] \in {"applying", "put", "failAudit", "delete", "audit",
                       "unlockResolved"} \cup Finished
    /\ At(r, "applying") => effect[r] = "part"
    /\ At(r, "put") /\ IsApproval(r) => effect[r] = "all"

\* A handler in its section holds the key, unless a key expired too early.
LockInv ==
  \A c \in Changes :
    "overrun" \notin fault[c] => \A r \in Inside(c) : lock[c] = r

\* Objects come in the order propose, resolve, and never vanish.
BucketInv ==
  \A r \in Requests :
    /\ job[r].kind = "propose" /\ pc[r] \in {"idle", "propose"}
         => ~Stored(ChangeOf(r))
    /\ pc[r] \in Applying \cup {"put"} => Stored(ChangeOf(r))
    /\ pc[r] \in {"delete", "unlockResolved"} => resolved[ChangeOf(r)] # None
    /\ At(r, "audit") /\ job[r].kind # "propose" => resolved[ChangeOf(r)] # None

\* What the re-read of the status guarantees until the section is left.
Fresh(c) ==
  /\ resolved[c] # None /\ pending[c] # None
       => \E r \in Requests : At(r, "delete") /\ ChangeOf(r) = c
  /\ \A r \in Requests :
       pc[r] \in Applying \cup {"put"} /\ ChangeOf(r) = c => resolved[c] = None

FreshInv == \A c \in Changes : Orderly(c) => Fresh(c)

\* A write to Keycloak is under way, or on record.
EffectInv ==
  \A c \in Changes : fault[c] = {} =>
    \A r \in TouchedBy(c) : pc[r] \in {"applying", "put"} \/ resolved[c] # None

KnownInv ==
  \A r \in known :
    /\ Stored(ChangeOf(r))
    /\ At(r, "readResolved") => resolved[ChangeOf(r)] # None

AccountInv ==
  \A r \in Requests :
    effect[r] = "all" =>
      \/ pc[r] \in {"put", "gone"}
      \/ resolved[ChangeOf(r)] # None
      \/ ChangeOf(r) \in recon
      \/ "partial" \in fault[ChangeOf(r)]

IInv == /\ TypeOK /\ JobInv /\ ControlInv /\ LockInv /\ BucketInv /\ FreshInv
        /\ EffectInv /\ KnownInv /\ AccountInv
        /\ AppliedOnce /\ RejectedUntouched /\ ApprovedApplied
        /\ StoredIsFound /\ AuditHasRecord

----------------------------------------------------------------------------
(* Types.                                                                  *)

LEMMA PendingChangeType ==
  ASSUME NEW u \in Users
  PROVE  Proposal(u) \in PendingChange /\ Proposal(u).status = "Pending"
BY DEF Proposal, PendingChange, ChangeStatus

LEMMA InitType == Init => TypeOK
<1> SUFFICES ASSUME Init PROVE TypeOK
  OBVIOUS
<1>1. pending \in [Changes -> {ch \in PendingChange : ch.status = "Pending"}
                               \cup {None}]
  BY PendingChangeType DEF Init
<1> QED
  BY <1>1 DEF Init, TypeOK, Control, Fault

\* The change a handler saves is a resolved one.
LEMMA ResolutionType ==
  ASSUME NEW r \in Requests, TypeOK, copy[r] \in PendingChange
  PROVE  /\ Resolution(r) \in PendingChange
         /\ Resolution(r).status = Outcome(r)
         /\ Outcome(r) # "Pending"
BY DEF Resolution, PendingChange, ChangeStatus, Outcome, TypeOK, Job

\* Where a handler goes after the re-read.
LEMMA AfterReadType ==
  ASSUME NEW r \in Requests, NEW ch \in PendingChange
  PROVE  /\ AfterRead(r, ch) \in {"unlockForbidden", "unlockProcessed", "apply", "put"}
         /\ AfterRead(r, ch) \in {"apply", "put"} => ch.status = "Pending"
         /\ AfterRead(r, ch) = "apply" => IsApproval(r)
         /\ AfterRead(r, ch) = "put" => ~IsApproval(r)
BY DEF AfterRead

LEMMA EntryType ==
  ASSUME NEW r \in Requests, TypeOK
  PROVE  Entry(r, "success") \in AuditEntry /\ Entry(r, "failure") \in AuditEntry
BY DEF Entry, AuditEntry, TypeOK, Job, ChangeOf

LEMMA TypeStep == TypeOK /\ ControlInv /\ [Next]_vars => TypeOK'
<1> SUFFICES ASSUME TypeOK, ControlInv, [Next]_vars PROVE TypeOK'
  OBVIOUS
<1> USE DEF TypeOK, bucket, books, Goto, At, Mark
<1>0. ASSUME NEW r \in Requests PROVE ChangeOf(r) \in Changes
  BY DEF ChangeOf, Job
<1>1. ASSUME NEW r \in Requests, Arrive(r) PROVE TypeOK'
  BY <1>1 DEF Arrive, Control
<1>2. ASSUME NEW r \in Requests, SaveProposal(r) PROVE TypeOK'
  <2>1. Proposal(job[r].user) \in PendingChange
        /\ Proposal(job[r].user).status = "Pending"
    BY PendingChangeType DEF Job
  <2> QED
    BY <1>0, <1>2, <2>1 DEF SaveProposal, Control, Finished, Answered
<1>3. ASSUME NEW r \in Requests, AcquireLock(r) PROVE TypeOK'
  BY <1>0, <1>3 DEF AcquireLock, Control, Critical, Finished, Answered
<1>4. ASSUME NEW r \in Requests, LockRefused(r) PROVE TypeOK'
  BY <1>4 DEF LockRefused, Control, Finished, Answered
<1>5. ASSUME NEW r \in Requests, Unlock(r) PROVE TypeOK'
  <2>1. AfterUnlock[pc[r]] \in Control
    BY <1>5 DEF Unlock, AfterUnlock, Unlocking, Control, Finished, Answered
  <2> QED
    BY <1>0, <1>5, <2>1 DEF Unlock
<1>6. ASSUME NEW r \in Requests, ReadPending(r) PROVE TypeOK'
  <2>1. CASE pending[ChangeOf(r)] # None
    BY <1>0, <1>6, <2>1, AfterReadType
       DEF ReadPending, Control, Critical, Applying, Unlocking
  <2>2. CASE pending[ChangeOf(r)] = None
    BY <1>0, <1>6, <2>2 DEF ReadPending, Control, Critical
  <2> QED
    BY <2>1, <2>2
<1>7. ASSUME NEW r \in Requests, ReadResolved(r) PROVE TypeOK'
  <2>1. CASE resolved[ChangeOf(r)] # None
    BY <1>0, <1>7, <2>1, AfterReadType
       DEF ReadResolved, Control, Critical, Applying, Unlocking
  <2>2. CASE resolved[ChangeOf(r)] = None
    BY <1>0, <1>7, <2>2 DEF ReadResolved, Control, Finished, Answered
  <2> QED
    BY <2>1, <2>2
<1>8. ASSUME NEW r \in Requests, ReadError(r) PROVE TypeOK'
  BY <1>8 DEF ReadError, Control, Finished, Answered
<1>9. ASSUME NEW r \in Requests, ApplyFirst(r) PROVE TypeOK'
  BY <1>9 DEF ApplyFirst, Control, Critical, Applying
<1>10. ASSUME NEW r \in Requests, ApplyRest(r) PROVE TypeOK'
  BY <1>10 DEF ApplyRest, Control, Critical
<1>11. ASSUME NEW r \in Requests, ApplyError(r) PROVE TypeOK'
  BY <1>0, <1>11 DEF ApplyError, StopApplying, Control, Fault
<1>12. ASSUME NEW r \in Requests, AuditFailure(r) PROVE TypeOK'
  BY <1>12, EntryType DEF AuditFailure, Control, Finished, Answered
<1>13. ASSUME NEW r \in Requests, PutResolved(r) PROVE TypeOK'
  BY <1>0, <1>13, ResolutionType DEF PutResolved, ControlInv, Control, Critical
<1>14. ASSUME NEW r \in Requests, PutError(r) PROVE TypeOK'
  BY <1>0, <1>14, ResolutionType
     DEF PutError, ControlInv, Control, Finished, Answered, Fault
<1>15. ASSUME NEW r \in Requests, DeletePending(r) PROVE TypeOK'
  BY <1>0, <1>15 DEF DeletePending, Control, Critical, Unlocking, Fault
<1>16. ASSUME NEW r \in Requests, AppendAudit(r) PROVE TypeOK'
  BY <1>16, EntryType DEF AppendAudit, Control, Finished, Answered
<1>17. ASSUME NEW r \in Requests, Abort(r) PROVE TypeOK'
  <2>1. LeftBy(r) \subseteq Fault
    BY DEF LeftBy, Fault
  <2> QED
    BY <1>0, <1>17, <2>1 DEF Abort, StopApplying, Control, Finished
<1>18. ASSUME NEW c \in Changes, LockExpire(c) PROVE TypeOK'
  BY <1>18 DEF LockExpire, Fault
<1>19. CASE UNCHANGED vars
  BY <1>19 DEF vars
<1> QED
  BY <1>1, <1>2, <1>3, <1>4, <1>5, <1>6, <1>7, <1>8, <1>9, <1>10, <1>11, <1>12,
     <1>13, <1>14, <1>15, <1>16, <1>17, <1>18, <1>19 DEF Next, Handle
LEMMA ChangeOfType ==
  ASSUME TypeOK, NEW r \in Requests
  PROVE  ChangeOf(r) \in Changes
BY DEF TypeOK, ChangeOf, Job

LEMMA ControlStep == TypeOK /\ ControlInv /\ [Next]_vars => ControlInv'
<1> SUFFICES ASSUME TypeOK, ControlInv, [Next]_vars PROVE ControlInv'
  OBVIOUS
<1> USE DEF TypeOK, bucket, books, Goto, At, Mark, ControlInv, IsApproval, ChangeOf
<1>1. ASSUME NEW r \in Requests, Arrive(r) PROVE ControlInv'
  BY <1>1 DEF Arrive, Applying, Finished, Answered, Unlocking, AfterUnlock, StopApplying
<1>2. ASSUME NEW r \in Requests, SaveProposal(r) PROVE ControlInv'
  BY <1>2 DEF SaveProposal, Applying, Finished, Answered, Unlocking, AfterUnlock, StopApplying
<1>3. ASSUME NEW r \in Requests, AcquireLock(r) PROVE ControlInv'
  BY <1>3 DEF AcquireLock, Applying, Finished, Answered, Unlocking, AfterUnlock, StopApplying
<1>4. ASSUME NEW r \in Requests, LockRefused(r) PROVE ControlInv'
  BY <1>4 DEF LockRefused, Applying, Finished, Answered, Unlocking, AfterUnlock, StopApplying
<1>5. ASSUME NEW r \in Requests, Unlock(r) PROVE ControlInv'
  BY <1>5 DEF Unlock, Applying, Finished, Answered, Unlocking, AfterUnlock, StopApplying
<1>6. ASSUME NEW r \in Requests, ReadPending(r) PROVE ControlInv'
  <2>1. CASE pending[ChangeOf(r)] # None
    <3>1. pending[ChangeOf(r)] \in PendingChange
      BY <2>1, ChangeOfType
    <3> QED
      BY <1>6, <2>1, <3>1, AfterReadType DEF ReadPending, Applying, Finished, Answered
  <2>2. CASE pending[ChangeOf(r)] = None
    BY <1>6, <2>2 DEF ReadPending, Applying, Finished, Answered
  <2> QED
    BY <2>1, <2>2
<1>7. ASSUME NEW r \in Requests, ReadResolved(r) PROVE ControlInv'
  <2>1. CASE resolved[ChangeOf(r)] # None
    <3>1. resolved[ChangeOf(r)] \in PendingChange
      BY <2>1, ChangeOfType
    <3> QED
      BY <1>7, <2>1, <3>1, AfterReadType DEF ReadResolved, Applying, Finished, Answered
  <2>2. CASE resolved[ChangeOf(r)] = None
    BY <1>7, <2>2 DEF ReadResolved, Applying, Finished, Answered
  <2> QED
    BY <2>1, <2>2
<1>8. ASSUME NEW r \in Requests, ReadError(r) PROVE ControlInv'
  BY <1>8 DEF ReadError, Applying, Finished, Answered, Unlocking, AfterUnlock, StopApplying
<1>9. ASSUME NEW r \in Requests, ApplyFirst(r) PROVE ControlInv'
  BY <1>9 DEF ApplyFirst, Applying, Finished, Answered, Unlocking, AfterUnlock, StopApplying
<1>10. ASSUME NEW r \in Requests, ApplyRest(r) PROVE ControlInv'
  BY <1>10 DEF ApplyRest, Applying, Finished, Answered, Unlocking, AfterUnlock, StopApplying
<1>11. ASSUME NEW r \in Requests, ApplyError(r) PROVE ControlInv'
  BY <1>11 DEF ApplyError, Applying, Finished, Answered, Unlocking, AfterUnlock, StopApplying
<1>12. ASSUME NEW r \in Requests, AuditFailure(r) PROVE ControlInv'
  BY <1>12 DEF AuditFailure, Applying, Finished, Answered, Unlocking, AfterUnlock, StopApplying
<1>13. ASSUME NEW r \in Requests, PutResolved(r) PROVE ControlInv'
  BY <1>13 DEF PutResolved, Applying, Finished, Answered, Unlocking, AfterUnlock, StopApplying
<1>14. ASSUME NEW r \in Requests, PutError(r) PROVE ControlInv'
  BY <1>14 DEF PutError, Applying, Finished, Answered, Unlocking, AfterUnlock, StopApplying
<1>15. ASSUME NEW r \in Requests, DeletePending(r) PROVE ControlInv'
  BY <1>15 DEF DeletePending, Applying, Finished, Answered, Unlocking, AfterUnlock, StopApplying
<1>16. ASSUME NEW r \in Requests, AppendAudit(r) PROVE ControlInv'
  BY <1>16 DEF AppendAudit, Applying, Finished, Answered, Unlocking, AfterUnlock, StopApplying
<1>17. ASSUME NEW r \in Requests, Abort(r) PROVE ControlInv'
  BY <1>17 DEF Abort, Applying, Finished, Answered, Unlocking, AfterUnlock, StopApplying
<1>18. ASSUME NEW c \in Changes, LockExpire(c) PROVE ControlInv'
  BY <1>18 DEF LockExpire, Applying, Finished, Answered, Unlocking, AfterUnlock, StopApplying
<1>19. CASE UNCHANGED vars
  BY <1>19 DEF vars, Applying, Finished, Answered, Unlocking, AfterUnlock, StopApplying
<1> QED
  BY <1>1, <1>2, <1>3, <1>4, <1>5, <1>6, <1>7, <1>8, <1>9, <1>10, <1>11, <1>12,
     <1>13, <1>14, <1>15, <1>16, <1>17, <1>18, <1>19 DEF Next, Handle

LEMMA LockStep == TypeOK /\ LockInv /\ [Next]_vars => LockInv'
<1> SUFFICES ASSUME TypeOK, LockInv, [Next]_vars PROVE LockInv'
  OBVIOUS
<1> USE DEF TypeOK, bucket, books, Goto, At, Mark, LockInv, Inside, ChangeOf, Critical, Applying, Unlocking
<1>1. ASSUME NEW r \in Requests, Arrive(r) PROVE LockInv'
  BY <1>1 DEF Arrive, Finished, Answered, AfterUnlock, StopApplying, LeftBy
<1>2. ASSUME NEW r \in Requests, SaveProposal(r) PROVE LockInv'
  BY <1>2 DEF SaveProposal, Finished, Answered, AfterUnlock, StopApplying, LeftBy
<1>3. ASSUME NEW r \in Requests, AcquireLock(r) PROVE LockInv'
  BY <1>3, ConstantsAssumption DEF AcquireLock
<1>4. ASSUME NEW r \in Requests, LockRefused(r) PROVE LockInv'
  BY <1>4 DEF LockRefused, Finished, Answered, AfterUnlock, StopApplying, LeftBy
<1>5. ASSUME NEW r \in Requests, Unlock(r) PROVE LockInv'
  BY <1>5 DEF Unlock, Finished, Answered, AfterUnlock, StopApplying, LeftBy
<1>6. ASSUME NEW r \in Requests, ReadPending(r) PROVE LockInv'
  BY <1>6, AfterReadType DEF ReadPending
<1>7. ASSUME NEW r \in Requests, ReadResolved(r) PROVE LockInv'
  BY <1>7, AfterReadType DEF ReadResolved, Finished, Answered
<1>8. ASSUME NEW r \in Requests, ReadError(r) PROVE LockInv'
  BY <1>8 DEF ReadError, Finished, Answered, AfterUnlock, StopApplying, LeftBy
<1>9. ASSUME NEW r \in Requests, ApplyFirst(r) PROVE LockInv'
  BY <1>9 DEF ApplyFirst, Finished, Answered, AfterUnlock, StopApplying, LeftBy
<1>10. ASSUME NEW r \in Requests, ApplyRest(r) PROVE LockInv'
  BY <1>10 DEF ApplyRest, Finished, Answered, AfterUnlock, StopApplying, LeftBy
<1>11. ASSUME NEW r \in Requests, ApplyError(r) PROVE LockInv'
  BY <1>11 DEF ApplyError, Finished, Answered, AfterUnlock, StopApplying, LeftBy
<1>12. ASSUME NEW r \in Requests, AuditFailure(r) PROVE LockInv'
  BY <1>12 DEF AuditFailure, Finished, Answered, AfterUnlock, StopApplying, LeftBy
<1>13. ASSUME NEW r \in Requests, PutResolved(r) PROVE LockInv'
  BY <1>13 DEF PutResolved, Finished, Answered, AfterUnlock, StopApplying, LeftBy
<1>14. ASSUME NEW r \in Requests, PutError(r) PROVE LockInv'
  BY <1>14 DEF PutError, Finished, Answered, AfterUnlock, StopApplying, LeftBy
<1>15. ASSUME NEW r \in Requests, DeletePending(r) PROVE LockInv'
  BY <1>15 DEF DeletePending, Finished, Answered, AfterUnlock, StopApplying, LeftBy
<1>16. ASSUME NEW r \in Requests, AppendAudit(r) PROVE LockInv'
  BY <1>16 DEF AppendAudit, Finished, Answered, AfterUnlock, StopApplying, LeftBy
<1>17. ASSUME NEW r \in Requests, Abort(r) PROVE LockInv'
  BY <1>17 DEF Abort, Finished, Answered, AfterUnlock, StopApplying, LeftBy
<1>18. ASSUME NEW c \in Changes, LockExpire(c) PROVE LockInv'
  BY <1>18 DEF LockExpire, Finished, Answered, AfterUnlock, StopApplying, LeftBy
<1>19. CASE UNCHANGED vars
  BY <1>19 DEF vars, Finished, Answered, AfterUnlock, StopApplying, LeftBy
<1> QED
  BY <1>1, <1>2, <1>3, <1>4, <1>5, <1>6, <1>7, <1>8, <1>9, <1>10, <1>11, <1>12,
     <1>13, <1>14, <1>15, <1>16, <1>17, <1>18, <1>19 DEF Next, Handle


\* What is stored stays stored, faults are never forgotten.
Frame ==
  /\ job' = job
  /\ \A c \in Changes :
       /\ fault[c] \subseteq fault'[c]
       /\ resolved[c] # None => resolved'[c] # None
       /\ Stored(c) => Stored(c)'
LEMMA FrameStep == TypeOK /\ ControlInv /\ BucketInv /\ [Next]_vars => Frame
<1> SUFFICES ASSUME TypeOK, ControlInv, BucketInv, [Next]_vars PROVE Frame
  OBVIOUS
<1> USE DEF TypeOK, bucket, books, Goto, At, Mark, Frame, Stored
<1>1. ASSUME NEW r \in Requests, Arrive(r) PROVE Frame
  BY <1>1 DEF Arrive
<1>2. ASSUME NEW r \in Requests, SaveProposal(r) PROVE Frame
  BY <1>2, ChangeOfType, PendingChangeType, ConstantsAssumption DEF SaveProposal, Job
<1>3. ASSUME NEW r \in Requests, AcquireLock(r) PROVE Frame
  BY <1>3 DEF AcquireLock
<1>4. ASSUME NEW r \in Requests, LockRefused(r) PROVE Frame
  BY <1>4 DEF LockRefused
<1>5. ASSUME NEW r \in Requests, Unlock(r) PROVE Frame
  BY <1>5 DEF Unlock
<1>6. ASSUME NEW r \in Requests, ReadPending(r) PROVE Frame
  BY <1>6 DEF ReadPending
<1>7. ASSUME NEW r \in Requests, ReadResolved(r) PROVE Frame
  BY <1>7 DEF ReadResolved
<1>8. ASSUME NEW r \in Requests, ReadError(r) PROVE Frame
  BY <1>8 DEF ReadError
<1>9. ASSUME NEW r \in Requests, ApplyFirst(r) PROVE Frame
  BY <1>9 DEF ApplyFirst
<1>10. ASSUME NEW r \in Requests, ApplyRest(r) PROVE Frame
  BY <1>10 DEF ApplyRest
<1>11. ASSUME NEW r \in Requests, ApplyError(r) PROVE Frame
  BY <1>11 DEF ApplyError
<1>12. ASSUME NEW r \in Requests, AuditFailure(r) PROVE Frame
  BY <1>12 DEF AuditFailure
<1>13. ASSUME NEW r \in Requests, PutResolved(r) PROVE Frame
  BY <1>13, ChangeOfType, ResolutionType, ConstantsAssumption DEF PutResolved, ControlInv
<1>14. ASSUME NEW r \in Requests, PutError(r) PROVE Frame
  BY <1>14, ChangeOfType, ResolutionType, ConstantsAssumption DEF PutError, ControlInv
<1>15. ASSUME NEW r \in Requests, DeletePending(r) PROVE Frame
  BY <1>15, ChangeOfType DEF DeletePending, BucketInv
<1>16. ASSUME NEW r \in Requests, AppendAudit(r) PROVE Frame
  BY <1>16 DEF AppendAudit
<1>17. ASSUME NEW r \in Requests, Abort(r) PROVE Frame
  BY <1>17 DEF Abort
<1>18. ASSUME NEW c \in Changes, LockExpire(c) PROVE Frame
  BY <1>18 DEF LockExpire
<1>19. CASE UNCHANGED vars
  BY <1>19 DEF vars
<1> QED
  BY <1>1, <1>2, <1>3, <1>4, <1>5, <1>6, <1>7, <1>8, <1>9, <1>10, <1>11, <1>12,
     <1>13, <1>14, <1>15, <1>16, <1>17, <1>18, <1>19 DEF Next, Handle

LEMMA BucketStep == TypeOK /\ JobInv /\ ControlInv /\ BucketInv /\ [Next]_vars => BucketInv'
<1> SUFFICES ASSUME TypeOK, JobInv, ControlInv, BucketInv, [Next]_vars PROVE BucketInv'
  OBVIOUS
<1> USE DEF TypeOK, bucket, books, Goto, At, Mark, BucketInv, Finished, Answered, Applying
<1>1. ASSUME NEW r \in Requests, Arrive(r) PROVE BucketInv'
  BY <1>1 DEF Arrive, Stored, ChangeOf, ControlInv, ChangeOf, Stored
<1>2. ASSUME NEW r \in Requests, SaveProposal(r) PROVE BucketInv'
  BY <1>2, ChangeOfType, ConstantsAssumption DEF SaveProposal, JobInv, ControlInv, Stored, ChangeOf
<1>3. ASSUME NEW r \in Requests, AcquireLock(r) PROVE BucketInv'
  BY <1>3 DEF AcquireLock, Stored, ChangeOf, ControlInv
<1>4. ASSUME NEW r \in Requests, LockRefused(r) PROVE BucketInv'
  BY <1>4 DEF LockRefused, Stored, ChangeOf, ControlInv
<1>5. ASSUME NEW r \in Requests, Unlock(r) PROVE BucketInv'
  BY <1>5 DEF Unlock, Stored, ChangeOf, ControlInv, AfterUnlock, Unlocking
<1>6. ASSUME NEW r \in Requests, ReadPending(r) PROVE BucketInv'
  <2>1. CASE pending[ChangeOf(r)] # None
    <3>1. /\ pending[ChangeOf(r)] \in PendingChange
          /\ Stored(ChangeOf(r))
      BY <2>1, ChangeOfType DEF Stored
    <3> QED
      BY <1>6, <2>1, <3>1, AfterReadType DEF ReadPending, Stored, ChangeOf
  <2>2. CASE pending[ChangeOf(r)] = None
    BY <1>6, <2>2 DEF ReadPending, Stored, ChangeOf
  <2> QED
    BY <2>1, <2>2
<1>7. ASSUME NEW r \in Requests, ReadResolved(r) PROVE BucketInv'
  <2>1. CASE resolved[ChangeOf(r)] # None
    <3>1. /\ resolved[ChangeOf(r)] \in PendingChange
          /\ Stored(ChangeOf(r))
      BY <2>1, ChangeOfType DEF Stored
    <3> QED
      BY <1>7, <2>1, <3>1, AfterReadType DEF ReadResolved, Stored, ChangeOf
  <2>2. CASE resolved[ChangeOf(r)] = None
    BY <1>7, <2>2 DEF ReadResolved, Stored, ChangeOf
  <2> QED
    BY <2>1, <2>2
<1>8. ASSUME NEW r \in Requests, ReadError(r) PROVE BucketInv'
  BY <1>8 DEF ReadError, Stored, ChangeOf, ControlInv
<1>9. ASSUME NEW r \in Requests, ApplyFirst(r) PROVE BucketInv'
  BY <1>9 DEF ApplyFirst, Stored, ChangeOf, ControlInv
<1>10. ASSUME NEW r \in Requests, ApplyRest(r) PROVE BucketInv'
  BY <1>10 DEF ApplyRest, Stored, ChangeOf, ControlInv
<1>11. ASSUME NEW r \in Requests, ApplyError(r) PROVE BucketInv'
  BY <1>11 DEF ApplyError, Stored, ChangeOf, ControlInv
<1>12. ASSUME NEW r \in Requests, AuditFailure(r) PROVE BucketInv'
  BY <1>12 DEF AuditFailure, Stored, ChangeOf, ControlInv
<1>13. ASSUME NEW r \in Requests, PutResolved(r) PROVE BucketInv'
  <2>1. Resolution(r) # None
    BY <1>13, ResolutionType, ConstantsAssumption DEF PutResolved, ControlInv
  <2> QED
    BY <1>13, <2>1, ChangeOfType DEF PutResolved, Stored, ChangeOf
<1>14. ASSUME NEW r \in Requests, PutError(r) PROVE BucketInv'
  <2>1. Resolution(r) # None
    BY <1>14, ResolutionType, ConstantsAssumption DEF PutError, ControlInv
  <2> QED
    BY <1>14, <2>1, ChangeOfType DEF PutError, Stored, ChangeOf
<1>15. ASSUME NEW r \in Requests, DeletePending(r) PROVE BucketInv'
  BY <1>15, ChangeOfType DEF DeletePending, Stored, ChangeOf
<1>16. ASSUME NEW r \in Requests, AppendAudit(r) PROVE BucketInv'
  BY <1>16 DEF AppendAudit, Stored, ChangeOf, ControlInv
<1>17. ASSUME NEW r \in Requests, Abort(r) PROVE BucketInv'
  BY <1>17 DEF Abort, Stored, ChangeOf, ControlInv
<1>18. ASSUME NEW c \in Changes, LockExpire(c) PROVE BucketInv'
  BY <1>18 DEF LockExpire, Stored, ChangeOf, ControlInv
<1>19. CASE UNCHANGED vars
  BY <1>19 DEF vars, Stored, ChangeOf, ControlInv
<1> QED
  BY <1>1, <1>2, <1>3, <1>4, <1>5, <1>6, <1>7, <1>8, <1>9, <1>10, <1>11, <1>12,
     <1>13, <1>14, <1>15, <1>16, <1>17, <1>18, <1>19 DEF Next, Handle

LEMMA FreshStep ==
  /\ TypeOK /\ ControlInv /\ LockInv /\ BucketInv /\ FreshInv
  /\ [Next]_vars
  => FreshInv'
<1> SUFFICES ASSUME TypeOK, ControlInv, LockInv, BucketInv, FreshInv, [Next]_vars,
                    NEW c \in Changes, Orderly(c)'
             PROVE  Fresh(c)'
  BY DEF FreshInv
<1>a. Orderly(c) /\ Fresh(c)
  <2>1. Frame
    BY FrameStep
  <2>2. Orderly(c)
    BY <2>1 DEF Orderly, Frame
  <2> QED
    BY <2>2 DEF FreshInv
<1>b. \A r, s \in Requests :
        pc[r] \in Critical /\ ChangeOf(r) = c /\ pc[s] \in Critical /\ ChangeOf(s) = c
          => r = s
  BY <1>a DEF LockInv, Inside, Orderly
<1> USE DEF TypeOK, bucket, books, Goto, At, Mark, Fresh, Applying
<1>1. ASSUME NEW r \in Requests, Arrive(r) PROVE Fresh(c)'
  BY <1>a, <1>1 DEF Arrive, ChangeOf
<1>2. ASSUME NEW r \in Requests, SaveProposal(r) PROVE Fresh(c)'
  BY <1>a, <1>2, ChangeOfType DEF SaveProposal, ControlInv, BucketInv, Stored, ChangeOf
<1>3. ASSUME NEW r \in Requests, AcquireLock(r) PROVE Fresh(c)'
  BY <1>a, <1>3 DEF AcquireLock, ChangeOf
<1>4. ASSUME NEW r \in Requests, LockRefused(r) PROVE Fresh(c)'
  BY <1>a, <1>4 DEF LockRefused, ChangeOf
<1>5. ASSUME NEW r \in Requests, Unlock(r) PROVE Fresh(c)'
  BY <1>a, <1>5 DEF Unlock, AfterUnlock, Unlocking, ChangeOf
<1>6. ASSUME NEW r \in Requests, ReadPending(r) PROVE Fresh(c)'
  <2>1. CASE pending[ChangeOf(r)] # None
    <3>1. pending[ChangeOf(r)] \in PendingChange
      BY <2>1, ChangeOfType
    <3>2. ChangeOf(r) = c => resolved[c] = None
      BY <1>a, <1>b, <1>6, <2>1 DEF ReadPending, Critical
    <3> QED
      BY <1>a, <1>6, <2>1, <3>1, <3>2, AfterReadType DEF ReadPending, ChangeOf
  <2>2. CASE pending[ChangeOf(r)] = None
    BY <1>a, <1>6, <2>2 DEF ReadPending, ChangeOf
  <2> QED
    BY <2>1, <2>2
<1>7. ASSUME NEW r \in Requests, ReadResolved(r) PROVE Fresh(c)'
  <2>1. CASE resolved[ChangeOf(r)] # None
    <3>1. /\ resolved[ChangeOf(r)] \in PendingChange
          /\ resolved[ChangeOf(r)].status # "Pending"
      BY <2>1, ChangeOfType
    <3> QED
      BY <1>a, <1>7, <2>1, <3>1, AfterReadType DEF ReadResolved, ChangeOf
  <2>2. CASE resolved[ChangeOf(r)] = None
    BY <1>a, <1>7, <2>2 DEF ReadResolved, ChangeOf
  <2> QED
    BY <2>1, <2>2
<1>8. ASSUME NEW r \in Requests, ReadError(r) PROVE Fresh(c)'
  BY <1>a, <1>8 DEF ReadError, ChangeOf
<1>9. ASSUME NEW r \in Requests, ApplyFirst(r) PROVE Fresh(c)'
  BY <1>a, <1>9 DEF ApplyFirst, ChangeOf
<1>10. ASSUME NEW r \in Requests, ApplyRest(r) PROVE Fresh(c)'
  BY <1>a, <1>10 DEF ApplyRest, ChangeOf
<1>11. ASSUME NEW r \in Requests, ApplyError(r) PROVE Fresh(c)'
  BY <1>a, <1>11 DEF ApplyError, ChangeOf
<1>12. ASSUME NEW r \in Requests, AuditFailure(r) PROVE Fresh(c)'
  BY <1>a, <1>12 DEF AuditFailure, ChangeOf
<1>13. ASSUME NEW r \in Requests, PutResolved(r) PROVE Fresh(c)'
  <2>1. CASE ChangeOf(r) = c
    BY <1>a, <1>b, <1>13, <2>1 DEF PutResolved, Critical, ChangeOf
  <2>2. CASE ChangeOf(r) # c
    BY <1>a, <1>13, <2>2 DEF PutResolved, ChangeOf
  <2> QED
    BY <2>1, <2>2
<1>14. ASSUME NEW r \in Requests, PutError(r) PROVE Fresh(c)'
  <2>1. CASE ChangeOf(r) = c
    <3>1. resolved' = resolved
      <4>1. "lingering" \notin fault'[c]
        BY <1>a DEF Orderly
      <4>2. PICK written \in BOOLEAN :
              /\ resolved' = IF written
                             THEN [resolved EXCEPT ![ChangeOf(r)] = Resolution(r)]
                             ELSE resolved
              /\ Mark(ChangeOf(r), (IF written THEN {"lingering"} ELSE {})
                                     \cup (IF IsApproval(r) THEN {"unsaved"} ELSE {}))
        BY <1>14 DEF PutError
      <4>3. ~written
        BY <2>1, <4>1, <4>2, ChangeOfType
      <4> QED
        BY <4>2, <4>3
    <3> QED
      BY <1>a, <1>14, <3>1 DEF PutError, ChangeOf
  <2>2. CASE ChangeOf(r) # c
    BY <1>a, <1>14, <2>2 DEF PutError, ChangeOf
  <2> QED
    BY <2>1, <2>2
<1>15. ASSUME NEW r \in Requests, DeletePending(r) PROVE Fresh(c)'
  <2>1. CASE ChangeOf(r) = c
    <3>1. pending' = [pending EXCEPT ![c] = None]
      BY <1>15, <2>1 DEF DeletePending, Orderly
    <3> QED
      BY <1>a, <1>15, <2>1, <3>1 DEF DeletePending, ChangeOf
  <2>2. CASE ChangeOf(r) # c
    BY <1>a, <1>15, <2>2 DEF DeletePending, ChangeOf
  <2> QED
    BY <2>1, <2>2
<1>16. ASSUME NEW r \in Requests, AppendAudit(r) PROVE Fresh(c)'
  BY <1>a, <1>16 DEF AppendAudit, ChangeOf
<1>17. ASSUME NEW r \in Requests, Abort(r) PROVE Fresh(c)'
  BY <1>a, <1>17, ChangeOfType DEF Abort, StopApplying, LeftBy, Finished, ChangeOf, Orderly
<1>18. ASSUME NEW d \in Changes, LockExpire(d) PROVE Fresh(c)'
  BY <1>a, <1>18 DEF LockExpire, ChangeOf
<1>19. CASE UNCHANGED vars
  BY <1>a, <1>19 DEF vars, ChangeOf
<1> QED
  BY <1>1, <1>2, <1>3, <1>4, <1>5, <1>6, <1>7, <1>8, <1>9, <1>10, <1>11, <1>12,
     <1>13, <1>14, <1>15, <1>16, <1>17, <1>18, <1>19 DEF Next, Handle

LEMMA EffectStep ==
  TypeOK /\ ControlInv /\ BucketInv /\ EffectInv /\ [Next]_vars => EffectInv'
<1> SUFFICES ASSUME TypeOK, ControlInv, BucketInv, EffectInv, [Next]_vars,
                    NEW c \in Changes, (fault[c] = {})',
                    NEW s \in Requests, (effect[s] # "none")', ChangeOf(s)' = c
             PROVE  (pc[s] \in {"applying", "put"} \/ resolved[c] # None)'
  BY DEF EffectInv, TouchedBy
<1>a. /\ fault[c] = {} /\ ChangeOf(s) = c
      /\ resolved[c] # None => resolved'[c] # None
  BY FrameStep DEF Frame, ChangeOf
<1>b. effect[s] # "none" => pc[s] \in {"applying", "put"} \/ resolved[c] # None
  BY <1>a DEF EffectInv, TouchedBy
<1>c. effect[s] # "none" =>
        /\ IsApproval(s)
        /\ pc[s] \in {"applying", "put", "failAudit", "delete", "audit",
                      "unlockResolved"} \cup Finished
  BY DEF ControlInv
<1> USE DEF TypeOK, bucket, books, Goto, At, Mark
<1>1. ASSUME NEW r \in Requests, Arrive(r) PROVE (pc[s] \in {"applying", "put"} \/ resolved[c] # None)'
  BY <1>a, <1>b, <1>1 DEF Arrive
<1>2. ASSUME NEW r \in Requests, SaveProposal(r) PROVE (pc[s] \in {"applying", "put"} \/ resolved[c] # None)'
  BY <1>a, <1>b, <1>2 DEF SaveProposal
<1>3. ASSUME NEW r \in Requests, AcquireLock(r) PROVE (pc[s] \in {"applying", "put"} \/ resolved[c] # None)'
  BY <1>a, <1>b, <1>3 DEF AcquireLock
<1>4. ASSUME NEW r \in Requests, LockRefused(r) PROVE (pc[s] \in {"applying", "put"} \/ resolved[c] # None)'
  BY <1>a, <1>b, <1>4 DEF LockRefused
<1>5. ASSUME NEW r \in Requests, Unlock(r) PROVE (pc[s] \in {"applying", "put"} \/ resolved[c] # None)'
  BY <1>a, <1>b, <1>5 DEF Unlock, Unlocking
<1>6. ASSUME NEW r \in Requests, ReadPending(r) PROVE (pc[s] \in {"applying", "put"} \/ resolved[c] # None)'
  BY <1>a, <1>b, <1>c, <1>6 DEF ReadPending, Finished, Answered
<1>7. ASSUME NEW r \in Requests, ReadResolved(r) PROVE (pc[s] \in {"applying", "put"} \/ resolved[c] # None)'
  BY <1>a, <1>b, <1>7 DEF ReadResolved
<1>8. ASSUME NEW r \in Requests, ReadError(r) PROVE (pc[s] \in {"applying", "put"} \/ resolved[c] # None)'
  BY <1>a, <1>b, <1>8 DEF ReadError
<1>9. ASSUME NEW r \in Requests, ApplyFirst(r) PROVE (pc[s] \in {"applying", "put"} \/ resolved[c] # None)'
  BY <1>a, <1>b, <1>9 DEF ApplyFirst
<1>10. ASSUME NEW r \in Requests, ApplyRest(r) PROVE (pc[s] \in {"applying", "put"} \/ resolved[c] # None)'
  BY <1>a, <1>b, <1>10 DEF ApplyRest
<1>11. ASSUME NEW r \in Requests, ApplyError(r) PROVE (pc[s] \in {"applying", "put"} \/ resolved[c] # None)'
  BY <1>a, <1>b, <1>c, <1>11 DEF ApplyError, StopApplying, Applying, Finished, Answered
<1>12. ASSUME NEW r \in Requests, AuditFailure(r) PROVE (pc[s] \in {"applying", "put"} \/ resolved[c] # None)'
  BY <1>a, <1>b, <1>12 DEF AuditFailure
<1>13. ASSUME NEW r \in Requests, PutResolved(r) PROVE (pc[s] \in {"applying", "put"} \/ resolved[c] # None)'
  <2>1. Resolution(r) # None
    BY <1>13, ResolutionType, ConstantsAssumption DEF PutResolved, ControlInv
  <2> QED
    BY <1>a, <1>b, <1>13, <2>1 DEF PutResolved
<1>14. ASSUME NEW r \in Requests, PutError(r) PROVE (pc[s] \in {"applying", "put"} \/ resolved[c] # None)'
  <2>1. s # r
    <3> SUFFICES ASSUME s = r PROVE FALSE
      OBVIOUS
    <3>1. IsApproval(r)
      BY <1>c, <1>14 DEF PutError
    <3>2. "unsaved" \in fault'[c]
      BY <1>a, <1>14, <3>1 DEF PutError
    <3> QED
      BY <3>2
  <2> QED
    BY <1>a, <1>b, <1>14, <2>1 DEF PutError
<1>15. ASSUME NEW r \in Requests, DeletePending(r) PROVE (pc[s] \in {"applying", "put"} \/ resolved[c] # None)'
  BY <1>a, <1>b, <1>15 DEF DeletePending
<1>16. ASSUME NEW r \in Requests, AppendAudit(r) PROVE (pc[s] \in {"applying", "put"} \/ resolved[c] # None)'
  BY <1>a, <1>b, <1>16 DEF AppendAudit
<1>17. ASSUME NEW r \in Requests, Abort(r) PROVE (pc[s] \in {"applying", "put"} \/ resolved[c] # None)'
  <2>1. s = r => pc[s] \notin {"applying", "put"}
    BY <1>a, <1>c, <1>17 DEF Abort, LeftBy, StopApplying
  <2> QED
    BY <1>a, <1>b, <1>c, <1>17, <2>1 DEF Abort, StopApplying
<1>18. ASSUME NEW d \in Changes, LockExpire(d) PROVE (pc[s] \in {"applying", "put"} \/ resolved[c] # None)'
  BY <1>a, <1>b, <1>18 DEF LockExpire
<1>19. CASE UNCHANGED vars
  BY <1>a, <1>b, <1>19 DEF vars
<1> QED
  BY <1>1, <1>2, <1>3, <1>4, <1>5, <1>6, <1>7, <1>8, <1>9, <1>10, <1>11, <1>12,
     <1>13, <1>14, <1>15, <1>16, <1>17, <1>18, <1>19 DEF Next, Handle

\* KnownInv and StoredIsFound, for one request.
Known(s) ==
  s \in known =>
    /\ Stored(ChangeOf(s))
    /\ At(s, "readResolved") => resolved[ChangeOf(s)] # None
    /\ ~At(s, "notFound")

LEMMA KnownStep ==
  /\ TypeOK /\ ControlInv /\ BucketInv /\ KnownInv /\ StoredIsFound
  /\ [Next]_vars
  => KnownInv' /\ StoredIsFound'
<1> SUFFICES ASSUME TypeOK, ControlInv, BucketInv, KnownInv, StoredIsFound,
                    [Next]_vars
             PROVE  KnownInv' /\ StoredIsFound'
  OBVIOUS
<1>0. TypeOK'
  BY TypeStep
<1> SUFFICES ASSUME NEW s \in Requests PROVE Known(s)'
  BY <1>0 DEF TypeOK, Known, KnownInv, StoredIsFound, At
<1>a. /\ job' = job
      /\ \A d \in Changes : resolved[d] # None => resolved'[d] # None
      /\ \A d \in Changes : Stored(d) => Stored(d)'
  BY FrameStep DEF Frame
<1>b. Known(s)
  BY DEF Known, KnownInv, StoredIsFound, At
<1>c. ChangeOf(s) \in Changes
  BY ChangeOfType
<1> USE DEF TypeOK, bucket, books, Goto, At, Mark, Known
<1>1. ASSUME NEW r \in Requests, Arrive(r) PROVE Known(s)'
  BY <1>a, <1>b, <1>c, <1>1 DEF Arrive, ChangeOf, Stored
<1>2. ASSUME NEW r \in Requests, SaveProposal(r) PROVE Known(s)'
  BY <1>a, <1>b, <1>c, <1>2 DEF SaveProposal, ChangeOf
<1>3. ASSUME NEW r \in Requests, AcquireLock(r) PROVE Known(s)'
  BY <1>a, <1>b, <1>c, <1>3 DEF AcquireLock, ChangeOf
<1>4. ASSUME NEW r \in Requests, LockRefused(r) PROVE Known(s)'
  BY <1>a, <1>b, <1>c, <1>4 DEF LockRefused, ChangeOf
<1>5. ASSUME NEW r \in Requests, Unlock(r) PROVE Known(s)'
  BY <1>a, <1>b, <1>c, <1>5 DEF Unlock, Unlocking, AfterUnlock, ChangeOf
<1>6. ASSUME NEW r \in Requests, ReadPending(r) PROVE Known(s)'
  <2>1. CASE pending[ChangeOf(r)] # None
    <3>1. pending[ChangeOf(r)] \in PendingChange
      BY <2>1, ChangeOfType
    <3> QED
      BY <1>a, <1>b, <1>c, <1>6, <2>1, <3>1, AfterReadType DEF ReadPending, ChangeOf
  <2>2. CASE pending[ChangeOf(r)] = None
    BY <1>a, <1>b, <1>c, <1>6, <2>2 DEF ReadPending, ChangeOf, Stored
  <2> QED
    BY <2>1, <2>2
<1>7. ASSUME NEW r \in Requests, ReadResolved(r) PROVE Known(s)'
  <2>1. CASE resolved[ChangeOf(r)] # None
    <3>1. resolved[ChangeOf(r)] \in PendingChange
      BY <2>1, ChangeOfType
    <3> QED
      BY <1>a, <1>b, <1>c, <1>7, <2>1, <3>1, AfterReadType DEF ReadResolved, ChangeOf
  <2>2. CASE resolved[ChangeOf(r)] = None
    BY <1>a, <1>b, <1>c, <1>7, <2>2 DEF ReadResolved, ChangeOf
  <2> QED
    BY <2>1, <2>2
<1>8. ASSUME NEW r \in Requests, ReadError(r) PROVE Known(s)'
  BY <1>a, <1>b, <1>c, <1>8 DEF ReadError, ChangeOf
<1>9. ASSUME NEW r \in Requests, ApplyFirst(r) PROVE Known(s)'
  BY <1>a, <1>b, <1>c, <1>9 DEF ApplyFirst, ChangeOf
<1>10. ASSUME NEW r \in Requests, ApplyRest(r) PROVE Known(s)'
  BY <1>a, <1>b, <1>c, <1>10 DEF ApplyRest, ChangeOf
<1>11. ASSUME NEW r \in Requests, ApplyError(r) PROVE Known(s)'
  BY <1>a, <1>b, <1>c, <1>11 DEF ApplyError, ChangeOf
<1>12. ASSUME NEW r \in Requests, AuditFailure(r) PROVE Known(s)'
  BY <1>a, <1>b, <1>c, <1>12 DEF AuditFailure, ChangeOf
<1>13. ASSUME NEW r \in Requests, PutResolved(r) PROVE Known(s)'
  BY <1>a, <1>b, <1>c, <1>13 DEF PutResolved, ChangeOf
<1>14. ASSUME NEW r \in Requests, PutError(r) PROVE Known(s)'
  BY <1>a, <1>b, <1>c, <1>14 DEF PutError, ChangeOf
<1>15. ASSUME NEW r \in Requests, DeletePending(r) PROVE Known(s)'
  BY <1>a, <1>b, <1>c, <1>15 DEF DeletePending, ChangeOf
<1>16. ASSUME NEW r \in Requests, AppendAudit(r) PROVE Known(s)'
  BY <1>a, <1>b, <1>c, <1>16 DEF AppendAudit, ChangeOf
<1>17. ASSUME NEW r \in Requests, Abort(r) PROVE Known(s)'
  BY <1>a, <1>b, <1>c, <1>17 DEF Abort, ChangeOf
<1>18. ASSUME NEW d \in Changes, LockExpire(d) PROVE Known(s)'
  BY <1>a, <1>b, <1>c, <1>18 DEF LockExpire, ChangeOf
<1>19. CASE UNCHANGED vars
  BY <1>a, <1>b, <1>c, <1>19 DEF vars, ChangeOf
<1> QED
  BY <1>1, <1>2, <1>3, <1>4, <1>5, <1>6, <1>7, <1>8, <1>9, <1>10, <1>11, <1>12,
     <1>13, <1>14, <1>15, <1>16, <1>17, <1>18, <1>19 DEF Next, Handle

\* AccountInv, for one request.
Accounted(s) ==
  effect[s] = "all" =>
    \/ pc[s] \in {"put", "gone"}
    \/ resolved[ChangeOf(s)] # None
    \/ ChangeOf(s) \in recon
    \/ "partial" \in fault[ChangeOf(s)]

LEMMA AccountStep ==
  TypeOK /\ ControlInv /\ BucketInv /\ AccountInv /\ [Next]_vars => AccountInv'
<1> SUFFICES ASSUME TypeOK, ControlInv, BucketInv, AccountInv, [Next]_vars,
                    NEW s \in Requests
             PROVE  Accounted(s)'
  BY DEF AccountInv, Accounted
<1>a. /\ job' = job
      /\ \A d \in Changes : resolved[d] # None => resolved'[d] # None
      /\ \A d \in Changes : fault[d] \subseteq fault'[d]
  BY FrameStep DEF Frame
<1>b. Accounted(s) /\ ChangeOf(s) \in Changes
  BY ChangeOfType DEF AccountInv, Accounted
<1>c. effect[s] = "all" =>
        pc[s] \in {"applying", "put", "failAudit", "delete", "audit",
                  "unlockResolved"} \cup Finished
  BY DEF ControlInv
<1> USE DEF TypeOK, bucket, books, Goto, At, Mark, Accounted
<1>1. ASSUME NEW r \in Requests, Arrive(r) PROVE Accounted(s)'
  BY <1>a, <1>b, <1>1 DEF Arrive, ChangeOf
<1>2. ASSUME NEW r \in Requests, SaveProposal(r) PROVE Accounted(s)'
  BY <1>a, <1>b, <1>2 DEF SaveProposal, ChangeOf
<1>3. ASSUME NEW r \in Requests, AcquireLock(r) PROVE Accounted(s)'
  BY <1>a, <1>b, <1>3 DEF AcquireLock, ChangeOf
<1>4. ASSUME NEW r \in Requests, LockRefused(r) PROVE Accounted(s)'
  BY <1>a, <1>b, <1>4 DEF LockRefused, ChangeOf
<1>5. ASSUME NEW r \in Requests, Unlock(r) PROVE Accounted(s)'
  BY <1>a, <1>b, <1>5 DEF Unlock, Unlocking, ChangeOf
<1>6. ASSUME NEW r \in Requests, ReadPending(r) PROVE Accounted(s)'
  BY <1>a, <1>b, <1>6 DEF ReadPending, ChangeOf
<1>7. ASSUME NEW r \in Requests, ReadResolved(r) PROVE Accounted(s)'
  BY <1>a, <1>b, <1>7 DEF ReadResolved, ChangeOf
<1>8. ASSUME NEW r \in Requests, ReadError(r) PROVE Accounted(s)'
  BY <1>a, <1>b, <1>8 DEF ReadError, ChangeOf
<1>9. ASSUME NEW r \in Requests, ApplyFirst(r) PROVE Accounted(s)'
  BY <1>a, <1>b, <1>9 DEF ApplyFirst, ChangeOf
<1>10. ASSUME NEW r \in Requests, ApplyRest(r) PROVE Accounted(s)'
  BY <1>a, <1>b, <1>10 DEF ApplyRest, ChangeOf
<1>11. ASSUME NEW r \in Requests, ApplyError(r) PROVE Accounted(s)'
  BY <1>a, <1>b, <1>c, <1>11 DEF ApplyError, StopApplying, ChangeOf, Finished, Answered, Applying
<1>12. ASSUME NEW r \in Requests, AuditFailure(r) PROVE Accounted(s)'
  BY <1>a, <1>b, <1>12 DEF AuditFailure, ChangeOf
<1>13. ASSUME NEW r \in Requests, PutResolved(r) PROVE Accounted(s)'
  <2>1. Resolution(r) # None
    BY <1>13, ResolutionType, ConstantsAssumption DEF PutResolved, ControlInv
  <2> QED
    BY <1>a, <1>b, <1>13, <2>1 DEF PutResolved, ChangeOf
<1>14. ASSUME NEW r \in Requests, PutError(r) PROVE Accounted(s)'
  BY <1>a, <1>b, <1>14 DEF PutError, ChangeOf
<1>15. ASSUME NEW r \in Requests, DeletePending(r) PROVE Accounted(s)'
  BY <1>a, <1>b, <1>15 DEF DeletePending, ChangeOf
<1>16. ASSUME NEW r \in Requests, AppendAudit(r) PROVE Accounted(s)'
  BY <1>a, <1>b, <1>16 DEF AppendAudit, ChangeOf
<1>17. ASSUME NEW r \in Requests, Abort(r) PROVE Accounted(s)'
  BY <1>a, <1>b, <1>c, <1>17 DEF Abort, StopApplying, ChangeOf
<1>18. ASSUME NEW d \in Changes, LockExpire(d) PROVE Accounted(s)'
  BY <1>a, <1>b, <1>18 DEF LockExpire, ChangeOf
<1>19. CASE UNCHANGED vars
  BY <1>a, <1>b, <1>19 DEF vars, ChangeOf
<1> QED
  BY <1>1, <1>2, <1>3, <1>4, <1>5, <1>6, <1>7, <1>8, <1>9, <1>10, <1>11, <1>12,
     <1>13, <1>14, <1>15, <1>16, <1>17, <1>18, <1>19 DEF Next, Handle

----------------------------------------------------------------------------
(* Who may change the account, the resolution and the audit log.           *)

\* Only ApplyFirst makes a request touch the account, and nothing is undone.
EffectGrows(s) ==
  /\ effect[s] # "none" => effect'[s] # "none"
  /\ effect[s] = "all" => effect'[s] = "all"
  /\ effect[s] = "none" /\ effect'[s] # "none" => ApplyFirst(s)

LEMMA EffectGrowsStep ==
  ASSUME TypeOK, ControlInv, [Next]_vars, NEW s \in Requests
  PROVE  EffectGrows(s)
<1> USE DEF TypeOK, bucket, books, Goto, At, Mark, EffectGrows
<1>1. ASSUME NEW r \in Requests, Arrive(r) PROVE EffectGrows(s)
  BY <1>1 DEF Arrive
<1>2. ASSUME NEW r \in Requests, SaveProposal(r) PROVE EffectGrows(s)
  BY <1>2 DEF SaveProposal
<1>3. ASSUME NEW r \in Requests, AcquireLock(r) PROVE EffectGrows(s)
  BY <1>3 DEF AcquireLock
<1>4. ASSUME NEW r \in Requests, LockRefused(r) PROVE EffectGrows(s)
  BY <1>4 DEF LockRefused
<1>5. ASSUME NEW r \in Requests, Unlock(r) PROVE EffectGrows(s)
  BY <1>5 DEF Unlock
<1>6. ASSUME NEW r \in Requests, ReadPending(r) PROVE EffectGrows(s)
  BY <1>6 DEF ReadPending
<1>7. ASSUME NEW r \in Requests, ReadResolved(r) PROVE EffectGrows(s)
  BY <1>7 DEF ReadResolved
<1>8. ASSUME NEW r \in Requests, ReadError(r) PROVE EffectGrows(s)
  BY <1>8 DEF ReadError
<1>9. ASSUME NEW r \in Requests, ApplyFirst(r) PROVE EffectGrows(s)
  BY <1>9 DEF ApplyFirst, ControlInv, Finished, Answered
<1>10. ASSUME NEW r \in Requests, ApplyRest(r) PROVE EffectGrows(s)
  BY <1>10 DEF ApplyRest, ControlInv
<1>11. ASSUME NEW r \in Requests, ApplyError(r) PROVE EffectGrows(s)
  BY <1>11 DEF ApplyError, StopApplying, ControlInv
<1>12. ASSUME NEW r \in Requests, AuditFailure(r) PROVE EffectGrows(s)
  BY <1>12 DEF AuditFailure
<1>13. ASSUME NEW r \in Requests, PutResolved(r) PROVE EffectGrows(s)
  BY <1>13 DEF PutResolved
<1>14. ASSUME NEW r \in Requests, PutError(r) PROVE EffectGrows(s)
  BY <1>14 DEF PutError
<1>15. ASSUME NEW r \in Requests, DeletePending(r) PROVE EffectGrows(s)
  BY <1>15 DEF DeletePending
<1>16. ASSUME NEW r \in Requests, AppendAudit(r) PROVE EffectGrows(s)
  BY <1>16 DEF AppendAudit
<1>17. ASSUME NEW r \in Requests, Abort(r) PROVE EffectGrows(s)
  BY <1>17 DEF Abort, StopApplying, ControlInv
<1>18. ASSUME NEW d \in Changes, LockExpire(d) PROVE EffectGrows(s)
  BY <1>18 DEF LockExpire
<1>19. CASE UNCHANGED vars
  BY <1>19 DEF vars
<1> QED
  BY <1>1, <1>2, <1>3, <1>4, <1>5, <1>6, <1>7, <1>8, <1>9, <1>10, <1>11, <1>12,
     <1>13, <1>14, <1>15, <1>16, <1>17, <1>18, <1>19 DEF Next, Handle

\* A resolution is only written by a handler that reached its PUT, and one
\* that is not told so leaves the pending object behind.
ResolvedBy(c, r) ==
  /\ At(r, "put") /\ ChangeOf(r) = c
  /\ resolved'[c] = Resolution(r)
  /\ effect' = effect
  /\ PutResolved(r) \/ "lingering" \in fault'[c]

LEMMA ResolvedStep ==
  ASSUME TypeOK, [Next]_vars, NEW c \in Changes, resolved'[c] # resolved[c]
  PROVE  \E r \in Requests : ResolvedBy(c, r)
<1> USE DEF TypeOK, bucket, books, Goto, At, Mark
<1> DEFINE Goal == \E r \in Requests : ResolvedBy(c, r)
<1>1. ASSUME NEW r \in Requests, Arrive(r) PROVE Goal
  BY <1>1 DEF Arrive
<1>2. ASSUME NEW r \in Requests, SaveProposal(r) PROVE Goal
  BY <1>2 DEF SaveProposal
<1>3. ASSUME NEW r \in Requests, AcquireLock(r) PROVE Goal
  BY <1>3 DEF AcquireLock
<1>4. ASSUME NEW r \in Requests, LockRefused(r) PROVE Goal
  BY <1>4 DEF LockRefused
<1>5. ASSUME NEW r \in Requests, Unlock(r) PROVE Goal
  BY <1>5 DEF Unlock
<1>6. ASSUME NEW r \in Requests, ReadPending(r) PROVE Goal
  BY <1>6 DEF ReadPending
<1>7. ASSUME NEW r \in Requests, ReadResolved(r) PROVE Goal
  BY <1>7 DEF ReadResolved
<1>8. ASSUME NEW r \in Requests, ReadError(r) PROVE Goal
  BY <1>8 DEF ReadError
<1>9. ASSUME NEW r \in Requests, ApplyFirst(r) PROVE Goal
  BY <1>9 DEF ApplyFirst
<1>10. ASSUME NEW r \in Requests, ApplyRest(r) PROVE Goal
  BY <1>10 DEF ApplyRest
<1>11. ASSUME NEW r \in Requests, ApplyError(r) PROVE Goal
  BY <1>11 DEF ApplyError
<1>12. ASSUME NEW r \in Requests, AuditFailure(r) PROVE Goal
  BY <1>12 DEF AuditFailure
<1>13. ASSUME NEW r \in Requests, PutResolved(r) PROVE Goal
  <2>1. ResolvedBy(c, r)
    BY <1>13, ChangeOfType DEF PutResolved, ResolvedBy
  <2> QED
    BY <2>1
<1>14. ASSUME NEW r \in Requests, PutError(r) PROVE Goal
  <2>1. ResolvedBy(c, r)
    BY <1>14, ChangeOfType DEF PutError, ResolvedBy
  <2> QED
    BY <2>1
<1>15. ASSUME NEW r \in Requests, DeletePending(r) PROVE Goal
  BY <1>15 DEF DeletePending
<1>16. ASSUME NEW r \in Requests, AppendAudit(r) PROVE Goal
  BY <1>16 DEF AppendAudit
<1>17. ASSUME NEW r \in Requests, Abort(r) PROVE Goal
  BY <1>17 DEF Abort
<1>18. ASSUME NEW d \in Changes, LockExpire(d) PROVE Goal
  BY <1>18 DEF LockExpire
<1>19. CASE UNCHANGED vars
  BY <1>19 DEF vars
<1> QED
  BY <1>1, <1>2, <1>3, <1>4, <1>5, <1>6, <1>7, <1>8, <1>9, <1>10, <1>11, <1>12,
     <1>13, <1>14, <1>15, <1>16, <1>17, <1>18, <1>19 DEF Next, Handle

LEMMA AuditStep ==
  TypeOK /\ ControlInv /\ BucketInv /\ AuditHasRecord /\ [Next]_vars
    => AuditHasRecord'
<1> SUFFICES ASSUME TypeOK, ControlInv, BucketInv, AuditHasRecord, [Next]_vars,
                    NEW e \in audit', e.outcome = "success", e.action # "propose"
             PROVE  resolved'[e.change] # None
  BY DEF AuditHasRecord
<1>a. e \in audit => e.change \in Changes
  BY DEF TypeOK, AuditEntry
<1>b. \A c \in Changes : resolved[c] # None => resolved'[c] # None
  BY FrameStep DEF Frame
<1>c. e \in audit => resolved'[e.change] # None
  BY <1>a, <1>b DEF AuditHasRecord
<1> USE DEF bucket, books
<1>1. ASSUME NEW r \in Requests, Arrive(r) PROVE resolved'[e.change] # None
  BY <1>c, <1>1 DEF Arrive
<1>2. ASSUME NEW r \in Requests, SaveProposal(r) PROVE resolved'[e.change] # None
  BY <1>c, <1>2 DEF SaveProposal
<1>3. ASSUME NEW r \in Requests, AcquireLock(r) PROVE resolved'[e.change] # None
  BY <1>c, <1>3 DEF AcquireLock
<1>4. ASSUME NEW r \in Requests, LockRefused(r) PROVE resolved'[e.change] # None
  BY <1>c, <1>4 DEF LockRefused
<1>5. ASSUME NEW r \in Requests, Unlock(r) PROVE resolved'[e.change] # None
  BY <1>c, <1>5 DEF Unlock
<1>6. ASSUME NEW r \in Requests, ReadPending(r) PROVE resolved'[e.change] # None
  BY <1>c, <1>6 DEF ReadPending
<1>7. ASSUME NEW r \in Requests, ReadResolved(r) PROVE resolved'[e.change] # None
  BY <1>c, <1>7 DEF ReadResolved
<1>8. ASSUME NEW r \in Requests, ReadError(r) PROVE resolved'[e.change] # None
  BY <1>c, <1>8 DEF ReadError
<1>9. ASSUME NEW r \in Requests, ApplyFirst(r) PROVE resolved'[e.change] # None
  BY <1>c, <1>9 DEF ApplyFirst
<1>10. ASSUME NEW r \in Requests, ApplyRest(r) PROVE resolved'[e.change] # None
  BY <1>c, <1>10 DEF ApplyRest
<1>11. ASSUME NEW r \in Requests, ApplyError(r) PROVE resolved'[e.change] # None
  BY <1>c, <1>11 DEF ApplyError
<1>12. ASSUME NEW r \in Requests, AuditFailure(r) PROVE resolved'[e.change] # None
  BY <1>c, <1>12 DEF AuditFailure, Entry
<1>13. ASSUME NEW r \in Requests, PutResolved(r) PROVE resolved'[e.change] # None
  BY <1>c, <1>13 DEF PutResolved
<1>14. ASSUME NEW r \in Requests, PutError(r) PROVE resolved'[e.change] # None
  BY <1>c, <1>14 DEF PutError
<1>15. ASSUME NEW r \in Requests, DeletePending(r) PROVE resolved'[e.change] # None
  BY <1>c, <1>15 DEF DeletePending
<1>16. ASSUME NEW r \in Requests, AppendAudit(r) PROVE resolved'[e.change] # None
  BY <1>c, <1>16 DEF AppendAudit, Entry, BucketInv, At
<1>17. ASSUME NEW r \in Requests, Abort(r) PROVE resolved'[e.change] # None
  BY <1>c, <1>17 DEF Abort
<1>18. ASSUME NEW d \in Changes, LockExpire(d) PROVE resolved'[e.change] # None
  BY <1>c, <1>18 DEF LockExpire
<1>19. CASE UNCHANGED vars
  BY <1>c, <1>19 DEF vars
<1> QED
  BY <1>1, <1>2, <1>3, <1>4, <1>5, <1>6, <1>7, <1>8, <1>9, <1>10, <1>11, <1>12,
     <1>13, <1>14, <1>15, <1>16, <1>17, <1>18, <1>19 DEF Next, Handle

LEMMA ApprovedAppliedStep ==
  TypeOK /\ ControlInv /\ ApprovedApplied /\ [Next]_vars => ApprovedApplied'
<1> SUFFICES ASSUME TypeOK, ControlInv, ApprovedApplied, [Next]_vars,
                    NEW c \in Changes, resolved'[c] # None,
                    resolved'[c].status = "Approved"
             PROVE  \E r \in Requests : effect'[r] = "all" /\ ChangeOf(r)' = c
  BY DEF ApprovedApplied, AppliedBy
<1>1. job' = job
  BY DEF Next, Handle, vars, Arrive, SaveProposal, AcquireLock, LockRefused, Unlock,
         ReadPending, ReadResolved, ReadError, ApplyFirst, ApplyRest, ApplyError,
         AuditFailure, PutResolved, PutError, DeletePending, AppendAudit, Abort,
         LockExpire
<1>2. CASE resolved'[c] = resolved[c]
  <2>1. PICK r \in Requests : effect[r] = "all" /\ ChangeOf(r) = c
    BY <1>2 DEF ApprovedApplied, AppliedBy
  <2>2. effect'[r] = "all"
    BY <2>1, EffectGrowsStep DEF EffectGrows
  <2> QED
    BY <1>1, <2>1, <2>2 DEF ChangeOf
<1>3. CASE resolved'[c] # resolved[c]
  <2>1. PICK r \in Requests : ResolvedBy(c, r)
    BY <1>3, ResolvedStep
  <2>2. Outcome(r) = "Approved"
    BY <2>1, ResolutionType DEF ResolvedBy, ControlInv, At
  <2>3. effect[r] = "all"
    BY <2>1, <2>2 DEF Outcome, ResolvedBy, ControlInv
  <2> QED
    BY <1>1, <2>1, <2>3 DEF ResolvedBy, ChangeOf
<1> QED
  BY <1>2, <1>3

\* With no fault, a handler in its section is alone in it.
LEMMA Alone ==
  ASSUME LockInv, NEW c \in Changes, fault[c] = {},
         NEW r \in Inside(c), NEW s \in Inside(c)
  PROVE  r = s
BY DEF LockInv

LEMMA AppliedOnceStep ==
  /\ TypeOK /\ ControlInv /\ LockInv /\ BucketInv /\ FreshInv /\ EffectInv
  /\ AppliedOnce /\ [Next]_vars
  => AppliedOnce'
<1> SUFFICES ASSUME TypeOK, ControlInv, LockInv, BucketInv, FreshInv, EffectInv,
                    AppliedOnce, [Next]_vars, NEW c \in Changes, fault'[c] = {},
                    NEW r \in TouchedBy(c)', NEW s \in TouchedBy(c)'
             PROVE  r = s
  BY DEF AppliedOnce, AtMostOne
<1>1. fault[c] = {} /\ job' = job
  BY FrameStep DEF Frame
<1>2. /\ r \in Requests /\ effect'[r] # "none" /\ ChangeOf(r) = c
      /\ s \in Requests /\ effect'[s] # "none" /\ ChangeOf(s) = c
  BY <1>1 DEF TouchedBy, ChangeOf
\* One that starts to write is alone, and nobody has written before it.
<1>3. ASSUME NEW p \in Requests, NEW q \in Requests, ChangeOf(p) = c, ChangeOf(q) = c,
             effect[p] = "none", effect'[p] # "none", effect'[q] # "none"
      PROVE  p = q
  <2>1. ApplyFirst(p)
    BY <1>3, EffectGrowsStep DEF EffectGrows
  <2>2. p \in Inside(c) /\ resolved[c] = None
    BY <1>1, <1>3, <2>1
       DEF ApplyFirst, Inside, Critical, Applying, At, FreshInv, Fresh, Orderly
  <2>3. q \in Inside(c)
    <3>1. CASE effect[q] = "none"
      <4>1. ApplyFirst(q)
        BY <1>3, <3>1, EffectGrowsStep DEF EffectGrows
      <4> QED
        BY <1>3, <4>1 DEF ApplyFirst, Inside, Critical, Applying, At
    <3>2. CASE effect[q] # "none"
      BY <1>1, <1>3, <2>2, <3>2
         DEF EffectInv, TouchedBy, Inside, Critical, Applying
    <3> QED
      BY <3>1, <3>2
  <2> QED
    BY <1>1, <2>2, <2>3, Alone
<1>4. CASE effect[r] # "none" /\ effect[s] # "none"
  BY <1>1, <1>2, <1>4 DEF AppliedOnce, AtMostOne, TouchedBy
<1> QED
  BY <1>2, <1>3, <1>4

LEMMA RejectedUntouchedStep ==
  /\ TypeOK /\ ControlInv /\ LockInv /\ BucketInv /\ FreshInv /\ EffectInv
  /\ RejectedUntouched /\ [Next]_vars
  => RejectedUntouched'
<1> SUFFICES ASSUME TypeOK, ControlInv, LockInv, BucketInv, FreshInv, EffectInv,
                    RejectedUntouched, [Next]_vars, NEW c \in Changes,
                    fault'[c] = {}, resolved'[c] # None,
                    resolved'[c].status = "Rejected",
                    NEW s \in Requests, effect'[s] # "none", ChangeOf(s)' = c
             PROVE  FALSE
  BY DEF RejectedUntouched, TouchedBy
<1>1. fault[c] = {} /\ ChangeOf(s) = c
  BY FrameStep DEF Frame, ChangeOf
<1>2. CASE resolved'[c] = resolved[c]
  <2>1. effect[s] = "none"
    BY <1>1, <1>2 DEF RejectedUntouched, TouchedBy
  <2>2. ApplyFirst(s)
    BY <2>1, EffectGrowsStep DEF EffectGrows
  <2> QED
    BY <1>1, <1>2, <2>2 DEF ApplyFirst, At, FreshInv, Fresh, Orderly, Applying
<1>3. CASE resolved'[c] # resolved[c]
  <2>1. PICK r \in Requests : ResolvedBy(c, r)
    BY <1>3, ResolvedStep
  <2>2. Outcome(r) = "Rejected"
    BY <2>1, ResolutionType DEF ResolvedBy, ControlInv, At
  <2>3. r \in Inside(c) /\ resolved[c] = None /\ ~IsApproval(r)
    BY <1>1, <2>1, <2>2
       DEF ResolvedBy, Inside, Critical, At, FreshInv, Fresh, Orderly, Outcome
  <2>4. effect[s] # "none"
    BY <2>1 DEF ResolvedBy
  <2>5. s \in Inside(c) /\ IsApproval(s)
    BY <1>1, <2>3, <2>4
       DEF EffectInv, TouchedBy, ControlInv, Inside, Critical, Applying
  <2> QED
    BY <1>1, <2>3, <2>5, Alone
<1> QED
  BY <1>2, <1>3

----------------------------------------------------------------------------
(* The inductive invariant, and the safety properties it implies.          *)

LEMMA InitIInv == Init => IInv
<1> SUFFICES ASSUME Init PROVE IInv
  OBVIOUS
<1>1. TypeOK
  BY InitType
<1>2. JobInv
  BY DEF Init, JobInv, ChangeOf
<1>3. ControlInv /\ LockInv
  BY DEF Init, ControlInv, LockInv, At, Applying, Inside, Critical, Unlocking
<1>4. BucketInv
  BY <1>1 DEF Init, BucketInv, Stored, At, Applying, TypeOK, Job, ChangeOf
<1>5. FreshInv
  BY DEF Init, FreshInv, Fresh, At, Applying
<1>6. EffectInv /\ AppliedOnce /\ RejectedUntouched /\ ApprovedApplied
  BY DEF Init, EffectInv, TouchedBy, AppliedOnce, AtMostOne, RejectedUntouched,
         ApprovedApplied
<1>7. KnownInv /\ AccountInv /\ StoredIsFound /\ AuditHasRecord
  BY DEF Init, KnownInv, AccountInv, StoredIsFound, AuditHasRecord
<1> QED
  BY <1>1, <1>2, <1>3, <1>4, <1>5, <1>6, <1>7 DEF IInv

LEMMA StepIInv == IInv /\ [Next]_vars => IInv'
<1> SUFFICES ASSUME IInv, [Next]_vars PROVE IInv'
  OBVIOUS
<1>1. TypeOK' /\ ControlInv' /\ LockInv'
  BY TypeStep, ControlStep, LockStep DEF IInv
<1>2. JobInv'
  BY FrameStep DEF IInv, Frame, JobInv, ChangeOf
<1>3. BucketInv' /\ FreshInv' /\ EffectInv'
  BY BucketStep, FreshStep, EffectStep DEF IInv
<1>4. KnownInv' /\ AccountInv' /\ StoredIsFound' /\ AuditHasRecord'
  BY KnownStep, AccountStep, AuditStep DEF IInv
<1>5. AppliedOnce' /\ RejectedUntouched' /\ ApprovedApplied'
  BY AppliedOnceStep, RejectedUntouchedStep, ApprovedAppliedStep DEF IInv
<1> QED
  BY <1>1, <1>2, <1>3, <1>4, <1>5 DEF IInv

\* The invariant holds of every behaviour of the queue.
THEOREM Invariance == Spec => []IInv
BY InitIInv, StepIInv, PTL DEF Spec

\* Every variable keeps its type.
THEOREM TypeCorrect == Spec => []TypeOK
<1>1. IInv => TypeOK
  BY DEF IInv
<1> QED
  BY <1>1, Invariance, PTL

\* The lock of changes.rs excludes, as long as no key expires under a handler.
THEOREM LockExcludes == Spec => []MutualExclusion
<1>1. IInv => MutualExclusion
  BY DEF IInv, LockInv, MutualExclusion, AtMostOne
<1> QED
  BY <1>1, Invariance, PTL

\* A change without a fault is written to Keycloak by one approval at most.
THEOREM NoDoubleApply == Spec => []AppliedOnce
<1>1. IInv => AppliedOnce
  BY DEF IInv
<1> QED
  BY <1>1, Invariance, PTL

\* An approved change was applied, whatever happened to its handler.
THEOREM ApprovalsHold == Spec => []ApprovedApplied
<1>1. IInv => ApprovedApplied
  BY DEF IInv
<1> QED
  BY <1>1, Invariance, PTL

\* Rejecting or cancelling a change without a fault leaves the account alone.
THEOREM RejectionsHold == Spec => []RejectedUntouched
<1>1. IInv => RejectedUntouched
  BY DEF IInv
<1> QED
  BY <1>1, Invariance, PTL

\* The two reads of get_change never miss a change that is being moved.
THEOREM NeverLost == Spec => []StoredIsFound
<1>1. IInv => StoredIsFound
  BY DEF IInv
<1> QED
  BY <1>1, Invariance, PTL

\* The audit log tells of no resolution that is not in the bucket.
THEOREM TrailTruthful == Spec => []AuditHasRecord
<1>1. IInv => AuditHasRecord
  BY DEF IInv
<1> QED
  BY <1>1, Invariance, PTL

\* What was written to Keycloak is on record or in the reconciliation log.
THEOREM WritesAccounted == Spec => []AppliedAccounted
<1>1. IInv => AppliedAccounted
  BY DEF IInv, AccountInv, AppliedAccounted, Answered
<1> QED
  BY <1>1, Invariance, PTL

\* A resolution on record is final.
THEOREM Final == Spec => ResolutionFinal
<1>1. ASSUME IInv, [Next]_vars, NEW c \in Changes, resolved[c] # None,
             fault'[c] \cap {"overrun", "lingering"} = {}
      PROVE  resolved'[c] = resolved[c]
  <2> SUFFICES ASSUME resolved'[c] # resolved[c] PROVE FALSE
    OBVIOUS
  <2>1. PICK r \in Requests : ResolvedBy(c, r)
    BY <1>1, ResolvedStep DEF IInv
  <2>2. Orderly(c)
    BY <1>1, FrameStep DEF IInv, Frame, Orderly
  <2> QED
    BY <1>1, <2>1, <2>2 DEF ResolvedBy, At, IInv, FreshInv, Fresh
<1>2. IInv /\ [Next]_vars =>
        [\A c \in Changes :
           resolved[c] # None /\ fault'[c] \cap {"overrun", "lingering"} = {}
             => resolved'[c] = resolved[c]]_vars
  BY <1>1
<1> QED
  BY <1>2, Invariance, PTL DEF Spec, ResolutionFinal

----------------------------------------------------------------------------
(* Refinement of ChangeLifecycle.                                          *)

\* What a step on c leaves of every other change, as the lifecycle sees it.
Others(c) ==
  \A d \in Changes \ {c} :
    /\ StatusOf(d)' = StatusOf(d)
    /\ TouchedBy(d)' = TouchedBy(d)
    /\ fault'[d] = fault[d]

Decided == {"Pending", "Approved", "Rejected"}

LEMMA StatusType ==
  ASSUME TypeOK, NEW c \in Changes
  PROVE  /\ StatusOf(c) \in Decided \cup {"absent"}
         /\ StatusOf(c) = "absent" <=> ~Stored(c)
BY DEF TypeOK, StatusOf, Decided, Stored, PendingChange, ChangeStatus

LEMMA DisturbMapped ==
  ASSUME NEW c \in Changes, Others(c), fault'[c] # {},
         TouchedBy(c) # {} => TouchedBy(c)' # {},
         StatusOf(c)' # StatusOf(c) =>
           StatusOf(c) # "absent" /\ StatusOf(c)' \in Decided
  PROVE  Lifecycle!Disturb(c)
<1>1. {d \in Changes : fault[d] # {}}' = {d \in Changes : fault[d] # {}} \cup {c}
  BY DEF Others
<1>2. {d \in Changes : TouchedBy(d) # {}}'
        \in {{d \in Changes : TouchedBy(d) # {}},
             {d \in Changes : TouchedBy(d) # {}} \cup {c}}
  <2>1. CASE TouchedBy(c)' # {}
    BY <2>1 DEF Others
  <2>2. CASE TouchedBy(c)' = {}
    BY <2>2 DEF Others
  <2> QED
    BY <2>1, <2>2
<1>3. CASE StatusOf(c)' = StatusOf(c)
  <2>1. [d \in Changes |-> StatusOf(d)]' = [d \in Changes |-> StatusOf(d)]
    BY <1>3 DEF Others
  <2> QED
    BY <1>1, <1>2, <2>1 DEF Lifecycle!Disturb
<1>4. CASE StatusOf(c) # "absent" /\ StatusOf(c)' \in Decided
  <2>1. [d \in Changes |-> StatusOf(d)]'
          = [[d \in Changes |-> StatusOf(d)] EXCEPT ![c] = StatusOf(c)']
    BY DEF Others
  <2> QED
    BY <1>1, <1>2, <1>4, <2>1 DEF Lifecycle!Disturb, Decided
<1> QED
  BY <1>3, <1>4

\* Nothing the lifecycle sees has changed.
Unseen ==
  /\ job' = job /\ effect' = effect /\ fault' = fault
  /\ pending' = pending /\ resolved' = resolved

\* A step of the lifecycle, or none.
Mapped == [Lifecycle!Next]_(Lifecycle!lvars)

LEMMA UnseenMapped == Unseen => Mapped
BY DEF Mapped, Unseen, Lifecycle!lvars, StatusOf, TouchedBy, ChangeOf

\* A handler only ever changes its own change.
LEMMA OthersStep ==
  ASSUME TypeOK, NEW r \in Requests, Handle(r) \/ Abort(r)
  PROVE  Others(ChangeOf(r)) /\ job' = job
<1> DEFINE c == ChangeOf(r)
<1>0. c \in Changes
  BY ChangeOfType
<1>1. /\ job' = job
      /\ \A d \in Changes \ {c} :
           pending'[d] = pending[d] /\ resolved'[d] = resolved[d] /\ fault'[d] = fault[d]
      /\ \A s \in Requests \ {r} : effect'[s] = effect[s]

  BY <1>0 DEF TypeOK, bucket, books, Goto, At, Mark, Handle, SaveProposal, AcquireLock, LockRefused,
     Unlock, ReadPending, ReadResolved, ReadError, ApplyFirst, ApplyRest, ApplyError,
     StopApplying, AuditFailure, PutResolved, PutError, DeletePending, AppendAudit, Abort
<1>2. \A d \in Changes \ {c} : TouchedBy(d)' = TouchedBy(d)
  BY <1>1 DEF TouchedBy, ChangeOf
<1> QED
  BY <1>1, <1>2 DEF Others, StatusOf

LEMMA FaultKept ==
  ASSUME IInv, [Next]_vars, NEW c \in Changes, Others(c), fault'[c] = {}
  PROVE  fault' = fault
<1>1. fault[c] \subseteq fault'[c]
  BY FrameStep DEF IInv, Frame
<1>2. \A d \in Changes : fault'[d] = fault[d]
  BY <1>1 DEF Others
<1>3. TypeOK /\ TypeOK'
  BY StepIInv DEF IInv
<1> QED
  BY <1>2, <1>3 DEF TypeOK

LEMMA RefinementStep ==
  ASSUME IInv, [Next]_vars
  PROVE  Mapped
<1> USE DEF bucket, books, Goto, At, Mark
<1>a. TypeOK /\ TypeOK' /\ IInv'
  BY StepIInv DEF IInv
<1>b. ASSUME NEW c \in Changes, Others(c), fault'[c] # {},
             StatusOf(c)' # StatusOf(c) =>
               StatusOf(c) # "absent" /\ StatusOf(c)' \in Decided
      PROVE  Lifecycle!Disturb(c)
  <2>1. job' = job
    BY FrameStep DEF IInv, Frame
  <2>2. TouchedBy(c) # {} => TouchedBy(c)' # {}
    BY <2>1, EffectGrowsStep DEF IInv, EffectGrows, TouchedBy, ChangeOf
  <2> QED
    BY <1>b, <2>2, DisturbMapped
<1>c. ASSUME NEW r \in Requests, Handle(r) \/ Abort(r)
      PROVE  Others(ChangeOf(r)) /\ ChangeOf(r) \in Changes /\ job' = job
  BY <1>a, <1>c, OthersStep, ChangeOfType
<1>1. ASSUME NEW r \in Requests,
             \/ Arrive(r) \/ AcquireLock(r) \/ LockRefused(r) \/ Unlock(r)
             \/ ReadPending(r) \/ ReadResolved(r) \/ ReadError(r)
             \/ AuditFailure(r) \/ AppendAudit(r)
      PROVE  Mapped
  <2>1. Unseen
    BY <1>1 DEF Unseen, Arrive, AcquireLock, LockRefused, Unlock, ReadPending,
       ReadResolved, ReadError, AuditFailure, AppendAudit
  <2> QED
    BY <2>1, UnseenMapped
<1>2. ASSUME NEW r \in Requests, SaveProposal(r) PROVE Mapped
  <2> SUFFICES ASSUME NEW c \in Changes, c = ChangeOf(r) PROVE Mapped
    BY <1>2, <1>c DEF Handle
  <2>0. c = ChangeOf(r) /\ Others(c) /\ job' = job
    BY <1>2, <1>c DEF Handle
  <2>1. CASE pending' = pending
    <3>1. Unseen
      BY <1>2, <2>1, <2>0 DEF Unseen, SaveProposal
    <3> QED
      BY <3>1, UnseenMapped
  <2>2. CASE pending' = [pending EXCEPT ![c] = Proposal(job[r].user)]
    <3>1. ~Stored(c)
      BY <1>2 DEF IInv, ControlInv, BucketInv, SaveProposal
    <3>2. Proposal(job[r].user) # None
      BY <1>a, PendingChangeType, ConstantsAssumption DEF TypeOK, Job
    <3>3. StatusOf(c) = "absent" /\ StatusOf(c)' = "Pending"
      BY <1>a, <1>2, <2>0, <2>2, <3>1, <3>2 DEF StatusOf, Stored, SaveProposal, TypeOK
    <3>4. [d \in Changes |-> StatusOf(d)]'
            = [[d \in Changes |-> StatusOf(d)] EXCEPT ![c] = "Pending"]
      BY <2>0, <3>3 DEF Others
    <3>5. effect' = effect /\ fault' = fault
      BY <1>2 DEF SaveProposal
    <3>6. Lifecycle!Propose(c)
      BY <2>0, <3>3, <3>4, <3>5 DEF Lifecycle!Propose, TouchedBy, ChangeOf
    <3> QED
      BY <2>0, <3>6 DEF Mapped, Lifecycle!Next
  <2> QED
    BY <1>2, <2>1, <2>2 DEF SaveProposal
<1>3. ASSUME NEW r \in Requests, ApplyFirst(r) PROVE Mapped
  <2> SUFFICES ASSUME NEW c \in Changes, c = ChangeOf(r) PROVE Mapped
    BY <1>3, <1>c DEF Handle
  <2>0. c = ChangeOf(r) /\ Others(c) /\ job' = job
    BY <1>3, <1>c DEF Handle
  <2>1. StatusOf(c)' = StatusOf(c) /\ fault' = fault
    BY <1>3, <2>0 DEF ApplyFirst, StatusOf
  <2>2. CASE fault[c] # {}
    <3>1. Lifecycle!Disturb(c)
      BY <1>b, <2>0, <2>1, <2>2
    <3> QED
      BY <3>1 DEF Mapped, Lifecycle!Next
  <2>3. CASE fault[c] = {}
    <3>1. StatusOf(c) = "Pending"
      BY <1>3, <2>0, <2>3
         DEF IInv, BucketInv, FreshInv, Fresh, Orderly, Stored, ApplyFirst, Applying, StatusOf
    <3>2. effect[r] = "none" /\ effect'[r] = "part"
      BY <1>a, <1>3 DEF IInv, ControlInv, ApplyFirst, Finished, Answered, TypeOK
    <3>3. TouchedBy(c)' # {}
      BY <2>0, <3>2 DEF TouchedBy, ChangeOf
    <3>4. TouchedBy(c) = {}
      <4> SUFFICES ASSUME NEW s \in TouchedBy(c) PROVE FALSE
        OBVIOUS
      <4>1. s \in TouchedBy(c)' /\ r \in TouchedBy(c)'
        BY <2>0, <3>2, EffectGrowsStep DEF IInv, EffectGrows, TouchedBy, ChangeOf
      <4>2. s = r
        BY <1>a, <2>0, <2>1, <2>3, <4>1 DEF IInv, AppliedOnce, AtMostOne
      <4> QED
        BY <3>2, <4>2 DEF TouchedBy
    <3>5. {d \in Changes : TouchedBy(d) # {}}'
            = {d \in Changes : TouchedBy(d) # {}} \cup {c}
      BY <2>0, <3>3 DEF Others
    <3>6. [d \in Changes |-> StatusOf(d)]' = [d \in Changes |-> StatusOf(d)]
      BY <2>0, <2>1 DEF Others
    <3>7. Lifecycle!Write(c)
      BY <2>0, <2>1, <3>1, <3>4, <3>5, <3>6 DEF Lifecycle!Write
    <3> QED
      BY <2>0, <3>7 DEF Mapped, Lifecycle!Next
  <2> QED
    BY <2>2, <2>3
<1>4. ASSUME NEW r \in Requests, ApplyRest(r) PROVE Mapped
  <2>0. Others(ChangeOf(r)) /\ ChangeOf(r) \in Changes /\ job' = job
    BY <1>4, <1>c DEF Handle
  <2>1. \A s \in Requests : effect[s] # "none" <=> effect'[s] # "none"
    BY <1>a, <1>4 DEF IInv, ControlInv, ApplyRest, TypeOK
  <2>2. \A d \in Changes : TouchedBy(d)' = TouchedBy(d)
    BY <2>0, <2>1 DEF TouchedBy, ChangeOf
  <2>3. \A d \in Changes : StatusOf(d)' = StatusOf(d)
    BY <1>4 DEF ApplyRest, StatusOf
  <2> QED
    BY <1>4, <2>2, <2>3 DEF ApplyRest, Mapped, Lifecycle!lvars
<1>5. ASSUME NEW r \in Requests, ApplyError(r) \/ Abort(r) PROVE Mapped
  <2> SUFFICES ASSUME NEW c \in Changes, c = ChangeOf(r) PROVE Mapped
    BY <1>5, <1>c DEF Handle
  <2>0. c = ChangeOf(r) /\ Others(c) /\ job' = job
    BY <1>5, <1>c DEF Handle
  <2>1. StatusOf(c)' = StatusOf(c)
    BY <1>5 DEF ApplyError, Abort, StatusOf
  <2>2. CASE fault'[c] # {}
    <3>1. Lifecycle!Disturb(c)
      BY <1>b, <2>0, <2>1, <2>2
    <3> QED
      BY <3>1 DEF Mapped, Lifecycle!Next
  <2>3. CASE fault'[c] = {}
    <3>1. fault' = fault
      BY <1>a, <2>0, <2>3, FaultKept
    <3>2. ~At(r, "applying")
      <4> SUFFICES ASSUME At(r, "applying") PROVE FALSE
        OBVIOUS
      <4>1. LeftBy(r) = {"partial"}
        BY DEF LeftBy
      <4>2. fault' = [fault EXCEPT ![c] = @ \cup {"partial"}]
        BY <1>5, <2>0, <4>1 DEF ApplyError, Abort
      <4> QED
        BY <1>a, <2>3, <4>2 DEF TypeOK
    <3>3. Unseen
      BY <1>5, <3>1, <3>2 DEF Unseen, ApplyError, Abort, StopApplying
    <3> QED
      BY <3>3, UnseenMapped
  <2> QED
    BY <2>2, <2>3

\* A resolution that appears is a decision of a pending change, or disturbed.
<1>6. ASSUME NEW r \in Requests, PutResolved(r) \/ PutError(r),
             resolved'[ChangeOf(r)] # resolved[ChangeOf(r)]
      PROVE  Mapped
  <2> SUFFICES ASSUME NEW c \in Changes, c = ChangeOf(r) PROVE Mapped
    BY <1>6, <1>c DEF Handle
  <2>0. c = ChangeOf(r) /\ Others(c) /\ job' = job /\ At(r, "put")
    BY <1>6, <1>c DEF Handle, PutResolved, PutError
  <2>1. PICK s \in Requests : ResolvedBy(c, s)
    BY <1>a, <1>6, <2>0, ResolvedStep
  <2>2. /\ StatusOf(c)' = Outcome(s) /\ StatusOf(c) # "absent"
        /\ Outcome(s) \in {"Approved", "Rejected"}
    <3>1. /\ Resolution(s) \in PendingChange
          /\ Resolution(s).status = Outcome(s)
      BY <1>a, <2>1, ResolutionType DEF IInv, ControlInv, ResolvedBy
    <3>2. Stored(c)
      BY <2>0 DEF IInv, BucketInv
    <3> QED
      BY <1>a, <2>0, <2>1, <3>1, <3>2, StatusType, ConstantsAssumption
         DEF ResolvedBy, StatusOf, Outcome
  <2>3. CASE fault'[c] # {}
    BY <1>b, <2>0, <2>2, <2>3 DEF Mapped, Lifecycle!Next, Decided
  <2>4. CASE fault'[c] = {}
    <3>1. fault' = fault
      BY <1>a, <2>0, <2>4, FaultKept
    <3>2. StatusOf(c) = "Pending"
      BY <2>0, <2>1, <2>2, <2>4, <3>1
         DEF IInv, FreshInv, Fresh, Orderly, ResolvedBy, Stored, StatusOf
    <3>3. [d \in Changes |-> StatusOf(d)]'
            = [[d \in Changes |-> StatusOf(d)] EXCEPT ![c] = Outcome(s)]
      BY <2>0, <2>2 DEF Others
    <3>4. \A d \in Changes : TouchedBy(d)' = TouchedBy(d)
      BY <2>0, <2>1 DEF ResolvedBy, TouchedBy, ChangeOf
    <3>5. CASE IsApproval(s)
      <4>1. s \in TouchedBy(c)
        BY <2>1, <3>5 DEF IInv, ControlInv, ResolvedBy, TouchedBy
      <4>2. Lifecycle!Approve(c)
        BY <2>0, <3>1, <3>2, <3>3, <3>4, <3>5, <4>1 DEF Lifecycle!Approve, Outcome
      <4> QED
        BY <2>0, <4>2 DEF Mapped, Lifecycle!Next
    <3>6. CASE ~IsApproval(s)
      <4>0. resolved'[c] # None /\ resolved'[c].status = "Rejected"
        BY <1>a, <2>1, <3>6, ResolutionType, ConstantsAssumption
           DEF ResolvedBy, IInv, ControlInv, Outcome
      <4>1. TouchedBy(c)' = {}
        BY <1>a, <2>0, <2>4, <4>0 DEF IInv, RejectedUntouched
      <4>2. Lifecycle!Reject(c)
        BY <2>0, <3>1, <3>2, <3>3, <3>4, <3>6, <4>1 DEF Lifecycle!Reject, Outcome
      <4> QED
        BY <2>0, <4>2 DEF Mapped, Lifecycle!Next
    <3> QED
      BY <3>5, <3>6
  <2> QED
    BY <2>3, <2>4
<1>7. ASSUME NEW r \in Requests,
             PutResolved(r) \/ PutError(r) \/ DeletePending(r),
             resolved'[ChangeOf(r)] = resolved[ChangeOf(r)]
      PROVE  Mapped
  <2> SUFFICES ASSUME NEW c \in Changes, c = ChangeOf(r) PROVE Mapped
    BY <1>7, <1>c DEF Handle
  <2>0. c = ChangeOf(r) /\ Others(c) /\ job' = job
    BY <1>7, <1>c DEF Handle
  <2>1. StatusOf(c)' = StatusOf(c) /\ effect' = effect
    BY <1>7 DEF PutResolved, PutError, DeletePending, StatusOf, IInv, BucketInv
  <2>2. CASE fault'[c] # {}
    <3>1. Lifecycle!Disturb(c)
      BY <1>b, <2>0, <2>1, <2>2
    <3> QED
      BY <3>1 DEF Mapped, Lifecycle!Next
  <2>3. CASE fault'[c] = {}
    <3>1. fault' = fault
      BY <1>a, <2>0, <2>3, FaultKept
    <3>2. \A d \in Changes : StatusOf(d)' = StatusOf(d) /\ TouchedBy(d)' = TouchedBy(d)
      BY <2>0, <2>1 DEF Others, TouchedBy, ChangeOf
    <3> QED
      BY <3>1, <3>2 DEF Mapped, Lifecycle!lvars
  <2> QED
    BY <2>2, <2>3
<1>8. ASSUME NEW c \in Changes, LockExpire(c) PROVE Mapped
  <2>1. Others(c) /\ StatusOf(c)' = StatusOf(c)
    BY <1>a, <1>8 DEF LockExpire, Others, StatusOf, TouchedBy, ChangeOf, TypeOK
  <2>2. CASE fault'[c] # {}
    <3>1. Lifecycle!Disturb(c)
      BY <1>b, <2>1, <2>2
    <3> QED
      BY <3>1 DEF Mapped, Lifecycle!Next
  <2>3. CASE fault'[c] = {}
    <3>1. fault' = fault
      BY <1>a, <2>1, <2>3, FaultKept
    <3>2. Unseen
      BY <1>8, <3>1 DEF Unseen, LockExpire
    <3> QED
      BY <3>2, UnseenMapped
  <2> QED
    BY <2>2, <2>3
<1>9. CASE UNCHANGED vars
  <2>1. Unseen
    BY <1>9 DEF vars, Unseen
  <2> QED
    BY <2>1, UnseenMapped
<1>10. ASSUME NEW r \in Requests, Arrive(r) \/ Handle(r) \/ Abort(r)
       PROVE  Mapped
  <2>1. CASE Arrive(r)
    BY <1>1, <2>1
  <2>2. CASE Abort(r)
    BY <1>5, <2>2
  <2>3. CASE Handle(r)
    <3>1. DeletePending(r) => resolved'[ChangeOf(r)] = resolved[ChangeOf(r)]
      BY DEF DeletePending
    <3> QED
      BY <1>1, <1>2, <1>3, <1>4, <1>5, <1>6, <1>7, <2>3, <3>1 DEF Handle
  <2> QED
    BY <1>10, <2>1, <2>2, <2>3
<1> QED
  BY <1>8, <1>9, <1>10 DEF Next

LEMMA RefinementInit == Init => Lifecycle!Init
<1> SUFFICES ASSUME Init PROVE Lifecycle!Init
  OBVIOUS
<1>1. \A c \in Changes :
        /\ StatusOf(c) \in {"absent", "Pending"}
        /\ TouchedBy(c) = {} /\ fault[c] = {}
  BY DEF Init, StatusOf, TouchedBy
<1> QED
  BY <1>1 DEF Lifecycle!Init

\* The queue implements its lifecycle: decided once, written before it is
\* approved, untouched when rejected, or disturbed by a fault.
THEOREM Refinement == Spec => ImplementsLifecycle
<1>1. IInv /\ [Next]_vars => [Lifecycle!Next]_(Lifecycle!lvars)
  BY RefinementStep DEF Mapped
<1> QED
  BY <1>1, RefinementInit, Invariance, PTL
     DEF Spec, ImplementsLifecycle, Lifecycle!Spec

----------------------------------------------------------------------------
(* Refinement of ChangeBucket.                                             *)

\* A step that leaves both prefixes alone does nothing to the bucket.
LEMMA BucketUnseen ==
  ASSUME pending' = pending, resolved' = resolved
  PROVE  [Bucket!Next]_(Bucket!bvars)
BY DEF Bucket!bvars

LEMMA BucketSteps ==
  ASSUME NEW c \in Changes, Bucket!Propose(c) \/ Bucket!Decide(c) \/ Bucket!Remove(c)
  PROVE  [Bucket!Next]_(Bucket!bvars)
BY DEF Bucket!Next

\* The handler PUTs the resolution of its change: the first one decides it.
LEMMA DecideMapped ==
  ASSUME IInv, NEW r \in Requests, At(r, "put"), pending' = pending,
         resolved' = [resolved EXCEPT ![ChangeOf(r)] = Resolution(r)]
  PROVE  [Bucket!Next]_(Bucket!bvars)
<1>0. PICK c \in Changes : c = ChangeOf(r)
  BY ChangeOfType DEF IInv
<1>1. Stored(c)
  BY <1>0 DEF IInv, BucketInv, At
<1>2. Resolution(r) # None
  BY ResolutionType, ConstantsAssumption DEF IInv, ControlInv, At
<1>3. {d \in Changes : resolved[d] # None}'
        = {d \in Changes : resolved[d] # None} \cup {c}
  BY <1>0, <1>2 DEF IInv, TypeOK
<1>4. {d \in Changes : pending[d] # None}' = {d \in Changes : pending[d] # None}
  OBVIOUS
<1>5. CASE resolved[c] # None
  BY <1>1, <1>3, <1>4, <1>5 DEF Bucket!bvars
<1>6. CASE resolved[c] = None
  <2>1. Bucket!Decide(c)
    BY <1>1, <1>3, <1>4, <1>6 DEF Bucket!Decide, Stored
  <2> QED
    BY <2>1, BucketSteps
<1> QED
  BY <1>5, <1>6

LEMMA BucketMapped == IInv /\ [Next]_vars => [Bucket!Next]_(Bucket!bvars)
<1> SUFFICES ASSUME IInv, [Next]_vars PROVE [Bucket!Next]_(Bucket!bvars)
  OBVIOUS
<1> USE DEF bucket
<1>0. TypeOK
  BY DEF IInv
<1>1. ASSUME NEW r \in Requests, SaveProposal(r) PROVE [Bucket!Next]_(Bucket!bvars)
  <2>0. PICK c \in Changes : c = ChangeOf(r)
    BY <1>0, ChangeOfType
  <2>1. CASE pending' = pending
    BY <1>1, <2>1, BucketUnseen DEF SaveProposal
  <2>2. CASE pending' = [pending EXCEPT ![ChangeOf(r)] = Proposal(job[r].user)]
    <3>1. ~Stored(c)
      BY <1>1, <2>0 DEF IInv, BucketInv, ControlInv, SaveProposal, At
    <3>2. Proposal(job[r].user) # None
      BY <1>0, PendingChangeType, ConstantsAssumption DEF TypeOK, Job
    <3>3. {d \in Changes : pending[d] # None}'
            = {d \in Changes : pending[d] # None} \cup {c}
      BY <1>0, <2>0, <2>2, <3>2 DEF TypeOK
    <3>4. Bucket!Propose(c)
      BY <1>1, <3>1, <3>3 DEF Bucket!Propose, Stored, SaveProposal
    <3> QED
      BY <3>4, BucketSteps
  <2> QED
    BY <1>1, <2>1, <2>2 DEF SaveProposal
<1>2. ASSUME NEW r \in Requests, PutResolved(r) PROVE [Bucket!Next]_(Bucket!bvars)
  BY <1>2, DecideMapped DEF PutResolved
<1>3. ASSUME NEW r \in Requests, PutError(r) PROVE [Bucket!Next]_(Bucket!bvars)
  <2>1. CASE resolved' = resolved
    BY <1>3, <2>1, BucketUnseen DEF PutError
  <2>2. CASE resolved' = [resolved EXCEPT ![ChangeOf(r)] = Resolution(r)]
    BY <1>3, <2>2, DecideMapped DEF PutError
  <2> QED
    BY <1>3, <2>1, <2>2 DEF PutError
<1>4. ASSUME NEW r \in Requests, DeletePending(r) PROVE [Bucket!Next]_(Bucket!bvars)
  <2>0. PICK c \in Changes : c = ChangeOf(r)
    BY <1>0, ChangeOfType
  <2>1. CASE pending' = pending
    BY <1>4, <2>1, BucketUnseen DEF DeletePending
  <2>2. CASE pending' = [pending EXCEPT ![ChangeOf(r)] = None]
    <3>1. resolved[c] # None
      BY <1>4, <2>0 DEF IInv, BucketInv, DeletePending, At
    <3>2. {d \in Changes : pending[d] # None}'
            = {d \in Changes : pending[d] # None} \ {c}
      BY <1>0, <2>0, <2>2 DEF TypeOK
    <3>3. CASE pending[c] = None
      BY <1>4, <3>2, <3>3 DEF DeletePending, Bucket!bvars
    <3>4. CASE pending[c] # None
      <4>1. Bucket!Remove(c)
        BY <1>4, <3>1, <3>2, <3>4 DEF Bucket!Remove, DeletePending
      <4> QED
        BY <4>1, BucketSteps
    <3> QED
      BY <3>3, <3>4
  <2> QED
    BY <1>4, <2>1, <2>2 DEF DeletePending
<1>5. ASSUME NEW r \in Requests,
             \/ Arrive(r) \/ AcquireLock(r) \/ LockRefused(r) \/ Unlock(r)
             \/ ReadPending(r) \/ ReadResolved(r) \/ ReadError(r)
             \/ ApplyFirst(r) \/ ApplyRest(r) \/ ApplyError(r) \/ AuditFailure(r)
             \/ AppendAudit(r) \/ Abort(r)
      PROVE  [Bucket!Next]_(Bucket!bvars)
  BY <1>5, BucketUnseen
     DEF Arrive, AcquireLock, LockRefused, Unlock, ReadPending, ReadResolved,
         ReadError, ApplyFirst, ApplyRest, ApplyError, AuditFailure, AppendAudit,
         Abort
<1>6. ASSUME NEW c \in Changes, LockExpire(c) PROVE [Bucket!Next]_(Bucket!bvars)
  BY <1>6, BucketUnseen DEF LockExpire
<1>7. CASE UNCHANGED vars
  BY <1>7, BucketUnseen DEF vars
<1> QED
  BY <1>1, <1>2, <1>3, <1>4, <1>5, <1>6, <1>7 DEF Next, Handle

\* The two objects of a change come and go in one order, with whatever faults:
\* what ChangesPage assumes of the handlers that decide a change.
THEOREM BucketOrdered == Spec => ImplementsBucket
<1>1. Init => Bucket!Init
  BY DEF Init, Bucket!Init
<1> QED
  BY <1>1, BucketMapped, Invariance, PTL DEF Spec, ImplementsBucket, Bucket!Spec
=============================================================================
