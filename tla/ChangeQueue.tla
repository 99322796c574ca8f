---------------------------- MODULE ChangeQueue ----------------------------
(***************************************************************************)
(* The change queue of grafter: an operator proposes an edit of a Keycloak *)
(* account, an admin approves or rejects it, the proposer may cancel it.   *)
(* Any number of handlers (src/routes/changes.rs) run concurrently against *)
(* a Redis key per change used as a lock, an S3 bucket that holds a change *)
(* under pending/ or resolved/, and Keycloak.                              *)
(*                                                                         *)
(* A handler is a sequence of remote calls; each is one action here.  Each *)
(* may fail, with or without having taken effect; the handler's future may *)
(* be dropped between two of them; the lock may expire at any time.        *)
(***************************************************************************)

CONSTANTS Changes,   \* ids (uuid) a change may have
          Requests,  \* runs of a handler, each serving one HTTP request
          Users,     \* usernames
          Admins,    \* the users whose Keycloak role is iam-admin
          None       \* Option::None, the missing S3 object, the unset key

ChangeStatus == {"Pending", "Approved", "Rejected"}

PendingChange ==
  [status : ChangeStatus, proposed_by : Users, resolved_by : Users \cup {None}]

Kind == {"propose", "approve", "reject", "cancel"}

\* What one HTTP request asks for, and who sends it.
Job == [kind : Kind, user : Users, change : Changes]

\* require_admin, and the role match of propose_or_apply.
Admitted(j) == /\ j.kind \in {"approve", "reject"} => j.user \in Admins
               /\ j.kind = "propose" => j.user \notin Admins

\* The critical section: the key was set, and neither DEL nor an error has
\* ended the handler's business with the change.
Unlocking == {"unlockForbidden", "unlockProcessed", "unlockResolved"}
Applying == {"apply", "applying"}
Critical == {"readPending", "readResolved", "put", "delete"}
              \cup Applying \cup Unlocking

Answered == {"ok", "busy", "notFound", "processed", "forbidden", "failed"}
Finished == Answered \cup {"gone"}
Control == {"idle", "propose", "lock", "failAudit", "audit"}
             \cup Critical \cup Finished

AuditEntry == [action : Kind, actor : Users, change : Changes,
               outcome : {"success", "failure"}]

\* The ways a change can go wrong that the design does not exclude:
\*   overrun   its lock expired while a handler was still in its section
\*   unsaved   Keycloak was updated in full but the S3 write was not confirmed
\*   lingering the resolved object was written, the pending one not removed
\*   partial   apply_change_diff ended early after its first write to Keycloak
Fault == {"overrun", "unsaved", "lingering", "partial"}

ASSUME ConstantsAssumption ==
  /\ Admins \subseteq Users
  /\ None \notin Requests
  /\ None \notin PendingChange

VARIABLES
  job,       \* what each request asks (fixed when the request is sent)
  pc,        \* where its handler is
  known,     \* the requests that named a change in the bucket when they came
  copy,      \* the change as the handler read it
  lock,      \* grafter:change-lock:{id}: None, or the request that set it
             \* (the code stores "1": the setter is history)
  pending,   \* changes/pending/{id}.json
  resolved,  \* changes/resolved/{id}.json
  effect,    \* what the request's apply_change_diff wrote: nothing, a part, all
  audit,     \* the audit entries
  recon,     \* changes with a RECONCILIATION REQUIRED line in the log
  fault      \* history: the faults each change has met

bucket == <<pending, resolved>>
books == <<audit, recon>>
vars == <<job, pc, known, copy, lock, bucket, effect, books, fault>>

ChangeOf(r) == job[r].change
IsApproval(r) == job[r].kind = "approve"
Stored(c) == pending[c] # None \/ resolved[c] # None

At(r, s) == pc[r] = s
Goto(r, s) == pc' = [pc EXCEPT ![r] = s]
Mark(c, F) == fault' = [fault EXCEPT ![c] = @ \cup F]

Proposal(u) == [status |-> "Pending", proposed_by |-> u, resolved_by |-> None]

\* The bucket outlives the process: some changes may be queued already.
Init ==
  /\ pending \in [Changes -> {Proposal(u) : u \in Users \ Admins} \cup {None}]
  /\ job \in [Requests -> {j \in Job : Admitted(j)}]
  /\ \A r, s \in Requests :      \* Uuid::new_v4: no two proposals share an id
       /\ job[r].kind = "propose" /\ job[s].kind = "propose"
       /\ job[r].change = job[s].change
       => r = s
  /\ \A r \in Requests : job[r].kind = "propose" => pending[ChangeOf(r)] = None
  /\ pc = [r \in Requests |-> "idle"]
  /\ known = {}
  /\ copy = [r \in Requests |-> None]
  /\ lock = [c \in Changes |-> None]
  /\ resolved = [c \in Changes |-> None]
  /\ effect = [r \in Requests |-> "none"]
  /\ audit = {}
  /\ recon = {}
  /\ fault = [c \in Changes |-> {}]

\* The request passes the session, role and CSRF checks.
Arrive(r) ==
  /\ At(r, "idle")
  /\ Goto(r, IF job[r].kind = "propose" THEN "propose" ELSE "lock")
  /\ known' = IF Stored(ChangeOf(r)) THEN known \cup {r} ELSE known
  /\ UNCHANGED <<job, copy, lock, bucket, effect, books, fault>>

----------------------------------------------------------------------------
(* Faulty variants of actions below.  No specification uses them: each     *)
(* stands for a slip in the code that one of the properties must notice.   *)

\* The resolution is saved with the status it was read with.
Mutant_StatusNotSet(r) == "Pending"

\* SET without NX.
Mutant_SetWithoutNX(r) ==
  /\ At(r, "lock")
  /\ lock' = [lock EXCEPT ![ChangeOf(r)] = r]
  /\ Goto(r, "readPending")
  /\ UNCHANGED <<job, known, copy, bucket, effect, books, fault>>

\* SET without EX: the key has no TTL.
Mutant_SetWithoutEX(c) == FALSE

\* The status guard after the re-read is missing.
Mutant_NoStatusGuard(r, ch) == IF IsApproval(r) THEN "apply" ELSE "put"

\* get_change looks under pending/ only.
Mutant_ReadPendingOnly(r) ==
  /\ At(r, "readPending")
  /\ IF pending[ChangeOf(r)] # None
     THEN /\ copy' = [copy EXCEPT ![r] = pending[ChangeOf(r)]]
          /\ Goto(r, IF IsApproval(r) THEN "apply" ELSE "put")
     ELSE copy' = copy /\ Goto(r, "notFound")
  /\ UNCHANGED <<job, known, lock, bucket, effect, books, fault>>

\* The error of apply_change_diff is not propagated.
Mutant_ApplyErrorIgnored(r) ==
  /\ pc[r] \in Applying
  /\ Goto(r, "put")
  /\ UNCHANGED <<job, known, copy, lock, bucket, effect, books, fault>>

\* The error of save_change is not propagated.
Mutant_PutErrorIgnored(r) ==
  /\ At(r, "put")
  /\ recon' = recon \cup {ChangeOf(r)}
  /\ Goto(r, "audit")
  /\ UNCHANGED <<job, known, copy, lock, bucket, effect, audit, fault>>

\* The error of save_change is returned, not logged.
Mutant_PutErrorNotLogged(r) ==
  /\ At(r, "put")
  /\ Goto(r, "failed")
  /\ UNCHANGED <<job, known, copy, lock, bucket, effect, books, fault>>

\* save_change leaves the pending object where it is.
Mutant_PendingNotDeleted(r) ==
  /\ At(r, "delete")
  /\ Goto(r, "unlockResolved")
  /\ UNCHANGED <<job, known, copy, lock, bucket, effect, books, fault>>

----------------------------------------------------------------------------
(* propose_or_apply, operator branch.                                      *)

\* The PUT may be reported as failed although the object was written.
SaveProposal(r) ==
  /\ At(r, "propose")
  /\ \/ /\ pending' = [pending EXCEPT ![ChangeOf(r)] = Proposal(job[r].user)]
        /\ Goto(r, "audit") \/ Goto(r, "failed")
     \/ /\ pending' = pending
        /\ Goto(r, "failed")
  /\ UNCHANGED <<job, known, copy, lock, resolved, effect, books, fault>>

----------------------------------------------------------------------------
(* SET NX EX 30 and DEL.                                                   *)

AcquireLock(r) ==
  /\ At(r, "lock")
  /\ lock[ChangeOf(r)] = None
  /\ lock' = [lock EXCEPT ![ChangeOf(r)] = r]
  /\ Goto(r, "readPending") \/ Goto(r, "failed")  \* the reply may be lost
  /\ UNCHANGED <<job, known, copy, bucket, effect, books, fault>>

LockRefused(r) ==
  /\ At(r, "lock")
  /\ \/ lock[ChangeOf(r)] # None /\ Goto(r, "busy")
     \/ Goto(r, "failed")                         \* redis lock error
  /\ UNCHANGED <<job, known, copy, lock, bucket, effect, books, fault>>

AfterUnlock == [unlockForbidden |-> "forbidden",
                unlockProcessed |-> "processed",
                unlockResolved  |-> "audit"]

\* DEL removes the key whoever set it; its error is ignored.
Unlock(r) ==
  /\ pc[r] \in Unlocking
  /\ \/ lock' = [lock EXCEPT ![ChangeOf(r)] = None]
     \/ lock' = lock
  /\ Goto(r, AfterUnlock[pc[r]])
  /\ UNCHANGED <<job, known, copy, bucket, effect, books, fault>>

\* Redis drops the key after 30 seconds, wherever its setter is by then.
LockExpire(c) ==
  /\ lock[c] # None
  /\ lock' = [lock EXCEPT ![c] = None]
  /\ Mark(c, IF pc[lock[c]] \in Critical THEN {"overrun"} ELSE {})
  /\ UNCHANGED <<job, pc, known, copy, bucket, effect, books>>

----------------------------------------------------------------------------
(* get_change, and the guards on what it returned.                         *)

\* Where a handler goes with the change it read.
AfterRead(r, ch) ==
  IF job[r].kind = "cancel" /\ ch.proposed_by # job[r].user
  THEN "unlockForbidden"
  ELSE IF ch.status # "Pending" THEN "unlockProcessed"
  ELSE IF IsApproval(r) THEN "apply"
  ELSE "put"

ReadPending(r) ==
  /\ At(r, "readPending")
  /\ \/ /\ pending[ChangeOf(r)] # None
        /\ copy' = [copy EXCEPT ![r] = pending[ChangeOf(r)]]
        /\ Goto(r, AfterRead(r, pending[ChangeOf(r)]))
     \/ /\ pending[ChangeOf(r)] = None
        /\ Goto(r, "readResolved")
        /\ UNCHANGED copy
  /\ UNCHANGED <<job, known, lock, bucket, effect, books, fault>>

ReadResolved(r) ==
  /\ At(r, "readResolved")
  /\ \/ /\ resolved[ChangeOf(r)] # None
        /\ copy' = [copy EXCEPT ![r] = resolved[ChangeOf(r)]]
        /\ Goto(r, AfterRead(r, resolved[ChangeOf(r)]))
     \/ /\ resolved[ChangeOf(r)] = None
        /\ Goto(r, "notFound")                    \* the lock stays set
        /\ UNCHANGED copy
  /\ UNCHANGED <<job, known, lock, bucket, effect, books, fault>>

ReadError(r) ==
  /\ pc[r] \in {"readPending", "readResolved"}
  /\ Goto(r, "failed")                            \* the lock stays set
  /\ UNCHANGED <<job, known, copy, lock, bucket, effect, books, fault>>

----------------------------------------------------------------------------
(* apply_change_diff, as its first write to Keycloak and all the others.   *)
(* One that ends early may have written everything: a failed or abandoned  *)
(* call can have reached Keycloak.                                         *)

StopApplying(r) ==
  effect' \in IF At(r, "applying")
             THEN {effect, [effect EXCEPT ![r] = "all"]}
             ELSE {effect}

ApplyFirst(r) ==
  /\ At(r, "apply")
  /\ effect' = [effect EXCEPT ![r] = "part"]
  /\ Goto(r, "applying")
  /\ UNCHANGED <<job, known, copy, lock, bucket, books, fault>>

ApplyRest(r) ==
  /\ At(r, "applying")
  /\ effect' = [effect EXCEPT ![r] = "all"]
  /\ Goto(r, "put")
  /\ UNCHANGED <<job, known, copy, lock, bucket, books, fault>>

ApplyError(r) ==
  /\ pc[r] \in Applying
  /\ Goto(r, "failAudit")                         \* the lock stays set
  /\ StopApplying(r)
  /\ Mark(ChangeOf(r), IF At(r, "applying") THEN {"partial"} ELSE {})
  /\ UNCHANGED <<job, known, copy, lock, bucket, books>>

Entry(r, result) == [action |-> job[r].kind, actor |-> job[r].user,
                     change |-> ChangeOf(r), outcome |-> result]

\* audit_failure: the entry is best effort, the error is passed on.
AuditFailure(r) ==
  /\ At(r, "failAudit")
  /\ audit' \in {audit, audit \cup {Entry(r, "failure")}}
  /\ Goto(r, "failed")
  /\ UNCHANGED <<job, known, copy, lock, bucket, effect, recon, fault>>

----------------------------------------------------------------------------
(* save_change of the resolved change: PUT resolved/, then DELETE pending/. *)

Outcome(r) == IF IsApproval(r) THEN "Approved" ELSE "Rejected"

Resolution(r) ==
  [copy[r] EXCEPT !.status = Outcome(r), !.resolved_by = job[r].user]

PutResolved(r) ==
  /\ At(r, "put")
  /\ resolved' = [resolved EXCEPT ![ChangeOf(r)] = Resolution(r)]
  /\ Goto(r, "delete")
  /\ UNCHANGED <<job, known, copy, lock, pending, effect, books, fault>>

\* The PUT is reported as failed, whether it took effect or not.
PutError(r) ==
  /\ At(r, "put")
  /\ \E written \in BOOLEAN :
       /\ resolved' = IF written
                      THEN [resolved EXCEPT ![ChangeOf(r)] = Resolution(r)]
                      ELSE resolved
       /\ Mark(ChangeOf(r), (IF written THEN {"lingering"} ELSE {})
                              \cup (IF IsApproval(r) THEN {"unsaved"} ELSE {}))
  /\ recon' = recon \cup {ChangeOf(r)}
  /\ Goto(r, "failed")                            \* the lock stays set
  /\ UNCHANGED <<job, known, copy, lock, pending, effect, audit>>

\* The error of the DELETE is ignored.
DeletePending(r) ==
  /\ At(r, "delete")
  /\ \/ /\ pending' = [pending EXCEPT ![ChangeOf(r)] = None]
        /\ UNCHANGED fault
     \/ /\ pending' = pending
        /\ Mark(ChangeOf(r), {"lingering"})
  /\ Goto(r, "unlockResolved")
  /\ UNCHANGED <<job, known, copy, lock, resolved, effect, books>>

AppendAudit(r) ==
  /\ At(r, "audit")
  /\ \/ /\ audit' = audit \cup {Entry(r, "success")}
        /\ Goto(r, "ok") \/ Goto(r, "failed")
     \/ /\ audit' = audit
        /\ Goto(r, "failed")
  /\ UNCHANGED <<job, known, copy, lock, bucket, effect, recon, fault>>

----------------------------------------------------------------------------
(* The client disconnects or the process dies: the handler's future is     *)
(* dropped at one of its awaits.                                           *)

LeftBy(r) ==
  CASE At(r, "applying") -> {"partial"}
    [] At(r, "put") /\ IsApproval(r) -> {"unsaved"}
    [] At(r, "delete") -> {"lingering"}
    [] OTHER -> {}

Abort(r) ==
  /\ pc[r] \notin Finished \cup {"idle"}
  /\ Goto(r, "gone")
  /\ StopApplying(r)
  /\ Mark(ChangeOf(r), LeftBy(r))
  /\ UNCHANGED <<job, known, copy, lock, bucket, books>>

Handle(r) ==
  \/ SaveProposal(r)
  \/ AcquireLock(r) \/ LockRefused(r) \/ Unlock(r)
  \/ ReadPending(r) \/ ReadResolved(r) \/ ReadError(r)
  \/ ApplyFirst(r) \/ ApplyRest(r) \/ ApplyError(r) \/ AuditFailure(r)
  \/ PutResolved(r) \/ PutError(r) \/ DeletePending(r)
  \/ AppendAudit(r)

Next ==
  \/ \E r \in Requests : Arrive(r) \/ Handle(r) \/ Abort(r)
  \/ \E c \in Changes : LockExpire(c)

Spec == Init /\ [][Next]_vars

\* Redis expires every key that has a TTL; nothing is assumed of handlers.
FairSpec == Spec /\ \A c \in Changes : WF_vars(LockExpire(c))

----------------------------------------------------------------------------
(* Properties.                                                             *)

Inside(c) == {r \in Requests : pc[r] \in Critical /\ ChangeOf(r) = c}
AppliedBy(c) == {r \in Requests : effect[r] = "all" /\ ChangeOf(r) = c}
TouchedBy(c) == {r \in Requests : effect[r] # "none" /\ ChangeOf(r) = c}
AtMostOne(S) == \A r, s \in S : r = s

\* Every variable keeps the shape the code gives it: an object under pending/
\* is pending, one under resolved/ is not.
TypeOK ==
  /\ job \in [Requests -> Job]
  /\ pc \in [Requests -> Control]
  /\ known \subseteq Requests
  /\ copy \in [Requests -> PendingChange \cup {None}]
  /\ lock \in [Changes -> Requests \cup {None}]
  /\ pending \in [Changes -> {ch \in PendingChange : ch.status = "Pending"}
                               \cup {None}]
  /\ resolved \in [Changes -> {ch \in PendingChange : ch.status # "Pending"}
                                \cup {None}]
  /\ effect \in [Requests -> {"none", "part", "all"}]
  /\ audit \subseteq AuditEntry
  /\ recon \subseteq Changes
  /\ fault \in [Changes -> SUBSET Fault]

\* Two handlers are inside the section of one change only after its lock
\* expired under a handler: no other failure, no DEL by a handler that does
\* not hold the key and no abandoned handler lets a second one in.
MutualExclusion ==
  \A c \in Changes : "overrun" \notin fault[c] => AtMostOne(Inside(c))

\* At most one approval of a change ever writes to Keycloak, unless one of the
\* four faults happened to that change.
AppliedOnce ==
  \A c \in Changes : fault[c] = {} => AtMostOne(TouchedBy(c))

\* Nothing of a rejected or cancelled change ever reached Keycloak, unless one
\* of the four faults happened to that change.
RejectedUntouched ==
  \A c \in Changes :
    /\ resolved[c] # None
    /\ resolved[c].status = "Rejected"
    /\ fault[c] = {}
    => TouchedBy(c) = {}

\* A change on record as approved was applied in full, whatever failed.
ApprovedApplied ==
  \A c \in Changes :
    resolved[c] # None /\ resolved[c].status = "Approved" => AppliedBy(c) # {}

\* A handler that was asked for a change that was in the bucket never answers
\* "not found", though get_change looks in two places with two requests while
\* another handler moves the object from one to the other.
StoredIsFound == \A r \in known : pc[r] # "notFound"

\* The success entry of a decision is never ahead of the decision's record.
AuditHasRecord ==
  \A e \in audit :
    e.outcome = "success" /\ e.action # "propose" => resolved[e.change] # None

\* An approval that changed the account in full answers with the resolution on
\* record, or with the reconciliation line logged, unless a call it took for
\* failed had reached Keycloak.
AppliedAccounted ==
  \A r \in Requests :
    effect[r] = "all" /\ pc[r] \in Answered
      => \/ resolved[ChangeOf(r)] # None
         \/ ChangeOf(r) \in recon
         \/ "partial" \in fault[ChangeOf(r)]

\* Once written, a resolution never changes, unless the lock of that change
\* ran out or its pending object was left behind.
ResolutionFinal ==
  [][\A c \in Changes :
       resolved[c] # None /\ fault'[c] \cap {"overrun", "lingering"} = {}
         => resolved'[c] = resolved[c]]_vars

\* The state of a change, as its two objects show it.
StatusOf(c) == IF resolved[c] # None THEN resolved[c].status
               ELSE IF pending[c] # None THEN "Pending"
               ELSE "absent"

\* The queue implements its abstract specification: every change is decided
\* once, written before it is approved and never written if rejected, or has
\* met a fault.
Lifecycle ==
  INSTANCE ChangeLifecycle WITH
    status <- [c \in Changes |-> StatusOf(c)],
    touched <- {c \in Changes : TouchedBy(c) # {}},
    disturbed <- {c \in Changes : fault[c] # {}}

ImplementsLifecycle == Lifecycle!Spec

\* Whatever fails, expires or ends early, the two objects of a change come and
\* go in one order: the pages that list changes rely on it without a lock.
Bucket ==
  INSTANCE ChangeBucket WITH
    queued <- {c \in Changes : pending[c] # None},
    decided <- {c \in Changes : resolved[c] # None}

ImplementsBucket == Bucket!Spec

\* Whatever becomes of its setter, a lock does not stay for ever.
LockFreed == \A c \in Changes : lock[c] # None ~> lock[c] = None

----------------------------------------------------------------------------
(* What the documentation says; each is refuted by a run of its own.       *)

\* README.md: the lock "prevents double-apply on concurrent approve/reject".
\* Said of the handlers of a change whose S3 calls all succeed.
LockPreventsDoubleApply ==
  \A c \in Changes : fault[c] \subseteq {"overrun"} => AtMostOne(AppliedBy(c))

\* ARCHITECTURE.md, partial failure handling: after a failed S3 write the lock
\* blocks retries until somebody intervenes.
FailedSaveBlocksRetry ==
  \A c \in Changes : fault[c] \subseteq {"unsaved"} => AtMostOne(AppliedBy(c))

\* ARCHITECTURE.md: a retry after the first request succeeded is caught by the
\* re-read of the status.
RereadCatchesRetry ==
  \A r, s \in Requests :
    /\ At(r, "ok") /\ IsApproval(r)
    /\ pc[s] \in Applying /\ ChangeOf(s) = ChangeOf(r)
    => "overrun" \in fault[ChangeOf(r)]

\* README.md: every action, including failures, is audit-logged.  Said of an
\* approval that has written to Keycloak and answered with an error without
\* reaching the audit write.
FailureIsAudited ==
  \A r \in Requests :
    At(r, "failed") /\ effect[r] = "all" /\ fault[ChangeOf(r)] = {"unsaved"}
      => \E e \in audit : e.action = "approve" /\ e.change = ChangeOf(r)
=============================================================================
