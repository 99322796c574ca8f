---------------------------- MODULE ChangesPage ----------------------------
(***************************************************************************)
(* The pages that list changes while others decide them: GET /changes      *)
(* (routes/changes.rs, list_changes) for an operator, who is told how many *)
(* of her proposals were resolved since her last visit, and for an admin,  *)
(* who gets the badge with the number of pending changes.                  *)
(*                                                                         *)
(* A listing is a LIST of keys followed by one GET per key, and a change   *)
(* moves from changes/pending/ to changes/resolved/ by a PUT and a DELETE. *)
(* The time of the last visit lives in the session, which the session      *)
(* layer loads with the first access of a request and writes back whole    *)
(* when the handler has answered without a server error.                   *)
(***************************************************************************)
EXTENDS Integers, Sequences, FiniteSets

CONSTANTS Proposals,  \* how many changes are ever proposed
          Mine,       \* those the operator proposes
          Requests,   \* HTTP requests for a page
          PageLimit,  \* CHANGES_PAGE_LIMIT: 200 in the code
          None        \* Option::None: never visited, not stored

\* The changes in the order of their proposed_at.
Changes == 1..Proposals

\* visit: the operator's GET /changes.  review: an admin's.
\* other: any other request of the operator that writes her session.
Kind == {"visit", "review", "other"}

Listing == {"list", "get"}
Badge == {"badgeList", "badgeGet"}
InFlight == Listing \cup Badge \cup {"respond"}
\* saved: the session layer saved the session; the answer may not arrive.
Control == {"idle", "saved", "failed"} \cup InFlight

\* How far the decision of a change is: approve, reject and cancel stamp it
\* (resolved_at), PUT the resolved object and DELETE the pending one.
Decision == {"none", "stamped", "saved", "done", "stopped"}

Key == [place : {"pending", "resolved"}, change : Changes]
KeyOf(p, c) == [place |-> p, change |-> c]

ASSUME PageAssumption == /\ Proposals \in Nat
                         /\ Mine \subseteq Changes
                         /\ PageLimit \in Nat \ {0}
                         /\ None \notin Int

VARIABLES
  kind,      \* what each request asks for
  pc,        \* where its handler is
  clock,     \* the latest Utc::now()
  proposed,  \* how many changes have been proposed
  pending,   \* the changes with an object under changes/pending/
  resolved,  \* resolved_at in the object under changes/resolved/, or None
  decision,  \* how far the decision of each change is
  at,        \* the resolved_at it was stamped with
  seen,      \* last_seen_changes_at in the stored session
  copy,      \* the same in the session as the handler holds it
  keys,      \* listed keys whose object is still to be fetched
  more,      \* the requests with a second page of keys to come
  got,       \* the keys whose object was fetched
  told,      \* the changes counted as resolved since the last visit
  badge,     \* the number in the badge
  there,     \* history: the changes stored when the LIST was answered
  before,    \* history: the last visit before all these requests
  crossed,   \* history: decisions stamped before a visit was, and stored
             \* after its LIST
  tabs       \* history: two requests of the session have overlapped

s3 == <<proposed, pending, resolved, decision, at>>
page == <<keys, more, got, told, badge, there>>
vars == <<kind, before, pc, clock, s3, seen, copy, page, crossed, tabs>>

At(r, s) == pc[r] = s
Goto(r, s) == pc' = [pc EXCEPT ![r] = s]
Own(r) == kind[r] \in {"visit", "other"}
Flying(r) == pc[r] \in InFlight
Resolved(c) == resolved[c] # None
Stored == pending \cup {c \in Changes : Resolved(c)}

Init ==
  /\ kind \in [Requests -> Kind]
  /\ pc = [r \in Requests |-> "idle"]
  /\ clock = 1
  /\ proposed \in 0..Proposals
  /\ pending = 1..proposed
  /\ resolved = [c \in Changes |-> None]
  /\ decision = [c \in Changes |-> "none"]
  /\ at = [c \in Changes |-> None]
  /\ before \in {None, 1}
  /\ seen = before
  /\ copy = [r \in Requests |-> None]
  /\ keys = [r \in Requests |-> {}]
  /\ more = {}
  /\ got = [r \in Requests |-> {}]
  /\ told = [r \in Requests |-> {}]
  /\ badge = [r \in Requests |-> 0]
  /\ there = [r \in Requests |-> {}]
  /\ crossed = [r \in Requests |-> {}]
  /\ tabs = FALSE

----------------------------------------------------------------------------
(* What the page shows of a listing.                                       *)

\* changes.sort_by_key(Reverse(proposed_at)), a stable sort of the listing
\* order, in which pending/ comes before resolved/.
Above(j, k) == \/ j.change > k.change
               \/ j.change = k.change /\ j.place = "pending" /\ k.place = "resolved"

Sorted(S) ==
  [n \in 1..Cardinality(S) |->
     CHOOSE k \in S : Cardinality({j \in S : Above(j, k)}) = n - 1]

\* total_pages and the slice of one page.
TotalPages(n) == IF n = 0 THEN 1 ELSE (n + PageLimit - 1) \div PageLimit

\* The last page is cut one row short of the limit.
Mutant_SliceTooShort(rows, q) ==
  LET p == IF q < TotalPages(Len(rows)) THEN q ELSE TotalPages(Len(rows)) - 1
      start == p * PageLimit
  IN  SubSeq(rows, start + 1,
             IF start + PageLimit < Len(rows) THEN start + PageLimit
                                              ELSE Len(rows) - 1)

PageOf(rows, q) ==
  LET p == IF q < TotalPages(Len(rows)) THEN q ELSE TotalPages(Len(rows)) - 1
      start == p * PageLimit
      end == IF start + PageLimit < Len(rows) THEN start + PageLimit
                                              ELSE Len(rows)
  IN  SubSeq(rows, start + 1, end)

\* An operator only sees her own proposals.
Visible(r) ==
  IF kind[r] = "review" THEN got[r] ELSE {k \in got[r] : k.change \in Mine}

\* Resolved since the last visit; a first visit counts nothing.
Unseen(r) ==
  IF kind[r] = "review" \/ copy[r] = None THEN {}
  ELSE {k.change : k \in {j \in Visible(r) : /\ j.place = "resolved"
                                             /\ resolved[j.change] > copy[r]}}

----------------------------------------------------------------------------
(* Faulty variants of actions below.                                      *)

\* An object that is gone is skipped like a corrupt one.
Mutant_SkipMissing(r) ==
  /\ At(r, "get")
  /\ \E k \in keys[r] :
       /\ keys' = [keys EXCEPT ![r] = @ \ {k}]
       /\ got' = [got EXCEPT ![r] =
                    IF k.place = "pending" /\ k.change \notin pending
                    THEN @ ELSE @ \cup {k}]
  /\ UNCHANGED <<kind, before, pc, clock, s3, seen, copy, more, told,
                 badge, there, crossed, tabs>>

\* The badge skips an object that is gone.
Mutant_BadgeSkipsMissing(r) ==
  /\ At(r, "badgeGet")
  /\ \E k \in keys[r] :
       /\ keys' = [keys EXCEPT ![r] = @ \ {k}]
       /\ badge' = [badge EXCEPT ![r] =
                      IF k.change \in pending THEN @ + 1 ELSE @]
  /\ UNCHANGED <<kind, before, pc, clock, s3, seen, copy, more, got, told,
                 there, crossed, tabs>>

\* The visit is not stored in the session.
Mutant_VisitNotStamped(r) ==
  /\ At(r, "get") /\ keys[r] = {} /\ r \notin more
  /\ told' = [told EXCEPT ![r] = Unseen(r)]
  /\ UNCHANGED <<clock, copy, crossed>>
  /\ Goto(r, IF kind[r] = "review" THEN "badgeList" ELSE "respond")
  /\ UNCHANGED <<kind, before, s3, seen, keys, more, got, badge, there, tabs>>

\* The session is saved although the page failed.
Mutant_ErrorSaved(r) ==
  /\ Flying(r)
  /\ Goto(r, "failed")
  /\ seen' = IF Own(r) THEN copy[r] ELSE seen
  /\ UNCHANGED <<kind, before, clock, s3, copy, page, crossed, tabs>>

\* A failed badge is told from an empty queue.
Mutant_BadgeErrorShown(r) ==
  /\ pc[r] \in Badge
  /\ badge' = [badge EXCEPT ![r] = -1]
  /\ keys' = [keys EXCEPT ![r] = {}]
  /\ Goto(r, "respond")
  /\ UNCHANGED <<kind, before, clock, s3, seen, copy, more, got, told, there,
                 crossed, tabs>>

----------------------------------------------------------------------------
(* What happens to the changes meanwhile.                                  *)

\* propose_or_apply saves a proposal.
Propose ==
  /\ proposed < Proposals
  /\ proposed' = proposed + 1
  /\ pending' = pending \cup {proposed + 1}
  /\ UNCHANGED <<kind, before, pc, clock, resolved, decision, at, seen, copy,
                 page, crossed, tabs>>

\* A handler that holds the lock of the change resolves it.
Stamp(c) ==
  /\ c \in pending
  /\ decision[c] = "none"
  /\ decision' = [decision EXCEPT ![c] = "stamped"]
  /\ clock' = clock + 1
  /\ at' = [at EXCEPT ![c] = clock + 1]
  /\ UNCHANGED <<kind, before, pc, proposed, pending, resolved, seen, copy,
                 page, crossed, tabs>>

\* Visits whose listing of resolved/ has been answered, with the count to come.
Listed == {r \in Requests : At(r, "get") /\ r \notin more}
Cross(c) == crossed' = [r \in Requests |-> IF r \in Listed
                                           THEN crossed[r] \cup {c}
                                           ELSE crossed[r]]

PutResolved(c) ==
  /\ decision[c] = "stamped"
  /\ resolved' = [resolved EXCEPT ![c] = at[c]]
  /\ decision' = [decision EXCEPT ![c] = "saved"]
  /\ Cross(c)
  /\ UNCHANGED <<kind, before, pc, clock, proposed, pending, at, seen, copy,
                 page, tabs>>

\* The PUT is reported as failed, or the handler ends at it.
PutFails(c) ==
  /\ decision[c] = "stamped"
  /\ decision' = [decision EXCEPT ![c] = "stopped"]
  /\ \/ UNCHANGED <<resolved, crossed>>
     \/ resolved' = [resolved EXCEPT ![c] = at[c]] /\ Cross(c)
  /\ UNCHANGED <<kind, before, pc, clock, proposed, pending, at, seen, copy,
                 page, tabs>>

\* The result of the DELETE is ignored.
DeletePending(c) ==
  /\ decision[c] = "saved"
  /\ decision' = [decision EXCEPT ![c] = "done"]
  /\ pending' \in {pending, pending \ {c}}
  /\ UNCHANGED <<kind, before, pc, clock, proposed, resolved, at, seen, copy,
                 page, crossed, tabs>>

----------------------------------------------------------------------------
(* list_changes, and the session around it.                                *)

\* require_session: the first access loads the session.
Load(r) ==
  /\ At(r, "idle")
  /\ copy' = [copy EXCEPT ![r] = seen]
  /\ Goto(r, IF kind[r] = "other" THEN "respond" ELSE "list")
  /\ tabs' = (tabs \/ (Own(r) /\ \E q \in Requests : Own(q) /\ Flying(q)))
  /\ UNCHANGED <<kind, before, clock, s3, seen, page, crossed>>

PendingKeys == {KeyOf("pending", c) : c \in pending}
ResolvedKeys == {KeyOf("resolved", c) : c \in {d \in Changes : Resolved(d)}}

\* The answer to a LIST holds up to a thousand keys: all, or those of pending/
\* with the rest on a second page.
List(r) ==
  /\ At(r, "list")
  /\ \/ /\ keys' = [keys EXCEPT ![r] = PendingKeys \cup ResolvedKeys]
        /\ UNCHANGED more
     \/ /\ keys' = [keys EXCEPT ![r] = PendingKeys]
        /\ more' = more \cup {r}
  /\ there' = [there EXCEPT ![r] = Stored]
  /\ Goto(r, "get")
  /\ UNCHANGED <<kind, before, clock, s3, seen, copy, got, told, badge,
                 crossed, tabs>>

ListRest(r) ==
  /\ At(r, "get") /\ keys[r] = {} /\ r \in more
  /\ keys' = [keys EXCEPT ![r] = ResolvedKeys]
  /\ more' = more \ {r}
  /\ UNCHANGED <<kind, before, pc, clock, s3, seen, copy, got, told,
                 badge, there, crossed, tabs>>

\* GET of each listed key, pending/ first; one that is gone fails the page.
\* Nothing removes an object of resolved/, so these are one step.
Get(r) ==
  /\ At(r, "get")
  /\ \E K \in SUBSET keys[r] :
       /\ \/ \E k \in keys[r] :
               k.place = "pending" /\ k.change \in pending /\ K = {k}
          \/ /\ K = keys[r] /\ K # {}
             /\ \A k \in K : k.place = "resolved"
       /\ keys' = [keys EXCEPT ![r] = @ \ K]
       /\ got' = [got EXCEPT ![r] = @ \cup K]
  /\ UNCHANGED <<kind, before, pc, clock, s3, seen, copy, more, told,
                 badge, there, crossed, tabs>>

\* The count is taken, then an operator's visit is stamped in the session.
\* No await lies in between.
Count(r) ==
  /\ At(r, "get") /\ keys[r] = {} /\ r \notin more
  /\ told' = [told EXCEPT ![r] = Unseen(r)]
  /\ IF kind[r] = "visit"
     THEN /\ clock' = clock + 1
          /\ copy' = [copy EXCEPT ![r] = clock + 1]
          /\ crossed' = [crossed EXCEPT ![r] =
               @ \cup {c \in Changes : decision[c] = "stamped"}]
     ELSE UNCHANGED <<clock, copy, crossed>>
  /\ Goto(r, IF kind[r] = "review" THEN "badgeList" ELSE "respond")
  /\ UNCHANGED <<kind, before, s3, seen, keys, more, got, badge, there, tabs>>

----------------------------------------------------------------------------
(* pending_changes_count: a second listing, of pending/ alone.             *)

BadgeList(r) ==
  /\ At(r, "badgeList")
  /\ keys' = [keys EXCEPT ![r] = PendingKeys]
  /\ there' = [there EXCEPT ![r] = pending]
  /\ Goto(r, "badgeGet")
  /\ UNCHANGED <<kind, before, clock, s3, seen, copy, more, got, told,
                 badge, crossed, tabs>>

BadgeGet(r) ==
  /\ At(r, "badgeGet")
  /\ \E k \in keys[r] :
       /\ k.change \in pending
       /\ keys' = [keys EXCEPT ![r] = @ \ {k}]
       /\ badge' = [badge EXCEPT ![r] = @ + 1]
  /\ UNCHANGED <<kind, before, pc, clock, s3, seen, copy, more, got, told,
                 there, crossed, tabs>>

BadgeDone(r) ==
  /\ At(r, "badgeGet") /\ keys[r] = {}
  /\ Goto(r, "respond")
  /\ UNCHANGED <<kind, before, clock, s3, seen, copy, page, crossed, tabs>>

\* Any error of the listing, a missing object among them, makes it 0.
BadgeError(r) ==
  /\ pc[r] \in Badge
  /\ badge' = [badge EXCEPT ![r] = 0]
  /\ keys' = [keys EXCEPT ![r] = {}]
  /\ Goto(r, "respond")
  /\ UNCHANGED <<kind, before, clock, s3, seen, copy, more, got, told,
                 there, crossed, tabs>>

----------------------------------------------------------------------------
(* The answer.                                                             *)

\* The handler's locals end with it.
Forget(r) ==
  /\ keys' = [keys EXCEPT ![r] = {}]
  /\ got' = [got EXCEPT ![r] = {}]
  /\ there' = [there EXCEPT ![r] = {}]
  /\ badge' = [badge EXCEPT ![r] = 0]
  /\ more' = more \ {r}

\* The session layer saves the whole session, then the answer is sent.  An
\* admin's session holds no time of a visit.
Respond(r) ==
  /\ At(r, "respond")
  /\ seen' = IF Own(r) THEN copy[r] ELSE seen
  /\ Goto(r, "saved")
  /\ Forget(r)
  /\ UNCHANGED <<kind, before, clock, s3, copy, told, crossed, tabs>>

\* An error (a missing object, S3, Keycloak, the template, Redis) is answered
\* with a server error and the session is not saved; nor is it when the client
\* leaves.
Stop(r) ==
  /\ Flying(r)
  /\ Goto(r, "failed")
  /\ Forget(r)
  /\ told' = [told EXCEPT ![r] = {}]
  /\ copy' = [copy EXCEPT ![r] = None]
  /\ crossed' = [crossed EXCEPT ![r] = {}]
  /\ UNCHANGED <<kind, before, clock, s3, seen, tabs>>

Show(r) ==
  \/ Load(r) \/ List(r) \/ ListRest(r) \/ Get(r) \/ Count(r)
  \/ BadgeList(r) \/ BadgeGet(r) \/ BadgeDone(r) \/ BadgeError(r)
  \/ Respond(r) \/ Stop(r)

Decide(c) == Stamp(c) \/ PutResolved(c) \/ PutFails(c) \/ DeletePending(c)

Next == \/ \E r \in Requests : Show(r)
        \/ \E c \in Changes : Decide(c)
        \/ Propose

Spec == Init /\ [][Next]_vars

----------------------------------------------------------------------------
(* Properties.                                                             *)

Visits == {r \in Requests : kind[r] = "visit" /\ At(r, "saved")}
ToldOf(c) == {r \in Visits : c \in told[r]}

\* Every variable keeps the shape the code gives it.
TypeOK ==
  /\ kind \in [Requests -> Kind]
  /\ pc \in [Requests -> Control]
  /\ clock \in Nat
  /\ proposed \in 0..Proposals
  /\ pending \subseteq Changes
  /\ resolved \in [Changes -> Nat \cup {None}]
  /\ decision \in [Changes -> Decision]
  /\ at \in [Changes -> Nat \cup {None}]
  /\ {before, seen} \subseteq Nat \cup {None}
  /\ copy \in [Requests -> Nat \cup {None}]
  /\ keys \in [Requests -> SUBSET Key]
  /\ more \subseteq Requests
  /\ got \in [Requests -> SUBSET Key]
  /\ told \in [Requests -> SUBSET Changes]
  /\ badge \in [Requests -> Nat]
  /\ there \in [Requests -> SUBSET Changes]
  /\ crossed \in [Requests -> SUBSET Changes]
  /\ tabs \in BOOLEAN

\* A decision is counted as new on one visit at most, unless two requests of
\* the session overlapped: the later one then writes back the time of a visit
\* that the earlier one had moved on.
ToldAtMostOnce ==
  ~tabs => \A c \in Changes : \A r, s \in ToldOf(c) : r = s

\* A decision on a proposal of the operator that is followed by a visit is
\* counted on a visit, unless requests of the session overlapped; she had not
\* visited the page before the decision; or the decision overlapped a visit:
\* stamped before it and stored after its listing, it is never counted.
VisitedBefore(t) == \/ before # None
                    \/ \E r \in Visits : copy[r] # None /\ copy[r] < t

ToldAtLeastOnce ==
  ~tabs =>
  \A c \in Mine : \A r \in Visits :
    /\ Resolved(c)
    /\ copy[r] # None /\ at[c] < copy[r]
    /\ VisitedBefore(at[c])
    /\ \A q \in Visits : c \notin crossed[q]
    => ToldOf(c) # {}

\* A page that is shown at all shows every change that was in the bucket when
\* it was listed, although changes move from one key to the other while their
\* objects are fetched.
ListingComplete ==
  \A r \in Requests :
    At(r, "get") /\ keys[r] = {} /\ r \notin more
    => there[r] \subseteq {k.change : k \in got[r]}

\* The badge is the number of changes that were pending at one moment, or 0:
\* never a part of them because some moved while they were counted.
BadgeExact ==
  \A r \in Requests :
    kind[r] = "review" /\ At(r, "respond")
    => badge[r] = 0 \/ badge[r] = Cardinality(there[r])

\* The pages of a listing, one after another, are the listing: no row is on two
\* pages or on none, and a page past the end is the last one.
PagesExact ==
  \A r \in Requests :
    LET rows == Sorted(Visible(r))
        n == TotalPages(Len(rows))
    IN  /\ \A i \in 1..Len(rows) :
             \E q \in 0..(n - 1) : \E j \in 1..Len(PageOf(rows, q)) :
               PageOf(rows, q)[j] = rows[i] /\ i = q * PageLimit + j
        /\ \A q \in 0..(n - 1) : Len(PageOf(rows, q)) \in 0..PageLimit
        /\ PageOf(rows, n) = PageOf(rows, n - 1)
        /\ Len(rows) > 0 => Len(PageOf(rows, n - 1)) > 0

\* The decisions that these pages meet keep the order of the two objects that
\* the handlers of ChangeQueue keep: a change that has left pending/ is found
\* under resolved/, also when the PUT or the DELETE failed.
Bucket ==
  INSTANCE ChangeBucket WITH
    queued <- pending,
    decided <- {c \in Changes : Resolved(c)}

ImplementsBucket == Bucket!Spec
=============================================================================
