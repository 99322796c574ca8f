-------------------------- MODULE ChangesPage_proofs --------------------------
(***************************************************************************)
(* Proofs about ChangesPage, for any number of proposals and requests and  *)
(* every limit of a page.  PInv is the inductive invariant.                *)
(***************************************************************************)
EXTENDS ChangesPage, TLAPS, FiniteSetTheorems

\* Every decision and every visit has a time of its own.
TimeInv ==
  /\ \A c \in Changes :
       /\ at[c] # None <=> decision[c] # "none"
       /\ at[c] # None => at[c] <= clock /\ at[c] # seen
                          /\ \A r \in Requests : at[c] # copy[r]
       /\ Resolved(c) => resolved[c] = at[c] /\ decision[c] \in {"saved", "done", "stopped"}
       /\ decision[c] \in {"saved", "done"} => Resolved(c)
  /\ seen # None => seen <= clock
  /\ \A r \in Requests : copy[r] # None => copy[r] <= clock

\* Only an admin's page has a badge.
KindInv == \A r \in Requests : pc[r] \in Badge => kind[r] = "review"

\* Without overlap the session knows the last visit.
SeenInv ==
  ~tabs =>
    /\ \A q, r \in Requests : Own(q) /\ Own(r) /\ Flying(q) /\ Flying(r) => q = r
    /\ \A r \in Requests :
         /\ Own(r) /\ (pc[r] \in Listing \/ (At(r, "respond") /\ kind[r] = "other"))
              => copy[r] = seen
         /\ kind[r] = "visit" /\ At(r, "respond")
              => copy[r] # None /\ (seen # None => seen < copy[r])
         /\ kind[r] = "visit" /\ At(r, "saved")
              => copy[r] # None /\ seen # None /\ copy[r] <= seen
    /\ before # None => seen # None

\* What a visit counts was resolved before it.
ToldInv ==
  /\ \A r \in Requests :
       /\ pc[r] \in {"idle", "list", "get", "failed"} => told[r] = {}
       /\ kind[r] = "visit" =>
            \A c \in told[r] : Resolved(c) /\ copy[r] # None /\ resolved[c] < copy[r]
  /\ ~tabs => \A q, r \in Requests : \A c \in Changes :
       kind[q] = "visit" /\ kind[r] = "visit" /\ c \in told[q] /\ c \in told[r] => q = r

\* A listing is not behind, but for the changes that crossed it.
ListInv ==
  \A r \in Requests :
    /\ \A c \in Changes :
         KeyOf("resolved", c) \in keys[r] \cup got[r] => Resolved(c)
    /\ At(r, "get") =>
         /\ there[r] \subseteq {k.change : k \in keys[r] \cup got[r]}
                               \cup {c \in Changes : r \in more /\ Resolved(c)}
         /\ \A c \in Changes :
              Resolved(c) => \/ r \in more \/ c \in crossed[r]
                             \/ KeyOf("resolved", c) \in keys[r] \cup got[r]

\* The handler that decided it has stopped before it was stored.
Dead(c) == decision[c] = "stopped" /\ ~Resolved(c)

\* What a visit passes without counting it has crossed it.
PassedInv ==
  ~tabs =>
    \A c \in Mine : at[c] # None =>
      /\ seen # None /\ at[c] < seen /\ VisitedBefore(at[c])
           => \/ \E r \in Visits : c \in told[r] \/ c \in crossed[r]
              \/ Dead(c)
      /\ \A r \in Requests :
           kind[r] = "visit" /\ At(r, "respond") /\ at[c] < copy[r]
           /\ seen # None /\ seen < at[c]
             => c \in told[r] \/ c \in crossed[r] \/ Dead(c)

\* The badge and the keys to come are as many as were listed.
BadgeInv ==
  \A r \in Requests :
    /\ pc[r] \notin {"badgeGet", "respond"} => badge[r] = 0
    /\ At(r, "badgeGet") => /\ IsFiniteSet(keys[r])
                            /\ badge[r] + Cardinality(keys[r]) = Cardinality(there[r])

PInv == /\ TypeOK /\ TimeInv /\ KindInv /\ SeenInv /\ ToldInv /\ ListInv
        /\ PassedInv /\ BadgeInv /\ BadgeExact

----------------------------------------------------------------------------
\* None is no time, and the operator's changes are changes.
LEMMA ConstantFacts ==
  Proposals \in Nat /\ Mine \subseteq Changes /\ PageLimit \in Nat \ {0} /\ None \notin Int
BY PageAssumption

\* What a listing finds.
LEMMA KeysType ==
  ASSUME TypeOK
  PROVE  PendingKeys \subseteq Key /\ ResolvedKeys \subseteq Key /\ Stored \subseteq Changes
BY DEF PendingKeys, ResolvedKeys, Stored, KeyOf, Key, TypeOK

\* Which keys a listing finds.
LEMMA KeysMean ==
  ASSUME TypeOK
  PROVE  /\ \A c \in Changes : /\ KeyOf("resolved", c) \in ResolvedKeys <=> Resolved(c)
                               /\ KeyOf("resolved", c) \notin PendingKeys
         /\ {c \in Changes : Resolved(c)} \subseteq {k.change : k \in ResolvedKeys}
         /\ Stored \subseteq {k.change : k \in PendingKeys}
                            \cup {c \in Changes : Resolved(c)}
<1>1. \A p, c : KeyOf(p, c).change = c /\ KeyOf(p, c).place = p
  BY DEF KeyOf
<1>2. \A c \in pending : \E k \in PendingKeys : c = k.change
  BY <1>1 DEF PendingKeys
<1>3. \A c \in Changes : Resolved(c) => \E k \in ResolvedKeys : c = k.change
  BY <1>1 DEF ResolvedKeys
<1>4. \A c \in Changes : /\ KeyOf("resolved", c) \in ResolvedKeys <=> Resolved(c)
                         /\ KeyOf("resolved", c) \notin PendingKeys
  BY <1>1 DEF ResolvedKeys, PendingKeys
<1> QED
  BY <1>2, <1>3, <1>4 DEF Stored, TypeOK

\* There are as many keys under pending/ as changes.
LEMMA KeysCount ==
  ASSUME TypeOK
  PROVE  /\ IsFiniteSet(PendingKeys)
         /\ Cardinality(PendingKeys) = Cardinality(pending)
<1>1. IsFiniteSet(pending)
  <2>1. IsFiniteSet(1..Proposals)
    BY ConstantFacts, FS_Interval
  <2> QED
    BY <2>1, FS_Subset DEF TypeOK, Changes
<1> DEFINE f == [c \in pending |-> KeyOf("pending", c)]
<1>2. \A c, d : KeyOf("pending", c) = KeyOf("pending", d) => c = d
  BY DEF KeyOf
<1>3. f \in Bijection(pending, PendingKeys)
  BY <1>2 DEF Bijection, Injection, Surjection, IsInjective, PendingKeys
<1>4. ExistsBijection(pending, PendingKeys)
  BY <1>3 DEF ExistsBijection
<1> QED
  BY <1>1, <1>4, FS_Bijection

\* Which changes a visit counts.
LEMMA UnseenMeans ==
  ASSUME TypeOK, NEW r \in Requests
  PROVE  /\ Unseen(r) \subseteq Changes
         /\ \A c \in Unseen(r) :
              /\ kind[r] # "review" /\ copy[r] # None
              /\ KeyOf("resolved", c) \in got[r] /\ resolved[c] > copy[r]
         /\ kind[r] = "visit" /\ copy[r] # None =>
              \A c \in Mine : KeyOf("resolved", c) \in got[r] /\ resolved[c] > copy[r]
                             => c \in Unseen(r)
<1>1. \A k \in got[r] : k \in Key /\ k.change \in Changes
                        /\ (k.place = "resolved" => k = KeyOf("resolved", k.change))
  BY DEF TypeOK, Key, KeyOf
<1>2. \A c : KeyOf("resolved", c).place = "resolved" /\ KeyOf("resolved", c).change = c
  BY DEF KeyOf
<1>3. \A c : c \in Unseen(r) <=>
        /\ kind[r] # "review" /\ copy[r] # None
        /\ \E k \in Visible(r) : k.place = "resolved" /\ resolved[k.change] > copy[r]
                               /\ c = k.change
  BY DEF Unseen
<1>4. Visible(r) \subseteq got[r]
      /\ (kind[r] = "visit" => \A k \in got[r] : k.change \in Mine => k \in Visible(r))
  BY DEF Visible
<1>5. \A c \in Unseen(r) :
        /\ c \in Changes /\ kind[r] # "review" /\ copy[r] # None
        /\ KeyOf("resolved", c) \in got[r] /\ resolved[c] > copy[r]
  BY <1>1, <1>3, <1>4
<1>6. ASSUME kind[r] = "visit", copy[r] # None, NEW c \in Mine,
             KeyOf("resolved", c) \in got[r], resolved[c] > copy[r]
      PROVE  c \in Unseen(r)
  BY <1>2, <1>3, <1>4, <1>6
<1> QED
  BY <1>5, <1>6

\* A step keeps the types.
LEMMA TypeStep == TypeOK /\ BadgeInv /\ [Next]_vars => TypeOK'
<1> SUFFICES ASSUME TypeOK, BadgeInv, [Next]_vars PROVE TypeOK'
  OBVIOUS
<1> USE ConstantFacts
<1>1. ASSUME NEW r \in Requests, Load(r) PROVE TypeOK'
  BY <1>1 DEF Load, s3, page, Goto, At, InFlight, Listing, Badge, Resolved,
       TypeOK, Control, Decision, Kind
<1>2. ASSUME NEW r \in Requests, List(r) PROVE TypeOK'
  BY <1>2, KeysType DEF List, Goto, TypeOK, Control, InFlight, Listing,
       Badge, s3
<1>3. ASSUME NEW r \in Requests, ListRest(r) PROVE TypeOK'
  BY <1>3, KeysType DEF ListRest, TypeOK, s3
<1>4. ASSUME NEW r \in Requests, Get(r) PROVE TypeOK'
  BY <1>4 DEF Get, s3, page, Goto, At, InFlight, Listing, Badge, Resolved,
       TypeOK, Control, Decision, Kind
<1>5. ASSUME NEW r \in Requests, Count(r) PROVE TypeOK'
  <2>1. Unseen(r) \subseteq Changes
    BY UnseenMeans
  <2>2. crossed' \in [Requests -> SUBSET Changes] /\ clock' \in Nat
        /\ copy' \in [Requests -> Nat \cup {None}]
    BY <1>5 DEF Count, TypeOK
  <2>3. told' \in [Requests -> SUBSET Changes] /\ pc' \in [Requests -> Control]
    BY <1>5, <2>1 DEF Count, Goto, TypeOK, Control, InFlight, Listing, Badge
  <2> QED
    BY <1>5, <2>2, <2>3 DEF Count, TypeOK, s3
<1>6. ASSUME NEW r \in Requests, BadgeList(r) PROVE TypeOK'
  <2>1. PendingKeys \subseteq Key
    BY KeysType
  <2> QED
    BY <1>6, <2>1 DEF BadgeList, Goto, TypeOK, Control, InFlight, Listing,
         Badge, s3
<1>7. ASSUME NEW r \in Requests, BadgeGet(r) PROVE TypeOK'
  BY <1>7 DEF BadgeGet, s3, page, Goto, At, InFlight, Listing, Badge,
       Resolved, TypeOK, Control, Decision, Kind
<1>8. ASSUME NEW r \in Requests, BadgeDone(r) PROVE TypeOK'
  BY <1>8 DEF BadgeDone, s3, page, Goto, At, InFlight, Listing, Badge,
       Resolved, TypeOK, Control, Decision, Kind
<1>9. ASSUME NEW r \in Requests, BadgeError(r) PROVE TypeOK'
  BY <1>9 DEF BadgeError, s3, page, Goto, At, InFlight, Listing, Badge,
       Resolved, TypeOK, Control, Decision, Kind
<1>10. ASSUME NEW r \in Requests, Respond(r) PROVE TypeOK'
  BY <1>10 DEF Respond, Forget, s3, page, Goto, At, InFlight, Listing, Badge,
       Resolved, TypeOK, Control, Decision, Kind
<1>11. ASSUME NEW r \in Requests, Stop(r) PROVE TypeOK'
  BY <1>11 DEF Stop, Forget, s3, page, Goto, At, InFlight, Listing, Badge,
       Resolved, TypeOK, Control, Decision, Kind
<1>12. ASSUME NEW c \in Changes, Stamp(c) PROVE TypeOK'
  BY <1>12 DEF Stamp, s3, page, Goto, At, InFlight, Listing, Badge, Resolved,
       TypeOK, Control, Decision, Kind
<1>13. ASSUME NEW c \in Changes, PutResolved(c) PROVE TypeOK'
  BY <1>13 DEF PutResolved, Cross, Listed, s3, page, Goto, At, InFlight,
       Listing, Badge, Resolved, TypeOK, Control, Decision, Kind
<1>14. ASSUME NEW c \in Changes, PutFails(c) PROVE TypeOK'
  BY <1>14 DEF PutFails, Cross, Listed, s3, page, Goto, At, InFlight,
       Listing, Badge, Resolved, TypeOK, Control, Decision, Kind
<1>15. ASSUME NEW c \in Changes, DeletePending(c) PROVE TypeOK'
  BY <1>15 DEF DeletePending, s3, page, Goto, At, InFlight, Listing, Badge,
       Resolved, TypeOK, Control, Decision, Kind
<1>16. ASSUME Propose PROVE TypeOK'
  <2>1. proposed' \in 0..Proposals /\ proposed + 1 \in Changes
    BY <1>16 DEF Propose, TypeOK, Changes
  <2> QED
    BY <1>16, <2>1 DEF Propose, TypeOK, page
<1>17. CASE UNCHANGED vars
  BY <1>17 DEF vars, s3, page, At, Own, Flying, Visits, Resolved, Goto,
       InFlight, Listing, Badge, Resolved, TypeOK, Control, Decision, Kind
<1> QED
  BY <1>1, <1>2, <1>3, <1>4, <1>5, <1>6, <1>7, <1>8, <1>9, <1>10, <1>11,
       <1>12, <1>13, <1>14, <1>15, <1>16, <1>17 DEF Next, Show, Decide

\* A step keeps the order of decisions and visits.
LEMMA TimeStep == TypeOK /\ TimeInv /\ [Next]_vars => TimeInv'
<1> SUFFICES ASSUME TypeOK, TimeInv, [Next]_vars PROVE TimeInv'
  OBVIOUS
<1> USE ConstantFacts
<1>1. ASSUME NEW r \in Requests, Load(r) PROVE TimeInv'
  BY <1>1 DEF Load, s3, page, Goto, At, Own, Flying, InFlight, Listing,
       Badge, Resolved, TypeOK, TimeInv, Control, Decision
<1>2. ASSUME NEW r \in Requests, List(r) PROVE TimeInv'
  BY <1>2 DEF List, PendingKeys, ResolvedKeys, KeyOf, Key, s3, page, Goto,
       At, Own, Flying, InFlight, Listing, Badge, Resolved, TypeOK, TimeInv,
       Control, Decision
<1>3. ASSUME NEW r \in Requests, ListRest(r) PROVE TimeInv'
  BY <1>3 DEF ListRest, PendingKeys, ResolvedKeys, KeyOf, Key, s3, page,
       Goto, At, Own, Flying, InFlight, Listing, Badge, Resolved, TypeOK,
       TimeInv, Control, Decision
<1>4. ASSUME NEW r \in Requests, Get(r) PROVE TimeInv'
  BY <1>4 DEF Get, s3, page, Goto, At, Own, Flying, InFlight, Listing, Badge,
       Resolved, TypeOK, TimeInv, Control, Decision
<1>5. ASSUME NEW r \in Requests, Count(r) PROVE TimeInv'
  BY <1>5 DEF Count, s3, page, Goto, At, Own, Flying, InFlight, Listing,
       Badge, Resolved, TypeOK, TimeInv, Control, Decision
<1>6. ASSUME NEW r \in Requests, BadgeList(r) PROVE TimeInv'
  BY <1>6 DEF BadgeList, PendingKeys, KeyOf, Key, s3, page, Goto, At, Own,
       Flying, InFlight, Listing, Badge, Resolved, TypeOK, TimeInv, Control,
       Decision
<1>7. ASSUME NEW r \in Requests, BadgeGet(r) PROVE TimeInv'
  BY <1>7 DEF BadgeGet, s3, page, Goto, At, Own, Flying, InFlight, Listing,
       Badge, Resolved, TypeOK, TimeInv, Control, Decision
<1>8. ASSUME NEW r \in Requests, BadgeDone(r) PROVE TimeInv'
  BY <1>8 DEF BadgeDone, s3, page, Goto, At, Own, Flying, InFlight, Listing,
       Badge, Resolved, TypeOK, TimeInv, Control, Decision
<1>9. ASSUME NEW r \in Requests, BadgeError(r) PROVE TimeInv'
  BY <1>9 DEF BadgeError, s3, page, Goto, At, Own, Flying, InFlight, Listing,
       Badge, Resolved, TypeOK, TimeInv, Control, Decision
<1>10. ASSUME NEW r \in Requests, Respond(r) PROVE TimeInv'
  BY <1>10 DEF Respond, Forget, s3, page, Goto, At, Own, Flying, InFlight,
       Listing, Badge, Resolved, TypeOK, TimeInv, Control, Decision
<1>11. ASSUME NEW r \in Requests, Stop(r) PROVE TimeInv'
  BY <1>11 DEF Stop, Forget, s3, page, Goto, At, Own, Flying, InFlight,
       Listing, Badge, Resolved, TypeOK, TimeInv, Control, Decision
<1>12. ASSUME NEW c \in Changes, Stamp(c) PROVE TimeInv'
  BY <1>12 DEF Stamp, s3, page, Goto, At, Own, Flying, InFlight, Listing,
       Badge, Resolved, TypeOK, TimeInv, Control, Decision
<1>13. ASSUME NEW c \in Changes, PutResolved(c) PROVE TimeInv'
  BY <1>13 DEF PutResolved, Cross, Listed, s3, page, Goto, At, Own, Flying,
       InFlight, Listing, Badge, Resolved, TypeOK, TimeInv, Control, Decision
<1>14. ASSUME NEW c \in Changes, PutFails(c) PROVE TimeInv'
  BY <1>14 DEF PutFails, Cross, Listed, s3, page, Goto, At, Own, Flying,
       InFlight, Listing, Badge, Resolved, TypeOK, TimeInv, Control, Decision
<1>15. ASSUME NEW c \in Changes, DeletePending(c) PROVE TimeInv'
  BY <1>15 DEF DeletePending, s3, page, Goto, At, Own, Flying, InFlight,
       Listing, Badge, Resolved, TypeOK, TimeInv, Control, Decision
<1>16. ASSUME Propose PROVE TimeInv'
  BY <1>16 DEF Propose, s3, page, Goto, At, Own, Flying, InFlight, Listing,
       Badge, Resolved, TypeOK, TimeInv, Control, Decision
<1>17. CASE UNCHANGED vars
  BY <1>17 DEF vars, s3, page, At, Own, Flying, Visits, Resolved, TypeOK,
       TimeInv, Control, Decision
<1> QED
  BY <1>1, <1>2, <1>3, <1>4, <1>5, <1>6, <1>7, <1>8, <1>9, <1>10, <1>11,
       <1>12, <1>13, <1>14, <1>15, <1>16, <1>17 DEF Next, Show, Decide

\* A step shows a badge to admins only.
LEMMA KindStep == TypeOK /\ KindInv /\ [Next]_vars => KindInv'
<1> SUFFICES ASSUME TypeOK, KindInv, [Next]_vars PROVE KindInv'
  OBVIOUS
<1> USE ConstantFacts
<1>1. ASSUME NEW r \in Requests, Load(r) PROVE KindInv'
  BY <1>1 DEF Load, s3, page, Goto, At, Own, Flying, InFlight, Listing,
       Badge, Resolved, TypeOK, Kind, KindInv
<1>2. ASSUME NEW r \in Requests, List(r) PROVE KindInv'
  BY <1>2 DEF List, PendingKeys, ResolvedKeys, KeyOf, Key, s3, page, Goto,
       At, Own, Flying, InFlight, Listing, Badge, Resolved, TypeOK, Kind,
       KindInv
<1>3. ASSUME NEW r \in Requests, ListRest(r) PROVE KindInv'
  BY <1>3 DEF ListRest, PendingKeys, ResolvedKeys, KeyOf, Key, s3, page,
       Goto, At, Own, Flying, InFlight, Listing, Badge, Resolved, TypeOK,
       Kind, KindInv
<1>4. ASSUME NEW r \in Requests, Get(r) PROVE KindInv'
  BY <1>4 DEF Get, s3, page, Goto, At, Own, Flying, InFlight, Listing, Badge,
       Resolved, TypeOK, Kind, KindInv
<1>5. ASSUME NEW r \in Requests, Count(r) PROVE KindInv'
  BY <1>5 DEF Count, s3, page, Goto, At, Own, Flying, InFlight, Listing,
       Badge, Resolved, TypeOK, Kind, KindInv
<1>6. ASSUME NEW r \in Requests, BadgeList(r) PROVE KindInv'
  BY <1>6 DEF BadgeList, PendingKeys, KeyOf, Key, s3, page, Goto, At, Own,
       Flying, InFlight, Listing, Badge, Resolved, TypeOK, Kind, KindInv
<1>7. ASSUME NEW r \in Requests, BadgeGet(r) PROVE KindInv'
  BY <1>7 DEF BadgeGet, s3, page, Goto, At, Own, Flying, InFlight, Listing,
       Badge, Resolved, TypeOK, Kind, KindInv
<1>8. ASSUME NEW r \in Requests, BadgeDone(r) PROVE KindInv'
  BY <1>8 DEF BadgeDone, s3, page, Goto, At, Own, Flying, InFlight, Listing,
       Badge, Resolved, TypeOK, Kind, KindInv
<1>9. ASSUME NEW r \in Requests, BadgeError(r) PROVE KindInv'
  BY <1>9 DEF BadgeError, s3, page, Goto, At, Own, Flying, InFlight, Listing,
       Badge, Resolved, TypeOK, Kind, KindInv
<1>10. ASSUME NEW r \in Requests, Respond(r) PROVE KindInv'
  BY <1>10 DEF Respond, Forget, s3, page, Goto, At, Own, Flying, InFlight,
       Listing, Badge, Resolved, TypeOK, Kind, KindInv
<1>11. ASSUME NEW r \in Requests, Stop(r) PROVE KindInv'
  BY <1>11 DEF Stop, Forget, s3, page, Goto, At, Own, Flying, InFlight,
       Listing, Badge, Resolved, TypeOK, Kind, KindInv
<1>12. ASSUME NEW c \in Changes, Stamp(c) PROVE KindInv'
  BY <1>12 DEF Stamp, s3, page, Goto, At, Own, Flying, InFlight, Listing,
       Badge, Resolved, TypeOK, Kind, KindInv
<1>13. ASSUME NEW c \in Changes, PutResolved(c) PROVE KindInv'
  BY <1>13 DEF PutResolved, Cross, Listed, s3, page, Goto, At, Own, Flying,
       InFlight, Listing, Badge, Resolved, TypeOK, Kind, KindInv
<1>14. ASSUME NEW c \in Changes, PutFails(c) PROVE KindInv'
  BY <1>14 DEF PutFails, Cross, Listed, s3, page, Goto, At, Own, Flying,
       InFlight, Listing, Badge, Resolved, TypeOK, Kind, KindInv
<1>15. ASSUME NEW c \in Changes, DeletePending(c) PROVE KindInv'
  BY <1>15 DEF DeletePending, s3, page, Goto, At, Own, Flying, InFlight,
       Listing, Badge, Resolved, TypeOK, Kind, KindInv
<1>16. ASSUME Propose PROVE KindInv'
  BY <1>16 DEF Propose, s3, page, Goto, At, Own, Flying, InFlight, Listing,
       Badge, Resolved, TypeOK, Kind, KindInv
<1>17. CASE UNCHANGED vars
  BY <1>17 DEF vars, s3, page, At, Own, Flying, Visits, Resolved, TypeOK,
       Kind, KindInv
<1> QED
  BY <1>1, <1>2, <1>3, <1>4, <1>5, <1>6, <1>7, <1>8, <1>9, <1>10, <1>11,
       <1>12, <1>13, <1>14, <1>15, <1>16, <1>17 DEF Next, Show, Decide

\* A step keeps what the session knows of the last visit.
LEMMA SeenStep ==
  TypeOK /\ TimeInv /\ KindInv /\ SeenInv /\ [Next]_vars
  => SeenInv'
<1> SUFFICES ASSUME TypeOK, TimeInv, KindInv, SeenInv, [Next]_vars
             PROVE  SeenInv'
  OBVIOUS
<1> USE ConstantFacts
<1>1. ASSUME NEW r \in Requests, Load(r) PROVE SeenInv'
  <2> SUFFICES ASSUME ~tabs' PROVE SeenInv'
    BY DEF SeenInv
  <2>1. ~tabs /\ (Own(r) => \A q \in Requests : Own(q) => ~Flying(q))
    BY <1>1 DEF Load
  <2>2. /\ UNCHANGED <<kind, seen, before>>
        /\ \A q \in Requests \ {r} : pc'[q] = pc[q] /\ copy'[q] = copy[q]
        /\ pc'[r] \in {"respond", "list"} /\ copy'[r] = seen
        /\ pc'[r] = "respond" => kind[r] = "other"
    BY <1>1 DEF Load, Goto, TypeOK
  <2>3. \A q, s \in Requests : Own(q)' /\ Own(s)' /\ Flying(q)' /\ Flying(s)' => q = s
    BY <2>1, <2>2 DEF SeenInv, Own, Flying
  <2> QED
    BY <2>1, <2>2, <2>3 DEF SeenInv, Own, At
<1>2. ASSUME NEW r \in Requests, List(r) PROVE SeenInv'
  BY <1>2 DEF List, PendingKeys, ResolvedKeys, KeyOf, Key, s3, page, Goto,
       At, Own, Flying, InFlight, Listing, Badge, Resolved, TypeOK, Kind,
       TimeInv, KindInv, SeenInv
<1>3. ASSUME NEW r \in Requests, ListRest(r) PROVE SeenInv'
  BY <1>3 DEF ListRest, PendingKeys, ResolvedKeys, KeyOf, Key, s3, page,
       Goto, At, Own, Flying, InFlight, Listing, Badge, Resolved, TypeOK,
       Kind, TimeInv, KindInv, SeenInv
<1>4. ASSUME NEW r \in Requests, Get(r) PROVE SeenInv'
  BY <1>4 DEF Get, s3, page, Goto, At, Own, Flying, InFlight, Listing, Badge,
       Resolved, TypeOK, Kind, TimeInv, KindInv, SeenInv
<1>5. ASSUME NEW r \in Requests, Count(r) PROVE SeenInv'
  BY <1>5 DEF Count, s3, page, Goto, At, Own, Flying, InFlight, Listing,
       Badge, Resolved, TypeOK, Kind, TimeInv, KindInv, SeenInv
<1>6. ASSUME NEW r \in Requests, BadgeList(r) PROVE SeenInv'
  BY <1>6 DEF BadgeList, PendingKeys, KeyOf, Key, s3, page, Goto, At, Own,
       Flying, InFlight, Listing, Badge, Resolved, TypeOK, Kind, TimeInv,
       KindInv, SeenInv
<1>7. ASSUME NEW r \in Requests, BadgeGet(r) PROVE SeenInv'
  BY <1>7 DEF BadgeGet, s3, page, Goto, At, Own, Flying, InFlight, Listing,
       Badge, Resolved, TypeOK, Kind, TimeInv, KindInv, SeenInv
<1>8. ASSUME NEW r \in Requests, BadgeDone(r) PROVE SeenInv'
  BY <1>8 DEF BadgeDone, s3, page, Goto, At, Own, Flying, InFlight, Listing,
       Badge, Resolved, TypeOK, Kind, TimeInv, KindInv, SeenInv
<1>9. ASSUME NEW r \in Requests, BadgeError(r) PROVE SeenInv'
  BY <1>9 DEF BadgeError, s3, page, Goto, At, Own, Flying, InFlight, Listing,
       Badge, Resolved, TypeOK, Kind, TimeInv, KindInv, SeenInv
<1>10. ASSUME NEW r \in Requests, Respond(r) PROVE SeenInv'
  BY <1>10 DEF Respond, Forget, s3, page, Goto, At, Own, Flying, InFlight,
       Listing, Badge, Resolved, TypeOK, Kind, TimeInv, KindInv, SeenInv
<1>11. ASSUME NEW r \in Requests, Stop(r) PROVE SeenInv'
  BY <1>11 DEF Stop, Forget, s3, page, Goto, At, Own, Flying, InFlight,
       Listing, Badge, Resolved, TypeOK, Kind, TimeInv, KindInv, SeenInv
<1>12. ASSUME NEW c \in Changes, Stamp(c) PROVE SeenInv'
  BY <1>12 DEF Stamp, s3, page, Goto, At, Own, Flying, InFlight, Listing,
       Badge, Resolved, TypeOK, Kind, TimeInv, KindInv, SeenInv
<1>13. ASSUME NEW c \in Changes, PutResolved(c) PROVE SeenInv'
  BY <1>13 DEF PutResolved, Cross, Listed, s3, page, Goto, At, Own, Flying,
       InFlight, Listing, Badge, Resolved, TypeOK, Kind, TimeInv, KindInv,
       SeenInv
<1>14. ASSUME NEW c \in Changes, PutFails(c) PROVE SeenInv'
  BY <1>14 DEF PutFails, Cross, Listed, s3, page, Goto, At, Own, Flying,
       InFlight, Listing, Badge, Resolved, TypeOK, Kind, TimeInv, KindInv,
       SeenInv
<1>15. ASSUME NEW c \in Changes, DeletePending(c) PROVE SeenInv'
  BY <1>15 DEF DeletePending, s3, page, Goto, At, Own, Flying, InFlight,
       Listing, Badge, Resolved, TypeOK, Kind, TimeInv, KindInv, SeenInv
<1>16. ASSUME Propose PROVE SeenInv'
  BY <1>16 DEF Propose, s3, page, Goto, At, Own, Flying, InFlight, Listing,
       Badge, Resolved, TypeOK, Kind, TimeInv, KindInv, SeenInv
<1>17. CASE UNCHANGED vars
  BY <1>17 DEF vars, s3, page, At, Own, Flying, Visits, Resolved, TypeOK,
       Kind, TimeInv, KindInv, SeenInv
<1> QED
  BY <1>1, <1>2, <1>3, <1>4, <1>5, <1>6, <1>7, <1>8, <1>9, <1>10, <1>11,
       <1>12, <1>13, <1>14, <1>15, <1>16, <1>17 DEF Next, Show, Decide

\* A step counts no change a second time.
LEMMA ToldStep ==
  TypeOK /\ TimeInv /\ SeenInv /\ ListInv /\ ToldInv /\ [Next]_vars
  => ToldInv'
<1> SUFFICES ASSUME TypeOK, TimeInv, SeenInv, ListInv, ToldInv, [Next]_vars
             PROVE  ToldInv'
  OBVIOUS
<1> USE ConstantFacts
<1>1. ASSUME NEW r \in Requests, Load(r) PROVE ToldInv'
  BY <1>1 DEF Load, s3, page, Goto, At, Own, Flying, InFlight, Listing,
       Badge, Resolved, TypeOK, TimeInv, ToldInv
<1>2. ASSUME NEW r \in Requests, List(r) PROVE ToldInv'
  BY <1>2 DEF List, PendingKeys, ResolvedKeys, KeyOf, Key, s3, page, Goto,
       At, Own, Flying, InFlight, Listing, Badge, Resolved, TypeOK, TimeInv,
       ToldInv
<1>3. ASSUME NEW r \in Requests, ListRest(r) PROVE ToldInv'
  BY <1>3 DEF ListRest, PendingKeys, ResolvedKeys, KeyOf, Key, s3, page,
       Goto, At, Own, Flying, InFlight, Listing, Badge, Resolved, TypeOK,
       TimeInv, ToldInv
<1>4. ASSUME NEW r \in Requests, Get(r) PROVE ToldInv'
  BY <1>4 DEF Get, s3, page, Goto, At, Own, Flying, InFlight, Listing, Badge,
       Resolved, TypeOK, TimeInv, ToldInv
<1>5. ASSUME NEW r \in Requests, Count(r) PROVE ToldInv'
  <2>1. /\ pc[r] = "get" /\ told' = [told EXCEPT ![r] = Unseen(r)]
        /\ UNCHANGED <<kind, tabs, resolved, seen>>
        /\ pc'[r] \in {"badgeList", "respond"}
        /\ \A q \in Requests \ {r} : pc'[q] = pc[q] /\ copy'[q] = copy[q]
        /\ kind[r] = "visit" => copy'[r] = clock + 1
    BY <1>5 DEF Count, At, Goto, s3, TypeOK
  <2>2. \A c \in Unseen(r) : Resolved(c) /\ resolved[c] <= clock /\ resolved[c] > copy[r]
                            /\ c \in Changes /\ copy[r] # None
    BY UnseenMeans DEF ListInv, TimeInv, Resolved
  <2>3. ASSUME ~tabs, kind[r] = "visit", NEW q \in Requests, q # r, kind[q] = "visit",
               NEW c \in Unseen(r), c \in told[q]
        PROVE  FALSE
    <3>1. Own(r) /\ Own(q) /\ Flying(r) /\ copy[r] = seen
      BY <2>1, <2>3 DEF SeenInv, Own, Flying, InFlight, Listing
    <3>2. pc[q] = "saved"
      BY <2>3, <3>1 DEF SeenInv, ToldInv, TypeOK, Control, InFlight, Flying,
           Listing
    <3>3. resolved[c] < copy[q] /\ copy[q] <= seen /\ copy[q] # None /\ seen # None
      BY <2>3, <3>2 DEF ToldInv, SeenInv, At
    <3> QED
      BY <2>2, <3>1, <3>3 DEF TypeOK, Resolved
  <2>4. ASSUME NEW q \in Requests
        PROVE  /\ pc'[q] \in {"idle", "list", "get", "failed"} => told'[q] = {}
               /\ kind[q] = "visit" => \A c \in told'[q] :
                    Resolved(c) /\ copy'[q] # None /\ resolved[c] < copy'[q]
    <3>1. CASE q = r
      BY <2>1, <2>2, <3>1 DEF TypeOK, Resolved
    <3>2. CASE q # r
      BY <2>1, <3>2 DEF TypeOK, ToldInv
    <3> QED
      BY <3>1, <3>2
  <2>5. ASSUME ~tabs, NEW p \in Requests, NEW q \in Requests, NEW c \in Changes,
               kind[p] = "visit", kind[q] = "visit", c \in told'[p], c \in told'[q]
        PROVE  p = q
    <3>1. CASE p = r /\ q # r
      BY <2>1, <2>3, <2>5, <3>1 DEF TypeOK
    <3>2. CASE q = r /\ p # r
      BY <2>1, <2>3, <2>5, <3>2 DEF TypeOK
    <3>3. CASE p # r /\ q # r
      BY <2>1, <2>5, <3>3 DEF TypeOK, ToldInv
    <3> QED
      BY <3>1, <3>2, <3>3
  <2> QED
    BY <2>1, <2>4, <2>5 DEF ToldInv, Resolved
<1>6. ASSUME NEW r \in Requests, BadgeList(r) PROVE ToldInv'
  BY <1>6 DEF BadgeList, PendingKeys, KeyOf, Key, s3, page, Goto, At, Own,
       Flying, InFlight, Listing, Badge, Resolved, TypeOK, TimeInv, ToldInv
<1>7. ASSUME NEW r \in Requests, BadgeGet(r) PROVE ToldInv'
  BY <1>7 DEF BadgeGet, s3, page, Goto, At, Own, Flying, InFlight, Listing,
       Badge, Resolved, TypeOK, TimeInv, ToldInv
<1>8. ASSUME NEW r \in Requests, BadgeDone(r) PROVE ToldInv'
  BY <1>8 DEF BadgeDone, s3, page, Goto, At, Own, Flying, InFlight, Listing,
       Badge, Resolved, TypeOK, TimeInv, ToldInv
<1>9. ASSUME NEW r \in Requests, BadgeError(r) PROVE ToldInv'
  BY <1>9 DEF BadgeError, s3, page, Goto, At, Own, Flying, InFlight, Listing,
       Badge, Resolved, TypeOK, TimeInv, ToldInv
<1>10. ASSUME NEW r \in Requests, Respond(r) PROVE ToldInv'
  BY <1>10 DEF Respond, Forget, s3, page, Goto, At, Own, Flying, InFlight,
       Listing, Badge, Resolved, TypeOK, TimeInv, ToldInv
<1>11. ASSUME NEW r \in Requests, Stop(r) PROVE ToldInv'
  BY <1>11 DEF Stop, Forget, s3, page, Goto, At, Own, Flying, InFlight,
       Listing, Badge, Resolved, TypeOK, TimeInv, ToldInv
<1>12. ASSUME NEW c \in Changes, Stamp(c) PROVE ToldInv'
  BY <1>12 DEF Stamp, s3, page, Goto, At, Own, Flying, InFlight, Listing,
       Badge, Resolved, TypeOK, TimeInv, ToldInv
<1>13. ASSUME NEW c \in Changes, PutResolved(c) PROVE ToldInv'
  BY <1>13 DEF PutResolved, Cross, Listed, s3, page, Goto, At, Own, Flying,
       InFlight, Listing, Badge, Resolved, TypeOK, TimeInv, ToldInv
<1>14. ASSUME NEW c \in Changes, PutFails(c) PROVE ToldInv'
  BY <1>14 DEF PutFails, Cross, Listed, s3, page, Goto, At, Own, Flying,
       InFlight, Listing, Badge, Resolved, TypeOK, TimeInv, ToldInv
<1>15. ASSUME NEW c \in Changes, DeletePending(c) PROVE ToldInv'
  BY <1>15 DEF DeletePending, s3, page, Goto, At, Own, Flying, InFlight,
       Listing, Badge, Resolved, TypeOK, TimeInv, ToldInv
<1>16. ASSUME Propose PROVE ToldInv'
  BY <1>16 DEF Propose, s3, page, Goto, At, Own, Flying, InFlight, Listing,
       Badge, Resolved, TypeOK, TimeInv, ToldInv
<1>17. CASE UNCHANGED vars
  BY <1>17 DEF vars, s3, page, At, Own, Flying, Visits, Resolved, TypeOK,
       TimeInv, ToldInv
<1> QED
  BY <1>1, <1>2, <1>3, <1>4, <1>5, <1>6, <1>7, <1>8, <1>9, <1>10, <1>11,
       <1>12, <1>13, <1>14, <1>15, <1>16, <1>17 DEF Next, Show, Decide

\* A step keeps what a listing is not behind of.
LEMMA ListStep == TypeOK /\ TimeInv /\ ListInv /\ [Next]_vars => ListInv'
<1> SUFFICES ASSUME TypeOK, TimeInv, ListInv, [Next]_vars PROVE ListInv'
  OBVIOUS
<1> USE ConstantFacts
<1>1. ASSUME NEW r \in Requests, Load(r) PROVE ListInv'
  BY <1>1 DEF Load, s3, page, Goto, At, Own, Flying, InFlight, Listing,
       Badge, Resolved, TypeOK, ListInv, Stored
<1>2. ASSUME NEW r \in Requests, List(r) PROVE ListInv'
  <2>1. UNCHANGED <<resolved, crossed, got>> /\ there' = [there EXCEPT ![r] = Stored]
    BY <1>2 DEF List, s3
  <2>2. \/ keys' = [keys EXCEPT ![r] = PendingKeys \cup ResolvedKeys] /\ more' = more
        \/ keys' = [keys EXCEPT ![r] = PendingKeys] /\ more' = more \cup {r}
    BY <1>2 DEF List
  <2>3. \A q \in Requests \ {r} : pc'[q] = pc[q]
    BY <1>2 DEF List, Goto, TypeOK
  <2>4. ASSUME NEW q \in Requests, q # r PROVE keys'[q] = keys[q] /\ there'[q] = there[q]
                                              /\ (q \in more' <=> q \in more)
    BY <2>1, <2>2, <2>4 DEF TypeOK
  <2>5. CASE keys' = [keys EXCEPT ![r] = PendingKeys \cup ResolvedKeys] /\ more' = more
    BY <2>1, <2>3, <2>4, <2>5, KeysMean DEF ListInv, TypeOK, At, Resolved
  <2>6. CASE keys' = [keys EXCEPT ![r] = PendingKeys] /\ more' = more \cup {r}
    BY <2>1, <2>3, <2>4, <2>6, KeysMean DEF ListInv, TypeOK, At, Resolved
  <2> QED
    BY <2>2, <2>5, <2>6
<1>3. ASSUME NEW r \in Requests, ListRest(r) PROVE ListInv'
  <2>1. /\ UNCHANGED <<pc, resolved, crossed, got, there>>
        /\ keys' = [keys EXCEPT ![r] = ResolvedKeys] /\ more' = more \ {r}
        /\ keys[r] = {} /\ At(r, "get")
    BY <1>3 DEF ListRest, s3
  <2> QED
    BY <2>1, KeysMean DEF ListInv, TypeOK, At, Resolved
<1>4. ASSUME NEW r \in Requests, Get(r) PROVE ListInv'
  BY <1>4 DEF Get, s3, page, Goto, At, Own, Flying, InFlight, Listing, Badge,
       Resolved, TypeOK, ListInv, Stored
<1>5. ASSUME NEW r \in Requests, Count(r) PROVE ListInv'
  BY <1>5 DEF Count, s3, page, Goto, At, Own, Flying, InFlight, Listing,
       Badge, Resolved, TypeOK, ListInv, Stored
<1>6. ASSUME NEW r \in Requests, BadgeList(r) PROVE ListInv'
  BY <1>6 DEF BadgeList, PendingKeys, KeyOf, Key, s3, page, Goto, At, Own,
       Flying, InFlight, Listing, Badge, Resolved, TypeOK, ListInv, Stored
<1>7. ASSUME NEW r \in Requests, BadgeGet(r) PROVE ListInv'
  BY <1>7 DEF BadgeGet, s3, page, Goto, At, Own, Flying, InFlight, Listing,
       Badge, Resolved, TypeOK, ListInv, Stored
<1>8. ASSUME NEW r \in Requests, BadgeDone(r) PROVE ListInv'
  BY <1>8 DEF BadgeDone, s3, page, Goto, At, Own, Flying, InFlight, Listing,
       Badge, Resolved, TypeOK, ListInv, Stored
<1>9. ASSUME NEW r \in Requests, BadgeError(r) PROVE ListInv'
  BY <1>9 DEF BadgeError, s3, page, Goto, At, Own, Flying, InFlight, Listing,
       Badge, Resolved, TypeOK, ListInv, Stored
<1>10. ASSUME NEW r \in Requests, Respond(r) PROVE ListInv'
  BY <1>10 DEF Respond, Forget, s3, page, Goto, At, Own, Flying, InFlight,
       Listing, Badge, Resolved, TypeOK, ListInv, Stored
<1>11. ASSUME NEW r \in Requests, Stop(r) PROVE ListInv'
  BY <1>11 DEF Stop, Forget, s3, page, Goto, At, Own, Flying, InFlight,
       Listing, Badge, Resolved, TypeOK, ListInv, Stored
<1>12. ASSUME NEW c \in Changes, Stamp(c) PROVE ListInv'
  BY <1>12 DEF Stamp, s3, page, Goto, At, Own, Flying, InFlight, Listing,
       Badge, Resolved, TypeOK, ListInv, Stored
<1>13. ASSUME NEW c \in Changes, PutResolved(c) PROVE ListInv'
  <2>1. UNCHANGED <<pc, keys, got, there, more>>
    BY <1>13 DEF PutResolved, page
  <2>2. /\ \A q \in Requests : crossed[q] \subseteq crossed'[q]
        /\ Cross(c) => \A q \in Requests : At(q, "get") => q \in more \/ c \in crossed'[q]
    BY <1>13 DEF PutResolved, Cross, Listed
  <2>3. resolved' = resolved \/ (resolved' = [resolved EXCEPT ![c] = at[c]] /\ Cross(c))
    BY <1>13 DEF PutResolved
  <2>4. at[c] # None
    BY <1>13 DEF PutResolved, TimeInv
  <2>5. CASE resolved' = resolved
    BY <2>1, <2>2, <2>5 DEF ListInv, At, Resolved
  <2>6. CASE resolved' = [resolved EXCEPT ![c] = at[c]] /\ Cross(c)
    <3>1. \A d \in Changes : /\ resolved[d] # None => resolved'[d] # None
                             /\ resolved'[d] # None => resolved[d] # None \/ d = c
      BY <2>4, <2>6 DEF TypeOK
    <3>2. ASSUME NEW q \in Requests, At(q, "get"), NEW d \in Changes, resolved'[d] # None
          PROVE  q \in more \/ d \in crossed'[q]
                 \/ KeyOf("resolved", d) \in keys[q] \cup got[q]
      BY <2>2, <2>6, <3>1, <3>2 DEF ListInv, Resolved
    <3>3. \A q \in Requests, d \in Changes :
            KeyOf("resolved", d) \in keys[q] \cup got[q] => resolved[d] # None
      BY DEF ListInv, Resolved
    <3>4. \A q \in Requests, d \in Changes :
            KeyOf("resolved", d) \in keys[q] \cup got[q] => resolved'[d] # None
      BY <3>1, <3>3
    <3>5. ASSUME NEW q \in Requests, At(q, "get")
          PROVE  there[q] \subseteq {k.change : k \in keys[q] \cup got[q]}
                                 \cup {d \in Changes : q \in more /\ resolved'[d] # None}
      <4>1. there[q] \subseteq {k.change : k \in keys[q] \cup got[q]}
                             \cup {d \in Changes : q \in more /\ resolved[d] # None}
        BY <3>5 DEF ListInv, Resolved
      <4> QED
        BY <3>1, <4>1
    <3> QED
      BY <2>1, <3>2, <3>4, <3>5 DEF ListInv, Resolved, At
  <2> QED
    BY <2>3, <2>5, <2>6
<1>14. ASSUME NEW c \in Changes, PutFails(c) PROVE ListInv'
  <2>1. UNCHANGED <<pc, keys, got, there, more>>
    BY <1>14 DEF PutFails, page
  <2>2. /\ \A q \in Requests : crossed[q] \subseteq crossed'[q]
        /\ Cross(c) => \A q \in Requests : At(q, "get") => q \in more \/ c \in crossed'[q]
    BY <1>14 DEF PutFails, Cross, Listed
  <2>3. resolved' = resolved \/ (resolved' = [resolved EXCEPT ![c] = at[c]] /\ Cross(c))
    BY <1>14 DEF PutFails
  <2>4. at[c] # None
    BY <1>14 DEF PutFails, TimeInv
  <2>5. CASE resolved' = resolved
    BY <2>1, <2>2, <2>5 DEF ListInv, At, Resolved
  <2>6. CASE resolved' = [resolved EXCEPT ![c] = at[c]] /\ Cross(c)
    <3>1. \A d \in Changes : /\ resolved[d] # None => resolved'[d] # None
                             /\ resolved'[d] # None => resolved[d] # None \/ d = c
      BY <2>4, <2>6 DEF TypeOK
    <3>2. ASSUME NEW q \in Requests, At(q, "get"), NEW d \in Changes, resolved'[d] # None
          PROVE  q \in more \/ d \in crossed'[q]
                 \/ KeyOf("resolved", d) \in keys[q] \cup got[q]
      BY <2>2, <2>6, <3>1, <3>2 DEF ListInv, Resolved
    <3>3. \A q \in Requests, d \in Changes :
            KeyOf("resolved", d) \in keys[q] \cup got[q] => resolved[d] # None
      BY DEF ListInv, Resolved
    <3>4. \A q \in Requests, d \in Changes :
            KeyOf("resolved", d) \in keys[q] \cup got[q] => resolved'[d] # None
      BY <3>1, <3>3
    <3>5. ASSUME NEW q \in Requests, At(q, "get")
          PROVE  there[q] \subseteq {k.change : k \in keys[q] \cup got[q]}
                                 \cup {d \in Changes : q \in more /\ resolved'[d] # None}
      <4>1. there[q] \subseteq {k.change : k \in keys[q] \cup got[q]}
                             \cup {d \in Changes : q \in more /\ resolved[d] # None}
        BY <3>5 DEF ListInv, Resolved
      <4> QED
        BY <3>1, <4>1
    <3> QED
      BY <2>1, <3>2, <3>4, <3>5 DEF ListInv, Resolved, At
  <2> QED
    BY <2>3, <2>5, <2>6
<1>15. ASSUME NEW c \in Changes, DeletePending(c) PROVE ListInv'
  BY <1>15 DEF DeletePending, s3, page, Goto, At, Own, Flying, InFlight,
       Listing, Badge, Resolved, TypeOK, ListInv, Stored
<1>16. ASSUME Propose PROVE ListInv'
  BY <1>16 DEF Propose, s3, page, Goto, At, Own, Flying, InFlight, Listing,
       Badge, Resolved, TypeOK, ListInv, Stored
<1>17. CASE UNCHANGED vars
  BY <1>17 DEF vars, s3, page, At, Own, Flying, Visits, Resolved, TypeOK,
       ListInv, Stored
<1> QED
  BY <1>1, <1>2, <1>3, <1>4, <1>5, <1>6, <1>7, <1>8, <1>9, <1>10, <1>11,
       <1>12, <1>13, <1>14, <1>15, <1>16, <1>17 DEF Next, Show, Decide

\* A step passes no decision that was not counted or crossed.
LEMMA PassedStep ==
  TypeOK /\ TimeInv /\ KindInv /\ SeenInv /\ ToldInv /\ ListInv /\ PassedInv /\ [Next]_vars
  => PassedInv'
<1> SUFFICES ASSUME TypeOK, TimeInv, KindInv, SeenInv, ToldInv, ListInv, PassedInv, [Next]_vars
             PROVE  PassedInv'
  OBVIOUS
<1> USE ConstantFacts
<1>1. ASSUME NEW r \in Requests, Load(r) PROVE PassedInv'
  BY <1>1 DEF Load, s3, page, Goto, At, Own, Flying, InFlight, Listing,
       Badge, Resolved, TypeOK, TimeInv, KindInv, SeenInv, PassedInv, Visits,
       VisitedBefore, Dead
<1>2. ASSUME NEW r \in Requests, List(r) PROVE PassedInv'
  BY <1>2 DEF List, PendingKeys, ResolvedKeys, KeyOf, Key, s3, page, Goto,
       At, Own, Flying, InFlight, Listing, Badge, Resolved, TypeOK, TimeInv,
       KindInv, SeenInv, PassedInv, Visits, VisitedBefore, Dead
<1>3. ASSUME NEW r \in Requests, ListRest(r) PROVE PassedInv'
  BY <1>3 DEF ListRest, PendingKeys, ResolvedKeys, KeyOf, Key, s3, page,
       Goto, At, Own, Flying, InFlight, Listing, Badge, Resolved, TypeOK,
       TimeInv, KindInv, SeenInv, PassedInv, Visits, VisitedBefore, Dead
<1>4. ASSUME NEW r \in Requests, Get(r) PROVE PassedInv'
  BY <1>4 DEF Get, s3, page, Goto, At, Own, Flying, InFlight, Listing, Badge,
       Resolved, TypeOK, TimeInv, KindInv, SeenInv, PassedInv, Visits,
       VisitedBefore, Dead
<1>5. ASSUME NEW r \in Requests, Count(r) PROVE PassedInv'
  <2>1. /\ UNCHANGED <<kind, tabs, s3, seen, before>>
        /\ pc[r] = "get" /\ keys[r] = {} /\ r \notin more
        /\ pc'[r] \in {"badgeList", "respond"}
        /\ told' = [told EXCEPT ![r] = Unseen(r)]
        /\ \A q \in Requests \ {r} :
             pc'[q] = pc[q] /\ copy'[q] = copy[q] /\ crossed'[q] = crossed[q]
    BY <1>5 DEF Count, At, Goto, TypeOK
  <2>2. /\ Visits' = Visits /\ r \notin Visits
        /\ \A t : VisitedBefore(t)' <=> VisitedBefore(t)
    BY <2>1 DEF Visits, VisitedBefore, At, TypeOK
  <2>3. \A q \in Requests \ {r} : told'[q] = told[q]
    BY <2>1 DEF TypeOK
  <2>4. \A c : Dead(c)' <=> Dead(c)
    BY <2>1 DEF Dead, Resolved, s3
  <2>5. ASSUME ~tabs, NEW c \in Mine, at[c] # None, kind[r] = "visit", seen # None, seen < at[c]
        PROVE  c \in told'[r] \/ c \in crossed'[r] \/ Dead(c)
    <3>1. c \in Changes /\ crossed' = [crossed EXCEPT ![r] =
                             crossed[r] \cup {d \in Changes : decision[d] = "stamped"}]
      BY <1>5, <2>5, ConstantFacts DEF Count
    <3>2. decision[c] = "stamped" \/ Resolved(c) \/ Dead(c)
      BY <2>5, <3>1 DEF TimeInv, Dead, TypeOK, Decision
    <3>3. CASE Resolved(c) /\ c \notin crossed[r]
      <4>1. KeyOf("resolved", c) \in got[r]
        BY <2>1, <3>1, <3>3 DEF ListInv, At
      <4>2. copy[r] = seen /\ resolved[c] = at[c] /\ at[c] \in Nat /\ seen \in Nat
        BY <2>1, <2>5, <3>1, <3>3 DEF SeenInv, TimeInv, TypeOK, Own, Listing
      <4>3. c \in Unseen(r)
        BY <2>5, <4>1, <4>2, UnseenMeans
      <4> QED
        BY <2>1, <4>3 DEF TypeOK
    <3> QED
      BY <3>1, <3>2, <3>3 DEF TypeOK
  <2>6. ASSUME ~tabs, NEW c \in Mine, at[c] # None, seen # None, at[c] < seen,
               VisitedBefore(at[c])
        PROVE  (\E q \in Visits : c \in told'[q] \/ c \in crossed'[q]) \/ Dead(c)
    BY <2>1, <2>2, <2>3, <2>6 DEF PassedInv, Visits
  <2> QED
    BY <2>1, <2>2, <2>3, <2>4, <2>5, <2>6 DEF PassedInv, At, s3
<1>6. ASSUME NEW r \in Requests, BadgeList(r) PROVE PassedInv'
  BY <1>6 DEF BadgeList, PendingKeys, KeyOf, Key, s3, page, Goto, At, Own,
       Flying, InFlight, Listing, Badge, Resolved, TypeOK, TimeInv, KindInv,
       SeenInv, PassedInv, Visits, VisitedBefore, Dead
<1>7. ASSUME NEW r \in Requests, BadgeGet(r) PROVE PassedInv'
  BY <1>7 DEF BadgeGet, s3, page, Goto, At, Own, Flying, InFlight, Listing,
       Badge, Resolved, TypeOK, TimeInv, KindInv, SeenInv, PassedInv, Visits,
       VisitedBefore, Dead
<1>8. ASSUME NEW r \in Requests, BadgeDone(r) PROVE PassedInv'
  BY <1>8 DEF BadgeDone, s3, page, Goto, At, Own, Flying, InFlight, Listing,
       Badge, Resolved, TypeOK, TimeInv, KindInv, SeenInv, PassedInv, Visits,
       VisitedBefore, Dead
<1>9. ASSUME NEW r \in Requests, BadgeError(r) PROVE PassedInv'
  BY <1>9 DEF BadgeError, s3, page, Goto, At, Own, Flying, InFlight, Listing,
       Badge, Resolved, TypeOK, TimeInv, KindInv, SeenInv, PassedInv, Visits,
       VisitedBefore, Dead
<1>10. ASSUME NEW r \in Requests, Respond(r) PROVE PassedInv'
  <2>1. /\ UNCHANGED <<kind, tabs, s3, before, told, crossed, copy>>
        /\ pc[r] = "respond" /\ pc' = [pc EXCEPT ![r] = "saved"]
        /\ seen' = IF Own(r) THEN copy[r] ELSE seen
    BY <1>10 DEF Respond, Goto, At
  <2>2. \A c : Dead(c)' <=> Dead(c)
    BY <2>1 DEF Dead, Resolved, s3
  <2>3. Visits' = IF kind[r] = "visit" THEN Visits \cup {r} ELSE Visits
    BY <2>1 DEF Visits, At, TypeOK
  <2>4. CASE kind[r] = "visit"
    <3>1. ASSUME ~tabs, NEW q \in Requests, kind[q] = "visit", pc'[q] = "respond"
          PROVE  FALSE
      BY <2>1, <2>4, <3>1 DEF SeenInv, Own, Flying, InFlight, TypeOK
    <3>2. ASSUME ~tabs, NEW c \in Mine, at[c] # None, at[c] < copy[r], VisitedBefore(at[c])'
          PROVE  (\E q \in Visits' : c \in told[q] \/ c \in crossed[q]) \/ Dead(c)
      <4>1. c \in Changes /\ at[c] \in Nat /\ copy[r] \in Nat /\ at[c] # seen
        BY <2>1, <2>4, <3>2, ConstantFacts DEF TypeOK, SeenInv, At, TimeInv
      <4>2. VisitedBefore(at[c])
        BY <2>1, <2>3, <2>4, <3>2, <4>1 DEF VisitedBefore, s3
      <4>3. seen \in Nat
        BY <3>2, <4>2 DEF VisitedBefore, SeenInv, Visits, TypeOK
      <4>4. CASE at[c] < seen
        BY <2>3, <2>4, <3>2, <4>2, <4>3, <4>4, ConstantFacts DEF PassedInv
      <4>5. CASE seen < at[c]
        BY <2>1, <2>3, <2>4, <3>2, <4>3, <4>5, ConstantFacts DEF PassedInv, At
      <4> QED
        BY <4>1, <4>3, <4>4, <4>5
    <3> QED
      BY <2>1, <2>2, <2>4, <3>1, <3>2 DEF PassedInv, At, Own, s3
  <2>5. CASE kind[r] # "visit"
    <3>1. ~tabs => seen' = seen
      BY <2>1, <2>5 DEF SeenInv, At, Own
    <3>2. \A t : VisitedBefore(t)' <=> VisitedBefore(t)
      BY <2>1, <2>3, <2>5 DEF VisitedBefore
    <3> QED
      BY <2>1, <2>2, <2>3, <2>5, <3>1, <3>2 DEF PassedInv, At, s3, TypeOK
  <2> QED
    BY <2>4, <2>5
<1>11. ASSUME NEW r \in Requests, Stop(r) PROVE PassedInv'
  BY <1>11 DEF Stop, Forget, s3, page, Goto, At, Own, Flying, InFlight,
       Listing, Badge, Resolved, TypeOK, TimeInv, KindInv, SeenInv,
       PassedInv, Visits, VisitedBefore, Dead
<1>12. ASSUME NEW c \in Changes, Stamp(c) PROVE PassedInv'
  BY <1>12 DEF Stamp, s3, page, Goto, At, Own, Flying, InFlight, Listing,
       Badge, Resolved, TypeOK, TimeInv, KindInv, SeenInv, PassedInv, Visits,
       VisitedBefore, Dead
<1>13. ASSUME NEW c \in Changes, PutResolved(c) PROVE PassedInv'
  BY <1>13 DEF PutResolved, Cross, Listed, s3, page, Goto, At, Own, Flying,
       InFlight, Listing, Badge, Resolved, TypeOK, TimeInv, KindInv, SeenInv,
       PassedInv, Visits, VisitedBefore, Dead
<1>14. ASSUME NEW c \in Changes, PutFails(c) PROVE PassedInv'
  BY <1>14 DEF PutFails, Cross, Listed, s3, page, Goto, At, Own, Flying,
       InFlight, Listing, Badge, Resolved, TypeOK, TimeInv, KindInv, SeenInv,
       PassedInv, Visits, VisitedBefore, Dead
<1>15. ASSUME NEW c \in Changes, DeletePending(c) PROVE PassedInv'
  BY <1>15 DEF DeletePending, s3, page, Goto, At, Own, Flying, InFlight,
       Listing, Badge, Resolved, TypeOK, TimeInv, KindInv, SeenInv,
       PassedInv, Visits, VisitedBefore, Dead
<1>16. ASSUME Propose PROVE PassedInv'
  BY <1>16 DEF Propose, s3, page, Goto, At, Own, Flying, InFlight, Listing,
       Badge, Resolved, TypeOK, TimeInv, KindInv, SeenInv, PassedInv, Visits,
       VisitedBefore, Dead
<1>17. CASE UNCHANGED vars
  BY <1>17 DEF vars, s3, page, At, Own, Flying, Visits, Resolved, TypeOK,
       TimeInv, KindInv, SeenInv, PassedInv, Visits, VisitedBefore, Dead
<1> QED
  BY <1>1, <1>2, <1>3, <1>4, <1>5, <1>6, <1>7, <1>8, <1>9, <1>10, <1>11,
       <1>12, <1>13, <1>14, <1>15, <1>16, <1>17 DEF Next, Show, Decide

\* A step keeps the count of the badge.
LEMMA BadgeStep ==
  TypeOK /\ KindInv /\ BadgeInv /\ BadgeExact /\ [Next]_vars
  => (BadgeInv /\ BadgeExact)'
<1> SUFFICES ASSUME TypeOK, KindInv, BadgeInv, BadgeExact, [Next]_vars
             PROVE  (BadgeInv /\ BadgeExact)'
  OBVIOUS
<1> USE ConstantFacts
<1>1. ASSUME NEW r \in Requests, Load(r) PROVE (BadgeInv /\ BadgeExact)'
  BY <1>1 DEF Load, s3, page, Goto, At, Own, Flying, InFlight, Listing,
       Badge, Resolved, TypeOK, BadgeInv, BadgeExact
<1>2. ASSUME NEW r \in Requests, List(r) PROVE (BadgeInv /\ BadgeExact)'
  BY <1>2 DEF List, PendingKeys, ResolvedKeys, KeyOf, Key, s3, page, Goto,
       At, Own, Flying, InFlight, Listing, Badge, Resolved, TypeOK, BadgeInv,
       BadgeExact
<1>3. ASSUME NEW r \in Requests, ListRest(r) PROVE (BadgeInv /\ BadgeExact)'
  BY <1>3 DEF ListRest, PendingKeys, ResolvedKeys, KeyOf, Key, s3, page,
       Goto, At, Own, Flying, InFlight, Listing, Badge, Resolved, TypeOK,
       BadgeInv, BadgeExact
<1>4. ASSUME NEW r \in Requests, Get(r) PROVE (BadgeInv /\ BadgeExact)'
  BY <1>4 DEF Get, s3, page, Goto, At, Own, Flying, InFlight, Listing, Badge,
       Resolved, TypeOK, BadgeInv, BadgeExact
<1>5. ASSUME NEW r \in Requests, Count(r) PROVE (BadgeInv /\ BadgeExact)'
  BY <1>5 DEF Count, s3, page, Goto, At, Own, Flying, InFlight, Listing,
       Badge, Resolved, TypeOK, BadgeInv, BadgeExact
<1>6. ASSUME NEW r \in Requests, BadgeList(r) PROVE (BadgeInv /\ BadgeExact)'
  <2>1. /\ keys' = [keys EXCEPT ![r] = PendingKeys]
        /\ there' = [there EXCEPT ![r] = pending]
        /\ pc' = [pc EXCEPT ![r] = "badgeGet"]
        /\ badge' = badge /\ badge[r] = 0 /\ kind' = kind
    BY <1>6 DEF BadgeList, BadgeInv, At, Goto
  <2>2. 0 + Cardinality(PendingKeys) = Cardinality(pending) /\ IsFiniteSet(PendingKeys)
    <3>1. Cardinality(PendingKeys) \in Nat
      BY KeysCount, FS_CardinalityType
    <3> QED
      BY <3>1, KeysCount
  <2> QED
    BY <2>1, <2>2 DEF BadgeInv, BadgeExact, At, TypeOK
<1>7. ASSUME NEW r \in Requests, BadgeGet(r) PROVE (BadgeInv /\ BadgeExact)'
  <2>1. PICK k \in keys[r] : /\ keys' = [keys EXCEPT ![r] = keys[r] \ {k}]
                             /\ badge' = [badge EXCEPT ![r] = badge[r] + 1]
    BY <1>7 DEF BadgeGet
  <2>2. /\ pc[r] = "badgeGet" /\ UNCHANGED <<pc, there, kind>>
        /\ IsFiniteSet(keys[r])
        /\ badge[r] + Cardinality(keys[r]) = Cardinality(there[r])
    BY <1>7 DEF BadgeGet, BadgeInv, At
  <2>3. /\ IsFiniteSet(keys[r] \ {k}) /\ Cardinality(keys[r]) \in Nat
        /\ Cardinality(keys[r] \ {k}) = Cardinality(keys[r]) - 1
    BY <2>2, FS_RemoveElement, FS_CardinalityType
  <2>4. (badge[r] + 1) + Cardinality(keys[r] \ {k}) = Cardinality(there[r])
    BY <2>2, <2>3 DEF TypeOK
  <2> QED
    BY <2>1, <2>2, <2>3, <2>4 DEF BadgeInv, BadgeExact, At, TypeOK
<1>8. ASSUME NEW r \in Requests, BadgeDone(r) PROVE (BadgeInv /\ BadgeExact)'
  <2>1. /\ keys[r] = {} /\ pc[r] = "badgeGet" /\ pc' = [pc EXCEPT ![r] = "respond"]
        /\ UNCHANGED <<kind, keys, badge, there>>
    BY <1>8 DEF BadgeDone, At, Goto, page
  <2>2. badge[r] = Cardinality(there[r])
    BY <2>1, FS_EmptySet DEF BadgeInv, At, TypeOK
  <2> QED
    BY <2>1, <2>2 DEF BadgeInv, BadgeExact, At, TypeOK
<1>9. ASSUME NEW r \in Requests, BadgeError(r) PROVE (BadgeInv /\ BadgeExact)'
  BY <1>9 DEF BadgeError, s3, page, Goto, At, Own, Flying, InFlight, Listing,
       Badge, Resolved, TypeOK, BadgeInv, BadgeExact
<1>10. ASSUME NEW r \in Requests, Respond(r) PROVE (BadgeInv /\ BadgeExact)'
  BY <1>10 DEF Respond, Forget, s3, page, Goto, At, Own, Flying, InFlight,
       Listing, Badge, Resolved, TypeOK, BadgeInv, BadgeExact
<1>11. ASSUME NEW r \in Requests, Stop(r) PROVE (BadgeInv /\ BadgeExact)'
  BY <1>11 DEF Stop, Forget, s3, page, Goto, At, Own, Flying, InFlight,
       Listing, Badge, Resolved, TypeOK, BadgeInv, BadgeExact
<1>12. ASSUME NEW c \in Changes, Stamp(c) PROVE (BadgeInv /\ BadgeExact)'
  BY <1>12 DEF Stamp, s3, page, Goto, At, Own, Flying, InFlight, Listing,
       Badge, Resolved, TypeOK, BadgeInv, BadgeExact
<1>13. ASSUME NEW c \in Changes, PutResolved(c) PROVE (BadgeInv /\ BadgeExact)'
  BY <1>13 DEF PutResolved, Cross, Listed, s3, page, Goto, At, Own, Flying,
       InFlight, Listing, Badge, Resolved, TypeOK, BadgeInv, BadgeExact
<1>14. ASSUME NEW c \in Changes, PutFails(c) PROVE (BadgeInv /\ BadgeExact)'
  BY <1>14 DEF PutFails, Cross, Listed, s3, page, Goto, At, Own, Flying,
       InFlight, Listing, Badge, Resolved, TypeOK, BadgeInv, BadgeExact
<1>15. ASSUME NEW c \in Changes, DeletePending(c) PROVE (BadgeInv /\ BadgeExact)'
  BY <1>15 DEF DeletePending, s3, page, Goto, At, Own, Flying, InFlight,
       Listing, Badge, Resolved, TypeOK, BadgeInv, BadgeExact
<1>16. ASSUME Propose PROVE (BadgeInv /\ BadgeExact)'
  BY <1>16 DEF Propose, s3, page, Goto, At, Own, Flying, InFlight, Listing,
       Badge, Resolved, TypeOK, BadgeInv, BadgeExact
<1>17. CASE UNCHANGED vars
  BY <1>17 DEF vars, s3, page, At, Own, Flying, Visits, Resolved, TypeOK,
       BadgeInv, BadgeExact
<1> QED
  BY <1>1, <1>2, <1>3, <1>4, <1>5, <1>6, <1>7, <1>8, <1>9, <1>10, <1>11,
       <1>12, <1>13, <1>14, <1>15, <1>16, <1>17 DEF Next, Show, Decide

----------------------------------------------------------------------------
(* The slices of a listing.                                                *)

\* The keys there can be are finitely many.
LEMMA KeysFinite == IsFiniteSet(Key)
<1> DEFINE f == [k \in Key |-> <<k.place, k.change>>]
           T == {"pending", "resolved"} \X Changes
<1>1. IsFiniteSet({"pending", "resolved"})
  <2>1. {"pending", "resolved"} = {"pending"} \cup {"resolved"}
    OBVIOUS
  <2>2. IsFiniteSet({"pending"})
    BY FS_Singleton
  <2>3. IsFiniteSet({"pending"} \cup {"resolved"})
    BY <2>2, FS_AddElement
  <2> QED
    BY <2>1, <2>3
<1>2. IsFiniteSet(T)
  <2>1. IsFiniteSet(Changes)
    BY ConstantFacts, FS_Interval DEF Changes
  <2> QED
    BY <1>1, <2>1, FS_Product
<1>3. f \in Injection(Key, T)
  BY DEF Key, Injection, IsInjective
<1> QED
  BY <1>2, <1>3, FS_Injection

\* The keys of S above k.
Over(S, k) == {j \in S : Above(j, k)}

\* No two keys have as many keys above them.
LEMMA Ranks ==
  ASSUME NEW S \in SUBSET Key
  PROVE  /\ IsFiniteSet(S) /\ Cardinality(S) \in Nat
         /\ \A k \in S : Cardinality(Over(S, k)) \in 0..(Cardinality(S) - 1)
         /\ \A j, k \in S : Above(j, k)
              => Cardinality(Over(S, j)) < Cardinality(Over(S, k))
         /\ \A j, k \in S : j = k \/ Above(j, k) \/ Above(k, j)
<1>1. IsFiniteSet(S) /\ Cardinality(S) \in Nat
  BY KeysFinite, FS_Subset, FS_CardinalityType
<1>2. ASSUME NEW k \in S
      PROVE  /\ IsFiniteSet(Over(S, k))
             /\ Cardinality(Over(S, k)) \in 0..(Cardinality(S) - 1)
  <2>1. Over(S, k) \in SUBSET S /\ k \notin Over(S, k)
    BY ConstantFacts DEF Over, Above, Key, Changes
  <2>2. /\ IsFiniteSet(Over(S, k)) /\ Cardinality(Over(S, k)) \in Nat
        /\ Cardinality(Over(S, k)) <= Cardinality(S)
        /\ Cardinality(Over(S, k)) # Cardinality(S)
    BY <1>1, <2>1, FS_Subset, FS_CardinalityType
  <2> QED
    BY <1>1, <2>2
<1>3. ASSUME NEW j \in S, NEW k \in S, Above(j, k)
      PROVE  Cardinality(Over(S, j)) < Cardinality(Over(S, k))
  <2>1. \A i \in S : Above(i, j) => Above(i, k)
    BY <1>3, ConstantFacts DEF Above, Key, Changes
  <2>2. ~Above(j, j)
    BY ConstantFacts DEF Above, Key, Changes
  <2>3. Over(S, j) \in SUBSET Over(S, k) /\ Over(S, j) # Over(S, k)
    BY <1>3, <2>1, <2>2 DEF Over
  <2>4. /\ Cardinality(Over(S, j)) <= Cardinality(Over(S, k))
        /\ Cardinality(Over(S, j)) # Cardinality(Over(S, k))
    BY <1>2, <2>3, FS_Subset
  <2> QED
    BY <1>1, <1>2, <2>4
<1>4. \A j, k \in S : j = k \/ Above(j, k) \/ Above(k, j)
  BY ConstantFacts DEF Above, Key, Changes
<1> QED
  BY <1>1, <1>2, <1>3, <1>4

\* Sorting loses no row and lists none twice, the newest proposals first.
LEMMA SortedLists ==
  ASSUME NEW S \in SUBSET Key
  PROVE  /\ Cardinality(S) \in Nat /\ Sorted(S) \in Seq(S)
         /\ Len(Sorted(S)) = Cardinality(S)
         /\ \A k \in S : \E n \in 1..Len(Sorted(S)) : Sorted(S)[n] = k
         /\ \A m, n \in 1..Len(Sorted(S)) :
              m < n => Above(Sorted(S)[m], Sorted(S)[n])
<1> DEFINE N == Cardinality(S)
           f == [k \in S |-> Cardinality(Over(S, k)) + 1]
<1>1. N \in Nat /\ \A k \in S : Cardinality(Over(S, k)) \in 0..(N - 1)
  BY Ranks
<1>2. f \in Injection(S, 1..N)
  <2>1. f \in [S -> 1..N]
    BY <1>1
  <2>2. \A j, k \in S : f[j] = f[k] => j = k
    BY <1>1, Ranks
  <2> QED
    BY <2>1, <2>2 DEF Injection, IsInjective
<1>3. f \in Surjection(S, 1..N)
  <2>1. IsFiniteSet(1..N) /\ Cardinality(1..N) = N
    BY <1>1, FS_Interval
  <2> QED
    BY <1>2, <2>1, FS_Injection
<1>4. ASSUME NEW n \in 1..N
      PROVE  Sorted(S)[n] \in S /\ Cardinality(Over(S, Sorted(S)[n])) = n - 1
  <2>1. \E k \in S : f[k] = n
    BY <1>3 DEF Surjection
  <2>2. \E k \in S : Cardinality(Over(S, k)) = n - 1
    BY <1>1, <2>1
  <2>3. Sorted(S)[n] = CHOOSE k \in S : Cardinality(Over(S, k)) = n - 1
    BY DEF Sorted, Over
  <2> QED
    BY <2>2, <2>3
<1>5. Sorted(S) \in [1..N -> S] /\ Sorted(S) \in Seq(S) /\ Len(Sorted(S)) = N
  <2>1. Sorted(S) \in [1..N -> S]
    BY <1>4 DEF Sorted
  <2> QED
    BY <1>1, <2>1
<1>6. ASSUME NEW k \in S PROVE \E n \in 1..N : Sorted(S)[n] = k
  <2>1. Cardinality(Over(S, k)) + 1 \in 1..N
    BY <1>1
  <2>2. \A j \in S : Cardinality(Over(S, j)) = Cardinality(Over(S, k)) => j = k
    BY <1>1, Ranks
  <2> QED
    BY <1>1, <1>4, <2>1, <2>2
<1>7. ASSUME NEW m \in 1..N, NEW n \in 1..N, m < n
      PROVE  Above(Sorted(S)[m], Sorted(S)[n])
  <2>1. ~Above(Sorted(S)[n], Sorted(S)[m]) /\ Sorted(S)[m] # Sorted(S)[n]
    BY <1>1, <1>4, <1>7, Ranks
  <2> QED
    BY <1>4, <2>1, Ranks
<1> QED
  BY <1>1, <1>5, <1>6, <1>7

\* The division of total_pages.
LEMMA Division ==
  ASSUME NEW a \in Nat, NEW b \in Nat \ {0}
  PROVE  a \div b \in Nat /\ (a \div b) * b <= a /\ a < (a \div b) * b + b
OBVIOUS

\* Products grow with a factor.
LEMMA Smaller ==
  ASSUME NEW a \in Nat, NEW b \in Nat, NEW p \in Nat, a <= b
  PROVE  a * p <= b * p
<1>1. b * p = a * p + (b - a) * p
  OBVIOUS
<1>2. (b - a) * p \in Nat
  BY b - a \in Nat
<1> QED
  BY <1>1, <1>2

\* The last of the pages of a listing is neither empty nor too short.
LEMMA PageCount ==
  ASSUME NEW S, NEW rows \in Seq(S)
  PROVE  LET N == Len(rows)
             n == TotalPages(N)
         IN  /\ n \in Nat \ {0} /\ (n - 1) * PageLimit <= N /\ N <= n * PageLimit
             /\ N > 0 => (n - 1) * PageLimit < N
<1> DEFINE N == Len(rows)
           n == TotalPages(N)
<1>1. N \in Nat /\ PageLimit \in Nat \ {0}
  BY ConstantFacts
<1>2. CASE N = 0
  BY <1>1, <1>2 DEF TotalPages
<1>3. CASE N # 0
  <2>1. n = (N + PageLimit - 1) \div PageLimit
    BY <1>3 DEF TotalPages
  <2>2. N + PageLimit - 1 \in Nat
    BY <1>1
  <2> HIDE DEF n, N
  <2>3. /\ n \in Nat /\ n * PageLimit <= N + PageLimit - 1
        /\ N + PageLimit - 1 < n * PageLimit + PageLimit
    BY <1>1, <2>1, <2>2, Division
  <2>4. n # 0
    BY <1>1, <1>3, <2>3
  <2>5. (n - 1) * PageLimit = n * PageLimit - PageLimit
    BY <1>1, <2>3
  <2> QED
    BY <1>1, <1>3, <2>3, <2>4, <2>5 DEF n, N
<1> QED
  BY <1>2, <1>3

\* A page is a slice of the rows.
LEMMA Slices ==
  ASSUME NEW S, NEW rows \in Seq(S)
  PROVE  LET N == Len(rows)
             n == TotalPages(N)
         IN  /\ \A q \in 0..(n - 1) :
                  /\ Len(PageOf(rows, q)) \in 0..PageLimit
                  /\ \A j \in 1..Len(PageOf(rows, q)) :
                       /\ q * PageLimit + j \in 1..N
                       /\ PageOf(rows, q)[j] = rows[q * PageLimit + j]
                  /\ \A j \in 1..PageLimit :
                       q * PageLimit + j <= N => j <= Len(PageOf(rows, q))
             /\ PageOf(rows, n) = PageOf(rows, n - 1)
             /\ N > 0 => Len(PageOf(rows, n - 1)) > 0
<1> DEFINE N == Len(rows)
           n == TotalPages(N)
<1>1. N \in Nat /\ PageLimit \in Nat \ {0}
  BY ConstantFacts
<1>2. /\ n \in Nat \ {0} /\ (n - 1) * PageLimit <= N /\ N <= n * PageLimit
      /\ N > 0 => (n - 1) * PageLimit < N
  BY PageCount
<1>3. ASSUME NEW q \in 0..(n - 1)
      PROVE  LET start == q * PageLimit
                 end == IF start + PageLimit < N THEN start + PageLimit ELSE N
             IN  /\ start \in Nat /\ start <= end /\ end <= N
                 /\ N > 0 => start < end
                 /\ PageOf(rows, q) = SubSeq(rows, start + 1, end)
                 /\ Len(PageOf(rows, q)) = end - start
                 /\ \A j \in 1..(end - start) : PageOf(rows, q)[j] = rows[start + j]
  <2> DEFINE start == q * PageLimit
             end == IF start + PageLimit < N THEN start + PageLimit ELSE N
  <2>1. start \in Nat
    BY <1>1
  <2>2. start <= (n - 1) * PageLimit
    BY <1>1, <1>2, Smaller
  <2>3. start <= end /\ end <= N /\ end \in Nat /\ (N > 0 => start < end)
    <3> HIDE DEF n, N, start
    <3>1. (n - 1) * PageLimit \in Nat
      BY <1>1, <1>2
    <3> QED
      BY <1>1, <1>2, <2>1, <2>2, <3>1
  <2>4. PageOf(rows, q) = SubSeq(rows, start + 1, end)
    <3>1. q < TotalPages(Len(rows))
      BY <1>2
    <3> QED
      BY <3>1 DEF PageOf
  <2>5. /\ Len(SubSeq(rows, start + 1, end)) = end - start
        /\ \A j \in 1..(end - start) : SubSeq(rows, start + 1, end)[j] = rows[start + j]
    <3> HIDE DEF start, end
    <3> QED
      BY <1>1, <2>1, <2>3
  <2> QED
    BY <2>1, <2>3, <2>4, <2>5
<1>4. ASSUME NEW q \in 0..(n - 1)
      PROVE  /\ Len(PageOf(rows, q)) \in 0..PageLimit
             /\ \A j \in 1..Len(PageOf(rows, q)) :
                  /\ q * PageLimit + j \in 1..N
                  /\ PageOf(rows, q)[j] = rows[q * PageLimit + j]
             /\ \A j \in 1..PageLimit :
                  q * PageLimit + j <= N => j <= Len(PageOf(rows, q))
  <2> DEFINE start == q * PageLimit
             end == IF start + PageLimit < N THEN start + PageLimit ELSE N
             L == Len(PageOf(rows, q))
  <2>1. /\ start \in Nat /\ start <= end /\ end <= N /\ L = end - start
        /\ \A j \in 1..(end - start) : PageOf(rows, q)[j] = rows[start + j]
    BY <1>3
  <2> HIDE DEF start, L, N
  <2>2. L \in 0..PageLimit
    BY <1>1, <2>1
  <2>3. \A j \in 1..L : start + j \in 1..N /\ PageOf(rows, q)[j] = rows[start + j]
    BY <1>1, <2>1
  <2>4. \A j \in 1..PageLimit : start + j <= N => j <= L
    BY <1>1, <2>1
  <2> QED
    BY <2>2, <2>3, <2>4 DEF start, L
<1>5. PageOf(rows, n) = PageOf(rows, n - 1)
  <2>1. /\ ~(n < TotalPages(Len(rows))) /\ n - 1 < TotalPages(Len(rows))
        /\ n - 1 = TotalPages(Len(rows)) - 1
    BY <1>2
  <2> QED
    BY <2>1 DEF PageOf
<1>6. N > 0 => Len(PageOf(rows, n - 1)) > 0
  <2> SUFFICES ASSUME N > 0 PROVE Len(PageOf(rows, n - 1)) > 0
    OBVIOUS
  <2>1. PICK q \in 0..(n - 1) : q = n - 1
    BY <1>2
  <2>2. Len(PageOf(rows, q)) > 0
    <3> DEFINE start == q * PageLimit
               end == IF start + PageLimit < N THEN start + PageLimit ELSE N
    <3>1. start \in Nat /\ start < end /\ Len(PageOf(rows, q)) = end - start
      BY <1>3
    <3> HIDE DEF start, N
    <3> QED
      BY <1>1, <3>1
  <2> QED
    BY <2>1, <2>2
<1> QED
  BY <1>4, <1>5, <1>6

\* A row is on the page its number says.
LEMMA OnPage ==
  ASSUME NEW S, NEW rows \in Seq(S), NEW i \in 1..Len(rows)
  PROVE  \E q \in 0..(TotalPages(Len(rows)) - 1) :
           \E j \in 1..Len(PageOf(rows, q)) :
             i = q * PageLimit + j /\ PageOf(rows, q)[j] = rows[i]
<1> DEFINE N == Len(rows)
           n == TotalPages(N)
           q == (i - 1) \div PageLimit
           j == i - q * PageLimit
<1>1. N \in Nat /\ PageLimit \in Nat \ {0} /\ i - 1 \in Nat /\ i <= N
  BY ConstantFacts
<1>2. q \in Nat /\ q * PageLimit <= i - 1 /\ i - 1 < q * PageLimit + PageLimit
  BY <1>1, Division
<1>3. n \in Nat \ {0} /\ N <= n * PageLimit
  BY PageCount
<1>4. q \in 0..(n - 1)
  <2>1. n <= q => n * PageLimit <= q * PageLimit
    BY <1>1, <1>2, <1>3, Smaller
  <2> HIDE DEF q, n, N
  <2>2. ~(n <= q)
    BY <1>1, <1>2, <1>3, <2>1
  <2> QED
    BY <1>2, <1>3, <2>2
<1>5. j \in 1..PageLimit /\ i = q * PageLimit + j
  <2> HIDE DEF q
  <2> QED
    BY <1>1, <1>2
<1>6. j \in 1..Len(PageOf(rows, q)) /\ PageOf(rows, q)[j] = rows[i]
  <2> HIDE DEF q, j
  <2>1. q * PageLimit + j <= N => j <= Len(PageOf(rows, q))
    BY <1>4, <1>5, Slices
  <2>2. Len(PageOf(rows, q)) \in Nat
    BY <1>4, Slices
  <2>3. j \in 1..Len(PageOf(rows, q))
    BY <1>1, <1>5, <2>1, <2>2
  <2> QED
    BY <1>4, <1>5, <2>3, Slices
<1> QED
  <2> HIDE DEF q, j
  <2> QED
    BY <1>4, <1>5, <1>6

\* Numbers say one page.
LEMMA OnePage ==
  ASSUME NEW q \in Nat, NEW p \in Nat, NEW j \in 1..PageLimit, NEW i \in 1..PageLimit,
         q * PageLimit + j = p * PageLimit + i
  PROVE  q = p /\ i = j
<1>1. ASSUME NEW a \in Nat, NEW b \in Nat, NEW u \in 1..PageLimit, NEW v \in 1..PageLimit,
             a * PageLimit + u = b * PageLimit + v
      PROVE  ~(a < b)
  <2>1. a < b => (a + 1) * PageLimit <= b * PageLimit
    BY ConstantFacts, Smaller
  <2>2. (a + 1) * PageLimit = a * PageLimit + PageLimit
    BY ConstantFacts
  <2>3. a * PageLimit \in Nat /\ b * PageLimit \in Nat
    BY ConstantFacts
  <2> QED
    BY <1>1, <2>1, <2>2, <2>3, ConstantFacts
<1>2. ~(q < p) /\ ~(p < q)
  BY <1>1
<1>3. q = p
  BY <1>2
<1> QED
  BY <1>3, ConstantFacts

\* What is shown was fetched by its key.
LEMMA ShownKeys == TypeOK => \A r \in Requests : Visible(r) \subseteq Key
BY DEF TypeOK, Visible

\* Every row is listed on one page: a key that was fetched and may be seen is
\* on a page, and it is on no other page and in no other row.
ListedOnce ==
  \A r \in Requests :
    LET rows == Sorted(Visible(r))
        n == TotalPages(Len(rows))
    IN  \A k \in Visible(r) : \E q \in 0..(n - 1) : \E j \in 1..Len(PageOf(rows, q)) :
          /\ PageOf(rows, q)[j] = k
          /\ \A p \in 0..(n - 1) : \A i \in 1..Len(PageOf(rows, p)) :
               PageOf(rows, p)[i] = k => p = q /\ i = j

\* Each row is on its page.
LEMMA PagesMean == TypeOK => PagesExact
<1> SUFFICES ASSUME TypeOK, NEW r \in Requests
             PROVE  LET rows == Sorted(Visible(r))
                        n == TotalPages(Len(rows))
                    IN  /\ \A i \in 1..Len(rows) :
                             \E q \in 0..(n - 1) : \E j \in 1..Len(PageOf(rows, q)) :
                               PageOf(rows, q)[j] = rows[i] /\ i = q * PageLimit + j
                        /\ \A q \in 0..(n - 1) : Len(PageOf(rows, q)) \in 0..PageLimit
                        /\ PageOf(rows, n) = PageOf(rows, n - 1)
                        /\ Len(rows) > 0 => Len(PageOf(rows, n - 1)) > 0
  BY DEF PagesExact
<1> DEFINE rows == Sorted(Visible(r))
           n == TotalPages(Len(rows))
<1>1. rows \in Seq(Visible(r))
  BY ShownKeys, SortedLists
<1> HIDE DEF rows
<1>2. /\ \A q \in 0..(n - 1) : Len(PageOf(rows, q)) \in 0..PageLimit
      /\ PageOf(rows, n) = PageOf(rows, n - 1)
      /\ Len(rows) > 0 => Len(PageOf(rows, n - 1)) > 0
  BY <1>1, Slices
<1>3. \A i \in 1..Len(rows) :
        \E q \in 0..(n - 1) : \E j \in 1..Len(PageOf(rows, q)) :
          PageOf(rows, q)[j] = rows[i] /\ i = q * PageLimit + j
  BY <1>1, OnPage
<1> QED
  BY <1>2, <1>3 DEF rows

\* Each key is in one row.
LEMMA RowsMean == TypeOK => ListedOnce
<1> SUFFICES ASSUME TypeOK, NEW r \in Requests, NEW k \in Visible(r)
             PROVE  LET rows == Sorted(Visible(r))
                        n == TotalPages(Len(rows))
                    IN  \E q \in 0..(n - 1) : \E j \in 1..Len(PageOf(rows, q)) :
                          /\ PageOf(rows, q)[j] = k
                          /\ \A p \in 0..(n - 1) : \A i \in 1..Len(PageOf(rows, p)) :
                               PageOf(rows, p)[i] = k => p = q /\ i = j
  BY DEF ListedOnce
<1> DEFINE rows == Sorted(Visible(r))
           n == TotalPages(Len(rows))
<1>1. /\ rows \in Seq(Visible(r)) /\ Visible(r) \subseteq Key
      /\ \E i \in 1..Len(rows) : rows[i] = k
      /\ \A l, m \in 1..Len(rows) : l < m => Above(rows[l], rows[m])
  BY ShownKeys, SortedLists
<1>2. \A l, m \in 1..Len(rows) : rows[l] = k /\ rows[m] = k => l = m
  <2>1. ~Above(k, k)
    BY <1>1, ConstantFacts DEF Above, Key, Changes
  <2> HIDE DEF rows
  <2> QED
    BY <1>1, <2>1
<1> HIDE DEF rows
<1>3. PICK m \in 1..Len(rows) : rows[m] = k
  BY <1>1
<1>4. PICK q \in 0..(n - 1) : \E j \in 1..Len(PageOf(rows, q)) :
        m = q * PageLimit + j /\ PageOf(rows, q)[j] = k
  BY <1>1, <1>3, OnPage
<1>j. PICK j \in 1..Len(PageOf(rows, q)) :
        m = q * PageLimit + j /\ PageOf(rows, q)[j] = k
  BY <1>4
<1>5. ASSUME NEW p \in 0..(n - 1), NEW i \in 1..Len(PageOf(rows, p)),
             PageOf(rows, p)[i] = k
      PROVE  p = q /\ i = j
  <2>1. p * PageLimit + i \in 1..Len(rows) /\ rows[p * PageLimit + i] = k
    BY <1>1, <1>5, Slices
  <2>2. p * PageLimit + i = q * PageLimit + j
    BY <1>2, <1>3, <1>j, <2>1
  <2>3. i \in 1..PageLimit /\ j \in 1..PageLimit
    <3>1. /\ Len(PageOf(rows, p)) \in 0..PageLimit
          /\ Len(PageOf(rows, q)) \in 0..PageLimit
      BY <1>1, Slices
    <3> HIDE DEF n
    <3> QED
      BY <3>1, ConstantFacts
  <2>4. p \in Nat /\ q \in Nat
    OBVIOUS
  <2> HIDE DEF n
  <2> QED
    BY <2>2, <2>3, <2>4, OnePage
<1> QED
  BY <1>j, <1>5 DEF rows

----------------------------------------------------------------------------
(* The theorems.                                                           *)

\* A step keeps the invariant.
LEMMA PStep == PInv /\ [Next]_vars => PInv'
BY TypeStep, TimeStep, KindStep, SeenStep, ToldStep, ListStep, PassedStep,
     BadgeStep
   DEF PInv

\* No request has been sent.
LEMMA PInit == Init => PInv
<1> SUFFICES ASSUME Init PROVE PInv
  OBVIOUS
<1> USE ConstantFacts
<1>1. TypeOK
  <2>1. /\ proposed \in 0..Proposals /\ pending \subseteq Changes
        /\ {before, seen} \subseteq Nat \cup {None}
    BY DEF Init, Changes
  <2> QED
    BY <2>1 DEF Init, TypeOK, Control, Decision
<1>2. TimeInv /\ KindInv /\ SeenInv
  BY DEF Init, TimeInv, KindInv, SeenInv, At, Flying, InFlight, Listing,
       Badge, Resolved
<1>3. ToldInv /\ ListInv /\ PassedInv
  BY DEF Init, ToldInv, ListInv, PassedInv, At, Changes
<1>4. BadgeInv /\ BadgeExact
  BY DEF Init, BadgeInv, BadgeExact, At
<1> QED
  BY <1>1, <1>2, <1>3, <1>4 DEF PInv

\* Every reachable state satisfies the invariant.
THEOREM Invariance == Spec => []PInv
BY PInit, PStep, PTL DEF Spec

\* Requests, sessions and the bucket keep the shape of the code's types.
THEOREM PageTyped == Spec => []TypeOK
BY Invariance, PTL DEF PInv

\* No decision is counted as new on two visits that did not overlap.
THEOREM ToldOnce == Spec => []ToldAtMostOnce
<1>1. PInv => ToldAtMostOnce
  BY DEF PInv, ToldInv, ToldAtMostOnce, ToldOf, Visits
<1> QED
  BY <1>1, Invariance, PTL

\* A decision that is followed by a visit, and did not overlap one, is counted.
THEOREM ToldAtAll == Spec => []ToldAtLeastOnce
<1>1. ASSUME PInv, ~tabs, NEW c \in Mine, NEW r \in Visits, Resolved(c),
             copy[r] # None, at[c] < copy[r], VisitedBefore(at[c]),
             \A q \in Visits : c \notin crossed[q]
      PROVE  ToldOf(c) # {}
  <2>1. c \in Changes /\ r \in Requests /\ kind[r] = "visit" /\ At(r, "saved")
    BY ConstantFacts, <1>1 DEF Visits
  <2>2. at[c] # None /\ at[c] \in Nat /\ copy[r] \in Nat
    BY <1>1, <2>1 DEF PInv, TimeInv, TypeOK
  <2>3. seen # None /\ copy[r] <= seen /\ seen \in Nat
    BY <1>1, <2>1 DEF PInv, SeenInv, TypeOK
  <2>4. at[c] < seen
    BY <1>1, <2>2, <2>3
  <2>5. \E q \in Visits : c \in told[q]
    BY <1>1, <2>2, <2>3, <2>4 DEF PInv, PassedInv, Dead
  <2> QED
    BY <2>5 DEF ToldOf
<1>2. PInv => ToldAtLeastOnce
  BY <1>1 DEF ToldAtLeastOnce
<1> QED
  BY <1>2, Invariance, PTL

\* A page that is shown has every change that was there when it was listed.
THEOREM ListingsComplete == Spec => []ListingComplete
<1>1. PInv => ListingComplete
  BY DEF PInv, ListInv, ListingComplete
<1> QED
  BY <1>1, Invariance, PTL

\* The badge shows how many changes were pending at one moment, or nothing.
THEOREM BadgesExact == Spec => []BadgeExact
BY Invariance, PTL DEF PInv

\* The slices that list_changes takes of its rows are pages of at most the
\* limit, one after another; a page past the end is the last one.
THEOREM PagesAreExact == Spec => []PagesExact
BY PagesMean, Invariance, PTL DEF PInv

\* No change that was fetched and may be seen is on two pages or on none.
THEOREM RowsListedOnce == Spec => []ListedOnce
BY RowsMean, Invariance, PTL DEF PInv


----------------------------------------------------------------------------
(* Refinement of ChangeBucket.                                             *)

\* A change is decided after it was proposed, and while it is pending.
PlacedInv ==
  /\ pending \subseteq 1..proposed
  /\ \A c \in Changes : /\ decision[c] # "none" => c \in 1..proposed
                        /\ decision[c] = "stamped" => c \in pending

LEMMA PlacedStep == TypeOK /\ PlacedInv /\ [Next]_vars => PlacedInv'
<1> SUFFICES ASSUME TypeOK, PlacedInv, [Next]_vars PROVE PlacedInv'
  OBVIOUS
<1> USE DEF TypeOK, PlacedInv, Changes
<1>1. CASE Propose
  BY <1>1, ConstantFacts DEF Propose
<1>2. ASSUME NEW c \in Changes, Decide(c) PROVE PlacedInv'
  BY <1>2 DEF Decide, Stamp, PutResolved, PutFails, DeletePending
<1>3. CASE UNCHANGED s3
  BY <1>3 DEF s3
<1>4. ASSUME NEW r \in Requests, Show(r) PROVE PlacedInv'
  BY <1>3, <1>4 DEF Show, Load, List, ListRest, Get, Count, BadgeList, BadgeGet,
     BadgeDone, BadgeError, Respond, Stop
<1> QED
  BY <1>1, <1>2, <1>3, <1>4 DEF Next, vars, s3

LEMMA BucketMapped == PInv /\ PlacedInv /\ [Next]_vars => [Bucket!Next]_(Bucket!bvars)
<1> SUFFICES ASSUME PInv, PlacedInv, [Next]_vars PROVE [Bucket!Next]_(Bucket!bvars)
  OBVIOUS
<1>0. TypeOK /\ TimeInv
  BY DEF PInv
<1>1. ASSUME pending' = pending, resolved' = resolved
      PROVE  [Bucket!Next]_(Bucket!bvars)
  BY <1>1 DEF Bucket!bvars, Resolved
<1>2. ASSUME NEW c \in Changes, decision[c] = "stamped", pending' = pending,
             resolved' = [resolved EXCEPT ![c] = at[c]]
      PROVE  [Bucket!Next]_(Bucket!bvars)
  <2>1. c \in pending /\ ~Resolved(c) /\ at[c] # None
    BY <1>0, <1>2 DEF PlacedInv, TimeInv
  <2>2. {d \in Changes : Resolved(d)}' = {d \in Changes : Resolved(d)} \cup {c}
    BY <1>0, <1>2, <2>1 DEF TypeOK, Resolved
  <2>3. Bucket!Decide(c)
    BY <1>2, <2>1, <2>2 DEF Bucket!Decide
  <2> QED
    BY <2>3 DEF Bucket!Next
<1>3. CASE Propose
  <2> DEFINE c == proposed + 1
  <2>1. c \in Changes /\ c \notin 1..proposed
    BY <1>0, <1>3, ConstantFacts DEF Propose, Changes, TypeOK
  <2>2. c \notin pending /\ ~Resolved(c)
    BY <1>0, <2>1 DEF PlacedInv, TimeInv
  <2>3. Bucket!Propose(c)
    BY <1>3, <2>2 DEF Bucket!Propose, Propose, Resolved
  <2> QED
    BY <2>1, <2>3 DEF Bucket!Next
<1>4. ASSUME NEW c \in Changes, Stamp(c) PROVE [Bucket!Next]_(Bucket!bvars)
  BY <1>1, <1>4 DEF Stamp
<1>5. ASSUME NEW c \in Changes, PutResolved(c) PROVE [Bucket!Next]_(Bucket!bvars)
  BY <1>2, <1>5 DEF PutResolved
<1>6. ASSUME NEW c \in Changes, PutFails(c) PROVE [Bucket!Next]_(Bucket!bvars)
  BY <1>1, <1>2, <1>6 DEF PutFails
<1>7. ASSUME NEW c \in Changes, DeletePending(c) PROVE [Bucket!Next]_(Bucket!bvars)
  <2>1. CASE pending' = pending
    BY <1>1, <1>7, <2>1 DEF DeletePending
  <2>2. CASE pending' = pending \ {c} /\ c \in pending
    <3>1. Resolved(c)
      BY <1>0, <1>7 DEF TimeInv, DeletePending
    <3>2. Bucket!Remove(c)
      BY <1>7, <2>2, <3>1 DEF Bucket!Remove, DeletePending, Resolved
    <3> QED
      BY <3>2 DEF Bucket!Next
  <2> QED
    BY <1>7, <2>1, <2>2 DEF DeletePending
<1>8. ASSUME NEW r \in Requests, Show(r) PROVE [Bucket!Next]_(Bucket!bvars)
  BY <1>1, <1>8 DEF Show, Load, List, ListRest, Get, Count, BadgeList, BadgeGet,
     BadgeDone, BadgeError, Respond, Stop, s3
<1>9. CASE UNCHANGED vars
  BY <1>1, <1>9 DEF vars, s3
<1> QED
  BY <1>3, <1>4, <1>5, <1>6, <1>7, <1>8, <1>9 DEF Next, Decide

\* The decisions a listing meets keep the order of the two objects.
THEOREM BucketKept == Spec => ImplementsBucket
<1>1. Init => PlacedInv
  BY DEF Init, PlacedInv
<1>2. Init => Bucket!Init
  BY ConstantFacts DEF Init, Bucket!Init, Changes, Resolved
<1>3. PInv => TypeOK
  BY DEF PInv
<1> QED
  BY <1>1, <1>2, <1>3, PlacedStep, BucketMapped, Invariance, PTL
     DEF Spec, ImplementsBucket, Bucket!Spec
=============================================================================
