------------------------------- MODULE Caches -------------------------------
(***************************************************************************)
(* The two caches of the process: Keycloak's public keys, against which    *)
(* the token of a login is verified (JwksCache in auth.rs), and the token  *)
(* of the service itself, with which it calls Keycloak's admin API         *)
(* (TokenCache in provider/keycloak.rs).                                   *)
(*                                                                         *)
(* Both are looked up under a read lock, filled by a call to Keycloak with *)
(* no lock held, and written under a write lock: any number of tasks may   *)
(* fill a cache at the same time and the last writer wins.  Time is one    *)
(* clock, and any step may take any time.                                  *)
(***************************************************************************)
EXTENDS Integers

CONSTANTS Logins,     \* logins that verify a token, one each
          Calls,      \* calls of the admin API
          Age,        \* how long a key set is used: 3600 s
          Margin,     \* how long before its expiry a token is given up: 30 s
          Lives,      \* the lifetimes Keycloak gives to its tokens
          LastKey,    \* bound: keys are 1 .. LastKey
          LastEpoch,  \* bound: how often Keycloak revokes all tokens
          MaxTime,    \* bound of the clock
          None

Key == 1 .. LastKey

\* sampled: when Keycloak answered; at: fetched_at.
KeySet == [keys : SUBSET Key, sampled : Nat, at : Nat]

\* Keycloak refuses a token after its life, and one of an earlier epoch.
\* answered: when it was received.
Grant == [issued : Nat, life : Nat, epoch : Nat, answered : Nat]
Entry == [token : Grant, expires : Nat]

ASSUME CachesAssumption == /\ Logins \cap Calls = {}
                           /\ Age \in Nat /\ Margin \in Nat
                           /\ Lives \subseteq Nat
                           /\ LastKey \in Nat \ {0}
                           /\ LastEpoch \in Nat /\ MaxTime \in Nat
                           /\ None \notin Nat \cup KeySet \cup Entry \cup Grant

LoginControl == {"idle", "read", "fetch", "arrive", "fill", "check", "clear",
                 "accepted", "refused"}
CallControl == {"idle", "read", "ask", "receive", "keep", "send", "served",
                "failed", "refused"}

VARIABLES
  now,
  signing,    \* Keycloak: the key it signs with
  published,  \* Keycloak: the keys on its certs page
  retired,    \* history: when a key was taken off that page
  epoch,      \* Keycloak: how often it has revoked all tokens
  revokedAt,  \* history: when it last did
  jwks,       \* JwksCache.cache
  tokens,     \* TokenCache
  pc,         \* where a login or a call is
  signed,     \* the key a login's token was signed with
  tries,      \* verifications of that token that have begun
  hand,       \* the key set a login works with
  got,        \* history: when it was got, or the token of a call
  failed,     \* history: logins whose last fetch failed
  late,       \* history: logins that have waited for the retry while another's
              \* fill without their key was written
  held,       \* the token of a call
  arrived     \* history: when a call reached Keycloak

keycloak == <<signing, published, retired, epoch, revokedAt>>
login == <<signed, tries, hand, failed, late>>
call == <<held, arrived>>
vars == <<now, keycloak, jwks, tokens, pc, login, got, call>>

At(x, s) == pc[x] = s
Goto(x, s) == pc' = [pc EXCEPT ![x] = s]

\* The subtraction does not saturate.
Mutant_NoFloor(a, b) == a - b

\* saturating_sub.
Monus(a, b) == IF a > b THEN a - b ELSE 0

Init ==
  /\ now = 0
  /\ signing = 1 /\ published = {1}
  /\ retired = [k \in Key |-> None]
  /\ epoch = 0 /\ revokedAt = 0
  /\ jwks = None
  /\ tokens = None
  /\ pc = [x \in Logins \cup Calls |-> "idle"]
  /\ signed = [l \in Logins |-> 1]
  /\ tries = [l \in Logins |-> 0]
  /\ hand = [l \in Logins |-> None]
  /\ failed = {} /\ late = {}
  /\ held = [c \in Calls |-> None]
  /\ got = [x \in Logins \cup Calls |-> 0]
  /\ arrived = [c \in Calls |-> 0]

----------------------------------------------------------------------------
(* Faulty variants of definitions below; see ChangeQueue.                  *)

\* The second verification works with the keys of the first.
Mutant_NotCleared(l) ==
  /\ At(l, "clear")
  /\ tries' = [tries EXCEPT ![l] = 2]
  /\ Goto(l, "read")
  /\ UNCHANGED <<now, keycloak, jwks, tokens, signed, hand, failed, late, got,
                 call>>

\* The token is used for as long as Keycloak says.
Mutant_NoMargin(t) == t.answered + t.life

----------------------------------------------------------------------------
(* Time and Keycloak.                                                      *)

Tick ==
  /\ now < MaxTime
  /\ now' = now + 1
  /\ UNCHANGED <<keycloak, jwks, tokens, pc, login, got, call>>

\* A new key signs from now on; the others stay published for a while.
Rotate ==
  /\ signing < LastKey
  /\ signing' = signing + 1
  /\ published' = published \cup {signing + 1}
  /\ UNCHANGED <<now, retired, epoch, revokedAt, jwks, tokens, pc, login, got,
                 call>>

Retire(k) ==
  /\ k \in published \ {signing}
  /\ published' = published \ {k}
  /\ retired' = [retired EXCEPT ![k] = now]
  /\ UNCHANGED <<now, signing, epoch, revokedAt, jwks, tokens, pc, login, got,
                 call>>

\* Its sessions are lost or revoked: no token it has issued is good any more.
Revoke ==
  /\ epoch < LastEpoch
  /\ epoch' = epoch + 1
  /\ revokedAt' = now
  /\ UNCHANGED <<now, signing, published, retired, jwks, tokens, pc, login,
                 got, call>>

----------------------------------------------------------------------------
(* verify_and_decode_with_refresh.                                         *)

\* exchange_code has the token.
Begin(l) ==
  /\ At(l, "idle")
  /\ signed' = [signed EXCEPT ![l] = signing]
  /\ tries' = [tries EXCEPT ![l] = 1]
  /\ Goto(l, "read")
  /\ UNCHANGED <<now, keycloak, jwks, tokens, hand, failed, late, got, call>>

\* A verification failed, for whatever reason: the first is tried again.
Failed(l) == Goto(l, IF tries[l] = 1 THEN "clear" ELSE "refused")

Fresh(s) == now - s.at < Age

\* get_jwks, under the read lock.
ReadKeys(l) ==
  /\ At(l, "read")
  /\ IF jwks # None /\ Fresh(jwks)
     THEN /\ hand' = [hand EXCEPT ![l] = jwks]
          /\ got' = [got EXCEPT ![l] = now]
          /\ Goto(l, "check")
     ELSE Goto(l, "fetch") /\ UNCHANGED <<hand, got>>
  /\ UNCHANGED <<now, keycloak, jwks, tokens, signed, tries, failed, late,
                 call>>

\* fetch_jwks: Keycloak answers, and the answer arrives.
Publish(l) ==
  /\ At(l, "fetch")
  /\ hand' = [hand EXCEPT ![l] =
                [keys |-> published, sampled |-> now, at |-> now]]
  /\ Goto(l, "arrive")
  /\ UNCHANGED <<now, keycloak, jwks, tokens, signed, tries, failed, late, got,
                 call>>

Arrive(l) ==
  /\ At(l, "arrive")
  /\ hand' = [hand EXCEPT ![l].at = now]
  /\ got' = [got EXCEPT ![l] = now]
  /\ Goto(l, "fill")
  /\ UNCHANGED <<now, keycloak, jwks, tokens, signed, tries, failed, late,
                 call>>

FetchFails(l) ==
  /\ pc[l] \in {"fetch", "arrive"}
  /\ hand' = [hand EXCEPT ![l] = None]
  /\ failed' = IF tries[l] = 2 THEN failed \cup {l} ELSE failed
  /\ Failed(l)
  /\ UNCHANGED <<now, keycloak, jwks, tokens, signed, tries, late, got, call>>

\* Between its call to clear the cache and its next look into it.
Retrying(l) == tries[l] = 2 /\ At(l, "read")

\* Under the write lock; what another task has written is overwritten.
Fill(l) ==
  /\ At(l, "fill")
  /\ jwks' = hand[l]
  /\ late' = late \cup {m \in Logins \ {l} : Retrying(m)
                                             /\ signed[m] \notin hand[l].keys}
  /\ Goto(l, "check")
  /\ UNCHANGED <<now, keycloak, tokens, signed, tries, hand, failed, got, call>>

\* The key is found by its id; any other key, as the first of the set that is
\* taken when there is none of this id, does not verify the signature.
Check(l) ==
  /\ At(l, "check")
  /\ IF signed[l] \in hand[l].keys THEN Goto(l, "accepted") ELSE Failed(l)
  /\ UNCHANGED <<now, keycloak, jwks, tokens, login, got, call>>

Clear(l) ==
  /\ At(l, "clear")
  /\ jwks' = None
  /\ tries' = [tries EXCEPT ![l] = 2]
  /\ Goto(l, "read")
  /\ UNCHANGED <<now, keycloak, tokens, signed, hand, failed, late, got, call>>

----------------------------------------------------------------------------
(* admin_token, and the call it is for.                                    *)

BeginCall(c) ==
  /\ At(c, "idle")
  /\ Goto(c, "read")
  /\ UNCHANGED <<now, keycloak, jwks, tokens, login, got, call>>

ReadToken(c) ==
  /\ At(c, "read")
  /\ IF tokens # None /\ now < tokens.expires
     THEN /\ held' = [held EXCEPT ![c] = tokens.token]
          /\ got' = [got EXCEPT ![c] = now]
          /\ Goto(c, "send")
     ELSE Goto(c, "ask") /\ UNCHANGED <<held, got>>
  /\ UNCHANGED <<now, keycloak, jwks, tokens, login, arrived>>

\* Keycloak issues a token, and the answer arrives.
Issue(c) ==
  /\ At(c, "ask")
  /\ \E n \in Lives :
       held' = [held EXCEPT ![c] = [issued |-> now, life |-> n,
                                    epoch |-> epoch, answered |-> now]]
  /\ Goto(c, "receive")
  /\ UNCHANGED <<now, keycloak, jwks, tokens, login, got, arrived>>

Receive(c) ==
  /\ At(c, "receive")
  /\ held' = [held EXCEPT ![c].answered = now]
  /\ got' = [got EXCEPT ![c] = now]
  /\ Goto(c, "keep")
  /\ UNCHANGED <<now, keycloak, jwks, tokens, login, arrived>>

AskFails(c) ==
  /\ pc[c] \in {"ask", "receive"}
  /\ Goto(c, "failed")
  /\ UNCHANGED <<now, keycloak, jwks, tokens, login, got, call>>

\* A life shorter than the margin gives an entry nobody uses.
Expiry(t) == t.answered + Monus(t.life, Margin)

Keep(c) ==
  /\ At(c, "keep")
  /\ tokens' = [token |-> held[c], expires |-> Expiry(held[c])]
  /\ Goto(c, "send")
  /\ UNCHANGED <<now, keycloak, jwks, login, got, call>>

Good(t) == now < t.issued + t.life /\ t.epoch = epoch

\* get, post, put or delete reaches Keycloak.  A refusal is an error; the token
\* stays in the cache.
Serve(c) ==
  /\ At(c, "send")
  /\ arrived' = [arrived EXCEPT ![c] = now]
  /\ Goto(c, IF Good(held[c]) THEN "served" ELSE "refused")
  /\ UNCHANGED <<now, keycloak, jwks, tokens, login, got, held>>

Next ==
  \/ Tick \/ Rotate \/ Revoke
  \/ \E k \in Key : Retire(k)
  \/ \E l \in Logins :
       \/ Begin(l) \/ ReadKeys(l) \/ Publish(l) \/ Arrive(l) \/ FetchFails(l)
       \/ Fill(l) \/ Check(l) \/ Clear(l)
  \/ \E c \in Calls :
       \/ BeginCall(c) \/ ReadToken(c) \/ Issue(c) \/ Receive(c)
       \/ AskFails(c) \/ Keep(c) \/ Serve(c)

Spec == Init /\ [][Next]_vars

----------------------------------------------------------------------------
(* Properties.                                                             *)

\* Every variable keeps the shape the code gives it.
TypeOK ==
  /\ now \in Nat
  /\ signing \in Key /\ published \subseteq Key
  /\ retired \in [Key -> Nat \cup {None}]
  /\ epoch \in Nat /\ revokedAt \in Nat
  /\ jwks \in KeySet \cup {None}
  /\ tokens \in Entry \cup {None}
  /\ pc \in [Logins \cup Calls -> LoginControl \cup CallControl]
  /\ signed \in [Logins -> Key]
  /\ tries \in [Logins -> 0 .. 2]
  /\ hand \in [Logins -> KeySet \cup {None}]
  /\ failed \subseteq Logins /\ late \subseteq Logins
  /\ held \in [Calls -> Grant \cup {None}]
  /\ got \in [Logins \cup Calls -> Nat]
  /\ arrived \in [Calls -> Nat]

\* A login is refused only if its second fetch of the keys failed, Keycloak has
\* retired the key since, or the late fill of another login, with the keys of
\* before a rotation, came between its clearing the cache and its retry.
GenuineAccepted ==
  \A l \in Logins :
    At(l, "refused")
    => l \in failed \cup late \/ signed[l] \notin published

\* A key that Keycloak has retired is accepted for as long as a key set is
\* used, and the time it took to fetch that, but no longer.
RetiredRefused ==
  \A l \in Logins :
    At(l, "accepted") /\ signed[l] \notin published
    => got[l] <= retired[signed[l]] + Age + (hand[l].at - hand[l].sampled)

\* Verification follows Keycloak's keys, both when they come and when they go.
KeysFollowed == GenuineAccepted /\ RetiredRefused

\* Keycloak refuses the service's own token only if its way here and the call's
\* way there took longer than the margin, or than the token lives; or for the
\* rest of the token's life in the cache after a revocation.
TokenUsable ==
  \A c \in Calls :
    At(c, "refused")
    => LET t == held[c]
           way == t.answered - t.issued
           took == way + (arrived[c] - got[c])
       IN  \/ took > Margin \/ took >= t.life
           \/ /\ t.epoch # epoch
              /\ got[c] <= revokedAt + way + Monus(t.life, Margin)
=============================================================================
