--------------------------- MODULE Caches_proofs ---------------------------
(***************************************************************************)
(* Proofs about Caches, for every set of logins and calls and every age,   *)
(* margin and lifetime.  CInv is the inductive invariant.                  *)
(***************************************************************************)
EXTENDS Caches, TLAPS

\* What a login or a call has in its hands.
HandInv ==
  /\ \A l \in Logins :
       /\ pc[l] \in {"arrive", "fill", "check", "accepted"} => hand[l] \in KeySet
       /\ At(l, "clear") => tries[l] = 1
       /\ At(l, "refused") => tries[l] = 2
       /\ pc[l] \in {"read", "fetch", "arrive", "fill", "check"} => tries[l] \in {1, 2}
  /\ \A c \in Calls :
       pc[c] \in {"receive", "keep", "send", "served", "refused"}
       => held[c] \in Grant

\* A key set lacks no key for longer than since Keycloak was asked, and holds
\* none that was retired before.
Sampled(s) ==
  /\ s.keys \subseteq 1 .. signing
  /\ s.sampled <= s.at /\ s.at <= now
  /\ \A k \in s.keys \ published : retired[k] \in Nat /\ s.sampled <= retired[k]

KeyInv ==
  /\ published \subseteq 1 .. signing
  /\ jwks # None => Sampled(jwks)
  /\ \A l \in Logins : signed[l] <= signing /\ (hand[l] # None => Sampled(hand[l]))

\* A key set is at most Age old when it is used.
AgeInv ==
  \A l \in Logins :
    /\ pc[l] \in {"check", "accepted"} => got[l] <= hand[l].at + Age
    /\ At(l, "fill") => got[l] = hand[l].at
    /\ At(l, "accepted") => signed[l] \in hand[l].keys

\* The second verification of a token misses its key only for a reason.
Excused(l) == l \in late \/ signed[l] \notin published

RetryInv ==
  \A l \in Logins : tries[l] = 2 =>
    /\ At(l, "read") /\ jwks # None => signed[l] \in jwks.keys \/ Excused(l)
    /\ pc[l] \in {"arrive", "fill", "check"}
         => signed[l] \in hand[l].keys \/ Excused(l)

\* A token of an earlier epoch was issued before the last revocation.
Granted(t) ==
  /\ t.issued <= t.answered /\ t.answered <= now /\ t.epoch <= epoch
  /\ t.epoch # epoch => t.issued <= revokedAt

TokenInv ==
  /\ revokedAt <= now
  /\ tokens # None => Granted(tokens.token) /\ tokens.expires = Expiry(tokens.token)
  /\ \A c \in Calls :
       /\ pc[c] \in {"receive", "keep", "send", "refused"} => Granted(held[c])
       /\ pc[c] = "keep" => got[c] = held[c].answered
       /\ pc[c] = "send" => /\ held[c].answered <= got[c] /\ got[c] <= now
                            /\ \/ got[c] = held[c].answered
                               \/ got[c] < Expiry(held[c])

CInv == /\ TypeOK /\ HandInv /\ KeyInv /\ AgeInv /\ RetryInv /\ TokenInv
        /\ GenuineAccepted /\ RetiredRefused /\ TokenUsable

----------------------------------------------------------------------------
\* The bounds and lifetimes are natural numbers, and None is not a value.
LEMMA ConstantFacts ==
  /\ Logins \cap Calls = {} /\ Age \in Nat /\ Margin \in Nat /\ Lives \subseteq Nat
  /\ LastKey \in Nat \ {0}
  /\ None \notin Nat /\ None \notin KeySet /\ None \notin Entry /\ None \notin Grant
BY CachesAssumption

\* When a token is given up.
LEMMA ExpiryType ==
  ASSUME NEW t \in Grant
  PROVE  Expiry(t) \in Nat /\ Expiry(t) >= t.answered
BY ConstantFacts DEF Expiry, Monus, Grant

\* A step keeps the types.
LEMMA TypeStep == TypeOK /\ HandInv /\ [Next]_vars => TypeOK'
<1> SUFFICES ASSUME TypeOK, HandInv, [Next]_vars PROVE TypeOK'
  OBVIOUS
<1> USE ConstantFacts, ExpiryType
<1>1. ASSUME Tick PROVE TypeOK'
  BY <1>1 DEF Tick, vars, keycloak, login, call, Goto, At, Failed, TypeOK,
       KeySet, Grant, Entry, Key, LoginControl, CallControl, HandInv
<1>2. ASSUME Rotate PROVE TypeOK'
  BY <1>2 DEF Rotate, vars, keycloak, login, call, Goto, At, Failed, TypeOK,
       KeySet, Grant, Entry, Key, LoginControl, CallControl, HandInv
<1>3. ASSUME Revoke PROVE TypeOK'
  BY <1>3 DEF Revoke, vars, keycloak, login, call, Goto, At, Failed, TypeOK,
       KeySet, Grant, Entry, Key, LoginControl, CallControl, HandInv
<1>4. ASSUME NEW k \in Key, Retire(k) PROVE TypeOK'
  BY <1>4 DEF Retire, vars, keycloak, login, call, Goto, At, Failed, TypeOK,
       KeySet, Grant, Entry, Key, LoginControl, CallControl, HandInv
<1>5. ASSUME NEW l \in Logins, Begin(l) PROVE TypeOK'
  BY <1>5 DEF Begin, vars, keycloak, login, call, Goto, At, Failed, TypeOK,
       KeySet, Grant, Entry, Key, LoginControl, CallControl, HandInv
<1>6. ASSUME NEW l \in Logins, ReadKeys(l) PROVE TypeOK'
  <2>1. CASE jwks # None /\ Fresh(jwks)
    BY SMTT(60), <1>6, <2>1 DEF ReadKeys, vars, keycloak, login, call, Goto, At,
         TypeOK, LoginControl, CallControl
  <2>2. CASE ~(jwks # None /\ Fresh(jwks))
    BY <1>6, <2>2 DEF ReadKeys, vars, keycloak, login, call, Goto, At,
         TypeOK, LoginControl, CallControl
  <2> QED
    BY <2>1, <2>2
<1>7. ASSUME NEW l \in Logins, Publish(l) PROVE TypeOK'
  BY <1>7 DEF Publish, vars, keycloak, login, call, Goto, At, Failed, TypeOK,
       KeySet, Grant, Entry, Key, LoginControl, CallControl, HandInv
<1>8. ASSUME NEW l \in Logins, Arrive(l) PROVE TypeOK'
  <2>1. hand[l] \in KeySet
    BY <1>8 DEF Arrive, At, HandInv
  <2>2. [hand[l] EXCEPT !.at = now] \in KeySet
    BY <2>1 DEF KeySet, TypeOK
  <2>3. hand' = [hand EXCEPT ![l] = [hand[l] EXCEPT !.at = now]]
    BY <1>8 DEF Arrive
  <2>4. hand' \in [Logins -> KeySet \cup {None}]
    BY <2>2, <2>3 DEF TypeOK
  <2>5. got' \in [Logins \cup Calls -> Nat]
    BY <1>8 DEF Arrive, TypeOK
  <2>6. pc' \in [Logins \cup Calls -> LoginControl \cup CallControl]
    BY <1>8 DEF Arrive, Goto, LoginControl, TypeOK
  <2> QED
    BY <1>8, <2>4, <2>5, <2>6 DEF Arrive, keycloak, call, TypeOK
<1>9. ASSUME NEW l \in Logins, FetchFails(l) PROVE TypeOK'
  BY <1>9 DEF FetchFails, vars, keycloak, login, call, Goto, At, Failed,
       TypeOK, KeySet, Grant, Entry, Key, LoginControl, CallControl, HandInv
<1>10. ASSUME NEW l \in Logins, Fill(l) PROVE TypeOK'
  BY <1>10 DEF Fill, vars, keycloak, login, call, Goto, At, Failed, TypeOK,
       KeySet, Grant, Entry, Key, LoginControl, CallControl, HandInv
<1>11. ASSUME NEW l \in Logins, Check(l) PROVE TypeOK'
  <2>1. pc' \in [Logins \cup Calls -> LoginControl \cup CallControl]
    BY <1>11 DEF Check, Failed, Goto, LoginControl, TypeOK
  <2> QED
    BY <1>11, <2>1 DEF Check, keycloak, login, call, TypeOK
<1>12. ASSUME NEW l \in Logins, Clear(l) PROVE TypeOK'
  BY <1>12 DEF Clear, vars, keycloak, login, call, Goto, At, Failed, TypeOK,
       KeySet, Grant, Entry, Key, LoginControl, CallControl, HandInv
<1>13. ASSUME NEW c \in Calls, BeginCall(c) PROVE TypeOK'
  BY <1>13 DEF BeginCall, vars, keycloak, login, call, Goto, At, Failed,
       TypeOK, KeySet, Grant, Entry, Key, LoginControl, CallControl, HandInv
<1>14. ASSUME NEW c \in Calls, ReadToken(c) PROVE TypeOK'
  <2>1. ASSUME tokens # None PROVE tokens.token \in Grant
    BY <2>1 DEF TypeOK, Entry
  <2>2. CASE tokens # None /\ now < tokens.expires
    BY <1>14, <2>1, <2>2 DEF ReadToken, vars, keycloak, login, call, Goto,
         At, TypeOK, LoginControl, CallControl
  <2>3. CASE ~(tokens # None /\ now < tokens.expires)
    BY <1>14, <2>3 DEF ReadToken, vars, keycloak, login, call, Goto, At,
         TypeOK, LoginControl, CallControl
  <2> QED
    BY <2>2, <2>3
<1>15. ASSUME NEW c \in Calls, Issue(c) PROVE TypeOK'
  BY <1>15 DEF Issue, vars, keycloak, login, call, Goto, At, Failed, TypeOK,
       KeySet, Grant, Entry, Key, LoginControl, CallControl, HandInv
<1>16. ASSUME NEW c \in Calls, Receive(c) PROVE TypeOK'
  <2>1. held[c] \in Grant
    BY <1>16 DEF Receive, At, HandInv
  <2>2. [held[c] EXCEPT !.answered = now] \in Grant
    BY <2>1 DEF Grant, TypeOK
  <2> QED
    BY <1>16, <2>2 DEF Receive, vars, keycloak, login, call, Goto, At,
         TypeOK, LoginControl, CallControl
<1>17. ASSUME NEW c \in Calls, AskFails(c) PROVE TypeOK'
  BY <1>17 DEF AskFails, vars, keycloak, login, call, Goto, At, Failed,
       TypeOK, KeySet, Grant, Entry, Key, LoginControl, CallControl, HandInv
<1>18. ASSUME NEW c \in Calls, Keep(c) PROVE TypeOK'
  BY <1>18 DEF Keep, vars, keycloak, login, call, Goto, At, Failed, TypeOK,
       KeySet, Grant, Entry, Key, LoginControl, CallControl, HandInv
<1>19. ASSUME NEW c \in Calls, Serve(c) PROVE TypeOK'
  BY <1>19 DEF Serve, vars, keycloak, login, call, Goto, At, Failed, TypeOK,
       KeySet, Grant, Entry, Key, LoginControl, CallControl, HandInv
<1>20. CASE UNCHANGED vars
  BY <1>20 DEF vars, keycloak, login, call, Goto, At, Failed, TypeOK, KeySet,
       Grant, Entry, Key, LoginControl, CallControl, HandInv
<1> QED
  BY <1>1, <1>2, <1>3, <1>4, <1>5, <1>6, <1>7, <1>8, <1>9, <1>10, <1>11,
       <1>12, <1>13, <1>14, <1>15, <1>16, <1>17, <1>18, <1>19, <1>20 DEF Next

\* A step keeps what a login or a call has in its hands.
LEMMA HandStep == TypeOK /\ HandInv /\ [Next]_vars => HandInv'
<1> SUFFICES ASSUME TypeOK, HandInv, [Next]_vars PROVE HandInv'
  OBVIOUS
<1> USE ConstantFacts
<1>1. ASSUME Tick PROVE HandInv'
  BY <1>1 DEF Tick, vars, keycloak, login, call, Goto, At, Failed, TypeOK,
       KeySet, Grant, HandInv
<1>2. ASSUME Rotate PROVE HandInv'
  BY <1>2 DEF Rotate, vars, keycloak, login, call, Goto, At, Failed, TypeOK,
       KeySet, Grant, HandInv
<1>3. ASSUME Revoke PROVE HandInv'
  BY <1>3 DEF Revoke, vars, keycloak, login, call, Goto, At, Failed, TypeOK,
       KeySet, Grant, HandInv
<1>4. ASSUME NEW k \in Key, Retire(k) PROVE HandInv'
  BY <1>4 DEF Retire, vars, keycloak, login, call, Goto, At, Failed, TypeOK,
       KeySet, Grant, HandInv
<1>5. ASSUME NEW l \in Logins, Begin(l) PROVE HandInv'
  BY <1>5 DEF Begin, vars, keycloak, login, call, Goto, At, Failed, TypeOK,
       KeySet, Grant, HandInv
<1>6. ASSUME NEW l \in Logins, ReadKeys(l) PROVE HandInv'
  <2>1. CASE jwks # None /\ Fresh(jwks)
    BY <1>6, <2>1 DEF ReadKeys, vars, keycloak, login, call, Goto, At,
         TypeOK, HandInv
  <2>2. CASE ~(jwks # None /\ Fresh(jwks))
    BY <1>6, <2>2 DEF ReadKeys, vars, keycloak, login, call, Goto, At,
         TypeOK, HandInv
  <2> QED
    BY <2>1, <2>2
<1>7. ASSUME NEW l \in Logins, Publish(l) PROVE HandInv'
  BY <1>7 DEF Publish, vars, keycloak, login, call, Goto, At, Failed, TypeOK,
       KeySet, Grant, HandInv
<1>8. ASSUME NEW l \in Logins, Arrive(l) PROVE HandInv'
  BY <1>8 DEF Arrive, vars, keycloak, login, call, Goto, At, Failed, TypeOK,
       KeySet, Grant, HandInv
<1>9. ASSUME NEW l \in Logins, FetchFails(l) PROVE HandInv'
  BY <1>9 DEF FetchFails, vars, keycloak, login, call, Goto, At, Failed,
       TypeOK, KeySet, Grant, HandInv
<1>10. ASSUME NEW l \in Logins, Fill(l) PROVE HandInv'
  BY <1>10 DEF Fill, vars, keycloak, login, call, Goto, At, Failed, TypeOK,
       KeySet, Grant, HandInv
<1>11. ASSUME NEW l \in Logins, Check(l) PROVE HandInv'
  BY <1>11 DEF Check, vars, keycloak, login, call, Goto, At, Failed, TypeOK,
       KeySet, Grant, HandInv
<1>12. ASSUME NEW l \in Logins, Clear(l) PROVE HandInv'
  BY <1>12 DEF Clear, vars, keycloak, login, call, Goto, At, Failed, TypeOK,
       KeySet, Grant, HandInv
<1>13. ASSUME NEW c \in Calls, BeginCall(c) PROVE HandInv'
  BY <1>13 DEF BeginCall, vars, keycloak, login, call, Goto, At, Failed,
       TypeOK, KeySet, Grant, HandInv
<1>14. ASSUME NEW c \in Calls, ReadToken(c) PROVE HandInv'
  <2>1. CASE tokens # None /\ now < tokens.expires
    BY <1>14, <2>1 DEF ReadToken, vars, keycloak, login, call, Goto, At,
         TypeOK, Entry, HandInv
  <2>2. CASE ~(tokens # None /\ now < tokens.expires)
    BY <1>14, <2>2 DEF ReadToken, vars, keycloak, login, call, Goto, At,
         TypeOK, Entry, HandInv
  <2> QED
    BY <2>1, <2>2
<1>15. ASSUME NEW c \in Calls, Issue(c) PROVE HandInv'
  BY <1>15 DEF Issue, vars, keycloak, login, call, Goto, At, Failed, TypeOK,
       KeySet, Grant, HandInv
<1>16. ASSUME NEW c \in Calls, Receive(c) PROVE HandInv'
  BY <1>16 DEF Receive, vars, keycloak, login, call, Goto, At, Failed,
       TypeOK, KeySet, Grant, HandInv
<1>17. ASSUME NEW c \in Calls, AskFails(c) PROVE HandInv'
  BY <1>17 DEF AskFails, vars, keycloak, login, call, Goto, At, Failed,
       TypeOK, KeySet, Grant, HandInv
<1>18. ASSUME NEW c \in Calls, Keep(c) PROVE HandInv'
  BY <1>18 DEF Keep, vars, keycloak, login, call, Goto, At, Failed, TypeOK,
       KeySet, Grant, HandInv
<1>19. ASSUME NEW c \in Calls, Serve(c) PROVE HandInv'
  BY <1>19 DEF Serve, vars, keycloak, login, call, Goto, At, Failed, TypeOK,
       KeySet, Grant, HandInv
<1>20. CASE UNCHANGED vars
  BY <1>20 DEF vars, keycloak, login, call, Goto, At, Failed, TypeOK, KeySet,
       Grant, HandInv
<1> QED
  BY <1>1, <1>2, <1>3, <1>4, <1>5, <1>6, <1>7, <1>8, <1>9, <1>10, <1>11,
       <1>12, <1>13, <1>14, <1>15, <1>16, <1>17, <1>18, <1>19, <1>20 DEF Next

\* A step keeps what is known of a key set.
LEMMA KeyStep == TypeOK /\ HandInv /\ KeyInv /\ [Next]_vars => KeyInv'
<1> SUFFICES ASSUME TypeOK, HandInv, KeyInv, [Next]_vars PROVE KeyInv'
  OBVIOUS
<1> USE ConstantFacts
<1>1. ASSUME Tick PROVE KeyInv'
  BY <1>1 DEF Tick, vars, keycloak, login, call, Goto, At, Failed, TypeOK,
       KeySet, Key, HandInv, KeyInv, Sampled
<1>2. ASSUME Rotate PROVE KeyInv'
  BY <1>2 DEF Rotate, vars, keycloak, login, call, Goto, At, Failed, TypeOK,
       KeySet, Key, HandInv, KeyInv, Sampled
<1>3. ASSUME Revoke PROVE KeyInv'
  BY <1>3 DEF Revoke, vars, keycloak, login, call, Goto, At, Failed, TypeOK,
       KeySet, Key, HandInv, KeyInv, Sampled
<1>4. ASSUME NEW k \in Key, Retire(k) PROVE KeyInv'
  BY <1>4 DEF Retire, vars, keycloak, login, call, Goto, At, Failed, TypeOK,
       KeySet, Key, HandInv, KeyInv, Sampled
<1>5. ASSUME NEW l \in Logins, Begin(l) PROVE KeyInv'
  BY <1>5 DEF Begin, vars, keycloak, login, call, Goto, At, Failed, TypeOK,
       KeySet, Key, HandInv, KeyInv, Sampled
<1>6. ASSUME NEW l \in Logins, ReadKeys(l) PROVE KeyInv'
  BY SMTT(60), <1>6 DEF ReadKeys, vars, keycloak, login, call, Goto, At, Failed,
       TypeOK, KeySet, Key, HandInv, KeyInv, Sampled
<1>7. ASSUME NEW l \in Logins, Publish(l) PROVE KeyInv'
  <2> DEFINE s == [keys |-> published, sampled |-> now, at |-> now]
  <2>0. s \in KeySet
    BY DEF KeySet, TypeOK
  <2>1. Sampled(s) /\ s # None
    BY <2>0 DEF Sampled, KeyInv, TypeOK
  <2>2. hand' = [hand EXCEPT ![l] = s] /\ UNCHANGED <<now, signing, published, retired, jwks, signed>>
    BY <1>7 DEF Publish, keycloak
  <2>3. \A r : Sampled(r) => Sampled(r)'
    BY <2>2 DEF Sampled
  <2> HIDE DEF s
  <2> QED
    BY <2>1, <2>2, <2>3 DEF KeyInv, TypeOK
<1>8. ASSUME NEW l \in Logins, Arrive(l) PROVE KeyInv'
  BY SMTT(60), <1>8
     DEF Arrive, vars, keycloak, login, call, Goto, At, Failed, TypeOK,
       KeySet, Key, HandInv, KeyInv, Sampled
<1>9. ASSUME NEW l \in Logins, FetchFails(l) PROVE KeyInv'
  BY <1>9 DEF FetchFails, vars, keycloak, login, call, Goto, At, Failed,
       TypeOK, KeySet, Key, HandInv, KeyInv, Sampled
<1>10. ASSUME NEW l \in Logins, Fill(l) PROVE KeyInv'
  BY <1>10 DEF Fill, vars, keycloak, login, call, Goto, At, Failed, TypeOK,
       KeySet, Key, HandInv, KeyInv, Sampled
<1>11. ASSUME NEW l \in Logins, Check(l) PROVE KeyInv'
  BY <1>11 DEF Check, vars, keycloak, login, call, Goto, At, Failed, TypeOK,
       KeySet, Key, HandInv, KeyInv, Sampled
<1>12. ASSUME NEW l \in Logins, Clear(l) PROVE KeyInv'
  BY <1>12 DEF Clear, vars, keycloak, login, call, Goto, At, Failed, TypeOK,
       KeySet, Key, HandInv, KeyInv, Sampled
<1>13. ASSUME NEW c \in Calls, BeginCall(c) PROVE KeyInv'
  BY <1>13 DEF BeginCall, vars, keycloak, login, call, Goto, At, Failed,
       TypeOK, KeySet, Key, HandInv, KeyInv, Sampled
<1>14. ASSUME NEW c \in Calls, ReadToken(c) PROVE KeyInv'
  BY <1>14 DEF ReadToken, vars, keycloak, login, call, Goto, At, Failed,
       TypeOK, KeySet, Key, HandInv, KeyInv, Sampled
<1>15. ASSUME NEW c \in Calls, Issue(c) PROVE KeyInv'
  BY <1>15 DEF Issue, vars, keycloak, login, call, Goto, At, Failed, TypeOK,
       KeySet, Key, HandInv, KeyInv, Sampled
<1>16. ASSUME NEW c \in Calls, Receive(c) PROVE KeyInv'
  BY <1>16 DEF Receive, vars, keycloak, login, call, Goto, At, Failed,
       TypeOK, KeySet, Key, HandInv, KeyInv, Sampled
<1>17. ASSUME NEW c \in Calls, AskFails(c) PROVE KeyInv'
  BY <1>17 DEF AskFails, vars, keycloak, login, call, Goto, At, Failed,
       TypeOK, KeySet, Key, HandInv, KeyInv, Sampled
<1>18. ASSUME NEW c \in Calls, Keep(c) PROVE KeyInv'
  BY <1>18 DEF Keep, vars, keycloak, login, call, Goto, At, Failed, TypeOK,
       KeySet, Key, HandInv, KeyInv, Sampled
<1>19. ASSUME NEW c \in Calls, Serve(c) PROVE KeyInv'
  BY <1>19 DEF Serve, vars, keycloak, login, call, Goto, At, Failed, TypeOK,
       KeySet, Key, HandInv, KeyInv, Sampled
<1>20. CASE UNCHANGED vars
  BY <1>20 DEF vars, keycloak, login, call, Goto, At, Failed, TypeOK, KeySet,
       Key, HandInv, KeyInv, Sampled
<1> QED
  BY <1>1, <1>2, <1>3, <1>4, <1>5, <1>6, <1>7, <1>8, <1>9, <1>10, <1>11,
       <1>12, <1>13, <1>14, <1>15, <1>16, <1>17, <1>18, <1>19, <1>20 DEF Next

\* A step keeps the age of a key set in use.
LEMMA AgeStep == TypeOK /\ HandInv /\ AgeInv /\ [Next]_vars => AgeInv'
<1> SUFFICES ASSUME TypeOK, HandInv, AgeInv, [Next]_vars PROVE AgeInv'
  OBVIOUS
<1> USE ConstantFacts
<1>1. ASSUME Tick PROVE AgeInv'
  BY <1>1 DEF Tick, vars, keycloak, login, call, Goto, At, Failed, TypeOK,
       KeySet, HandInv, AgeInv, Fresh
<1>2. ASSUME Rotate PROVE AgeInv'
  BY <1>2 DEF Rotate, vars, keycloak, login, call, Goto, At, Failed, TypeOK,
       KeySet, HandInv, AgeInv, Fresh
<1>3. ASSUME Revoke PROVE AgeInv'
  BY <1>3 DEF Revoke, vars, keycloak, login, call, Goto, At, Failed, TypeOK,
       KeySet, HandInv, AgeInv, Fresh
<1>4. ASSUME NEW k \in Key, Retire(k) PROVE AgeInv'
  BY <1>4 DEF Retire, vars, keycloak, login, call, Goto, At, Failed, TypeOK,
       KeySet, HandInv, AgeInv, Fresh
<1>5. ASSUME NEW l \in Logins, Begin(l) PROVE AgeInv'
  BY <1>5 DEF Begin, vars, keycloak, login, call, Goto, At, Failed, TypeOK,
       KeySet, HandInv, AgeInv, Fresh
<1>6. ASSUME NEW l \in Logins, ReadKeys(l) PROVE AgeInv'
  <2> USE DEF At
  <2>1. UNCHANGED signed
    BY <1>6 DEF ReadKeys
  <2>2. CASE jwks # None /\ Fresh(jwks)
    <3>1. hand' = [hand EXCEPT ![l] = jwks] /\ got' = [got EXCEPT ![l] = now] /\ pc' = [pc EXCEPT ![l] = "check"]
      BY <1>6, <2>2 DEF ReadKeys, Goto
    <3>2. now <= jwks.at + Age /\ jwks \in KeySet
      BY <2>2 DEF Fresh, TypeOK, KeySet
    <3> QED
      BY <2>1, <3>1, <3>2 DEF AgeInv, TypeOK
  <2>3. CASE ~(jwks # None /\ Fresh(jwks))
    BY <1>6, <2>1, <2>3 DEF ReadKeys, Goto, AgeInv, TypeOK
  <2> QED
    BY <2>2, <2>3
<1>7. ASSUME NEW l \in Logins, Publish(l) PROVE AgeInv'
  BY <1>7 DEF Publish, vars, keycloak, login, call, Goto, At, Failed, TypeOK,
       KeySet, HandInv, AgeInv, Fresh
<1>8. ASSUME NEW l \in Logins, Arrive(l) PROVE AgeInv'
  BY <1>8 DEF Arrive, vars, keycloak, login, call, Goto, At, Failed, TypeOK,
       KeySet, HandInv, AgeInv, Fresh
<1>9. ASSUME NEW l \in Logins, FetchFails(l) PROVE AgeInv'
  BY <1>9 DEF FetchFails, vars, keycloak, login, call, Goto, At, Failed,
       TypeOK, KeySet, HandInv, AgeInv, Fresh
<1>10. ASSUME NEW l \in Logins, Fill(l) PROVE AgeInv'
  BY <1>10 DEF Fill, vars, keycloak, login, call, Goto, At, Failed, TypeOK,
       KeySet, HandInv, AgeInv, Fresh
<1>11. ASSUME NEW l \in Logins, Check(l) PROVE AgeInv'
  BY <1>11 DEF Check, vars, keycloak, login, call, Goto, At, Failed, TypeOK,
       KeySet, HandInv, AgeInv, Fresh
<1>12. ASSUME NEW l \in Logins, Clear(l) PROVE AgeInv'
  BY <1>12 DEF Clear, vars, keycloak, login, call, Goto, At, Failed, TypeOK,
       KeySet, HandInv, AgeInv, Fresh
<1>13. ASSUME NEW c \in Calls, BeginCall(c) PROVE AgeInv'
  BY <1>13 DEF BeginCall, vars, keycloak, login, call, Goto, At, Failed,
       TypeOK, KeySet, HandInv, AgeInv, Fresh
<1>14. ASSUME NEW c \in Calls, ReadToken(c) PROVE AgeInv'
  BY <1>14 DEF ReadToken, vars, keycloak, login, call, Goto, At, Failed,
       TypeOK, KeySet, HandInv, AgeInv, Fresh
<1>15. ASSUME NEW c \in Calls, Issue(c) PROVE AgeInv'
  BY <1>15 DEF Issue, vars, keycloak, login, call, Goto, At, Failed, TypeOK,
       KeySet, HandInv, AgeInv, Fresh
<1>16. ASSUME NEW c \in Calls, Receive(c) PROVE AgeInv'
  BY <1>16 DEF Receive, vars, keycloak, login, call, Goto, At, Failed,
       TypeOK, KeySet, HandInv, AgeInv, Fresh
<1>17. ASSUME NEW c \in Calls, AskFails(c) PROVE AgeInv'
  BY <1>17 DEF AskFails, vars, keycloak, login, call, Goto, At, Failed,
       TypeOK, KeySet, HandInv, AgeInv, Fresh
<1>18. ASSUME NEW c \in Calls, Keep(c) PROVE AgeInv'
  BY <1>18 DEF Keep, vars, keycloak, login, call, Goto, At, Failed, TypeOK,
       KeySet, HandInv, AgeInv, Fresh
<1>19. ASSUME NEW c \in Calls, Serve(c) PROVE AgeInv'
  BY <1>19 DEF Serve, vars, keycloak, login, call, Goto, At, Failed, TypeOK,
       KeySet, HandInv, AgeInv, Fresh
<1>20. CASE UNCHANGED vars
  BY <1>20 DEF vars, keycloak, login, call, Goto, At, Failed, TypeOK, KeySet,
       HandInv, AgeInv, Fresh
<1> QED
  BY <1>1, <1>2, <1>3, <1>4, <1>5, <1>6, <1>7, <1>8, <1>9, <1>10, <1>11,
       <1>12, <1>13, <1>14, <1>15, <1>16, <1>17, <1>18, <1>19, <1>20 DEF Next

\* A step keeps what a second verification misses.
LEMMA RetryStep ==
  TypeOK /\ HandInv /\ KeyInv /\ RetryInv /\ [Next]_vars
  => RetryInv'
<1> SUFFICES ASSUME TypeOK, HandInv, KeyInv, RetryInv, [Next]_vars
             PROVE  RetryInv'
  OBVIOUS
<1> USE ConstantFacts
<1>1. ASSUME Tick PROVE RetryInv'
  BY <1>1 DEF Tick, vars, keycloak, login, call, Goto, At, Failed, TypeOK,
       KeySet, HandInv, KeyInv, RetryInv, Excused, Retrying
<1>2. ASSUME Rotate PROVE RetryInv'
  BY <1>2 DEF Rotate, vars, keycloak, login, call, Goto, At, Failed, TypeOK,
       KeySet, HandInv, KeyInv, RetryInv, Excused, Retrying
<1>3. ASSUME Revoke PROVE RetryInv'
  BY <1>3 DEF Revoke, vars, keycloak, login, call, Goto, At, Failed, TypeOK,
       KeySet, HandInv, KeyInv, RetryInv, Excused, Retrying
<1>4. ASSUME NEW k \in Key, Retire(k) PROVE RetryInv'
  BY <1>4 DEF Retire, vars, keycloak, login, call, Goto, At, Failed, TypeOK,
       KeySet, HandInv, KeyInv, RetryInv, Excused, Retrying
<1>5. ASSUME NEW l \in Logins, Begin(l) PROVE RetryInv'
  BY <1>5 DEF Begin, vars, keycloak, login, call, Goto, At, Failed, TypeOK,
       KeySet, HandInv, KeyInv, RetryInv, Excused, Retrying
<1>6. ASSUME NEW l \in Logins, ReadKeys(l) PROVE RetryInv'
  BY <1>6 DEF ReadKeys, vars, keycloak, login, call, Goto, At, Failed,
       TypeOK, KeySet, HandInv, KeyInv, RetryInv, Excused, Retrying
<1>7. ASSUME NEW l \in Logins, Publish(l) PROVE RetryInv'
  BY <1>7 DEF Publish, vars, keycloak, login, call, Goto, At, Failed, TypeOK,
       KeySet, HandInv, KeyInv, RetryInv, Excused, Retrying
<1>8. ASSUME NEW l \in Logins, Arrive(l) PROVE RetryInv'
  BY <1>8 DEF Arrive, vars, keycloak, login, call, Goto, At, Failed, TypeOK,
       KeySet, HandInv, KeyInv, RetryInv, Excused, Retrying
<1>9. ASSUME NEW l \in Logins, FetchFails(l) PROVE RetryInv'
  BY <1>9 DEF FetchFails, vars, keycloak, login, call, Goto, At, Failed,
       TypeOK, KeySet, HandInv, KeyInv, RetryInv, Excused, Retrying
<1>10. ASSUME NEW l \in Logins, Fill(l) PROVE RetryInv'
  BY <1>10 DEF Fill, vars, keycloak, login, call, Goto, At, Failed, TypeOK,
       KeySet, HandInv, KeyInv, RetryInv, Excused, Retrying
<1>11. ASSUME NEW l \in Logins, Check(l) PROVE RetryInv'
  BY <1>11 DEF Check, vars, keycloak, login, call, Goto, At, Failed, TypeOK,
       KeySet, HandInv, KeyInv, RetryInv, Excused, Retrying
<1>12. ASSUME NEW l \in Logins, Clear(l) PROVE RetryInv'
  BY <1>12 DEF Clear, vars, keycloak, login, call, Goto, At, Failed, TypeOK,
       KeySet, HandInv, KeyInv, RetryInv, Excused, Retrying
<1>13. ASSUME NEW c \in Calls, BeginCall(c) PROVE RetryInv'
  BY <1>13 DEF BeginCall, vars, keycloak, login, call, Goto, At, Failed,
       TypeOK, KeySet, HandInv, KeyInv, RetryInv, Excused, Retrying
<1>14. ASSUME NEW c \in Calls, ReadToken(c) PROVE RetryInv'
  BY <1>14 DEF ReadToken, vars, keycloak, login, call, Goto, At, Failed,
       TypeOK, KeySet, HandInv, KeyInv, RetryInv, Excused, Retrying
<1>15. ASSUME NEW c \in Calls, Issue(c) PROVE RetryInv'
  BY <1>15 DEF Issue, vars, keycloak, login, call, Goto, At, Failed, TypeOK,
       KeySet, HandInv, KeyInv, RetryInv, Excused, Retrying
<1>16. ASSUME NEW c \in Calls, Receive(c) PROVE RetryInv'
  BY <1>16 DEF Receive, vars, keycloak, login, call, Goto, At, Failed,
       TypeOK, KeySet, HandInv, KeyInv, RetryInv, Excused, Retrying
<1>17. ASSUME NEW c \in Calls, AskFails(c) PROVE RetryInv'
  BY <1>17 DEF AskFails, vars, keycloak, login, call, Goto, At, Failed,
       TypeOK, KeySet, HandInv, KeyInv, RetryInv, Excused, Retrying
<1>18. ASSUME NEW c \in Calls, Keep(c) PROVE RetryInv'
  BY <1>18 DEF Keep, vars, keycloak, login, call, Goto, At, Failed, TypeOK,
       KeySet, HandInv, KeyInv, RetryInv, Excused, Retrying
<1>19. ASSUME NEW c \in Calls, Serve(c) PROVE RetryInv'
  BY <1>19 DEF Serve, vars, keycloak, login, call, Goto, At, Failed, TypeOK,
       KeySet, HandInv, KeyInv, RetryInv, Excused, Retrying
<1>20. CASE UNCHANGED vars
  BY <1>20 DEF vars, keycloak, login, call, Goto, At, Failed, TypeOK, KeySet,
       HandInv, KeyInv, RetryInv, Excused, Retrying
<1> QED
  BY <1>1, <1>2, <1>3, <1>4, <1>5, <1>6, <1>7, <1>8, <1>9, <1>10, <1>11,
       <1>12, <1>13, <1>14, <1>15, <1>16, <1>17, <1>18, <1>19, <1>20 DEF Next

\* A step refuses no login without a reason.
LEMMA GenuineStep ==
  TypeOK /\ HandInv /\ KeyInv /\ RetryInv /\ GenuineAccepted /\ [Next]_vars
  => GenuineAccepted'
<1> SUFFICES ASSUME TypeOK, HandInv, KeyInv, RetryInv, GenuineAccepted, [Next]_vars
             PROVE  GenuineAccepted'
  OBVIOUS
<1> USE ConstantFacts
<1>1. ASSUME Tick PROVE GenuineAccepted'
  BY <1>1 DEF Tick, vars, keycloak, login, call, Goto, At, Failed, TypeOK,
       KeySet, HandInv, KeyInv, RetryInv, Excused, GenuineAccepted, Retrying
<1>2. ASSUME Rotate PROVE GenuineAccepted'
  BY <1>2 DEF Rotate, vars, keycloak, login, call, Goto, At, Failed, TypeOK,
       KeySet, HandInv, KeyInv, RetryInv, Excused, GenuineAccepted, Retrying
<1>3. ASSUME Revoke PROVE GenuineAccepted'
  BY <1>3 DEF Revoke, vars, keycloak, login, call, Goto, At, Failed, TypeOK,
       KeySet, HandInv, KeyInv, RetryInv, Excused, GenuineAccepted, Retrying
<1>4. ASSUME NEW k \in Key, Retire(k) PROVE GenuineAccepted'
  BY <1>4 DEF Retire, vars, keycloak, login, call, Goto, At, Failed, TypeOK,
       KeySet, HandInv, KeyInv, RetryInv, Excused, GenuineAccepted, Retrying
<1>5. ASSUME NEW l \in Logins, Begin(l) PROVE GenuineAccepted'
  BY <1>5 DEF Begin, vars, keycloak, login, call, Goto, At, Failed, TypeOK,
       KeySet, HandInv, KeyInv, RetryInv, Excused, GenuineAccepted, Retrying
<1>6. ASSUME NEW l \in Logins, ReadKeys(l) PROVE GenuineAccepted'
  BY <1>6 DEF ReadKeys, vars, keycloak, login, call, Goto, At, Failed,
       TypeOK, KeySet, HandInv, KeyInv, RetryInv, Excused, GenuineAccepted,
       Retrying
<1>7. ASSUME NEW l \in Logins, Publish(l) PROVE GenuineAccepted'
  BY <1>7 DEF Publish, vars, keycloak, login, call, Goto, At, Failed, TypeOK,
       KeySet, HandInv, KeyInv, RetryInv, Excused, GenuineAccepted, Retrying
<1>8. ASSUME NEW l \in Logins, Arrive(l) PROVE GenuineAccepted'
  BY <1>8 DEF Arrive, vars, keycloak, login, call, Goto, At, Failed, TypeOK,
       KeySet, HandInv, KeyInv, RetryInv, Excused, GenuineAccepted, Retrying
<1>9. ASSUME NEW l \in Logins, FetchFails(l) PROVE GenuineAccepted'
  BY <1>9 DEF FetchFails, vars, keycloak, login, call, Goto, At, Failed,
       TypeOK, KeySet, HandInv, KeyInv, RetryInv, Excused, GenuineAccepted,
       Retrying
<1>10. ASSUME NEW l \in Logins, Fill(l) PROVE GenuineAccepted'
  BY <1>10 DEF Fill, vars, keycloak, login, call, Goto, At, Failed, TypeOK,
       KeySet, HandInv, KeyInv, RetryInv, Excused, GenuineAccepted, Retrying
<1>11. ASSUME NEW l \in Logins, Check(l) PROVE GenuineAccepted'
  BY <1>11 DEF Check, vars, keycloak, login, call, Goto, At, Failed, TypeOK,
       KeySet, HandInv, KeyInv, RetryInv, Excused, GenuineAccepted, Retrying
<1>12. ASSUME NEW l \in Logins, Clear(l) PROVE GenuineAccepted'
  BY <1>12 DEF Clear, vars, keycloak, login, call, Goto, At, Failed, TypeOK,
       KeySet, HandInv, KeyInv, RetryInv, Excused, GenuineAccepted, Retrying
<1>13. ASSUME NEW c \in Calls, BeginCall(c) PROVE GenuineAccepted'
  BY <1>13 DEF BeginCall, vars, keycloak, login, call, Goto, At, Failed,
       TypeOK, KeySet, HandInv, KeyInv, RetryInv, Excused, GenuineAccepted,
       Retrying
<1>14. ASSUME NEW c \in Calls, ReadToken(c) PROVE GenuineAccepted'
  BY <1>14 DEF ReadToken, vars, keycloak, login, call, Goto, At, Failed,
       TypeOK, KeySet, HandInv, KeyInv, RetryInv, Excused, GenuineAccepted,
       Retrying
<1>15. ASSUME NEW c \in Calls, Issue(c) PROVE GenuineAccepted'
  BY <1>15 DEF Issue, vars, keycloak, login, call, Goto, At, Failed, TypeOK,
       KeySet, HandInv, KeyInv, RetryInv, Excused, GenuineAccepted, Retrying
<1>16. ASSUME NEW c \in Calls, Receive(c) PROVE GenuineAccepted'
  BY <1>16 DEF Receive, vars, keycloak, login, call, Goto, At, Failed,
       TypeOK, KeySet, HandInv, KeyInv, RetryInv, Excused, GenuineAccepted,
       Retrying
<1>17. ASSUME NEW c \in Calls, AskFails(c) PROVE GenuineAccepted'
  BY <1>17 DEF AskFails, vars, keycloak, login, call, Goto, At, Failed,
       TypeOK, KeySet, HandInv, KeyInv, RetryInv, Excused, GenuineAccepted,
       Retrying
<1>18. ASSUME NEW c \in Calls, Keep(c) PROVE GenuineAccepted'
  BY <1>18 DEF Keep, vars, keycloak, login, call, Goto, At, Failed, TypeOK,
       KeySet, HandInv, KeyInv, RetryInv, Excused, GenuineAccepted, Retrying
<1>19. ASSUME NEW c \in Calls, Serve(c) PROVE GenuineAccepted'
  BY <1>19 DEF Serve, vars, keycloak, login, call, Goto, At, Failed, TypeOK,
       KeySet, HandInv, KeyInv, RetryInv, Excused, GenuineAccepted, Retrying
<1>20. CASE UNCHANGED vars
  BY <1>20 DEF vars, keycloak, login, call, Goto, At, Failed, TypeOK, KeySet,
       HandInv, KeyInv, RetryInv, Excused, GenuineAccepted, Retrying
<1> QED
  BY <1>1, <1>2, <1>3, <1>4, <1>5, <1>6, <1>7, <1>8, <1>9, <1>10, <1>11,
       <1>12, <1>13, <1>14, <1>15, <1>16, <1>17, <1>18, <1>19, <1>20 DEF Next

\* A step accepts no key that was retired long before.
LEMMA RetiredStep ==
  TypeOK /\ HandInv /\ KeyInv /\ AgeInv /\ RetiredRefused /\ [Next]_vars
  => RetiredRefused'
<1> SUFFICES ASSUME TypeOK, HandInv, KeyInv, AgeInv, RetiredRefused, [Next]_vars
             PROVE  RetiredRefused'
  OBVIOUS
<1> USE ConstantFacts
<1>1. ASSUME Tick PROVE RetiredRefused'
  BY <1>1 DEF Tick, vars, keycloak, login, call, Goto, At, Failed, TypeOK,
       KeySet, HandInv, KeyInv, AgeInv, Sampled, RetiredRefused
<1>2. ASSUME Rotate PROVE RetiredRefused'
  BY <1>2 DEF Rotate, vars, keycloak, login, call, Goto, At, Failed, TypeOK,
       KeySet, HandInv, KeyInv, AgeInv, Sampled, RetiredRefused
<1>3. ASSUME Revoke PROVE RetiredRefused'
  BY <1>3 DEF Revoke, vars, keycloak, login, call, Goto, At, Failed, TypeOK,
       KeySet, HandInv, KeyInv, AgeInv, Sampled, RetiredRefused
<1>4. ASSUME NEW k \in Key, Retire(k) PROVE RetiredRefused'
  BY <1>4 DEF Retire, vars, keycloak, login, call, Goto, At, Failed, TypeOK,
       KeySet, HandInv, KeyInv, AgeInv, Sampled, RetiredRefused
<1>5. ASSUME NEW l \in Logins, Begin(l) PROVE RetiredRefused'
  BY <1>5 DEF Begin, vars, keycloak, login, call, Goto, At, Failed, TypeOK,
       KeySet, HandInv, KeyInv, AgeInv, Sampled, RetiredRefused
<1>6. ASSUME NEW l \in Logins, ReadKeys(l) PROVE RetiredRefused'
  BY <1>6 DEF ReadKeys, vars, keycloak, login, call, Goto, At, Failed,
       TypeOK, KeySet, HandInv, KeyInv, AgeInv, Sampled, RetiredRefused
<1>7. ASSUME NEW l \in Logins, Publish(l) PROVE RetiredRefused'
  BY <1>7 DEF Publish, vars, keycloak, login, call, Goto, At, Failed, TypeOK,
       KeySet, HandInv, KeyInv, AgeInv, Sampled, RetiredRefused
<1>8. ASSUME NEW l \in Logins, Arrive(l) PROVE RetiredRefused'
  BY <1>8 DEF Arrive, vars, keycloak, login, call, Goto, At, Failed, TypeOK,
       KeySet, HandInv, KeyInv, AgeInv, Sampled, RetiredRefused
<1>9. ASSUME NEW l \in Logins, FetchFails(l) PROVE RetiredRefused'
  BY <1>9 DEF FetchFails, vars, keycloak, login, call, Goto, At, Failed,
       TypeOK, KeySet, HandInv, KeyInv, AgeInv, Sampled, RetiredRefused
<1>10. ASSUME NEW l \in Logins, Fill(l) PROVE RetiredRefused'
  BY <1>10 DEF Fill, vars, keycloak, login, call, Goto, At, Failed, TypeOK,
       KeySet, HandInv, KeyInv, AgeInv, Sampled, RetiredRefused
<1>11. ASSUME NEW l \in Logins, Check(l) PROVE RetiredRefused'
  <2> USE DEF At
  <2> SUFFICES ASSUME NEW m \in Logins, At(m, "accepted")', (signed[m] \notin published)'
               PROVE  (got[m] <= retired[signed[m]] + Age + (hand[m].at - hand[m].sampled))'
    BY DEF RetiredRefused
  <2>1. UNCHANGED <<now, signing, published, retired, signed, hand, got>>
    BY <1>11 DEF Check, keycloak, login
  <2>2. CASE m # l
    BY <1>11, <2>1, <2>2 DEF Check, Goto, Failed, TypeOK, RetiredRefused
  <2>3. CASE m = l
    <3>1. signed[l] \in hand[l].keys
      BY <1>11, <2>3 DEF Check, Goto, Failed, TypeOK
    <3>2. Sampled(hand[l]) /\ hand[l] \in KeySet /\ got[l] <= hand[l].at + Age
      BY <1>11 DEF Check, HandInv, KeyInv, AgeInv, TypeOK
    <3>3. retired[signed[l]] \in Nat /\ hand[l].sampled <= retired[signed[l]]
      BY <2>1, <2>3, <3>1, <3>2 DEF Sampled
    <3> QED
      BY <2>1, <2>3, <3>2, <3>3 DEF KeySet, TypeOK
  <2> QED
    BY <2>2, <2>3
<1>12. ASSUME NEW l \in Logins, Clear(l) PROVE RetiredRefused'
  BY <1>12 DEF Clear, vars, keycloak, login, call, Goto, At, Failed, TypeOK,
       KeySet, HandInv, KeyInv, AgeInv, Sampled, RetiredRefused
<1>13. ASSUME NEW c \in Calls, BeginCall(c) PROVE RetiredRefused'
  BY <1>13 DEF BeginCall, vars, keycloak, login, call, Goto, At, Failed,
       TypeOK, KeySet, HandInv, KeyInv, AgeInv, Sampled, RetiredRefused
<1>14. ASSUME NEW c \in Calls, ReadToken(c) PROVE RetiredRefused'
  BY <1>14 DEF ReadToken, vars, keycloak, login, call, Goto, At, Failed,
       TypeOK, KeySet, HandInv, KeyInv, AgeInv, Sampled, RetiredRefused
<1>15. ASSUME NEW c \in Calls, Issue(c) PROVE RetiredRefused'
  BY <1>15 DEF Issue, vars, keycloak, login, call, Goto, At, Failed, TypeOK,
       KeySet, HandInv, KeyInv, AgeInv, Sampled, RetiredRefused
<1>16. ASSUME NEW c \in Calls, Receive(c) PROVE RetiredRefused'
  BY <1>16 DEF Receive, vars, keycloak, login, call, Goto, At, Failed,
       TypeOK, KeySet, HandInv, KeyInv, AgeInv, Sampled, RetiredRefused
<1>17. ASSUME NEW c \in Calls, AskFails(c) PROVE RetiredRefused'
  BY <1>17 DEF AskFails, vars, keycloak, login, call, Goto, At, Failed,
       TypeOK, KeySet, HandInv, KeyInv, AgeInv, Sampled, RetiredRefused
<1>18. ASSUME NEW c \in Calls, Keep(c) PROVE RetiredRefused'
  BY <1>18 DEF Keep, vars, keycloak, login, call, Goto, At, Failed, TypeOK,
       KeySet, HandInv, KeyInv, AgeInv, Sampled, RetiredRefused
<1>19. ASSUME NEW c \in Calls, Serve(c) PROVE RetiredRefused'
  BY <1>19 DEF Serve, vars, keycloak, login, call, Goto, At, Failed, TypeOK,
       KeySet, HandInv, KeyInv, AgeInv, Sampled, RetiredRefused
<1>20. CASE UNCHANGED vars
  BY <1>20 DEF vars, keycloak, login, call, Goto, At, Failed, TypeOK, KeySet,
       HandInv, KeyInv, AgeInv, Sampled, RetiredRefused
<1> QED
  BY <1>1, <1>2, <1>3, <1>4, <1>5, <1>6, <1>7, <1>8, <1>9, <1>10, <1>11,
       <1>12, <1>13, <1>14, <1>15, <1>16, <1>17, <1>18, <1>19, <1>20 DEF Next

\* A step keeps what is known of a token.
LEMMA TokenStep == TypeOK /\ HandInv /\ TokenInv /\ [Next]_vars => TokenInv'
<1> SUFFICES ASSUME TypeOK, HandInv, TokenInv, [Next]_vars PROVE TokenInv'
  OBVIOUS
<1> USE ConstantFacts, ExpiryType
<1>1. ASSUME Tick PROVE TokenInv'
  BY <1>1 DEF Tick, vars, keycloak, login, call, Goto, At, Failed, TypeOK,
       Grant, Entry, HandInv, TokenInv, Granted
<1>2. ASSUME Rotate PROVE TokenInv'
  BY <1>2 DEF Rotate, vars, keycloak, login, call, Goto, At, Failed, TypeOK,
       Grant, Entry, HandInv, TokenInv, Granted
<1>3. ASSUME Revoke PROVE TokenInv'
  BY <1>3 DEF Revoke, vars, keycloak, login, call, Goto, At, Failed, TypeOK,
       Grant, Entry, HandInv, TokenInv, Granted
<1>4. ASSUME NEW k \in Key, Retire(k) PROVE TokenInv'
  BY <1>4 DEF Retire, vars, keycloak, login, call, Goto, At, Failed, TypeOK,
       Grant, Entry, HandInv, TokenInv, Granted
<1>5. ASSUME NEW l \in Logins, Begin(l) PROVE TokenInv'
  BY <1>5 DEF Begin, vars, keycloak, login, call, Goto, At, Failed, TypeOK,
       Grant, Entry, HandInv, TokenInv, Granted
<1>6. ASSUME NEW l \in Logins, ReadKeys(l) PROVE TokenInv'
  BY <1>6 DEF ReadKeys, vars, keycloak, login, call, Goto, At, Failed,
       TypeOK, Grant, Entry, HandInv, TokenInv, Granted
<1>7. ASSUME NEW l \in Logins, Publish(l) PROVE TokenInv'
  BY <1>7 DEF Publish, vars, keycloak, login, call, Goto, At, Failed, TypeOK,
       Grant, Entry, HandInv, TokenInv, Granted
<1>8. ASSUME NEW l \in Logins, Arrive(l) PROVE TokenInv'
  BY <1>8 DEF Arrive, vars, keycloak, login, call, Goto, At, Failed, TypeOK,
       Grant, Entry, HandInv, TokenInv, Granted
<1>9. ASSUME NEW l \in Logins, FetchFails(l) PROVE TokenInv'
  BY <1>9 DEF FetchFails, vars, keycloak, login, call, Goto, At, Failed,
       TypeOK, Grant, Entry, HandInv, TokenInv, Granted
<1>10. ASSUME NEW l \in Logins, Fill(l) PROVE TokenInv'
  BY <1>10 DEF Fill, vars, keycloak, login, call, Goto, At, Failed, TypeOK,
       Grant, Entry, HandInv, TokenInv, Granted
<1>11. ASSUME NEW l \in Logins, Check(l) PROVE TokenInv'
  BY <1>11 DEF Check, vars, keycloak, login, call, Goto, At, Failed, TypeOK,
       Grant, Entry, HandInv, TokenInv, Granted
<1>12. ASSUME NEW l \in Logins, Clear(l) PROVE TokenInv'
  BY <1>12 DEF Clear, vars, keycloak, login, call, Goto, At, Failed, TypeOK,
       Grant, Entry, HandInv, TokenInv, Granted
<1>13. ASSUME NEW c \in Calls, BeginCall(c) PROVE TokenInv'
  BY <1>13 DEF BeginCall, vars, keycloak, login, call, Goto, At, Failed,
       TypeOK, Grant, Entry, HandInv, TokenInv, Granted
<1>14. ASSUME NEW c \in Calls, ReadToken(c) PROVE TokenInv'
  <2>1. CASE tokens # None /\ now < tokens.expires
    BY <1>14, <2>1 DEF ReadToken, vars, keycloak, login, call, Goto, At,
         Failed, TypeOK, Grant, Entry, TokenInv, Granted
  <2>2. CASE ~(tokens # None /\ now < tokens.expires)
    BY <1>14, <2>2 DEF ReadToken, vars, keycloak, login, call, Goto, At,
         Failed, TypeOK, Grant, Entry, TokenInv, Granted
  <2> QED
    BY <2>1, <2>2
<1>15. ASSUME NEW c \in Calls, Issue(c) PROVE TokenInv'
  BY <1>15 DEF Issue, vars, keycloak, login, call, Goto, At, Failed, TypeOK,
       Grant, Entry, HandInv, TokenInv, Granted
<1>16. ASSUME NEW c \in Calls, Receive(c) PROVE TokenInv'
  BY <1>16 DEF Receive, vars, keycloak, login, call, Goto, At, Failed,
       TypeOK, Grant, Entry, HandInv, TokenInv, Granted
<1>17. ASSUME NEW c \in Calls, AskFails(c) PROVE TokenInv'
  BY <1>17 DEF AskFails, vars, keycloak, login, call, Goto, At, Failed,
       TypeOK, Grant, Entry, HandInv, TokenInv, Granted
<1>18. ASSUME NEW c \in Calls, Keep(c) PROVE TokenInv'
  BY <1>18 DEF Keep, vars, keycloak, login, call, Goto, At, Failed, TypeOK,
       Grant, Entry, HandInv, TokenInv, Granted
<1>19. ASSUME NEW c \in Calls, Serve(c) PROVE TokenInv'
  BY <1>19 DEF Serve, vars, keycloak, login, call, Goto, At, Failed, TypeOK,
       Grant, Entry, HandInv, TokenInv, Granted
<1>20. CASE UNCHANGED vars
  BY <1>20 DEF vars, keycloak, login, call, Goto, At, Failed, TypeOK, Grant,
       Entry, HandInv, TokenInv, Granted
<1> QED
  BY <1>1, <1>2, <1>3, <1>4, <1>5, <1>6, <1>7, <1>8, <1>9, <1>10, <1>11,
       <1>12, <1>13, <1>14, <1>15, <1>16, <1>17, <1>18, <1>19, <1>20 DEF Next

\* What TokenUsable says of a refusal: of the token, of when the call got it and
\* of when it reached Keycloak.
Excusable(t, g, a) ==
  LET way == t.answered - t.issued
      took == way + (a - g)
  IN  \/ took > Margin \/ took >= t.life
      \/ t.epoch # epoch /\ g <= revokedAt + way + Monus(t.life, Margin)

LEMMA UsableMeans ==
  TokenUsable <=> \A c \in Calls : At(c, "refused") => Excusable(held[c], got[c], arrived[c])
BY DEF TokenUsable, Excusable

\* A token that Keycloak refuses took too long, or was revoked.
LEMMA RefusalExcused ==
  ASSUME NEW t \in Grant, NEW g \in Nat, TypeOK, TokenInv, Granted(t), ~Good(t),
         t.answered <= g, g <= now, g = t.answered \/ g < Expiry(t)
  PROVE  Excusable(t, g, now)
<1> USE ConstantFacts
<1>1. /\ t.issued \in Nat /\ t.life \in Nat /\ t.epoch \in Nat /\ t.answered \in Nat
      /\ now \in Nat /\ epoch \in Nat /\ revokedAt \in Nat
  BY DEF Grant, TypeOK
<1>2. CASE t.epoch # epoch
  <2>1. t.issued <= revokedAt
    BY <1>2 DEF Granted
  <2>2. Monus(t.life, Margin) \in Nat /\ g <= t.answered + Monus(t.life, Margin)
    BY <1>1 DEF Expiry, Monus
  <2> QED
    BY <1>1, <1>2, <2>1, <2>2 DEF Excusable
<1>3. CASE t.epoch = epoch
  <2>1. now >= t.issued + t.life
    BY <1>1, <1>3 DEF Good
  <2>2. CASE g = t.answered
    BY <1>1, <2>1, <2>2 DEF Excusable
  <2>3. CASE g < Expiry(t) /\ g # t.answered
    BY <1>1, <2>1, <2>3 DEF Excusable, Expiry, Monus
  <2> QED
    BY <2>2, <2>3
<1> QED
  BY <1>2, <1>3

\* A step refuses no token without a reason.
LEMMA UsableStep ==
  TypeOK /\ HandInv /\ TokenInv /\ TokenUsable /\ [Next]_vars
  => TokenUsable'
<1> SUFFICES ASSUME TypeOK, HandInv, TokenInv, TokenUsable, [Next]_vars
             PROVE  TokenUsable'
  OBVIOUS
<1> USE ConstantFacts
<1>1. ASSUME Tick PROVE TokenUsable'
  BY <1>1 DEF Tick, vars, keycloak, login, call, Goto, At, Failed, TypeOK,
       TokenUsable
<1>2. ASSUME Rotate PROVE TokenUsable'
  BY <1>2 DEF Rotate, vars, keycloak, login, call, Goto, At, Failed, TypeOK,
       TokenUsable
<1>3. ASSUME Revoke PROVE TokenUsable'
  <2> SUFFICES ASSUME NEW d \in Calls, At(d, "refused")
               PROVE  Excusable(held[d], got[d], arrived[d])'
    BY <1>3 DEF Revoke, TokenUsable, Excusable, At, call, vars
  <2>1. Excusable(held[d], got[d], arrived[d])
    BY UsableMeans
  <2>2. held[d] \in Grant
    BY DEF At, HandInv
  <2>3. /\ held[d].issued \in Nat /\ held[d].life \in Nat /\ held[d].epoch \in Nat
        /\ held[d].answered \in Nat /\ got[d] \in Nat /\ arrived[d] \in Nat
        /\ epoch \in Nat /\ revokedAt \in Nat /\ now \in Nat
        /\ Monus(held[d].life, Margin) \in Nat
    BY <2>2 DEF Grant, TypeOK, Monus
  <2>4. revokedAt <= now /\ held[d].epoch <= epoch /\ epoch' = epoch + 1 /\ revokedAt' = now
        /\ UNCHANGED <<held, got, arrived>>
    BY <1>3 DEF Revoke, TokenInv, Granted, At, call
  <2> QED
    BY <2>1, <2>3, <2>4 DEF Excusable
<1>4. ASSUME NEW k \in Key, Retire(k) PROVE TokenUsable'
  BY <1>4 DEF Retire, vars, keycloak, login, call, Goto, At, Failed, TypeOK,
       TokenUsable
<1>5. ASSUME NEW l \in Logins, Begin(l) PROVE TokenUsable'
  BY <1>5 DEF Begin, vars, keycloak, login, call, Goto, At, Failed, TypeOK,
       TokenUsable
<1>6. ASSUME NEW l \in Logins, ReadKeys(l) PROVE TokenUsable'
  BY <1>6 DEF ReadKeys, vars, keycloak, login, call, Goto, At, Failed,
       TypeOK, TokenUsable
<1>7. ASSUME NEW l \in Logins, Publish(l) PROVE TokenUsable'
  BY <1>7 DEF Publish, vars, keycloak, login, call, Goto, At, Failed, TypeOK,
       TokenUsable
<1>8. ASSUME NEW l \in Logins, Arrive(l) PROVE TokenUsable'
  BY <1>8 DEF Arrive, vars, keycloak, login, call, Goto, At, Failed, TypeOK,
       TokenUsable
<1>9. ASSUME NEW l \in Logins, FetchFails(l) PROVE TokenUsable'
  BY <1>9 DEF FetchFails, vars, keycloak, login, call, Goto, At, Failed,
       TypeOK, TokenUsable
<1>10. ASSUME NEW l \in Logins, Fill(l) PROVE TokenUsable'
  BY <1>10 DEF Fill, vars, keycloak, login, call, Goto, At, Failed, TypeOK,
       TokenUsable
<1>11. ASSUME NEW l \in Logins, Check(l) PROVE TokenUsable'
  BY <1>11 DEF Check, vars, keycloak, login, call, Goto, At, Failed, TypeOK,
       TokenUsable
<1>12. ASSUME NEW l \in Logins, Clear(l) PROVE TokenUsable'
  BY <1>12 DEF Clear, vars, keycloak, login, call, Goto, At, Failed, TypeOK,
       TokenUsable
<1>13. ASSUME NEW c \in Calls, BeginCall(c) PROVE TokenUsable'
  BY <1>13 DEF BeginCall, vars, keycloak, login, call, Goto, At, Failed,
       TypeOK, TokenUsable
<1>14. ASSUME NEW c \in Calls, ReadToken(c) PROVE TokenUsable'
  <2> SUFFICES ASSUME NEW d \in Calls, At(d, "refused")'
               PROVE  Excusable(held[d], got[d], arrived[d])'
    BY DEF TokenUsable, Excusable
  <2>1. /\ At(d, "refused") /\ UNCHANGED <<epoch, revokedAt>>
        /\ held'[d] = held[d] /\ got'[d] = got[d] /\ arrived'[d] = arrived[d]
    BY <1>14 DEF ReadToken, Goto, At, keycloak, TypeOK
  <2> QED
    BY <2>1, UsableMeans DEF Excusable
<1>15. ASSUME NEW c \in Calls, Issue(c) PROVE TokenUsable'
  BY <1>15 DEF Issue, vars, keycloak, login, call, Goto, At, Failed, TypeOK,
       TokenUsable
<1>16. ASSUME NEW c \in Calls, Receive(c) PROVE TokenUsable'
  BY <1>16 DEF Receive, vars, keycloak, login, call, Goto, At, Failed,
       TypeOK, TokenUsable
<1>17. ASSUME NEW c \in Calls, AskFails(c) PROVE TokenUsable'
  BY <1>17 DEF AskFails, vars, keycloak, login, call, Goto, At, Failed,
       TypeOK, TokenUsable
<1>18. ASSUME NEW c \in Calls, Keep(c) PROVE TokenUsable'
  BY <1>18 DEF Keep, vars, keycloak, login, call, Goto, At, Failed, TypeOK,
       TokenUsable
<1>19. ASSUME NEW c \in Calls, Serve(c) PROVE TokenUsable'
  <2> SUFFICES ASSUME NEW d \in Calls, At(d, "refused")'
               PROVE  Excusable(held[d], got[d], arrived[d])'
    BY DEF TokenUsable, Excusable
  <2>1. UNCHANGED <<epoch, revokedAt, held, got>>
    BY <1>19 DEF Serve, keycloak
  <2>2. CASE d # c
    <3>1. At(d, "refused") /\ arrived'[d] = arrived[d]
      BY <1>19, <2>2 DEF Serve, Goto, At, TypeOK
    <3> QED
      BY <2>1, <3>1, UsableMeans DEF Excusable
  <2>3. CASE d = c
    <3>1. ~Good(held[c]) /\ arrived'[c] = now /\ At(c, "send")
      BY <1>19, <2>3 DEF Serve, Goto, At, TypeOK
    <3>2. held[c] \in Grant /\ Granted(held[c]) /\ held[c].answered <= got[c] /\ got[c] <= now
          /\ (got[c] = held[c].answered \/ got[c] < Expiry(held[c]))
          /\ got[c] \in Nat
      BY <3>1 DEF At, HandInv, TokenInv, TypeOK
    <3>3. Excusable(held[c], got[c], now)
      BY <3>1, <3>2, RefusalExcused
    <3> QED
      BY <2>1, <2>3, <3>1, <3>3 DEF Excusable
  <2> QED
    BY <2>2, <2>3
<1>20. CASE UNCHANGED vars
  BY <1>20 DEF vars, keycloak, login, call, Goto, At, Failed, TypeOK,
       TokenUsable
<1> QED
  BY <1>1, <1>2, <1>3, <1>4, <1>5, <1>6, <1>7, <1>8, <1>9, <1>10, <1>11,
       <1>12, <1>13, <1>14, <1>15, <1>16, <1>17, <1>18, <1>19, <1>20 DEF Next

----------------------------------------------------------------------------
(* The theorems.                                                           *)

\* A step keeps the invariant.
LEMMA CStep == CInv /\ [Next]_vars => CInv'
BY TypeStep, HandStep, KeyStep, AgeStep, RetryStep, GenuineStep, RetiredStep,
   TokenStep, UsableStep DEF CInv

\* The process starts with empty caches.
LEMMA CInit == Init => CInv
<1> SUFFICES ASSUME Init PROVE CInv
  OBVIOUS
<1> USE ConstantFacts
<1>1. TypeOK
  BY DEF Init, TypeOK, KeySet, Grant, Entry, Key, LoginControl
<1>2. HandInv /\ GenuineAccepted /\ RetiredRefused /\ TokenUsable
  BY DEF Init, At, HandInv, GenuineAccepted, RetiredRefused, TokenUsable
<1>3. KeyInv /\ AgeInv /\ RetryInv /\ TokenInv
  BY DEF Init, At, KeyInv, AgeInv, RetryInv, TokenInv
<1> QED
  BY <1>1, <1>2, <1>3 DEF CInv

\* Every reachable state satisfies the invariant.
THEOREM Invariance == Spec => []CInv
BY CInit, CStep, PTL DEF Spec

\* The caches, the logins and the calls keep the shape of the code's types.
THEOREM CachesTyped == Spec => []TypeOK
BY Invariance, PTL DEF CInv

\* Verification follows Keycloak's keys: no login is refused without a reason,
\* and no retired key is accepted for longer than a key set is used.
THEOREM LoginsFollowKeys == Spec => []KeysFollowed
<1>1. CInv => KeysFollowed
  BY DEF CInv, KeysFollowed
<1> QED
  BY <1>1, Invariance, PTL

\* Keycloak takes the service's own token unless it travelled for longer than
\* the margin or was revoked.
THEOREM TokensUsable == Spec => []TokenUsable
BY Invariance, PTL DEF CInv

=============================================================================
