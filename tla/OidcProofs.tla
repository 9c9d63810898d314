----------------------------- MODULE OidcProofs -----------------------------
(***************************************************************************)
(* What Verify promises about good and bad tokens through rotations and    *)
(* outages, for every number of callers and keys and every setting.        *)
(***************************************************************************)
EXTENDS Oidc, TLAPS

\* A process that does not run holds no key, no fetch and no call.
Quiet ==
  proc # "running" =>
    /\ cached = {} /\ fetch = "none" /\ reply = Nothing
    /\ \A c \in Callers : pc[c] = "idle" /\ result[c] = Nothing /\ verdict[c] = "none"
    /\ owed = {} /\ warm = {}

\* Every key held anywhere was seen, and every key seen was published.
KeysKnown ==
  /\ published \cap retired = {}
  /\ steady \subseteq published
  /\ seen \subseteq published \cup retired
  /\ cached \subseteq seen /\ reply.keys \subseteq seen
  /\ proc = "running" => published \subseteq seen
  /\ \A c \in Callers : result[c].keys \subseteq seen

\* A key set on its way is no older than the steady keys and than the cache.
ReplyFresh ==
  fetch \in {"replied", "done"} /\ reply.failure = "none" =>
    steady \subseteq reply.keys /\ cached \cap published \subseteq reply.keys

\* Only an answer carries a verdict, a waiting caller has a fetch, and one
\* whose signature held presents a key the provider published.
CallsOrdered ==
  \A c \in Callers :
    /\ verdict[c] # "none" => pc[c] = "done"
    /\ pc[c] = "waiting" => fetch \in {"asking", "replied"}
    /\ pc[c] \in {"remote", "waiting", "received", "signed"} => token[c].flaw # "invalid"
    /\ pc[c] = "signed" => token[c].flaw # "forged" /\ token[c].key \in seen

\* The key of a caller that is owed is in whatever key set it will be given.
Owing ==
  \A c \in owed :
    /\ pc[c] # "done" => token[c].key \in published
    /\ pc[c] \in {"lookup", "remote", "waiting"} /\ fetch \in {"replied", "done"}
         /\ reply.failure = "none" => token[c].key \in reply.keys
    /\ pc[c] = "received" /\ result[c].failure = "none" => token[c].key \in result[c].keys

\* A good token whose key was cached never gets as far as a fetch.
Warmth ==
  \A c \in warm :
    Sound(token[c]) =>
      /\ pc[c] \in {"lookup", "signed", "done"}
      /\ pc[c] # "done" => token[c].key \in published
      /\ pc[c] = "lookup" => token[c].key \in cached

Promises == PublishedKeyNotRefused /\ LearnedKeySurvivesOutage /\ AcceptedIsTrusted

IInv ==
  /\ TypeOK /\ Quiet /\ KeysKnown /\ ReplyFresh /\ CallsOrdered /\ Owing /\ Warmth
  /\ Promises

-----------------------------------------------------------------------------

\* The three failures that come from the provider or the context are never
\* taken for a refusal, and the two that come from the token always are.
LEMMA Classified ==
  /\ \A why \in {"unreachable", "undecodable", "context"} : classify(why) = "unavailable"
  /\ \A why \in {"signature", "claims"} : classify(why) = "unauthorized"
<1>1. "fetching keys" \in transportFailures
  BY DEF transportFailures
<1>2. \A why \in {"unreachable", "undecodable", "context"} : "fetching keys" \in Texts(why)
  BY DEF Texts
<1>3. \A why \in {"signature", "claims"} : Texts(why) = {}
  BY DEF Texts
<1> QED
  BY <1>1, <1>2, <1>3 DEF classify

LEMMA InitIInv == Init => IInv
BY TokensAssumption, HoldingsAssumption, InitiallyAssumption
DEF Init, IInv, TypeOK, Quiet, KeysKnown, ReplyFresh, CallsOrdered, Owing, Warmth, Promises,
    PublishedKeyNotRefused, LearnedKeySurvivesOutage, AcceptedIsTrusted, Answers, Nothing

LEMMA StepIInv == IInv /\ [Next]_vars => IInv'
<1> SUFFICES ASSUME IInv, [Next]_vars PROVE IInv'
  OBVIOUS
<1> USE TokensAssumption
    DEF IInv, TypeOK, Quiet, KeysKnown, ReplyFresh, CallsOrdered, Owing, Warmth, Promises,
    PublishedKeyNotRefused, LearnedKeySurvivesOutage, AcceptedIsTrusted, Answers, Nothing, Failed,
    vars, providerVars, bootVars, fetchVars, callVars, history
<1>1. CASE Outage
  BY <1>1 DEF Outage
<1>2. CASE Start
  BY <1>2 DEF Start
<1>3. CASE DiscoverySucceeds
  BY <1>3 DEF DiscoverySucceeds
<1>4. CASE DiscoveryFails
  BY <1>4 DEF DiscoveryFails
<1>5. CASE BackoffElapses
  BY <1>5 DEF BackoffElapses
<1>6. CASE ClockExpires
  BY <1>6 DEF ClockExpires
<1>7. CASE GiveUp
  BY <1>7 DEF GiveUp
<1>8. CASE Crash
  BY <1>8 DEF Crash
<1>9. CASE Ask
  BY <1>9 DEF Ask
<1>10. CASE FetchTimesOut
  BY <1>10 DEF FetchTimesOut
<1>11. CASE FetchDone
  BY <1>11 DEF FetchDone
<1>12. CASE FetchStore
  BY <1>12 DEF FetchStore
<1>13. ASSUME NEW k \in Keys, Publish(k) PROVE IInv'
  BY <1>13 DEF Publish
<1>14. ASSUME NEW k \in Keys, Withdraw(k) PROVE IInv'
  BY <1>14 DEF Withdraw, Unanswered
<1>15. ASSUME NEW c \in Callers, Present(c) PROVE IInv'
  BY <1>15 DEF Present, Goto, Sound, Flaws
<1>16. ASSUME NEW c \in Callers, RefuseClaims(c) PROVE IInv'
  BY <1>16, Classified DEF RefuseClaims, Goto, Return, Sound
<1>17. ASSUME NEW c \in Callers, HitCache(c) PROVE IInv'
  BY <1>17 DEF HitCache, Goto, Verifies, Sound
<1>18. ASSUME NEW c \in Callers, MissCache(c) PROVE IInv'
  BY <1>18 DEF MissCache, Goto, Verifies, Sound
<1>19. ASSUME NEW c \in Callers, Join(c) PROVE IInv'
  BY <1>19 DEF Join, Goto
<1>20. ASSUME NEW c \in Callers, Receive(c) PROVE IInv'
  <2>0. pc[c] = "received" /\ proc = "running" /\ UNCHANGED <<providerVars, bootVars, fetchVars, token, history>>
    BY <1>20 DEF Receive
  <2>1. CASE result[c].failure # "none"
    <3>1. classify(result[c].failure) = "unavailable"
      BY <2>1, Classified
    <3>2. c \in warm => ~Sound(token[c])
      BY <2>0
    <3>3. Return(c, "unavailable")
      BY <1>20, <2>1, <3>1 DEF Receive
    <3>4. TypeOK' /\ Quiet'
      BY <2>0, <3>2, <3>3 DEF Return, Goto
    <3>5. KeysKnown' /\ ReplyFresh'
      BY <2>0, <3>2, <3>3 DEF Return, Goto
    <3>6. CallsOrdered'
      BY <2>0, <3>2, <3>3 DEF Return, Goto
    <3>7. Owing'
      BY <2>0, <3>2, <3>3 DEF Return, Goto
    <3>8. Warmth'
      BY <2>0, <3>2, <3>3 DEF Return, Goto
    <3>9. Promises'
      BY <2>0, <3>2, <3>3 DEF Return, Goto
    <3> QED
      BY <3>4, <3>5, <3>6, <3>7, <3>8, <3>9
  <2>2. CASE result[c].failure = "none" /\ Verifies(c, result[c].keys)
    <3>2. token[c].flaw # "invalid"
      BY <2>0
    <3>3. Goto(c, "signed") /\ result' = [result EXCEPT ![c] = Nothing] /\ verdict' = verdict
      BY <1>20, <2>2 DEF Receive
    <3>4. TypeOK' /\ Quiet'
      BY <2>0, <2>2, <3>2, <3>3 DEF Goto, Verifies
    <3>5. KeysKnown' /\ ReplyFresh'
      BY <2>0, <2>2, <3>2, <3>3 DEF Goto, Verifies
    <3>6. CallsOrdered'
      BY <2>0, <2>2, <3>2, <3>3 DEF Goto, Verifies
    <3>7. Owing'
      BY <2>0, <2>2, <3>2, <3>3 DEF Goto, Verifies
    <3>8. Warmth'
      BY <2>0, <2>2, <3>2, <3>3 DEF Goto, Verifies
    <3>9. Promises'
      BY <2>0, <2>2, <3>2, <3>3 DEF Goto, Verifies
    <3> QED
      BY <3>4, <3>5, <3>6, <3>7, <3>8, <3>9
  <2>3. CASE result[c].failure = "none" /\ ~Verifies(c, result[c].keys)
    <3>1. classify("signature") = "unauthorized"
      BY Classified
    <3>2. c \in owed \cup warm => ~Sound(token[c])
      BY <2>0, <2>3 DEF Verifies, Sound, Flaws
    <3>3. Return(c, "unauthorized")
      BY <1>20, <2>3, <3>1 DEF Receive
    <3>4. TypeOK' /\ Quiet'
      BY <2>0, <3>2, <3>3 DEF Return, Goto
    <3>5. KeysKnown' /\ ReplyFresh'
      BY <2>0, <3>2, <3>3 DEF Return, Goto
    <3>6. CallsOrdered'
      BY <2>0, <3>2, <3>3 DEF Return, Goto
    <3>7. Owing'
      BY <2>0, <3>2, <3>3 DEF Return, Goto
    <3>8. Warmth'
      BY <2>0, <3>2, <3>3 DEF Return, Goto
    <3>9. Promises'
      BY <2>0, <3>2, <3>3 DEF Return, Goto
    <3> QED
      BY <3>4, <3>5, <3>6, <3>7, <3>8, <3>9
  <2> QED
    BY <2>1, <2>2, <2>3
<1>21. ASSUME NEW c \in Callers, CheckClaims(c) PROVE IInv'
  BY <1>21 DEF CheckClaims, Goto, Return, Acceptable, Sound, Flaws
<1>22. ASSUME NEW c \in Callers, Abandon(c) PROVE IInv'
  BY <1>22, Classified DEF Abandon, Goto, Return
<1>23. CASE UNCHANGED vars
  BY <1>23
<1> QED
  BY <1>1, <1>2, <1>3, <1>4, <1>5, <1>6, <1>7, <1>8, <1>9, <1>10, <1>11, <1>12, <1>13, <1>14, <1>15, <1>16, <1>17, <1>18, <1>19, <1>20, <1>21, <1>22, <1>23 DEF Next, Environment, Process, Fetch, Step

\* The keys, the fetch and the calls stay ordered as the promises need it.
THEOREM InductiveInvariant == Spec => []IInv
BY InitIInv, StepIInv, PTL DEF Spec

\* Every variable keeps its type.
THEOREM TypeCorrect == Spec => []TypeOK
BY InductiveInvariant, PTL DEF IInv

\* A good token whose key is published, and was as it arrived, is not answered
\* 401 (classify, RemoteKeySet's single fetch in flight).
THEOREM PublishedKeysAccepted == Spec => []PublishedKeyNotRefused
BY InductiveInvariant, PTL DEF IInv, Promises

\* Once learned, a key serves through any outage (Init's comment).
THEOREM LearnedKeysServe == Spec => []LearnedKeySurvivesOutage
BY InductiveInvariant, PTL DEF IInv, Promises

\* Verify accepts no token but a sound one, under a key the provider published.
THEOREM OnlyTrustedAccepted == Spec => []AcceptedIsTrusted
BY InductiveInvariant, PTL DEF IInv, Promises
=============================================================================
