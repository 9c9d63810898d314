-------------------------------- MODULE Oidc --------------------------------
(***************************************************************************)
(* Bearer tokens against an identity provider that rotates its keys and    *)
(* fails: oidcx.Init discovers the provider at boot or gives the process   *)
(* up, the orchestrator restarts it, and verifier.Verify checks tokens     *)
(* against a key set that is cached for the life of the process and        *)
(* fetched again, once for everyone who waits, on a key it cannot use.     *)
(*                                                                         *)
(* A fetch takes time: the provider's reply, its arrival and its being     *)
(* stored are three moments, and a rotation or an outage, a caller joining *)
(* or leaving, may come between any two.                                   *)
(***************************************************************************)
EXTENDS Integers

CONSTANTS
  Callers,          \* requests that present a token
  Keys,             \* the provider's signing keys
  Initially,        \* the key sets the provider may start with
  Tokens,           \* the tokens there are
  Holdings,         \* who may hold which token
  DiscoveryTimeout, \* oidc.discovery_timeout, in seconds
  RequireTyped      \* oidc.require_typed_access_token

\* What is wrong with a token: nothing; its signature; its issuer, audience,
\* expiry, algorithm or syntax; it is an ID token; its type; its subject.
Flaws == {"none", "forged", "invalid", "idToken", "untyped", "noSubject"}

ASSUME InitiallyAssumption == Initially \subseteq SUBSET Keys \ {{}}
ASSUME TokensAssumption == Tokens \subseteq [key : Keys, flaw : Flaws]
ASSUME HoldingsAssumption == Holdings \subseteq [Callers -> Tokens]
ASSUME SettingsAssumption == DiscoveryTimeout \in Int /\ RequireTyped \in BOOLEAN

VARIABLES
  provider,  \* how the provider answers: up, failing, garbled or hanging
  published, \* its key set
  retired,   \* the keys it withdrew
  proc,      \* the process: down, discovering, in the backoff, or running
  clock,     \* the context of discovery: live or expired
  cached,    \* the cached key set
  fetch,     \* the fetch in flight: none, asking, replied or done
  reply,     \* what it was answered
  pc,        \* where each call of Verify stands
  token,     \* the token each caller holds
  result,    \* what the fetch a caller waited for brought
  verdict,   \* what Verify returned
  seen,      \* history: the keys published at some moment since discovery
  steady,    \* history: the keys published ever since discovery
  owed,      \* history: callers whose key is published, and no reply is older
  warm       \* history: callers whose key was cached as they came, and is published

providerVars == <<provider, published, retired>>
bootVars == <<proc, clock>>
fetchVars == <<cached, fetch, reply>>
callVars == <<pc, token, result, verdict>>
history == <<seen, steady, owed, warm>>
vars == <<providerVars, bootVars, fetchVars, callVars, history>>

\* What a fetch brings: the key set, or why there is none.
Answers == [keys : SUBSET Keys, failure : {"none", "unreachable", "undecodable"}]
Nothing == [keys |-> {}, failure |-> "none"]
Failed(why) == [keys |-> {}, failure |-> why]

\* The states, each a small set; the callers stand at a step of Verify.
TypeOK ==
  /\ provider \in {"up", "failing", "garbled", "hanging"}
  /\ published \in SUBSET Keys /\ retired \in SUBSET Keys
  /\ proc \in {"down", "discovering", "backoff", "running"}
  /\ clock \in {"live", "expired"}
  /\ cached \in SUBSET Keys
  /\ fetch \in {"none", "asking", "replied", "done"}
  /\ reply \in Answers
  /\ pc \in [Callers -> {"idle", "lookup", "remote", "waiting", "received", "signed", "done"}]
  /\ token \in [Callers -> Tokens]
  /\ result \in [Callers -> Answers]
  /\ verdict \in [Callers -> {"none", "identity", "unauthorized", "unavailable"}]
  /\ seen \in SUBSET Keys /\ steady \in SUBSET Keys
  /\ owed \in SUBSET Callers /\ warm \in SUBSET Callers

Init ==
  /\ provider = "up" /\ published \in Initially /\ retired = {}
  /\ proc = "down" /\ clock = "live"
  /\ cached = {} /\ fetch = "none" /\ reply = Nothing
  /\ pc = [c \in Callers |-> "idle"]
  /\ token \in Holdings
  /\ result = [c \in Callers |-> Nothing]
  /\ verdict = [c \in Callers |-> "none"]
  /\ seen = {} /\ steady = {} /\ owed = {} /\ warm = {}

-----------------------------------------------------------------------------
(* The provider: it fails, answers nonsense, hangs and recovers at will, and *)
(* rotates its keys; a key it withdrew never comes back.                     *)

Outage ==
  /\ provider' \in {"up", "failing", "garbled", "hanging"} \ {provider}
  /\ UNCHANGED <<published, retired, bootVars, fetchVars, callVars, history>>

Publish(k) ==
  /\ k \notin published \cup retired
  /\ published' = published \cup {k}
  /\ seen' = IF proc = "running" THEN seen \cup {k} ELSE seen
  /\ UNCHANGED <<provider, retired, bootVars, fetchVars, callVars, steady, owed, warm>>

\* A caller is owed nothing more for a key withdrawn before its answer.
Unanswered(k) == {c \in Callers : token[c].key = k /\ pc[c] # "done"}

Withdraw(k) ==
  /\ k \in published /\ published # {k}
  /\ published' = published \ {k} /\ retired' = retired \cup {k}
  /\ steady' = steady \ {k}
  /\ owed' = owed \ Unanswered(k) /\ warm' = warm \ Unanswered(k)
  /\ UNCHANGED <<provider, bootVars, fetchVars, callVars, seen>>

-----------------------------------------------------------------------------
(* The process: discovery at boot, giving up, restart and crash.             *)

\* Regression: the setting is taken as it is.
TimeoutAsConfigured == DiscoveryTimeout

\* A setting that is no duration falls back to the default.
Timeout == IF DiscoveryTimeout <= 0 THEN 10 ELSE DiscoveryTimeout

\* Regression: http.DefaultClient is used, which has no timeout.
HttpUnbounded == FALSE

\* The http client discovery and every later key fetch use has that timeout;
\* one of zero would be none.
HttpBounded == Timeout > 0

Start ==
  /\ proc = "down"
  /\ proc' = "discovering"
  /\ clock' = IF Timeout > 0 THEN "live" ELSE "expired"
  /\ UNCHANGED <<providerVars, fetchVars, callVars, history>>

DiscoverySucceeds ==
  /\ proc = "discovering" /\ clock = "live" /\ provider = "up"
  /\ proc' = "running"
  /\ seen' = published /\ steady' = published
  /\ UNCHANGED <<providerVars, clock, fetchVars, callVars, owed, warm>>

\* Regression: the timeout is renewed at every attempt.
DiscoveryFailsPerAttempt ==
  /\ proc = "discovering"
  /\ provider \in {"failing", "garbled"} \/ clock = "expired"
  /\ proc' = "backoff" /\ clock' = "live"
  /\ UNCHANGED <<providerVars, fetchVars, callVars, history>>

\* A hanging provider blocks the attempt until the context ends it.
DiscoveryFails ==
  /\ proc = "discovering"
  /\ provider \in {"failing", "garbled"} \/ clock = "expired"
  /\ proc' = "backoff"
  /\ UNCHANGED <<providerVars, clock, fetchVars, callVars, history>>

BackoffElapses ==
  /\ proc = "backoff"
  /\ proc' = "discovering"
  /\ UNCHANGED <<providerVars, clock, fetchVars, callVars, history>>

ClockExpires ==
  /\ proc \in {"discovering", "backoff"} /\ clock = "live"
  /\ clock' = "expired"
  /\ UNCHANGED <<providerVars, proc, fetchVars, callVars, history>>

\* The error is fatal: the command exits and the orchestrator starts it again.
GiveUp ==
  /\ proc = "backoff" /\ clock = "expired"
  /\ proc' = "down" /\ clock' = "live"
  /\ UNCHANGED <<providerVars, fetchVars, callVars, history>>

\* The key set and the calls in progress live in memory only.
Crash ==
  /\ proc = "running"
  /\ proc' = "down" /\ clock' = "live"
  /\ cached' = {} /\ fetch' = "none" /\ reply' = Nothing
  /\ pc' = [c \in Callers |-> "idle"]
  /\ result' = [c \in Callers |-> Nothing]
  /\ verdict' = [c \in Callers |-> "none"]
  /\ seen' = {} /\ steady' = {} /\ owed' = {} /\ warm' = {}
  /\ UNCHANGED <<providerVars, token>>

-----------------------------------------------------------------------------
(* The fetch in flight: a goroutine of the key set, that no caller's context *)
(* cancels.                                                                  *)

Ask ==
  /\ fetch = "asking" /\ provider # "hanging"
  /\ reply' = IF provider = "up" THEN [keys |-> published, failure |-> "none"]
              ELSE Failed(IF provider = "failing" THEN "unreachable" ELSE "undecodable")
  /\ fetch' = "replied"
  /\ UNCHANGED <<providerVars, bootVars, cached, callVars, history>>

FetchTimesOut ==
  /\ fetch = "asking" /\ HttpBounded
  /\ reply' = Failed("unreachable")
  /\ fetch' = "replied"
  /\ UNCHANGED <<providerVars, bootVars, cached, callVars, history>>

\* Every caller that waits learns the outcome, before the cache does.
FetchDone ==
  /\ fetch = "replied"
  /\ fetch' = "done"
  /\ pc' = [c \in Callers |-> IF pc[c] = "waiting" THEN "received" ELSE pc[c]]
  /\ result' = [c \in Callers |-> IF pc[c] = "waiting" THEN reply ELSE result[c]]
  /\ UNCHANGED <<providerVars, bootVars, cached, reply, token, verdict, history>>

\* Regression: a failed fetch empties the cache.
FetchStoreAlways ==
  /\ fetch = "done"
  /\ cached' = reply.keys
  /\ fetch' = "none" /\ reply' = Nothing
  /\ UNCHANGED <<providerVars, bootVars, callVars, history>>

\* A failure leaves the cache as it was; the next miss fetches anew.
FetchStore ==
  /\ fetch = "done"
  /\ cached' = IF reply.failure = "none" THEN reply.keys ELSE cached
  /\ fetch' = "none" /\ reply' = Nothing
  /\ UNCHANGED <<providerVars, bootVars, callVars, history>>

-----------------------------------------------------------------------------
(* verifier.Verify                                                           *)

\* The markers an error carries: go-oidc flattens its cause to text.
Texts(failure) ==
  {text \in {"oidc: get keys failed", "fetching keys"} :
     \/ failure = "unreachable"
     \/ failure \in {"undecodable", "context"} /\ text = "fetching keys"}

\* Regression: only the marker said to cover both cases is matched.
transportFailuresLower == {"oidc: get keys failed"}

transportFailures == {"oidc: get keys failed", "fetching keys"}

\* Regression: an error type Verify's callers do not expect.
classifyInternal(failure) ==
  IF Texts(failure) \cap transportFailures # {} THEN "internal" ELSE "unauthorized"

classify(failure) ==
  IF Texts(failure) \cap transportFailures # {} THEN "unavailable" ELSE "unauthorized"

Goto(c, label) == pc' = [pc EXCEPT ![c] = label]

Return(c, v) ==
  /\ Goto(c, "done")
  /\ verdict' = [verdict EXCEPT ![c] = v]
  /\ result' = [result EXCEPT ![c] = Nothing]

\* Some key of the set verifies the signature.
Verifies(c, keys) == token[c].flaw # "forged" /\ token[c].key \in keys

Present(c) ==
  /\ proc = "running" /\ pc[c] \in {"idle", "done"}
  /\ Goto(c, "lookup")
  /\ verdict' = [verdict EXCEPT ![c] = "none"]
  /\ LET key == token[c].key
         fresh == key \in published /\ (fetch \in {"none", "asking"} \/ key \in steady)
     IN /\ owed' = IF fresh THEN owed \cup {c} ELSE owed \ {c}
        /\ warm' = IF key \in cached \cap published THEN warm \cup {c} ELSE warm \ {c}
  /\ UNCHANGED <<providerVars, bootVars, fetchVars, token, result, seen, steady>>

\* Issuer, audience, expiry and algorithm are checked before any key.
RefuseClaims(c) ==
  /\ pc[c] = "lookup" /\ token[c].flaw = "invalid"
  /\ Return(c, classify("claims"))
  /\ UNCHANGED <<providerVars, bootVars, fetchVars, token, history>>

HitCache(c) ==
  /\ pc[c] = "lookup" /\ token[c].flaw # "invalid" /\ Verifies(c, cached)
  /\ Goto(c, "signed")
  /\ UNCHANGED <<providerVars, bootVars, fetchVars, token, result, verdict, history>>

MissCache(c) ==
  /\ pc[c] = "lookup" /\ token[c].flaw # "invalid" /\ ~Verifies(c, cached)
  /\ Goto(c, "remote")
  /\ UNCHANGED <<providerVars, bootVars, fetchVars, token, result, verdict, history>>

\* It starts a fetch, waits for the one in flight, or takes the outcome of
\* one whose result is not stored yet.
Join(c) ==
  /\ pc[c] = "remote"
  /\ Goto(c, IF fetch = "done" THEN "received" ELSE "waiting")
  /\ result' = IF fetch = "done" THEN [result EXCEPT ![c] = reply] ELSE result
  /\ fetch' = IF fetch = "none" THEN "asking" ELSE fetch
  /\ UNCHANGED <<providerVars, bootVars, cached, reply, token, verdict, history>>

\* The request's own context may end while it waits, and wins a tie at random.
Abandon(c) ==
  /\ pc[c] \in {"waiting", "received"}
  /\ Return(c, classify("context"))
  /\ UNCHANGED <<providerVars, bootVars, fetchVars, token, history>>

Receive(c) ==
  /\ pc[c] = "received"
  /\ IF result[c].failure # "none" THEN Return(c, classify(result[c].failure))
     ELSE IF Verifies(c, result[c].keys)
       THEN /\ Goto(c, "signed")
            /\ result' = [result EXCEPT ![c] = Nothing]
            /\ verdict' = verdict
       ELSE Return(c, classify("signature"))
  /\ UNCHANGED <<providerVars, bootVars, fetchVars, token, history>>

\* Regression: the type is not required.
AcceptableUntyped(t) == t.flaw \notin {"idToken", "noSubject"}

\* An ID token, a token of another type where typed ones are required, and one
\* without a subject are refused though their signature holds.
Acceptable(t) ==
  /\ t.flaw \notin {"idToken", "noSubject"}
  /\ RequireTyped => t.flaw # "untyped"

CheckClaims(c) ==
  /\ pc[c] = "signed"
  /\ Return(c, IF Acceptable(token[c]) THEN "identity" ELSE "unauthorized")
  /\ UNCHANGED <<providerVars, bootVars, fetchVars, token, history>>

-----------------------------------------------------------------------------

Environment == Outage \/ (\E k \in Keys : Publish(k) \/ Withdraw(k))
Process ==
  \/ Start \/ DiscoverySucceeds \/ DiscoveryFails \/ BackoffElapses
  \/ ClockExpires \/ GiveUp \/ Crash
Fetch == Ask \/ FetchTimesOut \/ FetchDone \/ FetchStore
Step(c) ==
  \/ RefuseClaims(c) \/ HitCache(c) \/ MissCache(c) \/ Join(c) \/ Receive(c) \/ CheckClaims(c)

Next ==
  \/ Environment \/ Process \/ Fetch
  \/ \E c \in Callers : Present(c) \/ Step(c) \/ Abandon(c)

\* Goroutines run on and timers fire. Of two ready cases select takes either
\* at random, and an answer beats the clock now and then: both are strongly
\* fair. Nobody need call, answer, hang up or recover.
Fairness ==
  /\ WF_vars(Start) /\ WF_vars(DiscoveryFails) /\ WF_vars(BackoffElapses)
  /\ WF_vars(ClockExpires) /\ SF_vars(GiveUp) /\ SF_vars(DiscoverySucceeds)
  /\ WF_vars(FetchTimesOut) /\ WF_vars(FetchDone) /\ WF_vars(FetchStore)
  /\ \A c \in Callers : WF_vars(Step(c))

Spec == Init /\ [][Next]_vars /\ Fairness

-----------------------------------------------------------------------------
(* Properties                                                                *)

\* Nothing is wrong with the token as it is configured to be checked.
Sound(t) == t.flaw = "none" \/ (t.flaw = "untyped" /\ ~RequireTyped)

\* classify: an outage, a garbled key set, a rotation or an ended request never
\* makes Verify answer 401 for a good token whose key the provider published
\* all along, unless it joined a fetch answered before the key was published.
PublishedKeyNotRefused ==
  \A c \in owed : Sound(token[c]) => verdict[c] # "unauthorized"

\* Init's comment, "a running process keeps serving through a provider outage":
\* whatever fails or is fetched meanwhile, a good token whose key is cached as
\* it arrives, and stays published, is never answered that it cannot be checked.
LearnedKeySurvivesOutage ==
  \A c \in warm : Sound(token[c]) => verdict[c] # "unavailable"

\* Verify accepts only a sound token, signed by a key that the provider
\* published at some moment since this process discovered it.
AcceptedIsTrusted ==
  \A c \in Callers : verdict[c] = "identity" => Sound(token[c]) /\ token[c].key \in seen

\* discover ends, with a provider or by giving the process up, however the
\* provider behaves.
DiscoveryEnds == proc = "discovering" ~> proc \in {"running", "down"}

\* Verify returns even if the provider never answers and no request context
\* ever ends: the http client's timeout bounds the fetch it waits for.
EveryVerifyEnds == \A c \in Callers : pc[c] \notin {"idle", "done"} ~> pc[c] \in {"idle", "done"}

\* Once the provider stays up, the process runs again and again: restarts and
\* retries end in a discovery, whatever the configured timeout.
EventuallyServes == <>[](provider = "up") => []<>(proc = "running")
=============================================================================
