------------------------------ MODULE Pipeline ------------------------------
(***************************************************************************)
(* One request on its way through the router: NewRouter stacks the         *)
(* middlewares in a fixed order, the request descends through them until   *)
(* one answers it, the guard denies it or the handler runs, and then the   *)
(* stack unwinds, by return or by panic, each layer recording what it saw. *)
(*                                                                         *)
(* Requests share no state in the pipeline, so one request is every        *)
(* request.  What interleaves with it is its own deadline.  Layers that    *)
(* keep no state and never answer (CleanPath, NoCache, the body limit, the *)
(* client address) are left out.                                           *)
(***************************************************************************)
EXTENDS Naturals, Sequences

VARIABLES
  config,   \* the switches of the configuration, and whether a verifier is wired
  kind,     \* what the request asks for
  token,    \* what its bearer token is worth
  inbound,  \* the correlation id it carries
  g,        \* the router has a guard
  at,       \* the layer the request is at
  mode,     \* which way it moves
  code,     \* the first status that passed each response writer
  deadline, \* the request's own context
  handled,  \* the operation's handler ran
  panicked, \* whether the handler panicked, before or after its header
  ids,      \* the correlation id on its context, echoed to the caller
  stamped,  \* the correlation ids its log records carry
  reported, \* the panic record was logged
  logged,   \* status of the access log line
  counted,  \* status label of the request counter
  span      \* status attribute of the server span

request == <<config, kind, token, inbound, g>>
records == <<ids, stamped, reported, logged, counted, span>>
vars == <<request, at, mode, code, deadline, handled, panicked, records>>

Switches == {"tracing", "timeout", "metrics", "limiter", "auth", "verifier"}
Kinds == {"ping", "badEncoding", "preflight", "scrape", "unrouted", "probe", "profile"}
Tokens == {"absent", "rejected", "unreachable", "broken", "insufficient", "sufficient"}
Inbound == {"absent", "token", "oversized", "unprintable"}
HandlerStatuses == {"200", "404", "500", "503"}
Statuses == HandlerStatuses \cup {"401", "403", "415", "429", "504"}

\* Regression: the recoverer is registered before the access logger.
LayersRecovererFirst ==
  <<"tracing", "correlation", "recoverer", "access", "timeout", "heartbeat", "encoding", "cors",
    "metrics", "limiter", "router", "guard", "handler">>

\* Regression: the ids are put on the context once the access log is set up.
LayersCorrelationLate ==
  <<"tracing", "access", "correlation", "recoverer", "timeout", "heartbeat", "encoding", "cors",
    "metrics", "limiter", "router", "guard", "handler">>

\* defaultMiddlewares, outermost first, then the mux, the guard and the handler.
Layers ==
  <<"tracing", "correlation", "access", "recoverer", "timeout", "heartbeat", "encoding", "cors",
    "metrics", "limiter", "router", "guard", "handler">>

Depth(l) == CHOOSE n \in DOMAIN Layers : Layers[n] = l
Inward(l) == Layers[Depth(l) + 1]
Outward(l) == IF Depth(l) = 1 THEN "sent" ELSE Layers[Depth(l) - 1]

\* The connection, and the wrapping writers of three middlewares.
Writers == {"wire", "tracing", "access", "metrics"}
WriterDepth(w) == IF w = "wire" THEN 0 ELSE Depth(w)

TypeOK ==
  /\ config \in [Switches -> BOOLEAN] /\ kind \in Kinds /\ token \in Tokens
  /\ inbound \in Inbound /\ g \in BOOLEAN
  /\ at \in {Layers[n] : n \in DOMAIN Layers} \cup {"sent"}
  /\ mode \in {"boot", "refused", "in", "out", "panicking", "aborting"}
  /\ code \in [Writers -> Statuses \cup {"none"}]
  /\ deadline \in {"none", "running", "expired", "cancelled"}
  /\ handled \in BOOLEAN
  /\ panicked \in {"no", "before", "after", "abort"}
  /\ ids \in {"none", "own"} \cup Inbound /\ stamped \subseteq {"none", "own"} \cup Inbound
  /\ reported \in BOOLEAN
  /\ logged \in Statuses \cup {"none"}
  /\ counted \in Statuses \cup {"none", "0"}
  /\ span \in Statuses \cup {"none", "open", "unnamed"}

Init ==
  /\ config \in [Switches -> BOOLEAN] /\ kind \in Kinds /\ token \in Tokens
  /\ inbound \in Inbound /\ g = FALSE
  /\ at = "tracing" /\ mode = "boot"
  /\ code = [w \in Writers |-> "none"] /\ deadline = "none"
  /\ handled = FALSE /\ panicked = "no"
  /\ ids = "none" /\ stamped = {}
  /\ reported = FALSE /\ logged = "none" /\ counted = "none" /\ span = "none"

-----------------------------------------------------------------------------
(* Building the router *)

\* Regression: the guard is built when there is something to build it from.
BuildWhatIsThere ==
  /\ mode = "boot"
  /\ g' = (config["auth"] /\ config["verifier"])
  /\ mode' = "in"
  /\ UNCHANGED <<config, kind, token, inbound, at, code, deadline, handled, panicked, records>>

NewRouter ==
  /\ mode = "boot" /\ (config["auth"] => config["verifier"])
  /\ g' = config["auth"]
  /\ mode' = "in"
  /\ UNCHANGED <<config, kind, token, inbound, at, code, deadline, handled, panicked, records>>

RouterPanics ==
  /\ mode = "boot" /\ config["auth"] /\ ~config["verifier"]
  /\ mode' = "refused"
  /\ UNCHANGED <<request, at, code, deadline, handled, panicked, records>>

-----------------------------------------------------------------------------
(* Response writers: only the first WriteHeader counts, at every level. *)

\* Regression: a later WriteHeader replaces the status recorded.
WriteOver(l, status) ==
  code' = [w \in Writers |-> IF WriterDepth(w) < Depth(l) THEN status ELSE code[w]]

WriteHeader(l, status) ==
  code' = [w \in Writers |-> IF WriterDepth(w) < Depth(l) /\ code[w] = "none"
                               THEN status ELSE code[w]]

\* net/http and the recording middlewares read "nothing written" as 200.
Sent(w) == IF code[w] = "none" THEN "200" ELSE code[w]

-----------------------------------------------------------------------------
(* On the way in *)

\* Regression: an untyped error of the verifier is answered as a bad gateway.
DenialBadGateway == CASE token \in {"absent", "rejected"} -> "401"
                      [] token = "unreachable"            -> "503"
                      [] token = "broken"                 -> "502"
                      [] token = "insufficient"           -> "403"
                      [] OTHER                            -> "none"

\* guard.middleware followed by deny: the status each failed check answers.
Denial == CASE token \in {"absent", "rejected"} -> "401"
            [] token = "unreachable"            -> "503"
            [] token = "broken"                 -> "500"
            [] token = "insufficient"           -> "403"
            [] OTHER                            -> "none"

\* The layers that answer by themselves, and with what.  A preflight is only
\* one where CORS is configured; elsewhere it is an unrouted request.
OwnAnswer(l) ==
  CASE l = "heartbeat" /\ kind = "ping"       -> "200"
    [] l = "encoding" /\ kind = "badEncoding" -> "415"
    [] l = "cors" /\ kind = "preflight"       -> "200"
    [] l = "router" /\ kind = "scrape"        -> IF config["metrics"] THEN "200" ELSE "404"
    [] l = "router" /\ kind = "unrouted"      -> "404"
    [] l = "guard" /\ g /\ kind = "profile"   -> Denial
    [] OTHER                                  -> "none"

\* Regression: only the length of an inbound id is checked.
safeIdBounded(id) == IF id = "oversized" THEN "absent" ELSE id

\* An id that is not a bounded, printable token counts as absent.
safeId(id) == IF id = "token" THEN id ELSE "absent"

\* A request without a safe id gets a new one.
OwnId == IF safeId(inbound) = "absent" THEN "own" ELSE safeId(inbound)

\* The id on the context a layer was called with.
IdAt(l) == IF Depth("correlation") < Depth(l) THEN ids ELSE "none"

Answer(status) ==
  /\ WriteHeader(at, status)
  /\ mode' = "out" /\ at' = Outward(at)
  /\ UNCHANGED <<request, deadline, handled, panicked, ids, reported, logged, counted, span>>

\* Regression: the guard denies and goes on to call next.
AnswersAndGoesOn ==
  /\ mode = "in" /\ at # "handler" /\ OwnAnswer(at) # "none"
  /\ WriteHeader(at, OwnAnswer(at))
  /\ IF at = "guard" THEN at' = "handler" /\ mode' = "in" ELSE at' = Outward(at) /\ mode' = "out"
  /\ UNCHANGED <<request, deadline, handled, panicked, records>>

\* A denial is logged, one record per refusal.
AnswersItself ==
  /\ mode = "in" /\ at # "handler" /\ OwnAnswer(at) # "none"
  /\ Answer(OwnAnswer(at))
  /\ stamped' = IF at = "guard" THEN stamped \cup {IdAt(at)} ELSE stamped

Limited ==
  /\ mode = "in" /\ at = "limiter" /\ config["limiter"]
  /\ Answer("429") /\ UNCHANGED stamped

Passes ==
  /\ mode = "in" /\ at # "handler" /\ OwnAnswer(at) = "none"
  /\ at' = Inward(at)
  /\ span' = IF at = "tracing" /\ config["tracing"] THEN "open" ELSE span
  /\ deadline' = IF at = "timeout" /\ config["timeout"] THEN "running" ELSE deadline
  /\ ids' = IF at = "correlation" THEN OwnId ELSE ids
  /\ UNCHANGED <<request, mode, code, handled, panicked, stamped, reported, logged, counted>>

DeadlinePasses ==
  /\ deadline = "running"
  /\ deadline' = "expired"
  /\ UNCHANGED <<request, at, mode, code, handled, panicked, records>>

-----------------------------------------------------------------------------
(* The handler of a huma operation, decoding and validation included; the  *)
(* statuses stand for success, a caller's fault and the server's faults.   *)

Handles == mode = "in" /\ at = "handler" /\ handled' = TRUE /\ at' = Outward(at)

\* The detail of a failure is logged with the context of the operation.
apiError == stamped' = stamped \cup {IdAt("handler")}

\* huma's own refusals of an input, a caller's fault as well, are not logged.
HandlerAnswers ==
  /\ Handles
  /\ \E status \in HandlerStatuses :
       /\ WriteHeader(at, status)
       /\ \/ status \in {"200", "404"} /\ UNCHANGED stamped
          \/ status # "200" /\ apiError
  /\ mode' = "out"
  /\ UNCHANGED <<request, deadline, panicked, ids, reported, logged, counted, span>>

HandlerPanics ==
  /\ Handles
  /\ mode' = "panicking" /\ panicked' = "before"
  /\ UNCHANGED <<request, code, deadline, records>>

\* The body of an answer cannot be written once its header is out.
HandlerPanicsLate ==
  /\ Handles
  /\ WriteHeader(at, "200")
  /\ mode' = "panicking" /\ panicked' = "after"
  /\ UNCHANGED <<request, deadline, records>>

\* http.ErrAbortHandler
HandlerAborts ==
  /\ Handles
  /\ mode' = "aborting" /\ panicked' = "abort"
  /\ UNCHANGED <<request, code, deadline, records>>

-----------------------------------------------------------------------------
(* On the way out *)

Unwinds(l) == mode \in {"out", "panicking", "aborting"} /\ at = l /\ at' = Outward(l)

\* Layers with nothing to do after next returned.
UnwindsSilently ==
  /\ \E l \in {"heartbeat", "encoding", "cors", "limiter", "router", "guard",
           "correlation"} : Unwinds(l)
  /\ UNCHANGED <<request, mode, code, deadline, handled, panicked, records>>

\* metrics.middleware has no defer: a panic passes it by uncounted.  Nothing
\* written would be counted as status 0.
Counts ==
  /\ Unwinds("metrics")
  /\ counted' = IF mode = "out" /\ config["metrics"]
                  THEN IF code["metrics"] = "none" THEN "0" ELSE code["metrics"]
                  ELSE counted
  /\ UNCHANGED <<request, mode, code, deadline, handled, panicked, ids, stamped, reported,
                 logged, span>>

\* chi's Timeout, in a defer: cancel, then 504 if the deadline had passed.
TimeoutEnds ==
  /\ Unwinds("timeout")
  /\ IF deadline = "expired" THEN WriteHeader("timeout", "504") ELSE UNCHANGED code
  /\ deadline' = IF deadline = "running" THEN "cancelled" ELSE deadline
  /\ UNCHANGED <<request, mode, handled, panicked, records>>

\* Regression: every panic is passed on as if it were deliberate.
RecoversNothing ==
  /\ Unwinds("recoverer")
  /\ mode' = IF mode = "panicking" THEN "aborting" ELSE mode
  /\ UNCHANGED <<request, code, deadline, handled, panicked, records>>

Recovers ==
  /\ Unwinds("recoverer")
  /\ IF mode = "panicking"
       THEN /\ reported' = TRUE /\ WriteHeader("recoverer", "500") /\ mode' = "out"
            /\ stamped' = stamped \cup {IdAt("recoverer")}
       ELSE UNCHANGED <<reported, code, mode, stamped>>
  /\ UNCHANGED <<request, deadline, handled, panicked, ids, logged, counted, span>>

Logs ==
  /\ Unwinds("access")
  /\ IF mode = "out" /\ kind # "scrape"
       THEN logged' = Sent("access") /\ stamped' = stamped \cup {IdAt("access")}
       ELSE UNCHANGED <<logged, stamped>>
  /\ UNCHANGED <<request, mode, code, deadline, handled, panicked, ids, reported, counted, span>>

\* The span ends in a defer, but is named and given a status only on return.
EndsSpan ==
  /\ Unwinds("tracing")
  /\ span' = IF config["tracing"] THEN IF mode = "out" THEN Sent("tracing") ELSE "unnamed"
                                  ELSE span
  /\ UNCHANGED <<request, mode, code, deadline, handled, panicked, ids, stamped, reported,
                 logged, counted>>

Ended == (at = "sent" \/ mode = "refused") /\ UNCHANGED vars

Next ==
  \/ NewRouter \/ RouterPanics
  \/ AnswersItself \/ Limited \/ Passes \/ DeadlinePasses
  \/ HandlerAnswers \/ HandlerPanics \/ HandlerPanicsLate \/ HandlerAborts
  \/ UnwindsSilently \/ Counts \/ TimeoutEnds \/ Recovers \/ Logs \/ EndsSpan
  \/ Ended

Spec == Init /\ [][Next]_vars

-----------------------------------------------------------------------------
(* Properties *)

Returned == at = "sent" /\ mode = "out"

(* The status on the wire, in the access log, on the span and in the        *)
(* counter is one status, whichever layer wrote it and whatever deadline or *)
(* panic came in between: wrappers at four depths see the same first write. *)
RecordsAgree ==
  Returned =>
    /\ kind # "scrape" => logged = Sent("wire")
    /\ config["tracing"] => span = Sent("wire")
    /\ counted # "none" => counted = Sent("wire")

(* NewRouter fails closed and the guard returns after deny: with OIDC on, a *)
(* profile handler runs only for a verified caller who meets its            *)
(* requirement, also when no verifier was wired.                            *)
OnlyAdmittedHandled ==
  handled /\ kind = "profile" /\ config["auth"] => token = "sufficient" /\ config["verifier"]

(* recoverer: a panic never takes the connection down silently; it is       *)
(* reported, and the caller gets a server fault unless the header was out.  *)
PanicReported ==
  at = "sent" /\ panicked \in {"before", "after"} =>
    /\ Returned /\ reported
    /\ panicked = "before" => code["wire"] \in {"500", "504"}

(* "It cancels the context rather than writing a response itself": the 504  *)
(* of the deferred timeout never replaces the answer of a handler or a      *)
(* layer that returned, however late.                                       *)
AnswerSurvivesDeadline == code["wire"] = "504" => panicked \in {"before", "abort"}

(* "what makes logs traceable across layers": every record of the request,  *)
(* the denial, the failure, the panic and the access line, carries the one  *)
(* correlation id echoed to the caller, and that is the caller's own        *)
(* exactly when it was a safe one.                                          *)
RecordsTraceable ==
  /\ stamped \subseteq {ids} \ {"none"}
  /\ Returned => ids = IF inbound = "token" THEN inbound ELSE "own"

(* What the comments say of the pipeline and the code does not do.          *)

(* "recoverer turns a panic into a logged failure and a 500", while the     *)
(* header is still to be written.                                           *)
PanicIs500 == Returned /\ panicked = "before" => code["wire"] = "500"

(* "middleware records the outcome and latency of every request": a request *)
(* that reached the handler, through the metrics middleware, and was        *)
(* answered is counted.                                                     *)
EveryRequestCounted == Returned /\ handled /\ config["metrics"] => counted # "none"
=============================================================================
