--------------------------- MODULE PipelineProofs ---------------------------
(* Whatever the configuration, the request, the deadline and the panics: no *)
(* profile handler runs for a caller not admitted, and what the layers      *)
(* answer and record on the way out is one story.                           *)
EXTENDS Pipeline, TLAPS

(* The stack is as deep as it is long, and names no layer twice.            *)
LEMMA LayersShape ==
  /\ DOMAIN Layers = 1..13
  /\ Layers[1] = "tracing"
  /\ Layers[12] = "guard"
  /\ \A n \in 1..13 : Layers[n] = "handler" => n = 13
  /\ \A n, m \in 1..13 : Layers[n] = Layers[m] => n = m
BY DEF Layers

(* Depth finds the place of a layer in the stack.                           *)
LEMMA DepthFinds ==
  ASSUME NEW l \in {Layers[n] : n \in DOMAIN Layers}
  PROVE  Depth(l) \in 1..13 /\ Layers[Depth(l)] = l
BY LayersShape DEF Depth

(* The only way into the handler is through the guard.                      *)
LEMMA OnlyGuardLeadsIn ==
  ASSUME NEW l \in {Layers[n] : n \in DOMAIN Layers}, l # "handler", Inward(l) = "handler"
  PROVE  l = "guard"
<1>1. Depth(l) \in 1..13 /\ Layers[Depth(l)] = l
  BY DepthFinds
<1>2. Depth(l) # 13
  BY <1>1 DEF Layers
<1>3. Layers[Depth(l) + 1] = "handler" /\ Depth(l) + 1 \in 1..13
  BY <1>1, <1>2 DEF Inward
<1>4. Depth(l) = 12
  BY <1>1, <1>3, LayersShape
<1> QED BY <1>1, <1>4, LayersShape

-----------------------------------------------------------------------------
\* The caller meets what the configuration asks of this request.
Admitted == kind = "profile" /\ config["auth"] => token = "sufficient" /\ config["verifier"]

\* Where the request stands implies what NewRouter and the guard made sure of.
GuardInv ==
  /\ token \in Tokens
  /\ at \in {Layers[n] : n \in DOMAIN Layers} \cup {"sent"}
  /\ mode \in {"boot", "in"} => at # "sent"
  /\ mode = "boot" => at = "tracing"
  /\ mode \notin {"boot", "refused"} => g = config["auth"] /\ (g => config["verifier"])
  /\ mode = "in" /\ at = "handler" => Admitted
  /\ handled => Admitted

(* A layer inward or outward of a layer is one, or the request is sent.     *)
LEMMA NextLayer ==
  ASSUME NEW l \in {Layers[n] : n \in DOMAIN Layers}
  PROVE  /\ l # "handler" => Inward(l) \in {Layers[n] : n \in DOMAIN Layers}
         /\ Outward(l) \in {Layers[n] : n \in DOMAIN Layers} \cup {"sent"}
         /\ "sent" \notin {Layers[n] : n \in DOMAIN Layers}
<1>1. Depth(l) \in 1..13 /\ Layers[Depth(l)] = l
  BY DepthFinds
<1>2. l # "handler" => Depth(l) # 13
  BY <1>1 DEF Layers
<1>3. "sent" \notin {Layers[n] : n \in DOMAIN Layers}
  BY DEF Layers
<1> QED BY <1>1, <1>2, <1>3, LayersShape DEF Inward, Outward

(* The guard answers every caller it does not admit, so it lets none pass.  *)
LEMMA GuardStopsOthers ==
  ASSUME token \in Tokens, g, kind = "profile", OwnAnswer("guard") = "none"
  PROVE  token = "sufficient"
<1>1. OwnAnswer("guard") = Denial
  BY DEF OwnAnswer
<1> QED BY <1>1 DEF Denial, Tokens

(* The guard's invariant is kept by every step of the pipeline.             *)
THEOREM GuardInvariant == Spec => []GuardInv
<1>1. Init => GuardInv
  BY LayersShape, NextLayer DEF Init, GuardInv
<1>2. GuardInv /\ [Next]_vars => GuardInv'
  <2> SUFFICES ASSUME GuardInv, [Next]_vars PROVE GuardInv'
    OBVIOUS
  <2> USE DEF GuardInv
  <2>1. CASE NewRouter
    <3>1. "tracing" # "handler" /\ at = "tracing"
      BY <2>1 DEF NewRouter
    <3> QED BY <2>1, <3>1 DEF NewRouter, Admitted
  <2>2. CASE RouterPanics
    BY <2>2 DEF RouterPanics, request, Admitted
  <2>3. CASE AnswersItself \/ Limited
    BY <2>3, NextLayer DEF AnswersItself, Limited, Answer, request, Admitted
  <2>4. CASE Passes
    <3>1. at \in {Layers[n] : n \in DOMAIN Layers} /\ mode = "in" /\ at # "handler"
      BY <2>4 DEF Passes
    <3>2. at' = Inward(at) /\ OwnAnswer(at) = "none" /\ UNCHANGED <<request, mode, handled>>
      BY <2>4 DEF Passes
    <3>3. at' \in {Layers[n] : n \in DOMAIN Layers} /\ at' # "sent"
      BY <3>1, <3>2, NextLayer
    <3>4. ASSUME at' = "handler" PROVE Admitted
      <4>1. at = "guard"
        BY <3>1, <3>2, <3>4, OnlyGuardLeadsIn
      <4>2. g /\ kind = "profile" => token = "sufficient"
        BY <3>2, <4>1, GuardStopsOthers
      <4> QED BY <3>1, <4>2 DEF Admitted
    <3> QED BY <3>1, <3>2, <3>3, <3>4 DEF request, Admitted
  <2>5. CASE DeadlinePasses
    BY <2>5 DEF DeadlinePasses, request, Admitted
  <2>6. CASE HandlerAnswers \/ HandlerPanics \/ HandlerPanicsLate \/ HandlerAborts
    <3>1. mode = "in" /\ at = "handler" /\ at' = Outward(at) /\ UNCHANGED request
          /\ mode' \in {"out", "panicking", "aborting"}
      BY <2>6 DEF HandlerAnswers, HandlerPanics, HandlerPanicsLate, HandlerAborts, Handles
    <3>2. at' \in {Layers[n] : n \in DOMAIN Layers} \cup {"sent"}
      BY <3>1, NextLayer
    <3> QED BY <3>1, <3>2 DEF request, Admitted
  <2>7. CASE UnwindsSilently \/ Counts \/ TimeoutEnds \/ Recovers \/ Logs \/ EndsSpan
    <3>1. PICK l \in {"heartbeat", "encoding", "cors", "limiter", "router", "guard", "metrics",
                      "timeout", "recoverer", "access", "correlation", "tracing"} : Unwinds(l)
      BY <2>7 DEF UnwindsSilently, Counts, TimeoutEnds, Recovers, Logs, EndsSpan
    <3>2. UNCHANGED <<request, handled>> /\ mode' \in {mode, "out"}
      BY <2>7 DEF UnwindsSilently, Counts, TimeoutEnds, Recovers, Logs, EndsSpan
    <3>3. mode \in {"out", "panicking", "aborting"} /\ at = l /\ at' = Outward(l)
      BY <3>1 DEF Unwinds
    <3>4. at # "sent"
      BY <3>3
    <3>5. at' \in {Layers[n] : n \in DOMAIN Layers} \cup {"sent"}
      BY <3>3, <3>4, NextLayer
    <3> QED BY <3>2, <3>3, <3>5 DEF request, Admitted
  <2>8. CASE UNCHANGED vars
    BY <2>8 DEF vars, request, Admitted
  <2> QED BY <2>1, <2>2, <2>3, <2>4, <2>5, <2>6, <2>7, <2>8 DEF Next, Ended
<1> QED BY <1>1, <1>2, PTL DEF Spec

(* NewRouter and guard.middleware: a handler that ran, ran for a caller the *)
(* configuration admits, also when no verifier was wired.                   *)
THEOREM GuardHolds == Spec => []OnlyAdmittedHandled
<1>1. GuardInv => OnlyAdmittedHandled
  BY DEF GuardInv, Admitted, OnlyAdmittedHandled
<1> QED BY <1>1, GuardInvariant, PTL

-----------------------------------------------------------------------------
(* The way out: one status, one id, and no panic lost *)

(* Where each layer is in the stack.                                        *)
LEMMA Depths ==
  /\ Depth("tracing") = 1 /\ Depth("correlation") = 2 /\ Depth("access") = 3
  /\ Depth("recoverer") = 4 /\ Depth("timeout") = 5 /\ Depth("heartbeat") = 6
  /\ Depth("encoding") = 7 /\ Depth("cors") = 8 /\ Depth("metrics") = 9
  /\ Depth("limiter") = 10 /\ Depth("router") = 11 /\ Depth("guard") = 12
  /\ Depth("handler") = 13
<1>1. \A n \in 1..13 : Depth(Layers[n]) = n
  BY DepthFinds, LayersShape
<1> QED BY <1>1 DEF Layers

\* How deep the request is; it is nowhere once it is sent.
Place(l) == IF l = "sent" THEN 0 ELSE Depth(l)

(* A layer inward is one deeper, a layer outward one less deep.             *)
LEMMA Moves ==
  ASSUME NEW l \in {Layers[n] : n \in DOMAIN Layers}
  PROVE  /\ Place(l) = Depth(l) /\ Depth(l) \in 1..13
         /\ Place(Outward(l)) = Depth(l) - 1
         /\ Outward(l) = "sent" <=> Depth(l) = 1
         /\ l # "handler" => Place(Inward(l)) = Depth(l) + 1
<1>1. Depth(l) \in 1..13 /\ Layers[Depth(l)] = l
  BY DepthFinds
<1>2. l # "handler" => Depth(l) # 13
  BY <1>1 DEF Layers
<1>3. \A n \in 1..13 : Layers[n] # "sent" /\ Depth(Layers[n]) = n
  BY NextLayer, DepthFinds, LayersShape
<1> QED BY <1>1, <1>2, <1>3 DEF Place, Inward, Outward

(* Its id is the caller's own exactly when that is a safe one.              *)
LEMMA IdIsSafe ==
  ASSUME inbound \in Inbound
  PROVE  OwnId = (IF inbound = "token" THEN inbound ELSE "own") /\ OwnId \in {"token", "own"}
BY DEF OwnId, safeId, Inbound

\* The writers from the connection to where the request is have one status.
OneStatus == \A w \in Writers : WriterDepth(w) <= Place(at) => code[w] = code["wire"]

\* Nothing is written, recorded or panicked on the way in.
WayIn ==
  /\ mode \in {"boot", "in"} => at # "sent"
  /\ mode \in {"boot", "refused"} => at = "tracing"
  /\ mode \in {"boot", "refused", "in"} =>
       /\ code["wire"] = "none" /\ code["tracing"] = "none"
       /\ code["access"] = "none" /\ code["metrics"] = "none"
       /\ stamped = {} /\ counted = "none" /\ panicked = "no"

\* Who wrote what, by the way the request goes.
WayOut ==
  /\ mode = "out" => code["wire"] # "none"
  /\ panicked = "abort" => mode = "aborting"
  /\ panicked = "no" => mode \notin {"panicking", "aborting"} /\ code["wire"] # "504"
  /\ panicked = "after" => code["wire"] = "200"
  /\ panicked = "before" /\ mode = "panicking" => code["wire"] \in {"none", "504"}
  /\ panicked = "before" /\ mode # "panicking" => code["wire"] \in {"500", "504"}
  /\ panicked \in {"before", "after"} =>
       \/ mode = "panicking" /\ Place(at) >= 4
       \/ mode = "out" /\ reported

\* What is already on record is what the caller gets.
OnRecord ==
  /\ counted # "none" => counted = code["wire"]
  /\ mode = "out" /\ kind # "scrape" /\ Place(at) < 3 => logged = code["wire"]
  /\ mode = "out" /\ config["tracing"] /\ at = "sent" => span = code["wire"]

\* The id is on the context below the layer that puts it there.
OneId ==
  /\ ids \in {"none", OwnId} /\ stamped \subseteq {ids} \ {"none"}
  /\ mode \in {"out", "panicking", "aborting"} \/ Place(at) > 2 => ids = OwnId

RecordInv == TypeOK /\ OneStatus /\ WayIn /\ WayOut /\ OnRecord /\ OneId

(* A header written by a layer that does not record reaches every writer    *)
(* outward of it or none of them.                                           *)
LEMMA HeaderWritten ==
  ASSUME NEW l \in {Layers[n] : n \in DOMAIN Layers}, NEW status \in Statuses,
         l \notin Writers, at = l, TypeOK, OneStatus, WriteHeader(l, status)
  PROVE  /\ code' \in [Writers -> Statuses \cup {"none"}]
         /\ code'["wire"] = IF code["wire"] = "none" THEN status ELSE code["wire"]
         /\ \A w \in Writers : WriterDepth(w) <= Depth(l) => code'[w] = code'["wire"]
         /\ Depth(l) <= 9 => code'["metrics"] = code["metrics"]
<1>1. code \in [Writers -> Statuses \cup {"none"}] /\ "wire" \in Writers
  BY DEF TypeOK, Writers
<1>2. code' = [w \in Writers |-> IF WriterDepth(w) < Depth(l) /\ code[w] = "none"
                                   THEN status ELSE code[w]]
  BY DEF WriteHeader
<1>3. Depth(l) \in 1..13 /\ Layers[Depth(l)] = l /\ Place(at) = Depth(l)
  BY DepthFinds, Moves
<1>4. WriterDepth("wire") = 0 /\ WriterDepth("tracing") = 1
      /\ WriterDepth("access") = 3 /\ WriterDepth("metrics") = 9
  BY Depths DEF WriterDepth
<1>5. Depth(l) \notin {1, 3, 9}
  BY <1>3 DEF Layers, Writers
<1>6. \A w \in Writers : WriterDepth(w) <= Depth(l) =>
        WriterDepth(w) < Depth(l) /\ code[w] = code["wire"]
  BY <1>3, <1>4, <1>5 DEF OneStatus, Writers
<1>7. code' \in [Writers -> Statuses \cup {"none"}]
  BY <1>1, <1>2
<1>8. code'["wire"] = IF code["wire"] = "none" THEN status ELSE code["wire"]
  BY <1>1, <1>2, <1>3, <1>4
<1>9. \A w \in Writers : WriterDepth(w) <= Depth(l) => code'[w] = code'["wire"]
  BY <1>2, <1>6, <1>8
<1>10. Depth(l) <= 9 => code'["metrics"] = code["metrics"]
  BY <1>1, <1>2, <1>3, <1>4 DEF Writers
<1> QED BY <1>7, <1>8, <1>9, <1>10

(* Every step keeps the records one story.                                  *)
THEOREM RecordInvariant == Spec => []RecordInv
<1> USE DEF RecordInv
<1> DEFINE Stack == {Layers[n] : n \in DOMAIN Layers}
<1>0. /\ WriterDepth("wire") = 0 /\ WriterDepth("tracing") = 1
      /\ WriterDepth("access") = 3 /\ WriterDepth("metrics") = 9
      /\ \A w \in Writers : WriterDepth(w) \in 0..13
      /\ {"wire", "tracing", "access", "metrics"} = Writers
  BY Depths DEF WriterDepth, Writers
<1>s. Stack = {"tracing", "correlation", "access", "recoverer", "timeout", "heartbeat", "encoding",
               "cors", "metrics", "limiter", "router", "guard", "handler"}
  BY DEF Layers
<1>1. Init => RecordInv
  <2> SUFFICES ASSUME Init PROVE RecordInv
    OBVIOUS
  <2>1. TypeOK
    BY <1>s DEF Init, TypeOK, Writers, Kinds, Statuses, Inbound, Switches
  <2>2. at = "tracing" /\ Place(at) = 1
    BY Depths DEF Init, Place
  <2>3. OneStatus /\ WayIn /\ WayOut /\ OnRecord
    BY <2>2 DEF Init, OneStatus, WayIn, WayOut, OnRecord, Writers
  <2>4. OneId
    BY <2>2 DEF Init, OneId
  <2> QED BY <2>1, <2>3, <2>4
<1>2. RecordInv /\ [Next]_vars => RecordInv'
  <2> SUFFICES ASSUME RecordInv, [Next]_vars PROVE RecordInv'
    OBVIOUS
  <2>t. TypeOK /\ OneStatus /\ WayIn /\ WayOut /\ OnRecord /\ OneId
    OBVIOUS
  <2>1. CASE NewRouter \/ RouterPanics
    <3>1. UNCHANGED <<config, kind, token, inbound, at, code, deadline, handled, panicked, records>>
          /\ mode = "boot" /\ mode' \in {"in", "refused"} /\ (g' = config["auth"] \/ g' = g)
      BY <2>1 DEF NewRouter, RouterPanics, request
    <3>2. TypeOK'
      <4>1. config["auth"] \in BOOLEAN
        BY DEF TypeOK, Switches
      <4>2. g' \in BOOLEAN
        BY <3>1, <4>1, Zenon DEF TypeOK
      <4> QED BY <3>1, <4>2 DEF TypeOK, records
    <3>3. (OneStatus /\ WayIn /\ WayOut /\ OnRecord /\ OneId)'
      BY <3>1 DEF OneStatus, WayIn, WayOut, OnRecord, OneId, OwnId, safeId, records, Place
    <3> QED BY <3>2, <3>3
  <2>2. CASE AnswersItself \/ Limited
    <3>1. mode = "in" /\ at \in {"heartbeat", "encoding", "cors", "limiter", "router", "guard"}
      BY <2>2 DEF AnswersItself, Limited, OwnAnswer
    <3>2. \E st \in Statuses \ {"504"} : WriteHeader(at, st) /\ Answer(st)
      <4>1. CASE Limited
        BY <4>1 DEF Limited, Answer, Statuses
      <4>2. CASE AnswersItself
        <5>1. OwnAnswer(at) # "none" /\ Answer(OwnAnswer(at))
          BY <4>2 DEF AnswersItself
        <5>2. OwnAnswer(at) \in Statuses \ {"504"}
          BY <5>1, <3>1 DEF OwnAnswer, Denial, Statuses, HandlerStatuses
        <5> QED BY <5>1, <5>2 DEF Answer
      <4> QED BY <2>2, <4>1, <4>2
    <3>3. PICK st \in Statuses \ {"504"} : WriteHeader(at, st) /\ Answer(st)
      BY <3>2
    <3>4. mode' = "out" /\ at' = Outward(at)
          /\ UNCHANGED <<request, deadline, handled, panicked, ids, reported, logged, counted, span>>
      BY <3>3 DEF Answer
    <3>5. Place(at) = Depth(at) /\ Depth(at) \in {6, 7, 8, 10, 11, 12} /\ Place(at') = Depth(at) - 1
          /\ at' \in Stack \cup {"sent"}
      BY <3>1, <3>4, <1>s, Depths, Moves, NextLayer
    <3>6. stamped' \subseteq {ids} \ {"none"}
      <4>1. stamped' \in {stamped, stamped \cup {ids}}
        BY <2>2, Depths DEF AnswersItself, Limited, IdAt
      <4>2. ids = OwnId /\ OwnId # "none"
        BY <3>5, IdIsSafe DEF OneId, TypeOK
      <4> QED BY <4>1, <4>2 DEF OneId
    <3>7. /\ code' \in [Writers -> Statuses \cup {"none"}]
          /\ code'["wire"] = st
          /\ \A w \in Writers : WriterDepth(w) <= Depth(at) => code'[w] = code'["wire"]
      BY <3>1, <3>3, <1>0, <1>s, HeaderWritten DEF WayIn
    <3>8. TypeOK'
      BY <3>4, <3>5, <3>6, <3>7 DEF TypeOK, request
    <3>9. OneStatus'
      BY <3>5, <3>7, <1>0 DEF OneStatus
    <3>10. WayIn' /\ WayOut'
      BY <3>1, <3>3, <3>4, <3>7 DEF WayIn, WayOut, Statuses, HandlerStatuses
    <3>11. OnRecord'
      BY <3>1, <3>4, <3>5, Depths DEF OnRecord, WayIn, Place
    <3>12. OneId'
      BY <3>4, <3>5, <3>6 DEF OneId, OwnId, safeId, request
    <3> QED BY <3>8, <3>9, <3>10, <3>11, <3>12
  <2>3. CASE Passes
    <3>1. /\ mode = "in" /\ at \in Stack \ {"handler"} /\ at' = Inward(at)
          /\ UNCHANGED <<request, mode, code, handled, panicked, stamped, reported, logged, counted>>
      BY <2>3, <1>s DEF Passes, WayIn, TypeOK
    <3>2. Place(at) = Depth(at) /\ Depth(at) \in 1..13 /\ Place(at') = Depth(at) + 1
          /\ at' \in Stack /\ at' # "sent"
      BY <3>1, Moves, NextLayer
    <3>3. ids' = IF at = "correlation" THEN OwnId ELSE ids
      BY <2>3 DEF Passes
    <3>4. deadline' \in {deadline, "running"} /\ span' \in {span, "open"}
      BY <2>3 DEF Passes
    <3>5. TypeOK'
      BY <3>1, <3>2, <3>3, <3>4, IdIsSafe DEF TypeOK, request, Inbound
    <3>6. OneStatus' /\ WayIn' /\ WayOut' /\ OnRecord'
      BY <3>1, <3>2, <1>0 DEF OneStatus, WayIn, WayOut, OnRecord, request
    <3>7. OneId'
      <4>1. Depth(at) = 2 => at = "correlation"
        BY <3>1, <1>s, Depths
      <4> QED BY <3>1, <3>2, <3>3, <4>1 DEF OneId, WayIn, OwnId, safeId, request
    <3> QED BY <3>5, <3>6, <3>7
  <2>4. CASE DeadlinePasses
    <3>1. UNCHANGED <<request, at, mode, code, handled, panicked, records>> /\ deadline' = "expired"
      BY <2>4 DEF DeadlinePasses
    <3>2. TypeOK'
      BY <3>1 DEF TypeOK, request, records
    <3>3. (OneStatus /\ WayIn /\ WayOut /\ OnRecord /\ OneId)'
      BY <3>1 DEF OneStatus, WayIn, WayOut, OnRecord, OneId, OwnId, safeId, request, records, Place
    <3> QED BY <3>2, <3>3
  <2>5. CASE HandlerAnswers \/ HandlerPanics \/ HandlerPanicsLate \/ HandlerAborts
    <3>1. /\ mode = "in" /\ at = "handler" /\ at' = Outward(at) /\ handled' = TRUE
          /\ UNCHANGED <<request, deadline, ids, reported, logged, counted, span>>
          /\ stamped' \in {stamped, stamped \cup {IdAt("handler")}}
      BY <2>5 DEF HandlerAnswers, HandlerPanics, HandlerPanicsLate, HandlerAborts, Handles,
                  apiError, records
    <3>2. Place(at) = 13 /\ Place(at') = 12 /\ at' \in Stack /\ at' # "sent"
      BY <3>1, <1>s, Depths, Moves, NextLayer
    <3>12. IdAt("handler") = ids /\ ids = OwnId /\ OwnId \in {"token", "own"}
      <4>1. IdAt("handler") = ids
        BY Depths DEF IdAt
      <4>2. ids = OwnId
        BY <3>2, <1>0 DEF OneId
      <4> QED BY <4>1, <4>2, <1>0, IdIsSafe DEF TypeOK
    <3>3. \/ /\ mode' = "out" /\ UNCHANGED panicked
             /\ \E st \in HandlerStatuses : WriteHeader(at, st)
          \/ mode' = "panicking" /\ panicked' = "before" /\ UNCHANGED code
          \/ mode' = "panicking" /\ panicked' = "after" /\ WriteHeader(at, "200")
          \/ mode' = "aborting" /\ panicked' = "abort" /\ UNCHANGED code
      BY <2>5 DEF HandlerAnswers, HandlerPanics, HandlerPanicsLate, HandlerAborts
    <3>4. \/ UNCHANGED code
          \/ \E st \in HandlerStatuses : WriteHeader(at, st)
      BY <3>3 DEF HandlerStatuses
    <3>5. code' \in [Writers -> Statuses \cup {"none"}]
          /\ \A w \in Writers : WriterDepth(w) <= 13 => code'[w] = code'["wire"]
      <4>1. CASE UNCHANGED code
        BY <4>1, <3>2 DEF TypeOK, OneStatus
      <4>2. ASSUME NEW st \in HandlerStatuses, WriteHeader(at, st)
            PROVE  <3>5!1 /\ <3>5!2
        BY <4>2, <3>1, <1>s, <1>0, Depths, HeaderWritten DEF Statuses
      <4> QED BY <3>4, <4>1, <4>2
    <3>6. \A st \in HandlerStatuses : WriteHeader(at, st) => code'["wire"] = st
      BY <3>1, <1>s, <1>0, HeaderWritten DEF WayIn, Statuses
    <3>7. TypeOK'
      BY <3>1, <3>2, <3>3, <3>5, <3>12 DEF TypeOK, request, Inbound
    <3>8. OneStatus'
      BY <3>2, <3>5, <1>0 DEF OneStatus
    <3>9. WayIn' /\ WayOut'
      BY <3>1, <3>2, <3>3, <3>6 DEF WayIn, WayOut, HandlerStatuses
    <3>10. OnRecord'
      BY <3>1, <3>2 DEF OnRecord, WayIn
    <3>11. OneId'
      BY <3>1, <3>2, <3>12 DEF OneId, OwnId, safeId, request
    <3> QED BY <3>7, <3>8, <3>9, <3>10, <3>11
  <2>6. ASSUME mode \in {"out", "panicking", "aborting"}, at # "sent", at' = Outward(at),
               UNCHANGED <<request, mode, code, handled, panicked, ids, reported>>,
               deadline' \in {deadline, "cancelled"},
               stamped' \subseteq {ids} \ {"none"},
               counted' = counted \/ counted' = code["wire"],
               logged' = logged \/ logged' \in Statuses,
               mode = "out" /\ kind # "scrape" /\ at = "access" => logged' = code["wire"],
               at \in {"correlation", "tracing"} => logged' = logged,
               span' \in Statuses \cup {span, "unnamed"},
               mode = "out" /\ config["tracing"] /\ at = "tracing" => span' = code["wire"],
               mode # "panicking" \/ at # "recoverer"
        PROVE  RecordInv'
    <3>1. at \in Stack /\ Place(at) = Depth(at) /\ Depth(at) \in 1..13
          /\ Place(at') = Depth(at) - 1 /\ at' \in Stack \cup {"sent"}
      BY <2>6, <1>s, Moves, NextLayer DEF TypeOK
    <3>2. (Depth(at) = 1 <=> at = "tracing") /\ (Depth(at) = 2 => at = "correlation")
          /\ (Depth(at) = 3 => at = "access") /\ (Depth(at) = 4 => at = "recoverer")
          /\ (at' = "sent" => at = "tracing")
      <4>1. at # "tracing" => Depth(at) - 1 \in 1..13
        BY <3>1, <1>s, Depths
      <4>2. at # "tracing" => at' # "sent"
        BY <3>1, <4>1, NextLayer, LayersShape, <2>6 DEF Outward
      <4> QED BY <3>1, <1>s, Depths, <4>2
    <3>3. TypeOK'
      <4>1. mode = "out" => code["wire"] \in Statuses
        BY <1>0 DEF TypeOK, WayOut
      <4>2. code["wire"] \in Statuses \cup {"none"}
        BY <1>0 DEF TypeOK
      <4> QED BY <2>6, <3>1, <4>1, <4>2 DEF TypeOK, request
    <3>4. OneStatus'
      BY <2>6, <3>1, <1>0 DEF OneStatus
    <3>5. WayIn' /\ WayOut'
      BY <2>6, <3>1, <3>2 DEF WayIn, WayOut
    <3>6. OnRecord'
      BY <2>6, <3>1, <3>2 DEF OnRecord, request
    <3>7. OneId'
      BY <2>6 DEF OneId, OwnId, safeId, request
    <3> QED BY <3>3, <3>4, <3>5, <3>6, <3>7
  <2>7. CASE UnwindsSilently
    BY <2>7, <2>6 DEF UnwindsSilently, Unwinds, records, OneId
  <2>8. CASE Counts
    <3>1. mode \in {"out", "panicking", "aborting"} /\ at = "metrics" /\ at' = Outward(at)
          /\ UNCHANGED <<request, mode, code, deadline, handled, panicked, ids, stamped, reported,
                         logged, span>>
      BY <2>8 DEF Counts, Unwinds
    <3>2. code["metrics"] = code["wire"]
      BY <3>1, <1>0, Depths DEF OneStatus, Place
    <3>3. counted' = counted \/ counted' = code["wire"]
      <4>1. mode = "out" => code["metrics"] # "none"
        BY <3>2 DEF WayOut
      <4> QED BY <2>8, <3>2, <4>1 DEF Counts
    <3> QED BY <3>1, <3>3, <2>6 DEF OneId
  <2>9. CASE TimeoutEnds
    <3>1. mode \in {"out", "panicking", "aborting"} /\ at = "timeout" /\ at' = Outward(at)
          /\ UNCHANGED <<request, mode, handled, panicked, records>>
          /\ deadline' \in {deadline, "cancelled"}
      BY <2>9 DEF TimeoutEnds, Unwinds
    <3>2. CASE UNCHANGED code
      BY <3>1, <3>2, <2>6 DEF records, OneId
    <3>3. CASE WriteHeader("timeout", "504")
      <4>1. Place(at) = 5 /\ Place(at') = 4 /\ at' \in Stack \cup {"sent"} /\ at' # "sent"
            /\ Depth(at) = 5
        BY <3>1, <1>s, Depths, Moves, NextLayer
      <4>2. /\ code' \in [Writers -> Statuses \cup {"none"}]
            /\ code'["wire"] = IF code["wire"] = "none" THEN "504" ELSE code["wire"]
            /\ \A w \in Writers : WriterDepth(w) <= Depth(at) => code'[w] = code'["wire"]
        BY <3>1, <3>3, <1>0, <1>s, HeaderWritten DEF Statuses
      <4>3. TypeOK'
        BY <3>1, <4>1, <4>2 DEF TypeOK, request, records
      <4>4. OneStatus'
        BY <4>1, <4>2, <1>0 DEF OneStatus
      <4>5. WayIn' /\ WayOut'
        BY <3>1, <4>1, <4>2 DEF WayIn, WayOut, TypeOK, records
      <4>6. OnRecord'
        <5>1. counted # "none" => code["wire"] # "none"
          BY DEF OnRecord
        <5> QED BY <3>1, <4>1, <4>2, <5>1 DEF OnRecord, request, records
      <4>7. OneId'
        BY <3>1 DEF OneId, OwnId, safeId, request, records
      <4> QED BY <4>3, <4>4, <4>5, <4>6, <4>7
    <3> QED BY <2>9, <3>2, <3>3 DEF TimeoutEnds
  <2>10. CASE Recovers
    <3>1. mode \in {"out", "panicking", "aborting"} /\ at = "recoverer" /\ at' = Outward(at)
          /\ UNCHANGED <<request, deadline, handled, panicked, ids, logged, counted, span>>
      BY <2>10 DEF Recovers, Unwinds
    <3>2. CASE mode # "panicking"
      BY <2>10, <3>1, <3>2, <2>6 DEF Recovers, OneId
    <3>3. CASE mode = "panicking"
      <4>1. /\ reported' = TRUE /\ WriteHeader("recoverer", "500") /\ mode' = "out"
            /\ stamped' = stamped \cup {ids}
        BY <2>10, <3>3, Depths DEF Recovers, IdAt
      <4>2. Place(at) = 4 /\ Depth(at) = 4 /\ Place(at') = 3
            /\ at' \in Stack \cup {"sent"} /\ at' # "sent"
        BY <3>1, <1>s, Depths, Moves, NextLayer
      <4>3. /\ code' \in [Writers -> Statuses \cup {"none"}]
            /\ code'["wire"] = IF code["wire"] = "none" THEN "500" ELSE code["wire"]
            /\ \A w \in Writers : WriterDepth(w) <= Depth(at) => code'[w] = code'["wire"]
        BY <3>1, <4>1, <1>0, <1>s, HeaderWritten DEF Statuses, HandlerStatuses
      <4>4. ids = OwnId /\ OwnId # "none" /\ stamped' \subseteq {ids} \ {"none"}
        BY <3>3, <4>1, IdIsSafe DEF OneId, TypeOK
      <4>5. TypeOK'
        BY <3>1, <4>1, <4>2, <4>3, <4>4 DEF TypeOK, request
      <4>6. OneStatus'
        BY <4>2, <4>3, <1>0 DEF OneStatus
      <4>7. WayIn' /\ WayOut'
        BY <3>1, <3>3, <4>1, <4>2, <4>3 DEF WayIn, WayOut, TypeOK
      <4>8. OnRecord'
        <5>1. counted # "none" => code["wire"] # "none"
          BY DEF OnRecord
        <5> QED BY <3>1, <4>1, <4>2, <4>3, <5>1 DEF OnRecord, request
      <4>9. OneId'
        BY <3>1, <4>4 DEF OneId, OwnId, safeId, request
      <4> QED BY <4>5, <4>6, <4>7, <4>8, <4>9
    <3> QED BY <3>2, <3>3
  <2>11. CASE Logs
    <3>1. mode \in {"out", "panicking", "aborting"} /\ at = "access" /\ at' = Outward(at)
          /\ UNCHANGED <<request, mode, code, deadline, handled, panicked, ids, reported, counted, span>>
      BY <2>11 DEF Logs, Unwinds
    <3>2. code["access"] = code["wire"]
      BY <3>1, <1>0, Depths DEF OneStatus, Place
    <3>3. mode = "out" => code["wire"] \in Statuses
      BY <1>0 DEF TypeOK, WayOut
    <3>4. mode = "out" /\ kind # "scrape" => logged' = code["wire"]
      BY <2>11, <3>2, <3>3 DEF Logs, Sent, WayOut
    <3>5. logged' = logged \/ logged' \in Statuses
      BY <2>11, <3>3, <3>4 DEF Logs
    <3>6. stamped' \subseteq {ids} \ {"none"}
      <4>1. stamped' \in {stamped, stamped \cup {ids}}
        BY <2>11, Depths DEF Logs, IdAt
      <4>2. ids # "none"
        BY <3>1, IdIsSafe DEF OneId, TypeOK
      <4> QED BY <4>1, <4>2 DEF OneId
    <3> QED BY <3>1, <3>4, <3>5, <3>6, <2>6
  <2>12. CASE EndsSpan
    <3>1. mode \in {"out", "panicking", "aborting"} /\ at = "tracing" /\ at' = Outward(at)
          /\ UNCHANGED <<request, mode, code, deadline, handled, panicked, ids, stamped, reported,
                         logged, counted>>
      BY <2>12 DEF EndsSpan, Unwinds
    <3>2. code["tracing"] = code["wire"]
      BY <3>1, <1>0, Depths DEF OneStatus, Place
    <3>3. mode = "out" => code["wire"] \in Statuses
      BY <1>0 DEF TypeOK, WayOut
    <3>4. mode = "out" /\ config["tracing"] => span' = code["wire"]
      BY <2>12, <3>2, <3>3 DEF EndsSpan, Sent, WayOut
    <3>5. span' \in Statuses \cup {span, "unnamed"}
      BY <2>12, <3>2, <3>3 DEF EndsSpan, Sent, WayOut
    <3> QED BY <3>1, <3>4, <3>5, <2>6 DEF OneId
  <2>13. CASE UNCHANGED vars
    <3>1. TypeOK'
      BY <2>13 DEF TypeOK, vars, request, records
    <3>2. (OneStatus /\ WayIn /\ WayOut /\ OnRecord /\ OneId)'
      BY <2>13 DEF OneStatus, WayIn, WayOut, OnRecord, OneId, OwnId, safeId, vars, request, records, Place
    <3> QED BY <3>1, <3>2
  <2> QED
    BY <2>1, <2>2, <2>3, <2>4, <2>5, <2>7, <2>8, <2>9, <2>10, <2>11, <2>12, <2>13 DEF Next, Ended
<1> QED BY <1>1, <1>2, PTL DEF Spec

(* Every variable of the pipeline keeps its type.                           *)
THEOREM TypeCorrect == Spec => []TypeOK
<1>1. RecordInv => TypeOK
  BY DEF RecordInv
<1> QED BY <1>1, RecordInvariant, PTL

(* The access line, the span and the counter tell the status on the wire,   *)
(* though four wrappers at four depths each keep their own.                 *)
THEOREM OneStory == Spec => []RecordsAgree
<1>1. RecordInv => RecordsAgree
  <2> SUFFICES ASSUME RecordInv, Returned PROVE RecordsAgree
    BY DEF RecordsAgree
  <2>1. Sent("wire") = code["wire"]
    BY DEF RecordInv, WayOut, Returned, Sent
  <2> QED BY <2>1 DEF RecordInv, OnRecord, Returned, Place, RecordsAgree
<1> QED BY <1>1, RecordInvariant, PTL

(* A panic is reported, and the caller of one that wrote nothing is told.   *)
THEOREM PanicIsReported == Spec => []PanicReported
<1>1. RecordInv => PanicReported
  BY DEF RecordInv, WayOut, Returned, Place, PanicReported
<1> QED BY <1>1, RecordInvariant, PTL

(* The deferred 504 replaces no answer of a handler or layer that returned. *)
THEOREM NoLateDeadline == Spec => []AnswerSurvivesDeadline
<1>1. RecordInv => AnswerSurvivesDeadline
  BY DEF RecordInv, TypeOK, WayOut, AnswerSurvivesDeadline
<1> QED BY <1>1, RecordInvariant, PTL

(* Every log record of a request carries the one id echoed to its caller.   *)
THEOREM Traceable == Spec => []RecordsTraceable
<1>1. RecordInv => RecordsTraceable
  BY IdIsSafe DEF RecordInv, TypeOK, OneId, Returned, RecordsTraceable
<1> QED BY <1>1, RecordInvariant, PTL
=============================================================================
