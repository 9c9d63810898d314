-------------------------- MODULE ProfileApiProofs --------------------------
(***************************************************************************)
(* ProfileApi implements ProfileStore, for every set of requests and ids,  *)
(* every pool size and with or without either timeout.                     *)
(***************************************************************************)
EXTENDS ProfileApi, FiniteSetTheorems, TLAPS

\* What Postgres is doing for a request, given where its handler stands, and
\* whether the statement has run.
Consistent(r) ==
  /\ pc[r] \in {"idle", "acquire"} => backend[r] = "none" /\ outcome[r] = None
  /\ pc[r] = "query" => backend[r] \in {"running", "replied", "timedOut"}
  /\ pc[r] = "done" => backend[r] \in {"none", "orphan"}
  /\ backend[r] \in {"running", "timedOut", "orphan"} => outcome[r] = None
  /\ backend[r] = "replied" => outcome[r] # None
  /\ backend[r] = "orphan" => status[r] \in {500, 503}
  /\ pc[r] # "done" => status[r] = 0
  /\ call[r].op = "ready" => outcome[r] # Absent

IInv == TypeOK /\ \A r \in Requests : Consistent(r)

-----------------------------------------------------------------------------
(* What one statement does to the table.                                   *)
LEMMA StatementType ==
  ASSUME NEW t \in [Ids -> Rows \cup {Absent}], NEW r \in Requests, NEW c \in Calls
  PROVE  /\ After(t, r, c) \in [Ids -> Rows \cup {Absent}]
         /\ Outcome(t, r, c) \in Rows \cup {Absent}
         /\ Outcome(t, r, c) # None
         /\ c.op = "ready" => Outcome(t, r, c) # Absent
  <1>1. c.id \in Ids /\ c.op \in Ops
    BY DEF Calls
  <1>2. Absent # None /\ Seeded # None /\ r # None /\ r # Absent
    BY RowsAssumption DEF Absent, Seeded, None
  <1>3. \A x \in Rows \cup {Absent} : x # None
    BY RowsAssumption DEF Rows, Absent, Seeded, None
  <1>4. After(t, r, c) \in [Ids -> Rows \cup {Absent}]
    BY <1>1 DEF After, Ops, Rows
  <1>5. Outcome(t, r, c) \in Rows \cup {Absent}
    BY <1>1 DEF Outcome, Rows
  <1> QED
    BY <1>2, <1>3, <1>4, <1>5 DEF Outcome

(* A failure other than a missing row is answered 500 or 503, and a        *)
(* readiness probe always 503.                                             *)
LEMMA RefusalStatus ==
  ASSUME NEW op \in Ops, NEW e \in Errors
  PROVE  /\ Refusal(op, e) \in {404, 500, 503}
         /\ op = "ready" => Refusal(op, e) = 503
         /\ e # "noRows" => Refusal(op, e) \in {500, 503}
         /\ op # "ready" /\ e = "noRows" => Refusal(op, e) = 404
         /\ e \in {"deadline", "canceled"} => Refusal(op, e) = 503
  BY DEF Refusal, StatusError, Classify, Errors

LEMMA SuccessStatus == \A op \in Ops : Success(op) \in {200, 201, 204}
  BY DEF Success, Ops
(* A request's call names an operation, whatever the step.                 *)
LEMMA CallOps == TypeOK => \A r \in Requests : call[r] \in Calls /\ call[r].op \in Ops
  BY DEF TypeOK, Calls

-----------------------------------------------------------------------------
(* The inductive invariant: what Postgres does for a request agrees with   *)
(* where its handler stands, and only a request answered 500 or 503 leaves *)
(* a statement behind.                                                     *)
THEOREM ApiInvariant == Spec => []IInv
  <1>1. Init => IInv
    <2> SUFFICES ASSUME Init
                 PROVE  IInv
      OBVIOUS
    <2>1. TypeOK
      BY DEF Init, TypeOK, Ids, Rows
    <2>2. \A r \in Requests : Consistent(r)
      BY DEF Init, Consistent, None, Absent
    <2> QED
      BY <2>1, <2>2 DEF IInv
  <1>2. IInv /\ [Next]_vars => IInv'
    <2> SUFFICES ASSUME IInv, [Next]_vars
                 PROVE  IInv'
      OBVIOUS
    <2>0. TypeOK /\ \A q \in Requests : Consistent(q)
      BY DEF IInv
    <2> USE DEF IInv, TypeOK, Errors
    <2>1. ASSUME NEW r \in Requests, Submit(r)
          PROVE  IInv'
      BY <2>0, <2>1 DEF Submit, Consistent
    <2>2. ASSUME NEW r \in Requests, Acquire(r)
          PROVE  IInv'
      BY <2>0, <2>2 DEF Acquire, Consistent
    <2>3. ASSUME NEW r \in Requests, GiveUp(r)
          PROVE  IInv'
      BY <2>0, <2>3, RefusalStatus, CallOps DEF GiveUp, Fail, Consistent
    <2>4. ASSUME NEW r \in Requests, DialFails(r)
          PROVE  IInv'
      BY <2>0, <2>4, RefusalStatus, CallOps DEF DialFails, Fail, Consistent
    <2>5. ASSUME NEW r \in Requests, Receive(r)
          PROVE  IInv'
      BY <2>0, <2>5, RefusalStatus, SuccessStatus, CallOps DEF Receive, Fail, Consistent
    <2>6. ASSUME NEW r \in Requests, ReceiveTimeout(r)
          PROVE  IInv'
      BY <2>0, <2>6, RefusalStatus, CallOps DEF ReceiveTimeout, Fail, Consistent
    <2>7. ASSUME NEW r \in Requests, Abandon(r)
          PROVE  IInv'
      BY <2>0, <2>7, RefusalStatus, CallOps DEF Abandon, Drop, Fail, Consistent
    <2>8. ASSUME NEW r \in Requests, ConnectionBreaks(r)
          PROVE  IInv'
      BY <2>0, <2>8, RefusalStatus, CallOps DEF ConnectionBreaks, Drop, Fail, Consistent
    <2>9. ASSUME NEW r \in Requests, Closed(r)
          PROVE  IInv'
      BY <2>0, <2>9 DEF Closed, Consistent
    <2>10. ASSUME NEW r \in Requests, Deadline(r)
          PROVE  IInv'
      BY <2>0, <2>10 DEF Deadline, EndContext, Consistent
    <2>11. ASSUME NEW r \in Requests, ClientLeaves(r)
          PROVE  IInv'
      BY <2>0, <2>11 DEF ClientLeaves, EndContext, Consistent
    <2>12. ASSUME NEW r \in Requests, Execute(r)
          PROVE  IInv'
      <3>1. /\ table' \in [Ids -> Rows \cup {Absent}]
            /\ Outcome(table, r, call[r]) \in Rows \cup {Absent}
            /\ Outcome(table, r, call[r]) # None
            /\ call[r].op = "ready" => Outcome(table, r, call[r]) # Absent
        BY <2>0, <2>12, StatementType DEF Execute
      <3> QED
        BY <2>0, <2>12, <3>1 DEF Execute, Consistent
    <2>13. ASSUME NEW r \in Requests, CancelStatement(r)
          PROVE  IInv'
      BY <2>0, <2>13 DEF CancelStatement, Consistent
    <2>14. ASSUME NEW r \in Requests, OrphanDies(r)
          PROVE  IInv'
      BY <2>0, <2>14 DEF OrphanDies, Consistent
    <2>15. CASE Quiet \/ UNCHANGED vars
      BY <2>0, <2>15 DEF Quiet, vars, Consistent
    <2> QED
      BY <2>1, <2>2, <2>3, <2>4, <2>5, <2>6, <2>7, <2>8,
         <2>9, <2>10, <2>11, <2>12, <2>13, <2>14, <2>15 DEF Next, Handler
  <1> QED
    BY <1>1, <1>2, PTL DEF Spec
-----------------------------------------------------------------------------
(* What applyPoolSettings hands to Postgres: a timer that fires exactly for *)
(* a setting of at least one millisecond.                                   *)
LEMMA TimerNeedsMillisecond == statementTimeoutParam > 0 <=> StatementTimeout >= 1000
  BY TimeoutsAssumption, SMT DEF statementTimeoutParam

NoTimerFires == \A r \in Requests : backend[r] # "timedOut" /\ fault[r] # "statementTimeout"

(* A statement_timeout below one millisecond passes the test for a setting  *)
(* and is truncated to 0 by Milliseconds: no statement is ever cancelled.   *)
THEOREM SubMillisecondNeverFires ==
  ASSUME StatementTimeout < 1000
  PROVE  Spec => []NoTimerFires
  <1> USE DEF NoTimerFires
  <1>1. Init => NoTimerFires
    BY DEF Init
  <1>2. IInv /\ NoTimerFires /\ [Next]_vars => NoTimerFires'
    <2> SUFFICES ASSUME IInv, NoTimerFires, [Next]_vars
                 PROVE  NoTimerFires'
      OBVIOUS
    <2>0. TypeOK
      BY DEF IInv
    <2>1. ASSUME NEW r \in Requests,
                 \/ Submit(r) \/ Acquire(r) \/ Closed(r) \/ Deadline(r) \/ ClientLeaves(r)
                 \/ Execute(r) \/ OrphanDies(r)
          PROVE  NoTimerFires'
      BY <2>0, <2>1 DEF TypeOK, Submit, Acquire, Closed, Deadline, ClientLeaves, EndContext,
                        Execute, OrphanDies
    <2>2. ASSUME NEW r \in Requests,
                 GiveUp(r) \/ DialFails(r) \/ Abandon(r) \/ ConnectionBreaks(r) \/ Receive(r)
          PROVE  NoTimerFires'
      BY <2>0, <2>2 DEF TypeOK, GiveUp, DialFails, Abandon, ConnectionBreaks, Receive, Drop, Fail
    <2>3. ASSUME NEW r \in Requests, ReceiveTimeout(r)
          PROVE  NoTimerFires'
      BY <2>3 DEF ReceiveTimeout
    <2>4. ASSUME NEW r \in Requests, CancelStatement(r)
          PROVE  NoTimerFires'
      <3>1. ~(statementTimeoutParam > 0)
        BY TimerNeedsMillisecond, TimeoutsAssumption
      <3> QED
        BY <2>4, <3>1 DEF CancelStatement
    <2>5. CASE Quiet \/ UNCHANGED vars
      BY <2>5 DEF Quiet, vars
    <2> QED
      BY <2>1, <2>2, <2>3, <2>4, <2>5 DEF Next, Handler
  <1> QED
    BY <1>1, <1>2, ApiInvariant, PTL DEF Spec
-----------------------------------------------------------------------------
(* A deadline or a departed client never turns into a 500.                 *)
THEOREM SlowNeverBroken == Spec => []SlowIsNotBroken
  <1> DEFINE FaultInv == \A r \in Requests :
        status[r] # 0 => \/ status[r] \in {200, 201, 204}
                         \/ fault[r] \in Errors /\ status[r] = Refusal(call[r].op, fault[r])
  <1>1. Init => FaultInv
    BY DEF Init
  <1>2. IInv /\ FaultInv /\ [Next]_vars => FaultInv'
    <2> SUFFICES ASSUME IInv, FaultInv, [Next]_vars
                 PROVE  FaultInv'
      OBVIOUS
    <2>0. TypeOK
      BY DEF IInv
    <2>1. ASSUME NEW r \in Requests,
                 GiveUp(r) \/ DialFails(r) \/ ReceiveTimeout(r) \/ Abandon(r) \/ ConnectionBreaks(r)
          PROVE  FaultInv'
      BY <2>0, <2>1 DEF GiveUp, DialFails, ReceiveTimeout, Abandon, ConnectionBreaks, Fail,
                        TypeOK, Errors
    <2>2. ASSUME NEW r \in Requests, Receive(r)
          PROVE  FaultInv'
      BY <2>0, <2>2, SuccessStatus, CallOps DEF Receive, Fail, TypeOK, Errors
    <2>3. ASSUME NEW r \in Requests,
                 \/ Submit(r) \/ Acquire(r) \/ Closed(r) \/ Deadline(r) \/ ClientLeaves(r)
                 \/ Execute(r) \/ CancelStatement(r) \/ OrphanDies(r)
          PROVE  FaultInv'
      BY <2>3 DEF Submit, Acquire, Closed, Deadline, ClientLeaves, EndContext, Execute,
                  CancelStatement, OrphanDies
    <2>4. CASE Quiet \/ UNCHANGED vars
      BY <2>4 DEF Quiet, vars
    <2> QED
      BY <2>1, <2>2, <2>3, <2>4 DEF Next, Handler
  <1>3. IInv /\ FaultInv => SlowIsNotBroken
    <2> SUFFICES ASSUME IInv, FaultInv, NEW r \in Requests, status[r] = 500
                 PROVE  fault[r] \in {"connection", "statementTimeout"}
      BY DEF SlowIsNotBroken
    <2>1. TypeOK /\ call[r].op \in Ops
      BY CallOps DEF IInv
    <2>2. fault[r] \in Errors /\ Refusal(call[r].op, fault[r]) = 500
      OBVIOUS
    <2> QED
      BY <2>1, <2>2, RefusalStatus DEF Errors
  <1> QED
    BY <1>1, <1>2, <1>3, ApiInvariant, PTL DEF Spec

-----------------------------------------------------------------------------
(* Every step of the api is a step of the store or invisible to it.        *)
LEMMA StoreInit == Init => Store!Init
  <1> SUFFICES ASSUME Init
               PROVE  Store!Init
    OBVIOUS
  <1>1. Phase = [r \in Requests |-> "idle"]
    <2>1. \A r \in Requests : PhaseOf(pc[r]) = "idle"
      BY DEF Init, PhaseOf
    <2> QED
      BY <2>1 DEF Phase
  <1>2. /\ Store!Ids = Ids /\ Store!Calls = Calls
        /\ Store!Absent = Absent /\ Store!Seeded = Seeded /\ Store!None = None
    BY DEF Store!Absent, Absent, Store!Seeded, Seeded, Store!None, None,
           Store!Ids, Ids, Store!Calls, Calls, Store!Ops, Ops
  <1> QED
    BY <1>1, <1>2 DEF Init, Store!Init

LEMMA StoreStep == IInv /\ [Next]_vars => [Store!Next]_Store!vars
  <1> SUFFICES ASSUME IInv, [Next]_vars
               PROVE  [Store!Next]_Store!vars
    OBVIOUS
  <1>0. TypeOK /\ \A q \in Requests : Consistent(q)
    BY DEF IInv
  <1> USE DEF TypeOK, Store!vars
  <1>a. /\ \A op : Store!Success(op) = Success(op)
        /\ Store!Rows = Rows /\ Store!Absent = Absent /\ Store!None = None
    BY DEF Store!Success, Success, Store!Rows, Rows, Store!Seeded, Seeded, Store!Absent, Absent,
           Store!None, None
  <1>c. ASSUME NEW r \in Requests, NEW p, pc' = [pc EXCEPT ![r] = p]
        PROVE  Phase' = [Phase EXCEPT ![r] = PhaseOf(p)]
    BY <1>0, <1>c DEF Phase
  <1>b. ASSUME NEW r \in Requests, pc[r] \in {"acquire", "query"}, pc' = [pc EXCEPT ![r] = "done"]
        PROVE  Phase[r] = "open" /\ Phase' = [Phase EXCEPT ![r] = "answered"]
    <2>1. PhaseOf("done") = "answered" /\ PhaseOf(pc[r]) = "open"
      BY <1>b DEF PhaseOf
    <2>2. Phase[r] = PhaseOf(pc[r]) /\ Phase' = [Phase EXCEPT ![r] = PhaseOf("done")]
      BY <1>b, <1>c DEF Phase
    <2> QED
      BY <2>1, <2>2
  <1>1. ASSUME NEW r \in Requests, Submit(r)
        PROVE  Store!Submit(r)
    <2>1. PhaseOf("idle") = "idle" /\ PhaseOf("acquire") = "open"
      BY DEF PhaseOf
    <2>2. Phase[r] = PhaseOf("idle")
      BY <1>1 DEF Submit, Phase
    <2>3. Phase' = [Phase EXCEPT ![r] = PhaseOf("acquire")]
      BY <1>1, <1>c DEF Submit
    <2> QED
      BY <1>1, <2>1, <2>2, <2>3 DEF Submit, Store!Submit
  <1>2. ASSUME NEW r \in Requests, NEW e \in Errors \ {"noRows"}, Fail(r, e),
               pc[r] \in {"acquire", "query"}, UNCHANGED <<table, call, outcome>>
        PROVE  Store!Answer(r)
    <2>1. call[r].op \in Ops
      BY <1>0, CallOps
    <2> DEFINE failures == IF call[r].op = "ready" THEN {503} ELSE {500, 503}
    <2>2. Refusal(call[r].op, e) \in failures
      BY <2>1, RefusalStatus
    <2>3. pc' = [pc EXCEPT ![r] = "done"] /\ status' = [status EXCEPT ![r] = Refusal(call[r].op, e)]
      BY <1>2 DEF Fail
    <2>4. Phase[r] = "open" /\ Phase' = [Phase EXCEPT ![r] = "answered"]
      BY ONLY <1>b, <1>2, <2>3
    <2> HIDE DEF failures
    <2>5. \E failure \in failures : status' = [status EXCEPT ![r] = failure]
      BY ONLY <2>2, <2>3
    <2> QED
      BY ONLY <1>2, <2>4, <2>5 DEF failures, Store!Answer
  <1>3. ASSUME NEW r \in Requests, Receive(r)
        PROVE  Store!Answer(r)
    <2>0. pc[r] \in {"acquire", "query"} /\ UNCHANGED <<table, call, outcome>>
      BY <1>3 DEF Receive
    <2>1. CASE outcome[r] = Absent /\ Fail(r, "noRows")
      <3>1. call[r].op \in Ops /\ call[r].op # "ready"
        BY <1>0, <2>1, CallOps DEF Consistent
      <3>2. Refusal(call[r].op, "noRows") = 404
        BY <3>1, RefusalStatus DEF Errors
      <3>3. pc' = [pc EXCEPT ![r] = "done"] /\ status' = [status EXCEPT ![r] = 404]
        BY <2>1, <3>2 DEF Fail
      <3>4. Phase[r] = "open" /\ Phase' = [Phase EXCEPT ![r] = "answered"]
        BY <1>b, <2>0, <3>3
      <3> QED
        BY ONLY <1>a, <2>0, <2>1, <3>3, <3>4 DEF Store!Answer
    <2>2. CASE outcome[r] # Absent /\ pc' = [pc EXCEPT ![r] = "done"]
               /\ status' = [status EXCEPT ![r] = Success(call[r].op)]
      <3>1. outcome[r] \in Rows
        BY <1>0, <1>3, <2>2 DEF Receive, Consistent
      <3>2. Phase[r] = "open" /\ Phase' = [Phase EXCEPT ![r] = "answered"]
        BY <1>b, <2>0, <2>2
      <3> QED
        BY ONLY <1>a, <2>0, <2>2, <3>1, <3>2 DEF Store!Answer
    <2> QED
      BY <1>3, <2>1, <2>2 DEF Receive
  <1>4. ASSUME NEW r \in Requests, Execute(r)
        PROVE  Store!TakeEffect(r)
    <2>1. /\ Store!After(table, r, call[r]) = After(table, r, call[r])
          /\ Store!Outcome(table, r, call[r]) = Outcome(table, r, call[r])
      BY DEF Store!After, Store!Outcome, After, Outcome, Store!Absent, Absent
    <2>2. Phase' = Phase
      BY <1>4 DEF Execute, Phase
    <2>3. (pc[r] = "query" \/ status[r] \in {500, 503}) /\ outcome[r] = None
      BY <1>0, <1>4 DEF Execute, Consistent
    <2>4. pc[r] = "query" => Phase[r] = "open"
      BY DEF Phase, PhaseOf
    <2> QED
      BY <1>4, <1>a, <2>1, <2>2, <2>3, <2>4 DEF Execute, Store!TakeEffect
  <1>5. ASSUME NEW r \in Requests, GiveUp(r) \/ Abandon(r)
        PROVE  Store!Answer(r)
    <2>1. ctx[r] \in Errors \ {"noRows"}
      BY <1>0, <1>5 DEF GiveUp, Abandon, Errors
    <2> QED
      BY <1>2, <1>5, <2>1 DEF GiveUp, Abandon
  <1>6. ASSUME NEW r \in Requests, DialFails(r) \/ ReceiveTimeout(r) \/ ConnectionBreaks(r)
        PROVE  Store!Answer(r)
    BY <1>2, <1>6 DEF DialFails, ReceiveTimeout, ConnectionBreaks, Errors
  <1>7. ASSUME NEW r \in Requests,
               \/ Acquire(r) \/ Closed(r) \/ Deadline(r) \/ ClientLeaves(r)
               \/ CancelStatement(r) \/ OrphanDies(r)
        PROVE  UNCHANGED Store!vars
    <2>1. UNCHANGED <<table, call, outcome, status>>
      BY <1>7 DEF Acquire, Closed, Deadline, ClientLeaves, EndContext, CancelStatement, OrphanDies
    <2>2. \A q \in Requests : PhaseOf(pc'[q]) = PhaseOf(pc[q])
      BY <1>0, <1>7 DEF Acquire, Closed, Deadline, ClientLeaves, EndContext, CancelStatement,
                        OrphanDies, PhaseOf
    <2>3. Phase' = Phase
      BY <2>2 DEF Phase
    <2> QED
      BY <2>1, <2>3
  <1>8. CASE Quiet \/ UNCHANGED vars
    BY <1>8 DEF Quiet, vars, Phase
  <1> QED
    BY <1>1, <1>3, <1>4, <1>5, <1>6, <1>7, <1>8 DEF Next, Handler, Store!Next

(* The api implements the store: at most one effect per call, and answers  *)
(* that report it, for any number of requests and connections.             *)
THEOREM ApiImplementsStore == Spec => HonoursStore
  BY StoreInit, StoreStep, ApiInvariant, PTL DEF Spec, HonoursStore, Store!Spec

(* Requests, connections, rows and statements keep their types.             *)
THEOREM TypeCorrect == Spec => []TypeOK
<1>1. IInv => TypeOK
  BY DEF IInv
<1> QED BY <1>1, ApiInvariant, PTL

-----------------------------------------------------------------------------
(* What a caller may conclude from the store holds of the api.              *)
Promises == INSTANCE ProfileStoreProofs WITH phase <- Phase

(* ProfileStore's definitions mean the same under either instance.          *)
LEMMA SameRows ==
  /\ Promises!Absent = Store!Absent /\ Promises!Seeded = Store!Seeded /\ Promises!None = Store!None
  /\ Promises!Ids = Store!Ids /\ Promises!Calls = Store!Calls /\ Promises!Rows = Store!Rows
  /\ \A op : Promises!Success(op) = Store!Success(op)
  /\ \A t, r, c : /\ Promises!After(t, r, c) = Store!After(t, r, c)
                  /\ Promises!Outcome(t, r, c) = Store!Outcome(t, r, c)
BY DEF Promises!Absent, Promises!Seeded, Promises!None, Promises!Ids, Promises!Ops, Promises!Calls,
       Promises!Rows, Promises!Success, Promises!After, Promises!Outcome,
       Store!Absent, Store!Seeded, Store!None, Store!Ids, Store!Ops, Store!Calls,
       Store!Rows, Store!Success, Store!After, Store!Outcome

LEMMA SameInit == Store!Init => Promises!Init
BY SameRows DEF Store!Init, Promises!Init

LEMMA SameNext == [Store!Next]_Store!vars => [Promises!Next]_Promises!vars
<1>1. ASSUME NEW r \in Requests
      PROVE  /\ Store!Submit(r) => Promises!Submit(r)
             /\ Store!TakeEffect(r) => Promises!TakeEffect(r)
             /\ Store!Answer(r) => Promises!Answer(r)
  <2>1. Store!Submit(r) => Promises!Submit(r)
    BY DEF Store!Submit, Promises!Submit
  <2>2. Store!TakeEffect(r) => Promises!TakeEffect(r)
    BY SameRows DEF Store!TakeEffect, Promises!TakeEffect
  <2>3. Store!Answer(r) => Promises!Answer(r)
    BY SameRows DEF Store!Answer, Promises!Answer
  <2> QED BY <2>1, <2>2, <2>3
<1> QED BY <1>1 DEF Store!Next, Promises!Next, Store!vars, Promises!vars

LEMMA SameConclusions ==
  Promises!DeletedForGood /\ Promises!AcknowledgedStays => DeletedForGood /\ AcknowledgedStays
BY SameRows DEF Promises!DeletedForGood, Promises!AcknowledgedStays, Promises!Written,
                DeletedForGood, AcknowledgedStays, Store!DeletedForGood,
                Store!AcknowledgedStays, Store!Written

(* The api keeps the store, and with it what the store promises.            *)
LEMMA ApiConclusions == Spec => [](DeletedForGood /\ AcknowledgedStays)
<1>1. Store!Spec => Promises!Spec
  BY SameInit, SameNext, PTL DEF Store!Spec, Promises!Spec
<1>2. {Promises!Absent, Promises!Seeded, Promises!None} \cap Requests = {}
  BY RowsAssumption DEF Promises!Absent, Promises!Seeded, Promises!None, Absent, Seeded, None
<1>3. Promises!Spec => [](Promises!DeletedForGood /\ Promises!AcknowledgedStays)
  BY <1>2, Promises!StoreConclusions
<1>4. [](Promises!DeletedForGood /\ Promises!AcknowledgedStays) => [](DeletedForGood /\ AcknowledgedStays)
  BY SameConclusions, PTL
<1> QED BY <1>1, <1>3, <1>4, ApiImplementsStore, PTL DEF HonoursStore

(* A 204 is final: no deadline, lost connection or orphaned statement       *)
(* brings the removed row back, and no second caller is told it removed it. *)
THEOREM ApiDeletesForGood == Spec => []DeletedForGood
BY ApiConclusions, PTL

(* A create or an update that was acknowledged is lost only to another call *)
(* that had its effect on the same row.                                     *)
THEOREM ApiKeepsAcknowledged == Spec => []AcknowledgedStays
BY ApiConclusions, PTL

-----------------------------------------------------------------------------
(* The slots of the pool: in use by a handler, or held by a teardown.       *)
Slots ==
  /\ IsFiniteSet(InUse) /\ IsFiniteSet(closing)
  /\ \A r \in closing : pc[r] = "done"
  /\ Cardinality(InUse) + Cardinality(closing) <= MaxConns

LEMMA SlotsStep == IInv /\ Slots /\ [Next]_vars => Slots'
<1> SUFFICES ASSUME IInv, Slots, [Next]_vars
             PROVE  Slots'
  OBVIOUS
<1>0. /\ pc \in [Requests -> {"idle", "acquire", "query", "done"}]
      /\ closing \subseteq Requests /\ MaxConns \in Nat
  BY MaxConnsAssumption DEF IInv, TypeOK
<1>c. /\ IsFiniteSet(InUse) /\ Cardinality(InUse) \in Nat
      /\ IsFiniteSet(closing) /\ Cardinality(closing) \in Nat
      /\ Cardinality(InUse) + Cardinality(closing) <= MaxConns
      /\ \A r \in closing : pc[r] = "done"
  BY FS_CardinalityType DEF Slots
<1>1. ASSUME NEW r \in Requests, Acquire(r)
      PROVE  Slots'
  <2>1. InUse' = InUse \cup {r} /\ r \notin InUse /\ closing' = closing /\ r \notin closing
    BY <1>0, <1>1, <1>c DEF Acquire, InUse
  <2>2. IsFiniteSet(InUse') /\ Cardinality(InUse') = Cardinality(InUse) + 1
    BY <1>c, <2>1, FS_AddElement
  <2>3. \A q \in closing' : pc'[q] = "done"
    BY <1>0, <1>1, <1>c, <2>1 DEF Acquire
  <2>4. Cardinality(InUse) + Cardinality(closing) < MaxConns
    BY <1>1 DEF Acquire, FreeSlot
  <2> QED BY <1>0, <1>c, <2>1, <2>2, <2>3, <2>4 DEF Slots
<1>2. ASSUME NEW r \in Requests, Receive(r) \/ ReceiveTimeout(r)
      PROVE  Slots'
  <2>1. InUse' = InUse \ {r} /\ r \in InUse /\ closing' = closing
    BY <1>0, <1>2 DEF Receive, ReceiveTimeout, Fail, InUse
  <2>2. IsFiniteSet(InUse') /\ Cardinality(InUse') = Cardinality(InUse) - 1
    BY <1>c, <2>1, FS_RemoveElement
  <2>3. \A q \in closing' : pc'[q] = "done"
    BY <1>0, <1>2, <1>c, <2>1 DEF Receive, ReceiveTimeout, Fail
  <2> QED BY <1>0, <1>c, <2>1, <2>2, <2>3 DEF Slots
<1>3. ASSUME NEW r \in Requests, Abandon(r) \/ ConnectionBreaks(r)
      PROVE  Slots'
  <2>1. /\ InUse' = InUse \ {r} /\ r \in InUse
        /\ closing' = closing \cup {r} /\ r \notin closing
    BY <1>0, <1>3, <1>c DEF Abandon, ConnectionBreaks, Drop, Fail, InUse
  <2>2. /\ IsFiniteSet(InUse') /\ Cardinality(InUse') = Cardinality(InUse) - 1
        /\ IsFiniteSet(closing') /\ Cardinality(closing') = Cardinality(closing) + 1
    BY <1>c, <2>1, FS_AddElement, FS_RemoveElement
  <2>3. \A q \in closing' : pc'[q] = "done"
    BY <1>0, <1>3, <1>c, <2>1 DEF Abandon, ConnectionBreaks, Fail
  <2> QED BY <1>0, <1>c, <2>2, <2>3 DEF Slots
<1>4. ASSUME NEW r \in Requests, Closed(r)
      PROVE  Slots'
  <2>1. closing' = closing \ {r} /\ r \in closing /\ pc' = pc /\ InUse' = InUse
    BY <1>4 DEF Closed, InUse
  <2>2. IsFiniteSet(closing') /\ Cardinality(closing') = Cardinality(closing) - 1
    BY <1>c, <2>1, FS_RemoveElement
  <2> QED BY <1>0, <1>c, <2>1, <2>2 DEF Slots
<1>5. ASSUME InUse' = InUse, closing' = closing, \A q \in Requests : pc[q] = "done" => pc'[q] = "done"
      PROVE  Slots'
  BY <1>0, <1>c, <1>5 DEF Slots
<1>6. ASSUME NEW r \in Requests, Submit(r) \/ GiveUp(r) \/ DialFails(r)
      PROVE  Slots'
  <2>1. InUse' = InUse /\ closing' = closing
    BY <1>0, <1>6 DEF Submit, GiveUp, DialFails, Fail, InUse
  <2>2. \A q \in Requests : pc[q] = "done" => pc'[q] = "done"
    BY <1>0, <1>6 DEF Submit, GiveUp, DialFails, Fail
  <2> QED BY <1>5, <2>1, <2>2
<1>7. ASSUME UNCHANGED <<pc, closing>>
      PROVE  Slots'
  BY <1>5, <1>7 DEF InUse
<1>8. ASSUME NEW r \in Requests, \/ Deadline(r) \/ ClientLeaves(r) \/ Execute(r)
                                \/ CancelStatement(r) \/ OrphanDies(r)
      PROVE  UNCHANGED <<pc, closing>>
  BY <1>8 DEF Deadline, ClientLeaves, EndContext, Execute, CancelStatement, OrphanDies
<1>9. Quiet \/ UNCHANGED vars => UNCHANGED <<pc, closing>>
  BY DEF Quiet, vars
<1> QED BY <1>1, <1>2, <1>3, <1>4, <1>6, <1>7, <1>8, <1>9 DEF Next, Handler

(* A connection that is torn down keeps its slot until it is gone, so that  *)
(* the pool never dials beyond max_conns.                                   *)
THEOREM PoolWithinLimit == Spec => [](Cardinality(InUse) + Cardinality(closing) <= MaxConns)
<1>1. Init => Slots
  <2> SUFFICES ASSUME Init PROVE Slots
    OBVIOUS
  <2>1. InUse = {} /\ closing = {}
    BY DEF Init, InUse
  <2>2. IsFiniteSet({}) /\ Cardinality({}) = 0
    BY FS_EmptySet
  <2>3. 0 + 0 <= MaxConns
    BY MaxConnsAssumption
  <2> QED BY <2>1, <2>2, <2>3 DEF Slots
<1>2. Slots => Cardinality(InUse) + Cardinality(closing) <= MaxConns
  BY DEF Slots
<1> QED BY <1>1, <1>2, SlotsStep, ApiInvariant, PTL DEF Spec
=============================================================================
