----------------------------- MODULE ProfileApi -----------------------------
(***************************************************************************)
(* A profile or readiness request from its handler down to Postgres and    *)
(* back: a connection of the pgx pool is acquired, one statement runs on   *)
(* it, the driver's error is classified by the repository, re-wrapped by   *)
(* the service and turned into a status by the api package.                *)
(*                                                                         *)
(* Three clocks cut this short in any order: the request's context ends    *)
(* (its deadline, or its client left), Postgres cancels the statement, or  *)
(* the connection breaks.  A statement whose client stopped listening is   *)
(* an orphan: it may still run, or die.                                    *)
(***************************************************************************)
EXTENDS ProfileRows, Integers, FiniteSets

CONSTANTS
  MaxConns,        \* database.max_conns
  RequestTimeout,  \* http.request_timeout is set
  StatementTimeout \* database.statement_timeout, in microseconds

ASSUME MaxConnsAssumption == MaxConns \in Nat \ {0}
ASSUME TimeoutsAssumption == RequestTimeout \in BOOLEAN /\ StatementTimeout \in Int

VARIABLES
  table,   \* the row under each id
  call,    \* what each request asked for
  pc,      \* where its handler stands
  ctx,     \* its context: live, or why it ended
  backend, \* what Postgres is doing for it
  outcome, \* the row its statement returned, once it ran
  closing, \* requests whose connection is being torn down
  fault,   \* the driver error its handler got
  status   \* the status it was answered with

vars == <<table, call, pc, ctx, backend, outcome, closing, fault, status>>

Errors == {"noRows", "deadline", "canceled", "statementTimeout", "connection"}
ErrorTypes == {"internal", "invalidInput", "forbidden", "notFound", "unauthorized", "unavailable"}

TypeOK ==
  /\ table \in [Ids -> Rows \cup {Absent}]
  /\ call \in [Requests -> Calls]
  /\ pc \in [Requests -> {"idle", "acquire", "query", "done"}]
  /\ ctx \in [Requests -> {"live", "deadline", "canceled"}]
  /\ backend \in [Requests -> {"none", "running", "replied", "timedOut", "orphan"}]
  /\ outcome \in [Requests -> Rows \cup {Absent, None}]
  /\ closing \in SUBSET Requests
  /\ fault \in [Requests -> Errors \cup {"none"}]
  /\ status \in [Requests -> {0, 200, 201, 204, 404, 500, 503}]

Init ==
  /\ table = [i \in Ids |-> IF i \in Seeds THEN Seeded ELSE Absent]
  /\ call \in [Requests -> Calls] /\ \A r \in Requests : call[r] \in CallsOf(r)
  /\ pc = [r \in Requests |-> "idle"]
  /\ ctx = [r \in Requests |-> "live"]
  /\ backend = [r \in Requests |-> "none"]
  /\ outcome = [r \in Requests |-> None]
  /\ closing = {}
  /\ fault = [r \in Requests |-> "none"]
  /\ status = [r \in Requests |-> 0]

-----------------------------------------------------------------------------
(* From a driver error to a status *)

\* Regressions: the repository tells no timeout from a fault; an unavailable
\* dependency is answered like a gateway would.
ClassifyAllInternal(e) == IF e = "noRows" THEN "notFound" ELSE "internal"

StatusErrorGateway(t) == IF t = "unavailable" THEN 504 ELSE IF t = "notFound" THEN 404 ELSE 500

Classify(e) == CASE e = "noRows"                   -> "notFound"
                 [] e \in {"deadline", "canceled"} -> "unavailable"
                 [] OTHER                          -> "internal"

StatusError(t) == CASE t = "invalidInput" -> 400
                    [] t = "unauthorized" -> 401
                    [] t = "forbidden"    -> 403
                    [] t = "notFound"     -> 404
                    [] t = "unavailable"  -> 503
                    [] OTHER              -> 500

\* Readiness reports any failure of the ping as an unavailable dependency.
Refusal(op, e) == StatusError(IF op = "ready" THEN "unavailable" ELSE Classify(e))

Fail(r, e) == /\ pc' = [pc EXCEPT ![r] = "done"]
              /\ fault' = [fault EXCEPT ![r] = e]
              /\ status' = [status EXCEPT ![r] = Refusal(call[r].op, e)]

-----------------------------------------------------------------------------
(* The handler *)

Submit(r) ==
  /\ pc[r] = "idle"
  /\ pc' = [pc EXCEPT ![r] = "acquire"]
  /\ UNCHANGED <<table, call, ctx, backend, outcome, closing, fault, status>>

InUse == {r \in Requests : pc[r] = "query"}
FreeSlot == Cardinality(InUse) + Cardinality(closing) < MaxConns

Acquire(r) ==
  /\ pc[r] = "acquire" /\ ctx[r] = "live" /\ FreeSlot
  /\ pc' = [pc EXCEPT ![r] = "query"]
  /\ backend' = [backend EXCEPT ![r] = "running"]
  /\ UNCHANGED <<table, call, ctx, outcome, closing, fault, status>>

\* Regression: the pool is asked without the request's deadline.
GiveUpOnDisconnect(r) ==
  /\ pc[r] = "acquire" /\ ctx[r] = "canceled"
  /\ Fail(r, ctx[r])
  /\ UNCHANGED <<table, call, ctx, backend, outcome, closing>>

\* The context ended in the queue of the pool.
GiveUp(r) ==
  /\ pc[r] = "acquire" /\ ctx[r] # "live"
  /\ Fail(r, ctx[r])
  /\ UNCHANGED <<table, call, ctx, backend, outcome, closing>>

\* No connection was idle and none could be opened: refused, or cut by pgx's
\* own connect timeout, whose error is a context.DeadlineExceeded as well.
DialFails(r) ==
  /\ pc[r] = "acquire" /\ ctx[r] = "live" /\ FreeSlot
  /\ \E e \in {"connection", "deadline"} : Fail(r, e)
  /\ UNCHANGED <<table, call, ctx, backend, outcome, closing>>

\* Regression: a delete that matched nothing is a success.
ReceiveUncounted(r) ==
  /\ pc[r] = "query" /\ backend[r] = "replied"
  /\ backend' = [backend EXCEPT ![r] = "none"]
  /\ pc' = [pc EXCEPT ![r] = "done"]
  /\ status' = [status EXCEPT ![r] = Success(call[r].op)]
  /\ UNCHANGED <<table, call, ctx, outcome, closing, fault>>

\* The reply arrived: the connection returns to the pool.  A statement that
\* matched no row is pgx.ErrNoRows, or a delete's zero RowsAffected.
Receive(r) ==
  /\ pc[r] = "query" /\ backend[r] = "replied"
  /\ backend' = [backend EXCEPT ![r] = "none"]
  /\ \/ outcome[r] = Absent /\ Fail(r, "noRows")
     \/ /\ outcome[r] # Absent
        /\ pc' = [pc EXCEPT ![r] = "done"]
        /\ status' = [status EXCEPT ![r] = Success(call[r].op)]
        /\ UNCHANGED fault
  /\ UNCHANGED <<table, call, ctx, outcome, closing>>

\* Postgres cancelled the statement (SQLSTATE 57014); the connection is good.
ReceiveTimeout(r) ==
  /\ pc[r] = "query" /\ backend[r] = "timedOut"
  /\ backend' = [backend EXCEPT ![r] = "none"]
  /\ Fail(r, "statementTimeout")
  /\ UNCHANGED <<table, call, ctx, outcome, closing>>

\* pgx closes a connection it stops reading from; its slot stays taken until
\* the teardown is over, and its statement runs on unheard.
Drop(r) ==
  /\ closing' = closing \cup {r}
  /\ backend' = [backend EXCEPT ![r] = IF @ = "running" THEN "orphan" ELSE "none"]

\* Regression: the statement runs without the request's deadline.
AbandonOnDisconnect(r) ==
  /\ pc[r] = "query" /\ ctx[r] = "canceled"
  /\ Drop(r) /\ Fail(r, ctx[r])
  /\ UNCHANGED <<table, call, ctx, outcome>>

Abandon(r) ==
  /\ pc[r] = "query" /\ ctx[r] # "live"
  /\ Drop(r) /\ Fail(r, ctx[r])
  /\ UNCHANGED <<table, call, ctx, outcome>>

ConnectionBreaks(r) ==
  /\ pc[r] = "query"
  /\ Drop(r) /\ Fail(r, "connection")
  /\ UNCHANGED <<table, call, ctx, outcome>>

Closed(r) ==
  /\ r \in closing
  /\ closing' = closing \ {r}
  /\ UNCHANGED <<table, call, pc, ctx, backend, outcome, fault, status>>

-----------------------------------------------------------------------------
(* The clocks, the client and Postgres *)

EndContext(r, why) ==
  /\ pc[r] \in {"acquire", "query"} /\ ctx[r] = "live"
  /\ ctx' = [ctx EXCEPT ![r] = why]
  /\ UNCHANGED <<table, call, pc, backend, outcome, closing, fault, status>>

Deadline(r) == RequestTimeout /\ EndContext(r, "deadline")

ClientLeaves(r) == EndContext(r, "canceled")

\* Regression: a statement nobody waits for is sent again by the driver.
ExecuteOrphanAgain(r) ==
  /\ backend[r] \in {"running", "orphan"}
  /\ table' = After(table, r, call[r])
  /\ outcome' = [outcome EXCEPT ![r] = Outcome(table, r, call[r])]
  /\ backend' = [backend EXCEPT ![r] = IF @ = "running" THEN "replied" ELSE @]
  /\ UNCHANGED <<call, pc, ctx, closing, fault, status>>

Execute(r) ==
  /\ backend[r] \in {"running", "orphan"}
  /\ table' = After(table, r, call[r])
  /\ outcome' = [outcome EXCEPT ![r] = Outcome(table, r, call[r])]
  /\ backend' = [backend EXCEPT ![r] = IF @ = "running" THEN "replied" ELSE "none"]
  /\ UNCHANGED <<call, pc, ctx, closing, fault, status>>

\* What Postgres is told, in whole milliseconds; zero is no timeout, to it too.
statementTimeoutParam == IF StatementTimeout > 0 THEN StatementTimeout \div 1000 ELSE 0

\* The timer runs on the server, so it ends orphans as well.
CancelStatement(r) ==
  /\ statementTimeoutParam > 0 /\ backend[r] \in {"running", "orphan"}
  /\ backend' = [backend EXCEPT ![r] = IF @ = "running" THEN "timedOut" ELSE "none"]
  /\ UNCHANGED <<table, call, pc, ctx, outcome, closing, fault, status>>

OrphanDies(r) ==
  /\ backend[r] = "orphan"
  /\ backend' = [backend EXCEPT ![r] = "none"]
  /\ UNCHANGED <<table, call, pc, ctx, outcome, closing, fault, status>>

\* Every request was answered and nothing runs on unheard.
Quiet == /\ \A r \in Requests : pc[r] = "done" /\ backend[r] = "none"
         /\ closing = {}
         /\ UNCHANGED vars

Handler(r) == Acquire(r) \/ GiveUp(r) \/ Receive(r) \/ ReceiveTimeout(r) \/ Abandon(r)

Next ==
  \/ \E r \in Requests :
       \/ Submit(r) \/ Handler(r) \/ DialFails(r) \/ ConnectionBreaks(r) \/ Closed(r)
       \/ Deadline(r) \/ ClientLeaves(r)
       \/ Execute(r) \/ CancelStatement(r) \/ OrphanDies(r)
  \/ Quiet

Spec == Init /\ [][Next]_vars

\* The handler runs, the deadline fires and a teardown ends; Postgres, the
\* network and the clients owe nothing.
FairSpec ==
  Spec /\ \A r \in Requests : /\ WF_vars(Handler(r))
                              /\ WF_vars(Deadline(r))
                              /\ WF_vars(Closed(r))

-----------------------------------------------------------------------------
(* Properties *)

PhaseOf(p) == IF p = "idle" THEN "idle" ELSE IF p = "done" THEN "answered" ELSE "open"

Phase == [r \in Requests |-> PhaseOf(pc[r])]

Store == INSTANCE ProfileStore WITH phase <- Phase

(* The api implements ProfileStore: no retry, orphan or late reply applies  *)
(* a call twice, a 2xx or a 404 reports what its statement really did, and  *)
(* a call applied after its answer was one answered 500 or 503.             *)
HonoursStore == Store!Spec

(* ProfileStore's conclusions, of the rows as the repository's statements   *)
(* leave them: a 204 is final, also for an orphan that runs late or a call  *)
(* sent twice ...                                                           *)
DeletedForGood == Store!DeletedForGood

(* ... and an acknowledged create or update is lost only to another call.   *)
AcknowledgedStays == Store!AcknowledgedStays

(* "Reporting 500 would tell a caller the service is broken when it was     *)
(* merely too slow": a request whose own deadline passed or whose client    *)
(* left gets a 500 only from a fault that met it first.                     *)
SlowIsNotBroken ==
  \A r \in Requests : status[r] = 500 => fault[r] \in {"connection", "statementTimeout"}

(* Every request is answered by the request timeout, though Postgres may    *)
(* hang for ever and every connection be taken.                             *)
EveryRequestAnswered == \A r \in Requests : pc[r] = "acquire" ~> pc[r] = "done"

(* Every connection taken comes back to the pool.                           *)
EverySlotFreed ==
  \A r \in Requests : (pc[r] = "query" \/ r \in closing) ~> (pc[r] # "query" /\ r \notin closing)

(* "the caller gets 503 from a request that ran out of time rather than 500 *)
(* from one that broke": also when the innermost layer, the statement       *)
(* timeout, is the one that fired.                                          *)
OutOfTimeIsUnavailable ==
  \A r \in Requests :
    fault[r] \in {"deadline", "statementTimeout"} => status[r] = 503
=============================================================================
