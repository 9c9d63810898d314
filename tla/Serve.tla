------------------------------- MODULE Serve -------------------------------
(***************************************************************************)
(* The life of the process: cmd/serve.Run boots the dependencies, starts   *)
(* the http server in a goroutine, waits for a shutdown signal, drains the *)
(* server, closes the connection pool and flushes the trace exporter, all  *)
(* three on one ten-second budget.                                         *)
(*                                                                         *)
(* The actors are main, the server goroutine, the handlers of the requests *)
(* in flight, the signal and the clock.  main and the server goroutine     *)
(* share two unsynchronised variables: Server.http, which the goroutine    *)
(* sets and Shutdown dereferences, and the captured err of Run.            *)
(***************************************************************************)
EXTENDS Naturals, FiniteSets

CONSTANTS
  Requests, \* the requests that may reach the server
  MaxConns, \* database.max_conns
  Bounded   \* a request_timeout or statement_timeout ends every wait and query

ASSUME MaxConnsAssumption == MaxConns \in Nat \ {0}
ASSUME BoundedAssumption == Bounded \in BOOLEAN

VARIABLES
  proc,       \* the process: up, or how it ended
  main,       \* where Run stands
  server,     \* where the server goroutine stands
  httpSet,    \* Server.http is not nil
  returned,   \* what ListenAndServe returned to the goroutine
  err,        \* Run's err, captured by the goroutine
  signalled,  \* a shutdown signal was caught
  budget,     \* the ten-second context of the shutdown
  inShutdown, \* http.Server.Shutdown announced itself
  drained,    \* Shutdown returned nil
  pool,       \* the pgx pool
  req,        \* each request, from the accept to the last byte of its answer
  refused,    \* requests that asked a closed pool for a connection
  span,       \* the server span of each request
  flushed     \* the outcome of flushTraces

serverVars == <<server, httpSet, returned>>
shutdownVars == <<signalled, budget, inShutdown, drained, flushed>>
reqVars == <<req, refused, span>>
vars == <<proc, main, serverVars, err, shutdownVars, pool, reqVars>>

BootPhases == {"config", "tracing", "database", "oidc"}
MainPhases == BootPhases \cup {"spawn", "register", "wait", "shutdown", "closeListeners",
                               "awaitServe", "draining", "parked", "closing", "assign",
                               "flush", "return"}
ActiveStates == {"handling", "waiting", "querying", "answering"}

Active(r) == req[r] \in ActiveStates
Holders == {r \in Requests : req[r] = "querying"}
Buffered == {r \in Requests : span[r] = "buffered"}

TypeOK ==
  /\ proc \in {"up", "completed", "exit1", "panicked", "killed"}
  /\ main \in MainPhases
  /\ server \in {"none", "spawned", "built", "serving", "leaving", "returned", "gone"}
  /\ httpSet \in BOOLEAN
  /\ returned \in {"none", "closed", "failed"}
  /\ err \in {"nil", "closed", "failed", "joined", "flush"}
  /\ signalled \in BOOLEAN
  /\ budget \in {"unset", "running", "expired"}
  /\ inShutdown \in BOOLEAN
  /\ drained \in BOOLEAN
  /\ pool \in {"none", "open", "closing", "closed"}
  /\ req \in [Requests -> {"idle", "answered"} \cup ActiveStates]
  /\ refused \in SUBSET Requests
  /\ span \in [Requests -> {"none", "buffered", "exported", "dropped"}]
  /\ flushed \in {"none", "ok", "expired", "failed"}

Init ==
  /\ proc = "up" /\ main = "config"
  /\ server = "none" /\ httpSet = FALSE /\ returned = "none"
  /\ err = "nil"
  /\ signalled = FALSE /\ budget = "unset" /\ inShutdown = FALSE
  /\ drained = FALSE /\ flushed = "none"
  /\ pool = "none"
  /\ req = [r \in Requests |-> "idle"]
  /\ refused = {}
  /\ span = [r \in Requests |-> "none"]

-----------------------------------------------------------------------------
(* main *)

AfterBoot(p) == CASE p = "config"   -> "tracing"
                  [] p = "tracing"  -> "database"
                  [] p = "database" -> "oidc"
                  [] p = "oidc"     -> "spawn"

Boot ==
  /\ proc = "up" /\ main \in BootPhases
  /\ main' = AfterBoot(main)
  /\ pool' = IF main = "database" THEN "open" ELSE pool
  /\ UNCHANGED <<proc, serverVars, err, shutdownVars, reqVars>>

\* Every boot failure ends in os.Exit(1), with whatever is open left open.
BootFails ==
  /\ proc = "up" /\ main \in BootPhases
  /\ proc' = "exit1"
  /\ UNCHANGED <<main, serverVars, err, shutdownVars, pool, reqVars>>

Spawn ==
  /\ proc = "up" /\ main = "spawn"
  /\ main' = "register" /\ server' = "spawned"
  /\ UNCHANGED <<proc, httpSet, returned, err, shutdownVars, pool, reqVars>>

Register ==
  /\ proc = "up" /\ main = "register"
  /\ main' = "wait"
  /\ UNCHANGED <<proc, serverVars, err, shutdownVars, pool, reqVars>>

\* Until signal.NotifyContext ran the default action of the signal applies.
SignalKills ==
  /\ proc = "up" /\ main \in BootPhases \cup {"spawn", "register"}
  /\ proc' = "killed"
  /\ UNCHANGED <<main, serverVars, err, shutdownVars, pool, reqVars>>

SignalCaught ==
  /\ proc = "up" /\ main = "wait" /\ ~signalled
  /\ signalled' = TRUE
  /\ UNCHANGED <<proc, main, serverVars, err, budget, inShutdown, drained, flushed, pool,
                 reqVars>>

Awake ==
  /\ proc = "up" /\ main = "wait" /\ signalled
  /\ main' = "shutdown" /\ budget' = "running"
  /\ UNCHANGED <<proc, serverVars, err, signalled, inShutdown, drained, flushed, pool, reqVars>>

\* Regression: shutdown closes the pool before it drains the server.
CallShutdownPoolFirst ==
  /\ proc = "up" /\ main = "shutdown" /\ httpSet
  /\ inShutdown' = TRUE /\ main' = "closeListeners" /\ pool' = "closing"
  /\ UNCHANGED <<proc, serverVars, err, signalled, budget, drained, flushed, reqVars>>

\* Shutdown dereferences Server.http, nil until the goroutine has run.  It
\* begins by announcing itself; the listener is open still.
CallShutdown ==
  /\ proc = "up" /\ main = "shutdown" /\ httpSet
  /\ inShutdown' = TRUE /\ main' = "closeListeners"
  /\ UNCHANGED <<proc, serverVars, err, signalled, budget, drained, flushed, pool, reqVars>>

ShutdownPanics ==
  /\ proc = "up" /\ main = "shutdown" /\ ~httpSet
  /\ proc' = "panicked"
  /\ UNCHANGED <<main, serverVars, err, shutdownVars, pool, reqVars>>

CloseListeners ==
  /\ proc = "up" /\ main = "closeListeners"
  /\ main' = "awaitServe"
  /\ UNCHANGED <<proc, serverVars, err, shutdownVars, pool, reqVars>>

\* Regression: the drain begins while the accept loop holds a connection.
AwaitNobody ==
  /\ proc = "up" /\ main = "awaitServe"
  /\ main' = "draining"
  /\ UNCHANGED <<proc, serverVars, err, shutdownVars, pool, reqVars>>

\* The accept loop may hold a connection when its listener closes: the drain
\* waits, without a context, until the loop was left.
AwaitServe ==
  /\ proc = "up" /\ main = "awaitServe" /\ server # "serving"
  /\ main' = "draining"
  /\ UNCHANGED <<proc, serverVars, err, shutdownVars, pool, reqVars>>

\* Regression: the drain looks at the pool, not at the connections served.
DrainIgnoresHandlers ==
  /\ proc = "up" /\ main = "draining" /\ Holders = {}
  /\ main' = "closing" /\ drained' = TRUE /\ pool' = "closing"
  /\ UNCHANGED <<proc, serverVars, err, signalled, budget, inShutdown, flushed, reqVars>>

\* http.Server.Shutdown polls: it is done when no connection is active.
DrainSucceeds ==
  /\ proc = "up" /\ main = "draining" /\ \A r \in Requests : ~Active(r)
  /\ main' = "closing" /\ drained' = TRUE /\ pool' = "closing"
  /\ UNCHANGED <<proc, serverVars, err, signalled, budget, inShutdown, flushed, reqVars>>

DrainParks ==
  /\ proc = "up" /\ main = "draining" /\ \E r \in Requests : Active(r)
  /\ main' = "parked"
  /\ UNCHANGED <<proc, serverVars, err, shutdownVars, pool, reqVars>>

DrainPollsAgain ==
  /\ proc = "up" /\ main = "parked"
  /\ main' = "draining"
  /\ UNCHANGED <<proc, serverVars, err, shutdownVars, pool, reqVars>>

\* Regression: the drain polls once and gives up, whatever is left of the budget.
DrainPollsOnce ==
  /\ proc = "up" /\ main = "parked"
  /\ main' = "closing" /\ pool' = "closing"
  /\ UNCHANGED <<proc, serverVars, err, shutdownVars, reqVars>>

\* The budget ran out; the pool is closed all the same.
DrainTimesOut ==
  /\ proc = "up" /\ main = "parked" /\ budget = "expired"
  /\ main' = "closing" /\ pool' = "closing"
  /\ UNCHANGED <<proc, serverVars, err, shutdownVars, reqVars>>

\* Regressions: Close does not wait; the pool is closed only after a clean drain.
ClosePoolAtOnce ==
  /\ proc = "up" /\ main = "closing"
  /\ main' = "assign" /\ pool' = "closed"
  /\ UNCHANGED <<proc, serverVars, err, shutdownVars, reqVars>>

ClosePoolIfDrained == drained /\ Holders = {} /\ ClosePoolAtOnce

\* pgxpool.Close waits, without a context, for every acquired connection.
ClosePool ==
  /\ proc = "up" /\ main = "closing" /\ Holders = {}
  /\ main' = "assign" /\ pool' = "closed"
  /\ UNCHANGED <<proc, serverVars, err, shutdownVars, reqVars>>

\* Regression: err takes the state of the context instead of shutdown's error.
AssignContext ==
  /\ proc = "up" /\ main = "assign"
  /\ main' = "flush" /\ err' = budget
  /\ UNCHANGED <<proc, serverVars, shutdownVars, pool, reqVars>>

Assign ==
  /\ proc = "up" /\ main = "assign"
  /\ main' = "flush" /\ err' = IF drained THEN "nil" ELSE "joined"
  /\ UNCHANGED <<proc, serverVars, shutdownVars, pool, reqVars>>

\* flushTraces(ctx): an expired context exports nothing, a failing collector
\* takes some of the spans, otherwise every buffered span leaves.
Flush ==
  /\ proc = "up" /\ main = "flush"
  /\ main' = "return"
  /\ \E sent \in SUBSET Buffered :
       /\ span' = [r \in Requests |-> IF r \in sent THEN "exported" ELSE span[r]]
       /\ \/ budget = "running" /\ sent = Buffered /\ flushed' = "ok" /\ err' = "nil"
          \/ budget = "running" /\ flushed' = "failed" /\ err' = "flush"
          \/ budget = "expired" /\ sent = {} /\ flushed' = "expired" /\ err' = "flush"
  /\ UNCHANGED <<proc, serverVars, signalled, budget, inShutdown, drained, pool, req, refused>>

Return ==
  /\ proc = "up" /\ main = "return"
  /\ proc' = "completed"
  /\ UNCHANGED <<main, serverVars, err, shutdownVars, pool, reqVars>>

Main == \/ Boot \/ Spawn \/ Register \/ Awake \/ CallShutdown \/ ShutdownPanics
        \/ CloseListeners \/ AwaitServe \/ DrainSucceeds \/ DrainParks \/ DrainPollsAgain \/ DrainTimesOut
        \/ ClosePool \/ Assign \/ Flush \/ Return

-----------------------------------------------------------------------------
(* the server goroutine *)

BuildServer ==
  /\ proc = "up" /\ server = "spawned"
  /\ server' = "built" /\ httpSet' = TRUE
  /\ UNCHANGED <<proc, main, returned, err, shutdownVars, pool, reqVars>>

Listen ==
  /\ proc = "up" /\ server = "built" /\ ~inShutdown
  /\ server' = "serving"
  /\ UNCHANGED <<proc, main, httpSet, returned, err, shutdownVars, pool, reqVars>>

ListenerClosed == inShutdown /\ main # "closeListeners"

\* ListenAndServe leaves: Shutdown was entered before it listened or has closed
\* the listener, or else the address is taken or the listener broke.
ServeReturns ==
  /\ proc = "up" /\ server \in {"built", "serving"}
  /\ returned' = IF inShutdown THEN "closed" ELSE "failed"
  /\ server' = "leaving"
  /\ UNCHANGED <<proc, main, httpSet, err, shutdownVars, pool, reqVars>>

\* The goroutine stores the result in Run's err, whatever main does to it.
StoresResult ==
  /\ proc = "up" /\ server = "leaving"
  /\ err' = returned /\ server' = "returned"
  /\ UNCHANGED <<proc, main, httpSet, returned, shutdownVars, pool, reqVars>>

\* errors.Is(err, http.ErrServerClosed) reads err while main may be writing it:
\* a data race, so the goroutine sees its own value or the variable's.
SeesClosed ==
  /\ proc = "up" /\ server = "returned" /\ "closed" \in {returned, err}
  /\ server' = "gone"
  /\ UNCHANGED <<proc, main, httpSet, returned, err, shutdownVars, pool, reqVars>>

SeesFailure ==
  /\ proc = "up" /\ server = "returned" /\ {returned, err} # {"closed"}
  /\ proc' = "exit1"
  /\ UNCHANGED <<main, serverVars, err, shutdownVars, pool, reqVars>>

\* What the goroutine does without waiting for anyone.
ServerSteps ==
  \/ BuildServer \/ Listen \/ StoresResult \/ SeesClosed \/ SeesFailure
  \/ ServeReturns /\ (ListenerClosed \/ (inShutdown /\ server = "built"))

-----------------------------------------------------------------------------
(* requests *)

Move(r, from, to) == /\ proc = "up" /\ req[r] = from
                     /\ req' = [req EXCEPT ![r] = to]
                     /\ UNCHANGED <<proc, main, serverVars, err, shutdownVars, pool>>

\* The accept loop hands over a connection, also one it accepted as the
\* listener was being closed.
Accept(r) == /\ server = "serving"
             /\ Move(r, "idle", "handling")
             /\ UNCHANGED <<refused, span>>

NeedsDatabase(r) == Move(r, "handling", "waiting") /\ UNCHANGED <<refused, span>>

AnswersAlone(r) == Move(r, "handling", "answering") /\ UNCHANGED <<refused, span>>

Acquire(r) == /\ pool = "open" /\ Cardinality(Holders) < MaxConns
              /\ Move(r, "waiting", "querying")
              /\ UNCHANGED <<refused, span>>

Refuse(r) == /\ pool \in {"closing", "closed"}
             /\ Move(r, "waiting", "answering")
             /\ refused' = refused \cup {r}
             /\ UNCHANGED span

GiveUp(r) == Bounded /\ Move(r, "waiting", "answering") /\ UNCHANGED <<refused, span>>

\* Regression: a connection cannot be returned once the pool is closing.
ReleaseToOpen(r) == /\ pool = "open"
                    /\ Move(r, "querying", "answering")
                    /\ UNCHANGED <<refused, span>>

Release(r) == Move(r, "querying", "answering") /\ UNCHANGED <<refused, span>>

\* The span ends with the answer; a provider already shut down drops it.
Answer(r) == /\ Move(r, "answering", "answered")
             /\ span' = [span EXCEPT ![r] = IF flushed = "none" THEN "buffered" ELSE "dropped"]
             /\ UNCHANGED refused

\* The batcher exports on its own timer until the provider is shut down.
Export ==
  /\ proc = "up" /\ flushed = "none" /\ Buffered # {}
  /\ span' = [r \in Requests |-> IF r \in Buffered THEN "exported" ELSE span[r]]
  /\ UNCHANGED <<proc, main, serverVars, err, shutdownVars, pool, req, refused>>

\* The handler of r: every step that needs nobody else.
Handler(r) == NeedsDatabase(r) \/ AnswersAlone(r) \/ Acquire(r) \/ Refuse(r)
              \/ GiveUp(r) \/ Answer(r)

Expire ==
  /\ proc = "up" /\ budget = "running"
  /\ budget' = "expired"
  /\ UNCHANGED <<proc, main, serverVars, err, signalled, inShutdown, drained, flushed,
                 pool, reqVars>>

\* The process is gone: nothing happens any more.
Ended == proc # "up" /\ UNCHANGED vars

Next ==
  \/ Main \/ BootFails \/ SignalKills \/ SignalCaught \/ Expire \/ Export \/ Ended
  \/ ServerSteps \/ ServeReturns
  \/ \E r \in Requests : Accept(r) \/ Handler(r) \/ Release(r)

Spec == Init /\ [][Next]_vars

\* Go schedules both goroutines and the handlers; the clock runs; the select in
\* http.Server.Shutdown does not overlook an expired context for ever; a query
\* ends when some timeout bounds it.  Signals, arrivals and failures owe nothing.
FairSpec ==
  /\ Spec
  /\ WF_vars(Main) /\ WF_vars(ServerSteps) /\ WF_vars(Expire)
  /\ SF_vars(DrainTimesOut)
  /\ \A r \in Requests : WF_vars(Handler(r)) /\ (Bounded => WF_vars(Release(r)))

-----------------------------------------------------------------------------
(* Properties *)

(* pgxpool.Close has returned only when every connection came back, and     *)
(* none is handed out afterwards: database.service.Close leaks nothing.     *)
NoConnectionOutlivesPool == pool = "closed" => Holders = {}

(* Shutdown returned nil only when nothing was in flight, not even what was *)
(* accepted after Shutdown was entered and while the listener closed; and   *)
(* nothing is accepted afterwards: what main does next cuts nothing short.  *)
DrainedMeansAnswered == drained => \A r \in Requests : ~Active(r)

(* shutdown drains before it closes the pool: a request is turned away by a *)
(* closed pool only when the drain ran out of budget.                       *)
RefusedOnlyAfterFailedDrain == refused # {} => ~drained /\ budget = "expired"

(* "gracefully shut down the server with a timeout": when Run returns, the  *)
(* only requests the exit cuts short are those that outlasted the ten       *)
(* seconds (a request_timeout may be longer), and none of them in the       *)
(* middle of a statement.                                                   *)
CutShortOnlyAfterBudget ==
  proc = "completed" =>
    \A r \in Requests : Active(r) => ~drained /\ budget = "expired" /\ req[r] # "querying"

(* A drained server whose exporter flushed in time lost no span: every      *)
(* request answered has its span at the backend when Run returns.           *)
FlushedMeansExported ==
  proc = "completed" /\ drained /\ flushed = "ok"
    => \A r \in Requests : req[r] = "answered" => span[r] = "exported"

(* Once the signal is caught the process ends, whatever the requests in     *)
(* flight are doing: "gracefully shut down the server with a timeout".      *)
ShutdownTerminates == signalled ~> proc # "up"

(* No request accepted is left hanging while the process lives, whether it  *)
(* waits for a connection, holds one, or meets a closing pool.              *)
AcceptedAnswered == \A r \in Requests : Active(r) ~> (req[r] = "answered" \/ proc # "up")

(* What the comments and the README say of the shutdown and the code does   *)
(* not do.                                                                  *)

(* "the exporter is flushed once the server has drained. Without this the   *)
(* last requests before a deploy are the ones that never reach the backend":*)
(* when Run returns only a failing collector may have cost a buffered span. *)
LastSpansFlushed ==
  proc = "completed" /\ flushed # "failed" => Buffered = {}

(* "graceful shutdown on SIGINT and SIGTERM": a caught signal never ends in *)
(* a panic or in exit code 1 while the listener did not fail.               *)
CaughtSignalIsGraceful == signalled /\ returned # "failed" => proc \notin {"panicked", "exit1"}
=============================================================================
