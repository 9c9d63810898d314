# A TLA+ development of gopherizer

gopherizer is a Go service template: one process that serves a small profile API
over Postgres, with probes, bearer-token authorization, metrics, traces and a
graceful shutdown. This directory models the parts of it whose correctness
depends on an order of events, checks them with TLC on small instances, and
proves the main safety properties with TLAPS for every value of the constants.

`PROJECT.json` lists the components, the runs, the lines of source each
definition translates, the hazards of the code and the findings.

    tlc -config Serve.cfg MCServe      # one of the runs below
    tlapm ServeProofs.tla              # the proofs of one component

## The system and its components

| Component | State it keeps | Operations | What is hard | What makes it correct |
| --- | --- | --- | --- | --- |
| Process lifecycle (`cmd/serve`, `api/server.go`) | `Server.http`, `err` of `Run`, the shutdown context | boot, `Server.Run` in a goroutine, signal, `shutdown`, flush | two goroutines share `Server.http` and `err`; drain, close and flush share ten seconds | nothing in flight is cut short by a clean drain, no connection leaks, the process ends, spans leave |
| Requests (`api/operations.go`, `internal/*`, `database/repositories`) | a row per profile | create, get, update, delete, readiness | three timeouts, a saturated pool, statements that outlive their caller | a status tells the truth about the effect; every request is answered; every connection returns |
| Pool (`database/database.go`, `pool.go`) | acquired, idle and closing connections | `New`, `Health`, `Close`, acquire, release | exhaustion; `Close` waits without a context | no connection outlives the pool |
| Transactions (`database/tx.go`) | one transaction per call | `Execute` | panics, `Goexit`, swallowed errors, lost COMMIT replies, nested use of the pool | nil means committed, a failure means not committed, nothing stays open |
| Requirements (`pkg/authx`, `secured` in `api/auth.go`) | none; values built at startup | `Scope`, `Role`, `AnyOf`, `AllOf`, `Satisfied`, `OpenAPI`, `secured` | empty requirements, the cross product, two projections of one value | `AllOf` is a conjunction, the document never overstates, empty refuses all |
| Pipeline (`api/router.go` and the middlewares, guard) | the response writers of one request, its context, its records | descend, answer, handle, unwind | thirteen layers, four writers, ids that travel on the context, panics and deadlines during the unwinding | log, span, counter and wire agree; every record carries one id; only admitted callers are handled; panics are reported |
| Token verification, discovery (`pkg/oidcx`) | the provider's key set, cached, and one fetch in flight | `Init`, `discover`, `Verify`, `claimList` | key rotation, provider outage, callers sharing a fetch, errors told apart by their text, retry against a timeout, three ways to name a claim | an outage is 503 and never 401; only trusted tokens are accepted; discovery and every call end; a caller gets the rights the provider wrote |
| Migrations (`cmd/migrate`) | the schema version | up, down | exit status on failure | a straight line around goose |
| Trace exporter (`pkg/otelx`) | buffered spans | `Init`, export, shutdown | a flush after the budget ran out | a flushed exporter lost nothing |
| Pool metrics, query tracing, client address, rate limit, body limit, CORS, configuration, logging | none, or a library's | | | |

How they interact: `Run` builds the database, the verifier and the router, and
gives the router to the server goroutine. A request descends through the
middlewares (`Pipeline`) to an operation, which goes through the service and the
repository to a pooled connection (`ProfileApi`). The guard asks
the verifier (`Oidc`), whose identity it weighs against the operation's
requirement (`Caller`, `Authx`). `Run` owns the pool and the exporter, and takes both away during the shutdown while requests are still using
them (`Serve`). `Execute` is the other user of the pool (`TxManager`); no
operation uses it today, but the repository embeds it.

## Modules and the code

- `Serve`: the process. `main` is where `Run` stands, one action per statement
  of `serve.go` that can block, fail or be overtaken. `server` is the goroutine;
  `httpSet` is `Server.http # nil`; `err` is the captured variable, so that
  `SeesClosed` and `SeesFailure` may each happen whenever main's write races
  the goroutine's read: the goroutine sees its own value or the variable's.
  `req` walks each request from accept to answer, `pool` is open, closing or
  closed, `span` and `flushed` are the exporter. `http.Server.Shutdown` announces
  itself (`CallShutdown`), closes the listener (`CloseListeners`) and waits for the
  accept loop to be left (`AwaitServe`): until then a request may still be accepted.
  Then it polls (`DrainSucceeds`, `DrainParks`, `DrainPollsAgain`,
  `DrainTimesOut`): between two polls the context may expire, and the `select`
  may pick either. `ServeReturns` leaves the accept loop and `StoresResult`
  writes the result to `err`, which main may have passed by then.
- `ProfileRows`: the profile table, the calls and the effect of each SQL file,
  shared by the two modules below. A row is named by the request that wrote it.
- `ProfileStore`: the abstract specification of the profile API: a call takes
  effect at most once and atomically; 2xx and 404 report its effect; 500 and 503
  leave it open, and it may still happen later. `DeletedForGood` and
  `AcknowledgedStays` are what a caller may conclude from it.
- `ProfileApi`: the same calls through the pool, the driver and the error types.
  `pc` is the handler, `backend` what Postgres does for it (`orphan`: a statement
  whose client stopped listening), `closing` the connections pgx is tearing down,
  which still occupy a slot. `Classify`, `Refusal` and `StatusError` are the
  chain repository, service, api. `statementTimeoutParam` converts the setting, in
  microseconds, to the milliseconds Postgres is told. A dial that fails may be cut by
  pgx's own connect timeout, which is classified like the request's deadline. It refines `ProfileStore` by mapping `phase`.
- `UnitOfWork`: the abstract specification of `Execute`: the work of a transaction is
  kept in the very step that tells nil; `fn` may keep it before; after a COMMIT that was
  not answered it is in doubt until the server decides; work that an error or a panic
  gave up on is discarded, soon or late.
- `TxManager`: `Execute` around an arbitrary `fn`. `conns` and `tx` are the
  connections held and the transaction on the server; `by` records whose COMMIT was
  sent. A COMMIT whose answer was lost, by `Execute` or by `fn` itself, leaves the
  transaction `inDoubt`: the server may still read it (`CommitArrives`) after
  `Execute` has returned, or abort (`Reap`). It refines `UnitOfWork` by mapping `tx`
  to the state of the work and `pc` and `err` to what was told.
- `Authx`: requirements as sets of alternatives, since `Satisfied` asks only for
  membership. The loop over the arguments of `AllOf` is a state machine, with its early
  return; the two inner loops are one set comprehension, `Cross`. `secured` then
  attaches guard and security field.
- `Caller`: composes `Authx` with the end of `verifier.Verify`. `Registering` is a
  step of `Authx`; then a caller presents a token, `Verify` reads scopes and roles
  from its claims with `claimList` and `lookupClaim`, and `Served` weighs them. A
  claim's name is a sequence of segments, so that the key "realm.roles" and the
  member `roles` of `realm` are different places with one name. `Walk` is where the
  loop over the segments stands after each. What a provider means by a token is said
  without the walk, by `Means`: names under the whole name, or at the end of objects
  nested along it, or none.
- `Oidc`: the provider, discovery at boot, and every call of `Verify`. `provider`
  answers, fails, answers nonsense or hangs, and publishes and withdraws keys.
  `proc` and `clock` are discovery's loop against its context, and `Crash` with
  `Start` the orchestrator's restarts. `cached`, `fetch` and `reply` are go-oidc's
  key set: asking, replied, done and stored are separate moments, and `pc` takes
  each caller through lookup, joining the fetch, waiting and the checks of the
  claims. `Texts` are the messages go-oidc returns and `classify` their reading.
  `seen`, `steady`, `owed` and `warm` are history for the properties only.
- `Pipeline`: one request through the layers `defaultMiddlewares` stacks, the
  mux, the guard and the handler. `mode` says whether the stack is being entered,
  left, or unwound by a panic or by `http.ErrAbortHandler`. `code` holds the
  first status each of four response writers saw; `WriteHeader(l, s)` is seen by
  every writer outside layer `l` that has none yet, which is what chi's wrapper
  does. `ids` is the correlation id on the context, which only the layers inward
  of `correlation` see (`IdAt`), and `stamped` the ids its log records carry: the denial, the
  failure `apiError` logs, the panic, the access line. `NewRouter` builds the guard or panics.
- `ServeProofs`, `ProfileStoreProofs`, `ProfileApiProofs`, `TxManagerProofs`,
  `AuthxProofs`, `CallerProofs`, `PipelineProofs`, `OidcProofs`: theorems.
- `MC*`: constants for TLC. `Pipeline` has no constants and is run directly.

The operators marked "Regression" are plausible bugs of the definition that
follows them. Substituting one must break the property it is listed with
in `PROJECT.json`, which shows that the property depends on that code.

## Runs

| Run | Shows |
| --- | --- |
| `Serve.cfg` | the exit cuts short only what outlasted the budget, and no statement; a clean drain cuts nothing short, not even what was accepted while the listener closed, no connection outlives the pool, the pool turns requests away only after a failed drain, a timely flush loses no span; a caught signal ends the process, an accepted request is answered |
| `ServeFlush.cfg` | violated: a slow drain leaves the flush an expired context |
| `ServeSignal.cfg` | violated: a signal before the goroutine ran dereferences nil; the same property also fails, in a longer trace, on the race on `err` |
| `ProfileApi.cfg` | the api implements `ProfileStore`; a 204 is final and an acknowledged write is lost only to another call; a request that was only slow is never a 500; all are answered; all connections return |
| `ProfileTimeout.cfg` | violated: the statement timeout, meant to fire first, is answered 500 |
| `TxManager.cfg` | the result of `Execute` tells what happened, `Execute` implements `UnitOfWork`, nothing stays open, every call ends |
| `TxGoexit.cfg` | violated: `runtime.Goexit` in `fn` commits |
| `Authx.cfg` | `AllOf` is a conjunction, the document understates, an empty argument refuses all; from the claims to the guard, who is served is who the provider meant |
| `Oidc.cfg` | no outage, rotation or shared fetch makes a good token a 401 while its key stays published; a cached key serves through outages; only sound tokens under published keys are accepted; discovery ends, every call ends, and a provider that stays up is found in the end |
| `Pipeline.cfg` | records agree with the wire, only admitted callers are handled, panics are reported, a late deadline replaces no answer, every log record carries the id the caller was told |
| `PipelinePanic.cfg` | violated: a panic after the deadline is answered 504 with the body of a 500 |
| `PipelineMetrics.cfg` | violated: a panicking request is not counted |

A run that is violated checks one sentence of the documentation or a comment
against what the code does; the findings of `PROJECT.json` quote the sentence.

### Bounds

- Two requests, or two transactions, on a pool of one connection (`MaxConns = 1`).
  One can hold the connection while the other waits, gives up, is turned away or
  finds it closing, and two statements on one row already give every conflict
  between an orphan, a retry and a later call. A third would queue behind them.
- One seeded row in `ProfileApi`, besides the ids the creates take: update,
  delete and get meet a present and a removed row.
- `Bounded` and `RequestTimeout` are TRUE, as in the default configuration, and
  `StatementTimeout` is 1500 microseconds, so that the server's timer may fire; below a
  millisecond it never does, which is proved. With no timeout at all `ShutdownTerminates` and
  `EveryRequestAnswered` do not hold, which is why they are constants.
- `Authx`: two scopes, one role, up to three arguments of up to two alternatives,
  the empty argument and the empty list included. `Caller`: a dotted roles claim at
  the top level, nested, or missing, each beside anything a token may carry at the
  other place, and the same for a plain scope claim; values are names, an object
  or anything else.
- `Oidc`: two callers and two keys, of which the provider starts with the first; it
  may publish the second, and withdraw the first, before or after the boot.
  One caller holds a good token under the second key; the other's is of the wrong
  type, forged or invalid, under the first. Two callers are enough to share a fetch, to join it
  late and to force one with a bad token against the other. `DiscoveryTimeout = 0`
  takes the path of the default, without which nothing is bounded.
- `Pipeline`: every one of the 64 configurations, 7 kinds of request, 6 tokens, 4
  kinds of inbound id.
- No counters grow, so no bound is hidden in a guard.

### Fairness

Safety is checked without any. `Serve!FairSpec`: the scheduler runs main, the
goroutine and each handler (WF); the clock runs (`Expire`); the `select` of
`http.Server.Shutdown` does not choose its timer for ever over an expired context
(SF on `DrainTimesOut`); a query ends only if a timeout bounds it. Signals,
arrivals, failures and Postgres owe nothing. `ProfileApi!FairSpec`: handlers run,
the deadline fires, a teardown ends; a statement may hang for ever.
No liveness property rests on Postgres keeping its timer.
`TxManager!FairSpec`: `Execute` runs, its context ends at last, `fn` does not loop for
ever (SF on its end, since it may ask the pool again and again), Postgres reaps
dead connections. `Oidc!Fairness`: the orchestrator restarts, the clock and the
backoff run, the client's timeout ends a fetch and its goroutine goes on, each call
of `Verify` steps (WF). Discovery's loop goes round, so giving up on an expired
context and succeeding with a provider that answers are only enabled again and
again (SF): the select does not choose its timer for ever, nor does a provider that
stays up fail every attempt. The provider, the crashes and the callers owe nothing.

## Proofs

Each proof module proves an inductive invariant and derives the others.

- `ServeProofs`: `TypeInvariant`, then `ShutdownInvariant`, which relates where
  main stands to `pool`, `inShutdown`, `drained`, `budget` and `flushed`. None of
  the properties is inductive alone: that a closed pool is empty needs that
  nothing is acquired once it closes; that a drained server stays drained needs
  that the accept loop was left before the drain and, with `inShutdown` set, is never
  entered again. `TypeOK` itself needs `ResultKnown`. The theorems are
  `PoolClosesEmpty`, `DrainIsComplete`, `DrainPrecedesClose`, `FlushIsComplete` and
  `ExitIsGraceful`; the last needs that a failed drain is one whose budget expired.
- `ProfileStoreProofs`, of the abstract store: that a removed row stays away is not
  inductive, since nothing in it says that the call which wrote the row will not run
  again. `Provenance` does: a row held or seen bears the name of a call that has had its
  effect, and a call has it once. `Removed` and `Kept` need it, `Reported` ties a status
  to the effect, and together they are `StoreInvariant`. `StoreConclusions` follows: `DeletedForGood` and
  `AcknowledgedStays` hold of whatever implements the store.
- `ProfileApiProofs`: `ApiInvariant` ties `pc`, `backend`, `outcome` and `status`: a
  statement still running has no outcome, and one that nobody waits for was answered
  500 or 503. `SlowNeverBroken` follows, and with `StoreInit` and `StoreStep` so
  does `ApiImplementsStore`: every step of the api is a step of the store or a
  stutter. `ApiDeletesForGood` and `ApiKeepsAcknowledged` are the store's conclusions,
  inherited through that refinement and not proved again: `Promises` instantiates
  `ProfileStoreProofs` under the same mapping, and the `Same*` lemmas say that both
  instances mean the same. `PoolWithinLimit` is by counting: a torn down connection keeps its
  slot (`Slots`), so in use and in teardown never exceed `MaxConns`.
  `SubMillisecondNeverFires` is about the unit of `statement_timeout`.
- `TxManagerProofs`: `ExecuteInvariant` ties the phase of `Execute` to the
  transaction and the connection; `NilIsCommitted`, `FailureIsNotCommitted` and
  `LeavesNothingOpen` follow. With `UnitInit` and `UnitStep` so does
  `ExecuteIsUnitOfWork`, one step of the proof per kind of action.
  `GivenUpIsNeverKept` is an action property: no later step, and no late COMMIT, keeps the
  work of a call that ended in an error of `fn` or a panic.
- `AuthxProofs`: the loop invariant of `AllOf` (the accumulator admits exactly whom the
  arguments so far admit), resting on `CrossIsAnd`; then `AllOfComputesAnd`,
  `DocumentedIsEnforced` and `EmptyRefusesAll`, for any names and any arguments.
- `CallerProofs`: `CallerKeepsAuthx` makes every theorem about `Authx` one of the
  composition. That the path walk finds what the provider put at the end of a path of any
  length needs an induction over the segments. It is made over a set of numbers
  (`SetInduction`, from the well-foundedness of the naturals), twice: objects nested along
  a name are where the walk passes (`WalkFollows`), and a walk that finds something left
  such a trail (`WalkLeads`). `ClaimListMeans` follows: `claimList` returns exactly the
  names `Means` allows. `IdentityIsGranted` carries it to the identity, and with
  `AllOfComputesAnd` it gives `GrantsDecide`, the property `ServedAsGranted`.
- `PipelineProofs`: `GuardInvariant` ties mode and layer to what `NewRouter` and
  `guard.middleware` made sure of: with a guard there is a verifier, and a request
  at the handler passed the guard. Being at the handler says nothing by itself of
  how the request came there, so two lemmas carry it: the guard is the only layer
  that leads into the handler, and it answers whom it does not admit.
  `GuardHolds` follows. `RecordInvariant` is about the way out. `OneStatus`: the
  writers from the connection to where the request stands hold one status, since a
  write reaches all of them or none and what is left behind no longer matters.
  `WayIn`, `WayOut`: who can have written what, by the mode and the depth.
  `OnRecord`: what a layer passed recorded is what is on the wire, which by then is
  written and stays. `OneId`: the id is on the context from `correlation` inward.
  `OneStory`, `PanicIsReported`, `NoLateDeadline` and `Traceable` follow. All rest on
  the order of `Layers`, through `LayersShape` and `Depths`.
- `OidcProofs`: `IInv` ties the key set to the history. `KeysKnown`: whatever is held was
  published once. `ReplyFresh`: a key set on its way is no older than what stayed
  published since discovery. `Owing` and `Warmth` follow each caller with a good token from
  its arrival to its answer. `PublishedKeysAccepted`, `LearnedKeysServe` and
  `OnlyTrustedAccepted` follow, for any callers, keys and settings.
- The modules of the components also prove `TypeOK`.

Assumptions: `MaxConns` is a positive natural number, `StatementTimeout` and
`DiscoveryTimeout` are integers, the other switches booleans, the
markers of `ProfileRows` are not requests, the arguments of `AllOf` are sequences of
requirements, and holdings have their shapes. The settings that name a claim are
sequences of strings, `Values` is closed under the members of objects, and a token's
scopes and roles are what its claims mean by the conventions of `Means`. The sets of requests,
transactions, callers and keys are arbitrary.

Only model-checked: the liveness properties (fairness and ENABLED are beyond the
prover). Every invariant and every refinement of the passing runs is proved.

## Not modelled, and why

- Libraries (chi, huma, pgx, net/http, go-oidc, goose) appear only as this code
  relies on them; such definitions are marked external.
- The values of names and timestamps, log lines, OpenAPI schemas, CORS and
  configuration parsing: no property depends on them.
- Requests share no pipeline state except the limiter's window and the counters;
  `Pipeline` follows one request and lets the limiter refuse at any moment.
- Query tracing and pool metrics: no state beyond one call.
- Migrations: a straight line around goose; a failure exits with status 0, which
  is listed as a hazard. The server does not wait for them: readiness only pings.
- The health statistics and the lifetimes of pooled connections: they change no
  answer.
- `LearnedKeySurvivesOutage` is about keys already cached: a fresh process has none
  until its first token, and answers 503 if the provider is down by then.
- That every statement ends in Postgres. It would rest on Postgres keeping the timer it
  was given, and would be false for a `statement_timeout` below one millisecond: the code
  calls such a setting enabled, converts it to zero, and so disables the timer
  (`SubMillisecondNeverFires`), although the configuration's documentation says that
  only zero does.

## Plan

Done: the lifecycle (`Serve`), the request path with its abstract specification and
refinement, `TxManager` with its own, `Authx` with `Caller`, the whole pipeline with its
records and ids, and `Oidc`; every invariant of theirs is proved.

Open, in order of worth:

1. The composition of `Serve` with `ProfileApi`: the pool taken away under
   statements, of which each module now shows its own side.
2. The composition of `Pipeline` with `ProfileApi`: one deadline seen by the
   `timeout` middleware and by the statement.
3. The limiter's sliding window and the client address it keys on, which belong to
   httprate and chi except for their configuration.
