---------------------------- MODULE ServeProofs ----------------------------
(***************************************************************************)
(* The safety of the shutdown, for every set of requests, pool size and    *)
(* timeout configuration.                                                  *)
(***************************************************************************)
EXTENDS Serve, TLAPS

\* main has been through the drain, one way or the other.
AfterDrain == {"closing", "assign", "flush", "return"}

\* The pool is given up only after the drain, and closed only by ClosePool.
PoolFollowsDrain ==
  /\ pool \in {"closing", "closed"} => main \in AfterDrain
  /\ pool = "closed" => main # "closing" /\ Holders = {}
  /\ main \in {"assign", "flush", "return"} => pool = "closed"
  /\ proc = "completed" => main = "return"

\* A drain begins only when the accept loop was left, for good; one that
\* succeeded left nothing in flight, one that failed used the budget up.
DrainVerdict ==
  /\ main \in {"closeListeners", "awaitServe", "draining", "parked"} \cup AfterDrain => inShutdown
  /\ main \in {"draining", "parked"} \cup AfterDrain => server # "serving"
  /\ drained => main \in AfterDrain /\ \A r \in Requests : ~Active(r)
  /\ main \in AfterDrain /\ ~drained => budget = "expired"

\* Only a closing pool turns a request away, and only one still in flight.
RefusalFollowsPool ==
  refused # {} => pool \in {"closing", "closed"} /\ ~drained /\ budget = "expired"

\* Until the provider is shut down an answer leaves its span in the batcher or
\* at the backend.
SpansKept ==
  /\ flushed # "none" => main = "return"
  /\ flushed = "none" => \A r \in Requests :
       req[r] = "answered" => span[r] \in {"buffered", "exported"}
  /\ flushed = "ok" /\ drained => \A r \in Requests :
       req[r] = "answered" => span[r] = "exported"

IInv == TypeOK /\ PoolFollowsDrain /\ DrainVerdict /\ RefusalFollowsPool /\ SpansKept

\* What the goroutine is about to store in err is a result of ListenAndServe.
ResultKnown == server = "leaving" => returned \in {"closed", "failed"}

-----------------------------------------------------------------------------
(* Every action keeps the variables of Serve in their types: Run, the      *)
(* server goroutine and the handlers take no step outside the listed ones. *)
THEOREM TypeInvariant == Spec => []TypeOK
  <1> USE DEF TypeOK, MainPhases, BootPhases, ActiveStates, serverVars, shutdownVars, reqVars
  <1> USE DEF ResultKnown
  <1>1. Init => TypeOK /\ ResultKnown
    BY DEF Init
  <1>2. TypeOK /\ ResultKnown /\ [Next]_vars => TypeOK' /\ ResultKnown'
    <2> SUFFICES ASSUME TypeOK, ResultKnown, [Next]_vars
                 PROVE  TypeOK' /\ ResultKnown'
      OBVIOUS
    <2>1. CASE Main
      <3>1. CASE Boot
        BY <3>1 DEF Boot, AfterBoot
      <3>2. CASE Spawn
        BY <3>2 DEF Spawn
      <3>3. CASE Register
        BY <3>3 DEF Register
      <3>4. CASE Awake
        BY <3>4 DEF Awake
      <3>5. CASE CallShutdown
        BY <3>5 DEF CallShutdown
      <3>6. CASE ShutdownPanics
        BY <3>6 DEF ShutdownPanics
      <3>7. CASE CloseListeners
        BY <3>7 DEF CloseListeners
      <3>15. CASE AwaitServe
        BY <3>15 DEF AwaitServe
      <3>16. CASE DrainSucceeds
        BY <3>16 DEF DrainSucceeds
      <3>8. CASE DrainParks
        BY <3>8 DEF DrainParks
      <3>9. CASE DrainPollsAgain
        BY <3>9 DEF DrainPollsAgain
      <3>10. CASE DrainTimesOut
        BY <3>10 DEF DrainTimesOut
      <3>11. CASE ClosePool
        BY <3>11 DEF ClosePool
      <3>12. CASE Assign
        BY <3>12 DEF Assign
      <3>13. CASE Flush
        BY <3>13 DEF Flush, Buffered
      <3>14. CASE Return
        BY <3>14 DEF Return
      <3> QED
        BY <2>1, <3>1, <3>2, <3>3, <3>4, <3>5, <3>6, <3>7, <3>8,
           <3>9, <3>10, <3>11, <3>12, <3>13, <3>14, <3>15, <3>16 DEF Main
    <2>2. CASE BootFails
      BY <2>2 DEF BootFails
    <2>3. CASE SignalKills \/ SignalCaught
      <3>1. CASE SignalKills
        BY <3>1 DEF SignalKills
      <3>2. CASE SignalCaught
        BY <3>2 DEF SignalCaught
      <3> QED
        BY <2>3, <3>1, <3>2
    <2>4. CASE Expire
      BY <2>4 DEF Expire
    <2>5. CASE Export
      BY <2>5 DEF Export, Buffered
    <2>6. CASE ServerSteps \/ ServeReturns
      <3>1. CASE BuildServer
        BY <3>1 DEF BuildServer
      <3>2. CASE Listen
        BY <3>2 DEF Listen
      <3>3. CASE SeesClosed \/ SeesFailure
        BY <3>3 DEF SeesClosed, SeesFailure
      <3>4. CASE ServeReturns
        BY <3>4 DEF ServeReturns
      <3>5. CASE StoresResult
        BY <3>5 DEF StoresResult
      <3> QED
        BY <2>6, <3>1, <3>2, <3>3, <3>4, <3>5 DEF ServerSteps
    <2>7. ASSUME NEW r \in Requests, Accept(r) \/ Handler(r) \/ Release(r)
          PROVE  TypeOK' /\ ResultKnown'
      <3>1. CASE Answer(r)
        BY <3>1 DEF Answer, Move
      <3>2. CASE Refuse(r)
        BY <3>2 DEF Refuse, Move
      <3>3. CASE Accept(r) \/ Release(r)
        BY <3>3 DEF Accept, Release, Move
      <3>4. CASE NeedsDatabase(r) \/ AnswersAlone(r)
        BY <3>4 DEF NeedsDatabase, AnswersAlone, Move
      <3>5. CASE Acquire(r) \/ GiveUp(r)
        BY <3>5 DEF Acquire, GiveUp, Move
      <3> QED
        BY <2>7, <3>1, <3>2, <3>3, <3>4, <3>5 DEF Handler
    <2>8. CASE UNCHANGED vars
      BY <2>8 DEF vars
    <2> QED
      BY <2>1, <2>2, <2>3, <2>4, <2>5, <2>6, <2>7, <2>8 DEF Next, Ended
  <1> QED
    BY <1>1, <1>2, PTL DEF Spec
-----------------------------------------------------------------------------
(* The inductive invariant.  It says in which phase of main each piece of  *)
(* the shutdown state may have moved, which is what the safety properties  *)
(* of Serve need and do not say themselves.                                *)
THEOREM ShutdownInvariant == Spec => []IInv
  <1> USE DEF TypeOK, PoolFollowsDrain, DrainVerdict, RefusalFollowsPool, SpansKept, AfterDrain,
              Active, ActiveStates, Holders, serverVars, shutdownVars, reqVars
  <1>1. Init => IInv
    BY DEF Init, IInv, MainPhases, BootPhases
  <1>2. IInv /\ [Next]_vars /\ TypeOK' => IInv'
    <2> SUFFICES ASSUME IInv, [Next]_vars, TypeOK'
                 PROVE  PoolFollowsDrain' /\ DrainVerdict' /\ RefusalFollowsPool' /\ SpansKept'
      BY DEF IInv
    <2>0. TypeOK /\ PoolFollowsDrain /\ DrainVerdict /\ RefusalFollowsPool /\ SpansKept
      BY DEF IInv
    <2>1. CASE Main
      <3>1. CASE Boot
        BY <2>0, <3>1 DEF Boot, AfterBoot, BootPhases
      <3>2. CASE Spawn
        BY <2>0, <3>2 DEF Spawn
      <3>3. CASE Register
        BY <2>0, <3>3 DEF Register
      <3>4. CASE Awake
        BY <2>0, <3>4 DEF Awake
      <3>5. CASE CallShutdown
        BY <2>0, <3>5 DEF CallShutdown
      <3>6. CASE ShutdownPanics
        BY <2>0, <3>6 DEF ShutdownPanics
      <3>7. CASE CloseListeners
        BY <2>0, <3>7 DEF CloseListeners
      <3>15. CASE AwaitServe
        BY <2>0, <3>15 DEF AwaitServe
      <3>16. CASE DrainSucceeds
        BY <2>0, <3>16 DEF DrainSucceeds
      <3>8. CASE DrainParks
        BY <2>0, <3>8 DEF DrainParks
      <3>9. CASE DrainPollsAgain
        BY <2>0, <3>9 DEF DrainPollsAgain
      <3>10. CASE DrainTimesOut
        BY <2>0, <3>10 DEF DrainTimesOut
      <3>11. CASE ClosePool
        BY <2>0, <3>11 DEF ClosePool
      <3>12. CASE Assign
        BY <2>0, <3>12 DEF Assign
      <3>13. CASE Flush
        <4>1. PoolFollowsDrain' /\ DrainVerdict' /\ RefusalFollowsPool'
          BY <2>0, <3>13 DEF Flush
        <4>2. SpansKept'
          BY <2>0, <3>13 DEF Flush, Buffered
        <4> QED
          BY <4>1, <4>2
      <3>14. CASE Return
        BY <2>0, <3>14 DEF Return
      <3> QED
        BY <2>1, <3>1, <3>2, <3>3, <3>4, <3>5, <3>6, <3>7, <3>8,
           <3>9, <3>10, <3>11, <3>12, <3>13, <3>14, <3>15, <3>16 DEF Main
    <2>2. CASE BootFails \/ SignalKills \/ SignalCaught \/ Expire
      BY <2>0, <2>2 DEF BootFails, SignalKills, SignalCaught, Expire
    <2>3. CASE Export
      BY <2>0, <2>3 DEF Export, Buffered
    <2>4. CASE ServerSteps \/ ServeReturns
      BY <2>0, <2>4
         DEF ServerSteps, BuildServer, Listen, SeesClosed, SeesFailure, ServeReturns, StoresResult
    <2>5. ASSUME NEW r \in Requests, Accept(r) \/ Handler(r) \/ Release(r)
          PROVE  PoolFollowsDrain' /\ DrainVerdict' /\ RefusalFollowsPool' /\ SpansKept'
      <3>1. CASE Accept(r)
        BY <2>0, <3>1 DEF Accept, Move
      <3>2. CASE NeedsDatabase(r) \/ AnswersAlone(r) \/ GiveUp(r) \/ Release(r)
        BY <2>0, <3>2 DEF NeedsDatabase, AnswersAlone, GiveUp, Release, Move
      <3>3. CASE Acquire(r)
        BY <2>0, <3>3 DEF Acquire, Move
      <3>4. CASE Refuse(r)
        BY <2>0, <3>4 DEF Refuse, Move
      <3>5. CASE Answer(r)
        BY <2>0, <3>5 DEF Answer, Move
      <3> QED
        BY <2>5, <3>1, <3>2, <3>3, <3>4, <3>5 DEF Handler
    <2>6. CASE UNCHANGED vars
      BY <2>0, <2>6 DEF vars
    <2> QED
      BY <2>1, <2>2, <2>3, <2>4, <2>5, <2>6 DEF Next, Ended
  <1> QED
    BY <1>1, <1>2, TypeInvariant, PTL DEF Spec

(* database.service.Close leaks no connection, whatever the pool size.     *)
THEOREM PoolClosesEmpty == Spec => []NoConnectionOutlivesPool
  <1>1. IInv => NoConnectionOutlivesPool
    BY DEF IInv, PoolFollowsDrain, NoConnectionOutlivesPool
  <1> QED
    BY <1>1, ShutdownInvariant, PTL

(* Once http.Server.Shutdown reported success no request is in flight, for *)
(* any number of requests: neither main's later steps nor the listener can *)
(* bring one back.                                                         *)
THEOREM DrainIsComplete == Spec => []DrainedMeansAnswered
  <1>1. IInv => DrainedMeansAnswered
    BY DEF IInv, DrainVerdict, DrainedMeansAnswered
  <1> QED
    BY <1>1, ShutdownInvariant, PTL

(* shutdown's order holds: only a drain that ran out of budget lets a      *)
(* closing pool turn a request away.                                       *)
THEOREM DrainPrecedesClose == Spec => []RefusedOnlyAfterFailedDrain
  <1>1. IInv => RefusedOnlyAfterFailedDrain
    BY DEF IInv, RefusalFollowsPool, RefusedOnlyAfterFailedDrain
  <1> QED
    BY <1>1, ShutdownInvariant, PTL

(* The flush comes after the drain, so a flush in time loses no span.      *)
THEOREM FlushIsComplete == Spec => []FlushedMeansExported
  <1>1. IInv => FlushedMeansExported
    BY DEF IInv, SpansKept, FlushedMeansExported
  <1> QED
    BY <1>1, ShutdownInvariant, PTL

(* Run returns over a request in flight only when the drain had its ten    *)
(* seconds, and never over a running statement.                            *)
THEOREM ExitIsGraceful == Spec => []CutShortOnlyAfterBudget
  <1>1. IInv => CutShortOnlyAfterBudget
    <2> SUFFICES ASSUME IInv, proc = "completed", NEW r \in Requests, Active(r)
                 PROVE  ~drained /\ budget = "expired" /\ req[r] # "querying"
      BY DEF CutShortOnlyAfterBudget
    <2>1. main = "return" /\ pool = "closed" /\ Holders = {}
      BY DEF IInv, PoolFollowsDrain
    <2>2. ~drained /\ budget = "expired"
      BY <2>1 DEF IInv, DrainVerdict, AfterDrain
    <2> QED
      BY <2>1, <2>2 DEF Holders
  <1> QED
    BY <1>1, ShutdownInvariant, PTL
=============================================================================
