--------------------------- MODULE TxManagerProofs ---------------------------
(***************************************************************************)
(* What Execute's answer says of the transaction, for every number of      *)
(* calls and every pool size.                                              *)
(***************************************************************************)
EXTENDS TxManager, TLAPS

Running == {"fn", "pool", "deferred"}

\* Where Execute stands, who committed and what was reported agree.
Agrees(t) ==
  /\ pc[t] \in {"idle", "begin"} => tx[t] = "none" /\ fin[t] = "none"
  /\ t \in conns \/ Live(t) => pc[t] \in Running
  /\ by[t] # "none" => tx[t] \in {"committed", "inDoubt", "rolledBack"}
  /\ tx[t] \in {"committed", "inDoubt"} => by[t] # "none"
  /\ by[t] = "execute" => tx[t] = "committed"
  /\ by[t] \in {"execute", "unheard"} => Ended(t) /\ fin[t] \in {"nil", "exit"}
  /\ by[t] = "execute" /\ fin[t] = "nil" => err[t] = "nil"
  /\ err[t] = "nil" => by[t] = "execute"
  /\ pc[t] = "panicked" => fin[t] = "panic"
  /\ pc[t] = "returned" => fin[t] \in {"none", "nil", "error"}
  /\ pc[t] = "exited" => fin[t] = "exit"
  /\ err[t] # "none" => pc[t] = "returned"
  /\ by[t] = "unheard" /\ fin[t] = "nil" => err[t] = "commit"

IInv == TypeOK /\ \A t \in Txs : Agrees(t)

(* The inductive invariant of the deferred function's decision.            *)
THEOREM ExecuteInvariant == Spec => []IInv
  <1> USE DEF TypeOK, Agrees, Running, Live, Ended
  <1>1. Init => IInv
    BY DEF Init, IInv
  <1>2. IInv /\ [Next]_vars => IInv'
    <2> SUFFICES ASSUME IInv, [Next]_vars
                 PROVE  IInv'
      OBVIOUS
    <2>0. TypeOK /\ \A q \in Txs : Agrees(q)
      BY DEF IInv
    <2> USE DEF IInv
    <2>1. ASSUME NEW t \in Txs, Call(t)
          PROVE  IInv'
      BY <2>0, <2>1 DEF Call
    <2>2. ASSUME NEW t \in Txs, Begin(t)
          PROVE  IInv'
      BY <2>0, <2>2 DEF Begin
    <2>3. ASSUME NEW t \in Txs, BeginFails(t)
          PROVE  IInv'
      BY <2>0, <2>3 DEF BeginFails
    <2>4. ASSUME NEW t \in Txs, StatementFails(t)
          PROVE  IInv'
      BY <2>0, <2>4 DEF StatementFails
    <2>5. ASSUME NEW t \in Txs, FnCommits(t)
          PROVE  IInv'
      BY <2>0, <2>5 DEF FnCommits
    <2>6. ASSUME NEW t \in Txs, FnRollsBack(t)
          PROVE  IInv'
      BY <2>0, <2>6 DEF FnRollsBack
    <2>7. ASSUME NEW t \in Txs, AskPool(t)
          PROVE  IInv'
      BY <2>0, <2>7 DEF AskPool
    <2>8. ASSUME NEW t \in Txs, PoolAnswers(t)
          PROVE  IInv'
      BY <2>0, <2>8 DEF PoolAnswers
    <2>9. ASSUME NEW t \in Txs, Commit(t)
          PROVE  IInv'
      BY <2>0, <2>9 DEF Commit, Commits, Leave
    <2>10. ASSUME NEW t \in Txs, CommitOfFailed(t)
          PROVE  IInv'
      BY <2>0, <2>10 DEF CommitOfFailed, Commits, Leave
    <2>11. ASSUME NEW t \in Txs, CommitTooLate(t)
          PROVE  IInv'
      BY <2>0, <2>11 DEF CommitTooLate, Commits, Leave
    <2>12. ASSUME NEW t \in Txs, CommitUnheard(t)
          PROVE  IInv'
      BY <2>0, <2>12 DEF CommitUnheard, Commits, Leave
    <2>13. ASSUME NEW t \in Txs, Rollback(t)
          PROVE  IInv'
      BY <2>0, <2>13 DEF Rollback, RollsBack, Leave
    <2>14. ASSUME NEW t \in Txs, RollbackUnheard(t)
          PROVE  IInv'
      BY <2>0, <2>14 DEF RollbackUnheard, RollsBack, Leave
    <2>15. ASSUME NEW t \in Txs, EndContext(t)
          PROVE  IInv'
      BY <2>0, <2>15 DEF EndContext
    <2>16. ASSUME NEW t \in Txs, ConnectionBreaks(t)
          PROVE  IInv'
      BY <2>0, <2>16 DEF ConnectionBreaks
    <2>17. ASSUME NEW t \in Txs, Reap(t)
          PROVE  IInv'
      BY <2>0, <2>17 DEF Reap
    <2>18. ASSUME NEW t \in Txs, NEW how \in {"nil", "error", "panic", "exit"}, FnEnds(t, how)
          PROVE  IInv'
      BY <2>0, <2>18 DEF FnEnds
    <2>19. ASSUME NEW t \in Txs, FnUnheard(t)
          PROVE  IInv'
      BY <2>0, <2>19 DEF FnUnheard
    <2>20. ASSUME NEW t \in Txs, CommitArrives(t)
          PROVE  IInv'
      BY <2>0, <2>20 DEF CommitArrives
    <2>21. CASE AllDone \/ UNCHANGED vars
      BY <2>0, <2>21 DEF AllDone, vars
    <2> HIDE DEF IInv, TypeOK, Agrees, Running, Live, Ended
    <2> QED
      BY <2>1, <2>2, <2>3, <2>4, <2>5, <2>6, <2>7, <2>8, <2>9, <2>10,
         <2>11, <2>12, <2>13, <2>14, <2>15, <2>16, <2>17, <2>18, <2>19,
         <2>20, <2>21 DEF Next, Fn, Deferred
  <1> QED
    BY <1>1, <1>2, PTL DEF Spec

(* A nil from Execute is a confirmed COMMIT.                               *)
THEOREM NilIsCommitted == Spec => []NilMeansCommitted
  <1>1. IInv => NilMeansCommitted
    BY DEF IInv, Agrees, NilMeansCommitted
  <1> QED
    BY <1>1, ExecuteInvariant, PTL

(* Execute commits nothing it reports as failed, unless COMMIT's answer    *)
(* was lost, and nothing under a panic.                                    *)
THEOREM FailureIsNotCommitted == Spec => []FailureMeansNotCommitted
  <1>1. IInv => FailureMeansNotCommitted
    BY DEF IInv, TypeOK, Agrees, Ended, FailureMeansNotCommitted
  <1> QED
    BY <1>1, ExecuteInvariant, PTL

(* Execute leaves neither a connection nor an open transaction behind.     *)
THEOREM LeavesNothingOpen == Spec => []NothingLeftOpen
  <1>1. IInv => NothingLeftOpen
    BY DEF IInv, Agrees, Running, Ended, NothingLeftOpen
  <1> QED
    BY <1>1, ExecuteInvariant, PTL

(* Execute, its callback and the database session keep their types.        *)
THEOREM TypeCorrect == Spec => []TypeOK
<1>1. IInv => TypeOK
  BY DEF IInv
<1> QED BY <1>1, ExecuteInvariant, PTL

-----------------------------------------------------------------------------
(* Every step of Execute is a step of the unit of work or invisible to it.  *)
LEMMA WorkTold ==
  /\ WorkOf("none") = "none" /\ WorkOf("open") = "pending" /\ WorkOf("failed") = "pending"
  /\ WorkOf("zombie") = "pending" /\ WorkOf("inDoubt") = "doubtful"
  /\ WorkOf("rolledBack") = "discarded" /\ WorkOf("committed") = "kept"
  /\ \A e : /\ ToldOf("panicked", e) = "panic" /\ ToldOf("exited", e) = "exit"
            /\ \A p : p \notin {"panicked", "exited"} => ToldOf(p, e) = e
BY DEF WorkOf, ToldOf

LEMMA UnitInit == Init => Unit!Init
BY WorkTold DEF Init, Unit!Init, Work, Told

LEMMA UnitStep == IInv /\ [Next]_vars => [Unit!Next]_Unit!vars
<1> SUFFICES ASSUME IInv, [Next]_vars
             PROVE  [Unit!Next]_Unit!vars
  OBVIOUS
<1>0. TypeOK /\ \A q \in Txs : Agrees(q)
  BY DEF IInv
<1>w. ASSUME NEW t \in Txs, NEW x, tx' = [tx EXCEPT ![t] = x]
      PROVE  Work' = [Work EXCEPT ![t] = WorkOf(x)]
  BY <1>0, <1>w DEF TypeOK, Work
<1>p. ASSUME NEW t \in Txs, NEW p, p \notin {"panicked", "exited"},
             pc[t] \notin {"panicked", "exited"}, pc' = [pc EXCEPT ![t] = p], UNCHANGED err
      PROVE  Told' = Told
  BY <1>0, <1>p, WorkTold DEF TypeOK, Told
<1>e. ASSUME NEW t \in Txs, NEW p, NEW e, pc' = [pc EXCEPT ![t] = p], err' = [err EXCEPT ![t] = e]
      PROVE  Told' = [Told EXCEPT ![t] = ToldOf(p, e)]
  BY <1>0, <1>e DEF TypeOK, Told
<1>n. ASSUME NEW t \in Txs, pc[t] \in {"begin", "fn", "pool", "deferred"}
      PROVE  Told[t] = "none"
  BY <1>0, <1>n, WorkTold DEF TypeOK, Agrees, Told
<1>t. \A t \in Txs : Work[t] = WorkOf(tx[t])
  BY DEF Work
<1>u. UNCHANGED <<pc, err>> => UNCHANGED Told
  BY DEF Told
<1>v. UNCHANGED tx => UNCHANGED Work
  BY DEF Work
\* What Execute tells when it leaves the deferred function with the result e.
<1>l. ASSUME NEW t \in Txs, NEW e, Leave(t, e)
      PROVE  /\ fin[t] \notin {"panic", "exit"} => Told' = [Told EXCEPT ![t] = e]
             /\ fin[t] = "panic" => Told' = [Told EXCEPT ![t] = "panic"]
             /\ fin[t] = "exit" => Told' = [Told EXCEPT ![t] = "exit"]
  <2>1. CASE fin[t] = "panic"
    <3>1. Told' = [Told EXCEPT ![t] = ToldOf("panicked", "none")]
      BY <1>e, <1>l, <2>1 DEF Leave
    <3> QED BY <2>1, <3>1, WorkTold
  <2>2. CASE fin[t] = "exit"
    <3>1. Told' = [Told EXCEPT ![t] = ToldOf("exited", "none")]
      BY <1>e, <1>l, <2>2 DEF Leave
    <3> QED BY <2>2, <3>1, WorkTold
  <2>3. CASE fin[t] \notin {"panic", "exit"}
    <3>1. Told' = [Told EXCEPT ![t] = ToldOf("returned", e)]
      BY <1>e, <1>l, <2>3 DEF Leave
    <3> QED BY <2>3, <3>1, WorkTold
  <2> QED BY <2>1, <2>2, <2>3
<1>1. ASSUME NEW t \in Txs, Begin(t)
      PROVE  Unit!Start(t)
  <2>1. Work[t] = "none" /\ Work' = [Work EXCEPT ![t] = "pending"]
    <3>1. tx[t] = "none"
      BY <1>0, <1>1 DEF Begin, Agrees
    <3>2. Work' = [Work EXCEPT ![t] = WorkOf("open")]
      BY <1>1, <1>w DEF Begin
    <3> QED BY <1>t, <3>1, <3>2, WorkTold
  <2>2. Told[t] = "none" /\ Told' = Told
    BY <1>1, <1>n, <1>p DEF Begin
  <2> QED BY <2>1, <2>2 DEF Unit!Start, Unit!Become
<1>2. ASSUME NEW t \in Txs, BeginFails(t)
      PROVE  Unit!Refuse(t)
  <2>1. Work[t] = "none" /\ Work' = Work
    BY <1>0, <1>2, <1>t, <1>v, WorkTold DEF BeginFails, Agrees
  <2>2. Told[t] = "none" /\ Told' = [Told EXCEPT ![t] = "begin"]
    <3>1. Told[t] = "none"
      BY <1>2, <1>n DEF BeginFails
    <3>2. Told' = [Told EXCEPT ![t] = ToldOf("returned", "begin")]
      BY <1>2, <1>e DEF BeginFails
    <3> QED BY <3>1, <3>2, WorkTold
  <2> QED BY <2>1, <2>2 DEF Unit!Refuse, Unit!Tell
<1>3. ASSUME NEW t \in Txs, FnCommits(t) \/ FnRollsBack(t) \/ FnUnheard(t)
      PROVE  Unit!Keep(t) \/ Unit!Discard(t) \/ UNCHANGED Unit!vars
  <2>1. Work[t] = "pending" /\ Told[t] = "none" /\ Told' = Told
    BY <1>3, <1>n, <1>t, <1>u, WorkTold DEF FnCommits, FnRollsBack, FnUnheard, Live
  <2>2. \/ \E w \in {"kept", "doubtful", "discarded"} : Work' = [Work EXCEPT ![t] = w]
        \/ Work' = [Work EXCEPT ![t] = "pending"]
    BY <1>3, <1>w, WorkTold DEF FnCommits, FnRollsBack, FnUnheard
  <2>3. Work' = [Work EXCEPT ![t] = "pending"] => Work' = Work
    BY <2>1 DEF Work
  <2> QED BY <2>1, <2>2, <2>3 DEF Unit!Keep, Unit!Discard, Unit!Become, Unit!vars
<1>4. ASSUME NEW t \in Txs, Commit(t)
      PROVE  Unit!Succeed(t) \/ Unit!Exit(t)
  <2>1. Work[t] = "pending" /\ Work' = [Work EXCEPT ![t] = "kept"]
    <3>1. Work' = [Work EXCEPT ![t] = WorkOf("committed")]
      BY <1>4, <1>w DEF Commit
    <3> QED BY <1>4, <1>t, <3>1, WorkTold DEF Commit
  <2>2. Told[t] = "none" /\ \E e \in {"nil", "exit"} : Told' = [Told EXCEPT ![t] = e]
    BY <1>4, <1>n, <1>l DEF Commit, Commits
  <2> QED BY <2>1, <2>2 DEF Unit!Succeed, Unit!Exit, Unit!Become, Unit!Tell
<1>5. ASSUME NEW t \in Txs, CommitOfFailed(t) \/ CommitTooLate(t) \/ CommitUnheard(t)
      PROVE  Unit!FailToCommit(t) \/ Unit!Exit(t)
  <2>1. \/ Work' = Work
        \/ Work[t] = "pending" /\ \E w \in {"doubtful", "discarded"} : Work' = [Work EXCEPT ![t] = w]
    <3>1. CASE CommitTooLate(t)
      BY <1>v, <3>1 DEF CommitTooLate
    <3>2. CASE CommitOfFailed(t)
      <4>1. Work' = [Work EXCEPT ![t] = WorkOf("rolledBack")]
        BY <1>w, <3>2 DEF CommitOfFailed
      <4> QED BY <1>t, <3>2, <4>1, WorkTold DEF CommitOfFailed
    <3>3. CASE CommitUnheard(t)
      <4>1. Work[t] = "pending"
        BY <1>t, <3>3, WorkTold DEF CommitUnheard, Live
      <4>2. \E w \in {"doubtful", "pending"} : Work' = [Work EXCEPT ![t] = w]
        BY <1>w, <3>3, WorkTold DEF CommitUnheard
      <4> QED BY <4>1, <4>2 DEF Work
    <3> QED BY <1>5, <3>1, <3>2, <3>3
  <2>2. Told[t] = "none" /\ \E e \in {"commit", "exit"} : Told' = [Told EXCEPT ![t] = e]
    BY <1>5, <1>n, <1>l DEF CommitOfFailed, CommitTooLate, CommitUnheard, Commits
  <2> QED BY <2>1, <2>2 DEF Unit!FailToCommit, Unit!Exit, Unit!Become, Unit!Tell
<1>6. ASSUME NEW t \in Txs, Rollback(t) \/ RollbackUnheard(t)
      PROVE  Unit!GiveUp(t)
  <2>1. Work' = Work \/ (Work[t] = "pending" /\ Work' = [Work EXCEPT ![t] = "discarded"])
    <3>1. CASE ~Live(t)
      <4>1. tx' = tx
        BY <1>0, <1>6, <3>1 DEF Rollback, RollbackUnheard, TypeOK
      <4> QED BY <4>1, <1>v
    <3>2. CASE Live(t)
      <4>1. Work[t] = "pending"
        BY <1>t, <3>2, WorkTold DEF Live
      <4>2. \E w \in {"discarded", "pending"} : Work' = [Work EXCEPT ![t] = w]
        BY <1>6, <1>w, <3>2, WorkTold DEF Rollback, RollbackUnheard
      <4> QED BY <4>1, <4>2 DEF Work
    <3> QED BY <3>1, <3>2
  <2>2. Told[t] = "none" /\ \E e \in {"fn", "panic"} : Told' = [Told EXCEPT ![t] = e]
    BY <1>6, <1>n, <1>l DEF Rollback, RollbackUnheard, RollsBack
  <2> QED BY <2>1, <2>2 DEF Unit!GiveUp, Unit!Become, Unit!Tell
<1>7. ASSUME NEW t \in Txs, Reap(t) \/ CommitArrives(t)
      PROVE  Unit!Discard(t) \/ Unit!KeepLate(t)
  <2>1. Told' = Told
    BY <1>7, <1>u DEF Reap, CommitArrives
  <2>2. \/ Work[t] \in {"pending", "doubtful"} /\ Work' = [Work EXCEPT ![t] = "discarded"]
        \/ Work[t] = "doubtful" /\ Work' = [Work EXCEPT ![t] = "kept"]
    BY <1>7, <1>t, <1>w, WorkTold DEF Reap, CommitArrives
  <2> QED BY <2>1, <2>2 DEF Unit!Discard, Unit!KeepLate, Unit!Become
<1>8. ASSUME NEW t \in Txs, StatementFails(t) \/ ConnectionBreaks(t)
      PROVE  UNCHANGED Unit!vars
  <2>1. Work[t] = "pending" /\ Work' = [Work EXCEPT ![t] = "pending"]
    BY <1>8, <1>t, <1>w, WorkTold DEF StatementFails, ConnectionBreaks, Live
  <2>2. Told' = Told
    BY <1>8, <1>u DEF StatementFails, ConnectionBreaks
  <2> QED BY <2>1, <2>2 DEF Work, Unit!vars
<1>9. ASSUME NEW t \in Txs, \/ Call(t) \/ AskPool(t) \/ PoolAnswers(t) \/ EndContext(t)
                            \/ \E how \in {"nil", "error", "panic", "exit"} : FnEnds(t, how)
      PROVE  UNCHANGED Unit!vars
  <2>1. Told' = Told
    BY <1>9, <1>p, <1>u DEF Call, AskPool, PoolAnswers, EndContext, FnEnds
  <2> QED BY <1>9, <1>v, <2>1 DEF Call, AskPool, PoolAnswers, EndContext, FnEnds, Unit!vars
<1>10. CASE AllDone \/ UNCHANGED vars
  BY <1>10, <1>u, <1>v DEF AllDone, vars, Unit!vars
<1> QED BY <1>1, <1>2, <1>3, <1>4, <1>5, <1>6, <1>7, <1>8, <1>9, <1>10
        DEF Next, Fn, Deferred, Unit!Next

(* Execute implements the unit of work, for any number of calls and         *)
(* connections: nil is told in the step that keeps the work, and work given *)
(* up on is never kept.                                                     *)
THEOREM ExecuteIsUnitOfWork == Spec => HonoursUnit
BY UnitInit, UnitStep, ExecuteInvariant, PTL DEF Spec, HonoursUnit, Unit!Spec

GivenUp(t) == err[t] \in {"begin", "fn"} \/ pc[t] = "panicked"

(* Work that an error or a panic gave up on is not committed by any later   *)
(* step, unless a COMMIT that fn sent itself is still on its way.           *)
THEOREM GivenUpIsNeverKept ==
  Spec => [][\A t \in Txs : GivenUp(t) /\ tx[t] \notin {"committed", "inDoubt"}
                              => tx'[t] # "committed"]_vars
<1> DEFINE Stays == \A t \in Txs : GivenUp(t) /\ tx[t] \notin {"committed", "inDoubt"}
                                    => tx'[t] # "committed"
<1>1. IInv /\ [Next]_vars => [Stays]_vars
  <2> SUFFICES ASSUME IInv, Next, NEW t \in Txs, GivenUp(t),
                      tx[t] \notin {"committed", "inDoubt"}, tx'[t] = "committed"
               PROVE  FALSE
    OBVIOUS
  <2>0. /\ tx \in [Txs -> {"none", "open", "failed", "zombie", "inDoubt", "rolledBack", "committed"}]
        /\ pc[t] \in {"returned", "panicked"}
    BY DEF GivenUp, IInv, TypeOK, Agrees
  <2>1. \A u \in Txs : (FnCommits(u) \/ Commit(u) => u = t) /\ ~CommitArrives(u)
    BY <2>0 DEF FnCommits, Commit, CommitArrives
  <2>2. ~FnCommits(t) /\ ~Commit(t)
    BY <2>0 DEF FnCommits, Commit, Commits
  <2>3. PICK u \in Txs : \/ Begin(u) \/ StatementFails(u) \/ FnRollsBack(u) \/ FnUnheard(u)
                         \/ CommitOfFailed(u) \/ CommitUnheard(u) \/ Rollback(u)
                         \/ RollbackUnheard(u) \/ ConnectionBreaks(u) \/ Reap(u)
    <3>1. tx' # tx
      OBVIOUS
    <3> QED BY <2>1, <2>2, <3>1 DEF Next, Fn, Deferred, Call, BeginFails, AskPool, PoolAnswers,
                FnEnds, CommitTooLate, EndContext, AllDone, vars
  <2>4. CASE Begin(u) \/ StatementFails(u) \/ FnRollsBack(u) \/ FnUnheard(u) \/ ConnectionBreaks(u)
    BY <2>0, <2>4 DEF Begin, StatementFails, FnRollsBack, FnUnheard, ConnectionBreaks
  <2>5. CASE CommitOfFailed(u) \/ CommitUnheard(u) \/ Rollback(u) \/ RollbackUnheard(u) \/ Reap(u)
    BY <2>0, <2>5 DEF CommitOfFailed, CommitUnheard, Rollback, RollbackUnheard, Reap
  <2> QED BY <2>3, <2>4, <2>5
<1> QED BY <1>1, ExecuteInvariant, PTL DEF Spec
=============================================================================
