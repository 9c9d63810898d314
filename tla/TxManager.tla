------------------------------ MODULE TxManager ------------------------------
(***************************************************************************)
(* database.TxManager.Execute: begin, run the caller's fn, and let the     *)
(* deferred function choose between COMMIT and ROLLBACK from how fn ended. *)
(* fn is the caller's: its statements may fail with the error swallowed,   *)
(* it may end the transaction itself, ask the pool for a second            *)
(* connection, return, panic or leave by runtime.Goexit.  The context may  *)
(* end and the connection may break under every step.                      *)
(***************************************************************************)
EXTENDS Naturals, FiniteSets

CONSTANTS
  Txs,     \* the calls of Execute
  MaxConns \* database.max_conns

ASSUME MaxConnsAssumption == MaxConns \in Nat \ {0}

VARIABLES
  pc,     \* where each Execute stands
  ctx,    \* its context: live or ended
  conns,  \* the calls whose transaction holds a pooled connection
  tx,     \* the transaction on the server
  fin,    \* how fn ended
  by,     \* whose COMMIT was sent, and unheard if Execute got no answer
  err     \* what Execute returned

vars == <<pc, ctx, conns, tx, fin, by, err>>

TypeOK ==
  /\ pc \in [Txs -> {"idle", "begin", "fn", "pool", "deferred", "returned", "panicked", "exited"}]
  /\ ctx \in [Txs -> {"live", "ended"}]
  /\ conns \in SUBSET Txs
  /\ tx \in [Txs -> {"none", "open", "failed", "zombie", "inDoubt", "rolledBack", "committed"}]
  /\ fin \in [Txs -> {"none", "nil", "error", "panic", "exit"}]
  /\ by \in [Txs -> {"none", "fn", "execute", "unheard"}]
  /\ err \in [Txs -> {"none", "nil", "begin", "fn", "commit"}]

Init ==
  /\ pc = [t \in Txs |-> "idle"]
  /\ ctx = [t \in Txs |-> "live"]
  /\ conns = {}
  /\ tx = [t \in Txs |-> "none"]
  /\ fin = [t \in Txs |-> "none"]
  /\ by = [t \in Txs |-> "none"]
  /\ err = [t \in Txs |-> "none"]

Live(t) == tx[t] \in {"open", "failed"}
Ended(t) == pc[t] \in {"returned", "panicked", "exited"}
FreeSlot == Cardinality(conns) < MaxConns

-----------------------------------------------------------------------------
(* Execute, up to fn *)

Call(t) ==
  /\ pc[t] = "idle"
  /\ pc' = [pc EXCEPT ![t] = "begin"]
  /\ UNCHANGED <<ctx, conns, tx, fin, by, err>>

Begin(t) ==
  /\ pc[t] = "begin" /\ ctx[t] = "live" /\ FreeSlot
  /\ pc' = [pc EXCEPT ![t] = "fn"]
  /\ tx' = [tx EXCEPT ![t] = "open"]
  /\ conns' = conns \cup {t}
  /\ UNCHANGED <<ctx, fin, by, err>>

\* No connection before the context ended, or BEGIN failed on one.
BeginFails(t) ==
  /\ pc[t] = "begin" /\ (ctx[t] = "ended" \/ FreeSlot)
  /\ pc' = [pc EXCEPT ![t] = "returned"]
  /\ err' = [err EXCEPT ![t] = "begin"]
  /\ UNCHANGED <<ctx, conns, tx, fin, by>>

-----------------------------------------------------------------------------
(* fn *)

\* Regression: a failed statement leaves the transaction in no known state.
StatementUnknown(t) ==
  /\ pc[t] = "fn" /\ tx[t] = "open"
  /\ tx' = [tx EXCEPT ![t] = "unknown"]
  /\ UNCHANGED <<pc, ctx, conns, fin, by, err>>

StatementFails(t) ==
  /\ pc[t] = "fn" /\ tx[t] = "open"
  /\ tx' = [tx EXCEPT ![t] = "failed"]
  /\ UNCHANGED <<pc, ctx, conns, fin, by, err>>

\* fn ends the transaction itself; a COMMIT of a failed one rolls back.
FnCommits(t) ==
  /\ pc[t] = "fn" /\ Live(t) /\ ctx[t] = "live"
  /\ tx' = [tx EXCEPT ![t] = IF @ = "open" THEN "committed" ELSE "rolledBack"]
  /\ by' = [by EXCEPT ![t] = IF tx[t] = "open" THEN "fn" ELSE @]
  /\ conns' = conns \ {t}
  /\ UNCHANGED <<pc, ctx, fin, err>>

FnRollsBack(t) ==
  /\ pc[t] = "fn" /\ Live(t) /\ ctx[t] = "live"
  /\ tx' = [tx EXCEPT ![t] = "rolledBack"]
  /\ conns' = conns \ {t}
  /\ UNCHANGED <<pc, ctx, fin, by, err>>

\* The context ended or the connection broke under fn's COMMIT or ROLLBACK.
FnUnheard(t) ==
  /\ pc[t] = "fn" /\ Live(t)
  /\ \/ tx' = [tx EXCEPT ![t] = "zombie"] /\ UNCHANGED by
     \/ tx[t] = "open" /\ tx' = [tx EXCEPT ![t] = "inDoubt"] /\ by' = [by EXCEPT ![t] = "fn"]
  /\ conns' = conns \ {t}
  /\ UNCHANGED <<pc, ctx, fin, err>>

\* fn calls a repository: its methods take Pool(), not the transaction.
AskPool(t) ==
  /\ pc[t] = "fn"
  /\ pc' = [pc EXCEPT ![t] = "pool"]
  /\ UNCHANGED <<ctx, conns, tx, fin, by, err>>

PoolAnswers(t) ==
  /\ pc[t] = "pool" /\ (ctx[t] = "ended" \/ FreeSlot)
  /\ pc' = [pc EXCEPT ![t] = "fn"]
  /\ UNCHANGED <<ctx, conns, tx, fin, by, err>>

FnEnds(t, how) ==
  /\ pc[t] = "fn"
  /\ fin' = [fin EXCEPT ![t] = how]
  /\ pc' = [pc EXCEPT ![t] = "deferred"]
  /\ UNCHANGED <<ctx, conns, tx, by, err>>

-----------------------------------------------------------------------------
(* The deferred function *)

\* Regression: the result is not named, so a failed COMMIT is not reported.
LeaveUnnamed(t, e) ==
  /\ pc' = [pc EXCEPT ![t] = IF fin[t] = "panic" THEN "panicked"
                             ELSE IF fin[t] = "exit" THEN "exited" ELSE "returned"]
  /\ err' = [err EXCEPT ![t] = IF e = "fn" THEN "fn" ELSE "nil"]
  /\ conns' = conns \ {t}

\* Regression: the connection is given back on the error-free path only.
LeaveHolding(t, e) ==
  /\ pc' = [pc EXCEPT ![t] = IF fin[t] = "panic" THEN "panicked"
                             ELSE IF fin[t] = "exit" THEN "exited" ELSE "returned"]
  /\ err' = [err EXCEPT ![t] = IF fin[t] \in {"panic", "exit"} THEN "none" ELSE e]
  /\ conns' = IF e = "nil" THEN conns \ {t} ELSE conns
 

\* Commit and Rollback of a pooled transaction give the connection back
\* whatever they return; a panic is re-thrown and Goexit goes on, so only a
\* returning fn has its error seen.
Leave(t, e) ==
  /\ pc' = [pc EXCEPT ![t] = IF fin[t] = "panic" THEN "panicked"
                             ELSE IF fin[t] = "exit" THEN "exited" ELSE "returned"]
  /\ err' = [err EXCEPT ![t] = IF fin[t] \in {"panic", "exit"} THEN "none" ELSE e]
  /\ conns' = conns \ {t}

\* Regression: err alone decides, and a panic leaves it nil.
CommitsPanics(t) == pc[t] = "deferred" /\ fin[t] \in {"nil", "exit", "panic"}

\* recover() is nil and err is nil: fn returned nil, or left by Goexit.
Commits(t) == pc[t] = "deferred" /\ fin[t] \in {"nil", "exit"}

\* Regression: the deferred function rolls back on a panic, not on an error.
RollsBackPanics(t) == pc[t] = "deferred" /\ fin[t] = "panic"

RollsBack(t) == pc[t] = "deferred" /\ fin[t] \in {"error", "panic"}

Commit(t) ==
  /\ Commits(t) /\ tx[t] = "open" /\ ctx[t] = "live"
  /\ tx' = [tx EXCEPT ![t] = "committed"] /\ by' = [by EXCEPT ![t] = "execute"]
  /\ Leave(t, "nil")
  /\ UNCHANGED <<ctx, fin>>

\* Postgres answers the COMMIT of a failed transaction with ROLLBACK.
CommitOfFailed(t) ==
  /\ Commits(t) /\ tx[t] = "failed" /\ ctx[t] = "live"
  /\ tx' = [tx EXCEPT ![t] = "rolledBack"]
  /\ Leave(t, "commit")
  /\ UNCHANGED <<ctx, fin, by>>

\* Regression: like ROLLBACK, a COMMIT of a transaction already closed is benign.
CommitClosedIsBenign(t) ==
  /\ Commits(t) /\ ~Live(t)
  /\ Leave(t, "nil")
  /\ UNCHANGED <<ctx, tx, fin, by>>

\* The transaction was closed by fn, or its connection is gone.
CommitTooLate(t) ==
  /\ Commits(t) /\ ~Live(t)
  /\ Leave(t, "commit")
  /\ UNCHANGED <<ctx, tx, fin, by>>

\* The context ended or the connection broke under the COMMIT: the connection
\* is killed, and whether the server still commits is not known.
CommitUnheard(t) ==
  /\ Commits(t) /\ Live(t)
  /\ \/ tx' = [tx EXCEPT ![t] = "zombie"] /\ UNCHANGED by
     \/ tx[t] = "open" /\ tx' = [tx EXCEPT ![t] = "inDoubt"] /\ by' = [by EXCEPT ![t] = "unheard"]
  /\ Leave(t, "commit")
  /\ UNCHANGED <<ctx, fin>>

Rollback(t) ==
  /\ RollsBack(t) /\ (Live(t) => ctx[t] = "live")
  /\ tx' = [tx EXCEPT ![t] = IF Live(t) THEN "rolledBack" ELSE @]
  /\ Leave(t, "fn")
  /\ UNCHANGED <<ctx, fin, by>>

\* The ROLLBACK did not get through: its error is joined to fn's.
RollbackUnheard(t) ==
  /\ RollsBack(t) /\ Live(t)
  /\ tx' = [tx EXCEPT ![t] = "zombie"]
  /\ Leave(t, "fn")
  /\ UNCHANGED <<ctx, fin, by>>

Deferred(t) == Commit(t) \/ CommitOfFailed(t) \/ CommitTooLate(t) \/ CommitUnheard(t)
               \/ Rollback(t) \/ RollbackUnheard(t)

-----------------------------------------------------------------------------
(* The world around it *)

EndContext(t) ==
  /\ pc[t] \in {"begin", "fn", "pool", "deferred"} /\ ctx[t] = "live"
  /\ ctx' = [ctx EXCEPT ![t] = "ended"]
  /\ UNCHANGED <<pc, conns, tx, fin, by, err>>

ConnectionBreaks(t) ==
  /\ t \in conns /\ Live(t)
  /\ tx' = [tx EXCEPT ![t] = "zombie"]
  /\ UNCHANGED <<pc, ctx, conns, fin, by, err>>

\* Postgres notices the dead connection and aborts its transaction ...
Reap(t) ==
  /\ tx[t] \in {"zombie", "inDoubt"}
  /\ tx' = [tx EXCEPT ![t] = "rolledBack"]
  /\ UNCHANGED <<pc, ctx, conns, fin, by, err>>

\* ... unless it reads the COMMIT that was sent first.
CommitArrives(t) ==
  /\ tx[t] = "inDoubt"
  /\ tx' = [tx EXCEPT ![t] = "committed"]
  /\ UNCHANGED <<pc, ctx, conns, fin, by, err>>

AllDone == (\A t \in Txs : Ended(t) /\ tx[t] \notin {"zombie", "inDoubt"}) /\ UNCHANGED vars

Fn(t) == \/ StatementFails(t) \/ FnCommits(t) \/ FnRollsBack(t) \/ FnUnheard(t) \/ AskPool(t)
         \/ \E how \in {"nil", "error", "panic", "exit"} : FnEnds(t, how)

Next == \/ \E t \in Txs : \/ Call(t) \/ Begin(t) \/ BeginFails(t) \/ Fn(t) \/ PoolAnswers(t)
                          \/ Deferred(t) \/ EndContext(t) \/ ConnectionBreaks(t) \/ Reap(t)
                          \/ CommitArrives(t)
        \/ AllDone

Spec == Init /\ [][Next]_vars

\* Execute runs, its caller's context ends at last, fn does not run for ever
\* and Postgres reaps dead connections.
FairSpec ==
  /\ Spec
  /\ \A t \in Txs : /\ WF_vars(Begin(t) \/ BeginFails(t)) /\ WF_vars(PoolAnswers(t))
                    /\ WF_vars(Deferred(t)) /\ WF_vars(EndContext(t)) /\ WF_vars(Reap(t))
                    /\ SF_vars(\E how \in {"nil", "error", "panic", "exit"} : FnEnds(t, how))

-----------------------------------------------------------------------------
(* Properties *)

(* A nil from Execute is a COMMIT the server confirmed: not a COMMIT that   *)
(* failed in the deferred function, nor one of a transaction a swallowed    *)
(* error had already doomed.                                                *)
NilMeansCommitted == \A t \in Txs : err[t] = "nil" => tx[t] = "committed" /\ by[t] = "execute"

(* A failed or panicking fn never has its work committed by Execute, and a  *)
(* failure reported for committed work has one of two causes: fn committed  *)
(* it, or the answer to COMMIT was lost.                                    *)
FailureMeansNotCommitted ==
  \A t \in Txs : (err[t] \in {"begin", "fn", "commit"} \/ pc[t] = "panicked") /\ tx[t] = "committed"
                   => by[t] = "fn" \/ (by[t] = "unheard" /\ err[t] = "commit")

(* However Execute ends, no connection and no open transaction stay behind. *)
NothingLeftOpen == \A t \in Txs : Ended(t) => t \notin conns /\ ~Live(t)

(* Every call of Execute ends, even one whose fn waits for the connection   *)
(* it holds itself, and the server sees the end of its transaction.         *)
EveryExecuteEnds == \A t \in Txs : pc[t] = "begin" ~> (Ended(t) /\ tx[t] \notin {"zombie", "inDoubt"})

WorkOf(x) == CASE x \in {"open", "failed", "zombie"} -> "pending"
               [] x = "inDoubt"                        -> "doubtful"
               [] x = "rolledBack"                     -> "discarded"
               [] x = "committed"                      -> "kept"
               [] OTHER                                -> "none"

ToldOf(p, e) == IF p = "panicked" THEN "panic" ELSE IF p = "exited" THEN "exit" ELSE e

Work == [t \in Txs |-> WorkOf(tx[t])]
Told == [t \in Txs |-> ToldOf(pc[t], err[t])]

Unit == INSTANCE UnitOfWork WITH work <- Work, told <- Told

(* Execute implements UnitOfWork: the work is kept in the step that tells   *)
(* nil; what fn's error or panic gave up on is never kept after, and what   *)
(* was settled, by a ROLLBACK, a lost COMMIT or a reaped connection, is not *)
(* settled again.                                                           *)
HonoursUnit == Unit!Spec

(* "committing when fn returns nil and rolling back otherwise": Execute     *)
(* commits only what a returning fn asked it to.                            *)
OnlyReturningFnCommits == \A t \in Txs : by[t] = "execute" => fin[t] = "nil"
=============================================================================
