----------------------------- MODULE UnitOfWork -----------------------------
(***************************************************************************)
(* What Execute promises the caller of each transaction, with no pool, no  *)
(* context and no connection.  The work is kept in the very step that      *)
(* tells nil.  It may also be kept by fn itself before Execute ends, or by *)
(* a COMMIT that a returning fn asked for and whose answer was lost.  Work *)
(* that an error or a panic gave up on is discarded, soon or late, unless  *)
(* fn's own COMMIT had been sent.                                          *)
(***************************************************************************)
CONSTANT Txs

VARIABLES
  work, \* none, pending, doubtful (a COMMIT is on its way), kept or discarded
  told  \* how Execute ended: nil, where it failed, or not by returning

vars == <<work, told>>

Init ==
  /\ work = [t \in Txs |-> "none"]
  /\ told = [t \in Txs |-> "none"]

Become(t, w) == work' = [work EXCEPT ![t] = w]
Tell(t, e) == told[t] = "none" /\ told' = [told EXCEPT ![t] = e]

Start(t) == work[t] = "none" /\ told[t] = "none" /\ Become(t, "pending") /\ UNCHANGED told

\* fn commits by itself, heard or not.
Keep(t) == /\ work[t] = "pending" /\ told[t] = "none"
           /\ \E w \in {"kept", "doubtful"} : Become(t, w)
           /\ UNCHANGED told

Discard(t) == work[t] \in {"pending", "doubtful"} /\ Become(t, "discarded") /\ UNCHANGED told

KeepLate(t) == work[t] = "doubtful" /\ Become(t, "kept") /\ UNCHANGED told

Refuse(t) == work[t] = "none" /\ Tell(t, "begin") /\ UNCHANGED work

Succeed(t) == work[t] = "pending" /\ Become(t, "kept") /\ Tell(t, "nil")

\* fn returned an error or panicked.
GiveUp(t) == /\ \E e \in {"fn", "panic"} : Tell(t, e)
             /\ \/ UNCHANGED work
                \/ work[t] = "pending" /\ Become(t, "discarded")

\* fn returned nil but COMMIT failed or was not answered.
FailToCommit(t) == /\ Tell(t, "commit")
                   /\ \/ UNCHANGED work
                      \/ work[t] = "pending" /\ \E w \in {"doubtful", "discarded"} : Become(t, w)

\* fn left by runtime.Goexit: Execute commits and nobody is told.
Exit(t) == /\ Tell(t, "exit")
           /\ \/ UNCHANGED work
              \/ work[t] = "pending" /\ \E w \in {"kept", "doubtful", "discarded"} : Become(t, w)

Next == \E t \in Txs : \/ Start(t) \/ Keep(t) \/ Discard(t) \/ KeepLate(t) \/ Refuse(t)
                       \/ Succeed(t) \/ GiveUp(t) \/ FailToCommit(t) \/ Exit(t)

Spec == Init /\ [][Next]_vars
=============================================================================
