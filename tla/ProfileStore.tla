---------------------------- MODULE ProfileStore ----------------------------
(***************************************************************************)
(* What the profile API promises its callers, with no pool, no deadlines   *)
(* and no driver: a call takes effect at most once and atomically; a       *)
(* success or a 404 reports the effect it had; 500 and 503 leave open      *)
(* whether the call had, or will still have, its effect.                   *)
(***************************************************************************)
EXTENDS ProfileRows, Naturals

VARIABLES
  table,   \* the row under each id
  call,    \* what each request asked for
  phase,   \* idle, open or answered
  outcome, \* the row its statement returned, once it ran
  status   \* the status it was answered with

vars == <<table, call, phase, outcome, status>>

Init ==
  /\ table = [i \in Ids |-> IF i \in Seeds THEN Seeded ELSE Absent]
  /\ call \in [Requests -> Calls]
  /\ phase = [r \in Requests |-> "idle"]
  /\ outcome = [r \in Requests |-> None]
  /\ status = [r \in Requests |-> 0]

Submit(r) ==
  /\ phase[r] = "idle"
  /\ phase' = [phase EXCEPT ![r] = "open"]
  /\ UNCHANGED <<table, call, outcome, status>>

\* The effect of r, while its caller waits or after it was given up on.
TakeEffect(r) ==
  /\ phase[r] = "open" \/ status[r] \in {500, 503}
  /\ outcome[r] = None
  /\ outcome' = [outcome EXCEPT ![r] = Outcome(table, r, call[r])]
  /\ table' = After(table, r, call[r])
  /\ UNCHANGED <<call, phase, status>>

Answer(r) ==
  /\ phase[r] = "open"
  /\ phase' = [phase EXCEPT ![r] = "answered"]
  /\ \/ outcome[r] \in Rows /\ status' = [status EXCEPT ![r] = Success(call[r].op)]
     \/ outcome[r] = Absent /\ status' = [status EXCEPT ![r] = 404]
     \/ \E failure \in IF call[r].op = "ready" THEN {503} ELSE {500, 503} :
          status' = [status EXCEPT ![r] = failure]
  /\ UNCHANGED <<table, call, outcome>>

Next == \E r \in Requests : Submit(r) \/ TakeEffect(r) \/ Answer(r)

Spec == Init /\ [][Next]_vars

-----------------------------------------------------------------------------
(* What a caller may conclude *)

Written(q) == outcome[q] \notin {None, Absent}

(* "deleted" is final: the row a 204 reports removed never comes back, not  *)
(* even by the late statement of the call that wrote it, and no two calls   *)
(* are told they removed the same row.                                      *)
DeletedForGood ==
  \A d \in Requests : status[d] = 204 =>
    /\ table[call[d].id] # outcome[d]
    /\ \A e \in Requests \ {d} :
         status[e] = 204 /\ call[e].id = call[d].id => outcome[e] # outcome[d]

(* A write that was acknowledged stays until another call has its effect on *)
(* the same row: none that was refused or cancelled before it ran, and no   *)
(* readiness probe or read, loses it.                                       *)
AcknowledgedStays ==
  \A r \in Requests :
    status[r] \in {200, 201} /\ call[r].op \in {"create", "update"} =>
      \/ table[call[r].id] = r
      \/ \E q \in Requests \ {r} :
           /\ call[q].id = call[r].id /\ call[q].op \in {"create", "update", "delete"}
           /\ Written(q)
=============================================================================
