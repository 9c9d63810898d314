---------------------------- MODULE ProfileRows ----------------------------
(***************************************************************************)
(* The profiles table and what one statement does to it.  A row is named   *)
(* by the request that wrote it last; first and last name are the payload  *)
(* of that request and stay unmodelled.  A create's row lives under an id  *)
(* of its own (uuidv7), named here by the request.                         *)
(***************************************************************************)
CONSTANTS
  Requests, \* the requests clients may send
  Seeds     \* the ids of the rows present at the start

Absent == "absent"  \* no row
Seeded == "seeded"  \* a row written before any request
None == "none"      \* the statement has not run

ASSUME RowsAssumption == {Absent, Seeded, None} \cap Requests = {}

Ops == {"create", "get", "update", "delete", "ready"}
Ids == Requests \cup Seeds
Rows == Requests \cup {Seeded}
Calls == [op : Ops, id : Ids]

\* The calls r may make: its own id for a create, no particular one for a ping,
\* any id otherwise.
CallsOf(r) == {c \in Calls : c.op \in {"create", "ready"} => c.id = r}

\* Regression: the DELETE has lost its WHERE.
AfterUnfiltered(t, r, c) ==
  CASE c.op = "create"                       -> [t EXCEPT ![c.id] = r]
    [] c.op = "update" /\ t[c.id] # Absent   -> [t EXCEPT ![c.id] = r]
    [] c.op = "delete"                       -> [i \in Ids |-> Absent]
    [] OTHER                                 -> t

\* The statements of sql/profile_*.sql, each atomic; readiness only pings.
After(t, r, c) ==
  CASE c.op = "create"                       -> [t EXCEPT ![c.id] = r]
    [] c.op = "update" /\ t[c.id] # Absent   -> [t EXCEPT ![c.id] = r]
    [] c.op = "delete"                       -> [t EXCEPT ![c.id] = Absent]
    [] OTHER                                 -> t

\* The row a statement returns or, for a delete, counts.
Outcome(t, r, c) ==
  IF c.op \in {"create", "ready"} \/ (c.op = "update" /\ t[c.id] # Absent)
    THEN r
    ELSE t[c.id]

\* What each operation answers when its statement found a row.
Success(op) ==
  CASE op = "create" -> 201
    [] op = "delete" -> 204
    [] OTHER         -> 200
=============================================================================
