------------------------- MODULE ProfileStoreProofs -------------------------
(***************************************************************************)
(* What the promise of the profile API entails, whoever keeps it.  Neither *)
(* conclusion is inductive: that a removed row stays away needs            *)
(* that a row bears the name of a call which has had its effect, and so    *)
(* will not have it again.                                                 *)
(***************************************************************************)
EXTENDS ProfileStore, TLAPS

Statuses == {0, 200, 201, 204, 404, 500, 503}

StoreTypes ==
  /\ table \in [Ids -> Rows \cup {Absent}]
  /\ call \in [Requests -> Calls]
  /\ outcome \in [Requests -> Rows \cup {Absent, None}]
  /\ status \in [Requests -> Statuses]

\* A success tells the operation, and that its statement found a row.
Reported ==
  \A r \in Requests : status[r] \in {200, 201, 204} =>
    status[r] = Success(call[r].op) /\ outcome[r] \in Rows

\* A row held or seen is named by a call that has had its effect.
Named(row) == row \in Requests => outcome[row] = row

Provenance ==
  /\ \A i \in Ids : Named(table[i])
  /\ \A q \in Requests : Named(outcome[q])

Removed ==
  \A d \in Requests : call[d].op = "delete" /\ Written(d) =>
    /\ table[call[d].id] # outcome[d]
    /\ \A e \in Requests \ {d} :
         call[e].op = "delete" /\ call[e].id = call[d].id => outcome[e] # outcome[d]

Writes(r) == call[r].op \in {"create", "update"}

Superseded(r) ==
  \E q \in Requests \ {r} :
    /\ call[q].id = call[r].id /\ call[q].op \in {"create", "update", "delete"}
    /\ Written(q)

Kept == \A r \in Requests : Writes(r) /\ Written(r) => table[call[r].id] = r \/ Superseded(r)

StoreInv == StoreTypes /\ Reported /\ Provenance /\ Removed /\ Kept

-----------------------------------------------------------------------------
(* No marker is a row a call wrote, and the markers differ.                 *)
LEMMA Markers ==
  /\ Absent # Seeded /\ Absent # None /\ Seeded # None
  /\ \A r \in Requests : r # Absent /\ r # Seeded /\ r # None
  /\ Rows = Requests \cup {Seeded} /\ None \notin Rows /\ Absent \notin Rows
BY RowsAssumption DEF Absent, Seeded, None, Rows

(* The statement of r leaves other ids alone, and touches its own in one of *)
(* four ways.                                                               *)
LEMMA Effect ==
  ASSUME NEW t \in [Ids -> Rows \cup {Absent}], NEW r \in Requests, NEW c \in Calls
  PROVE  /\ After(t, r, c) \in [Ids -> Rows \cup {Absent}]
         /\ Outcome(t, r, c) \in Rows \cup {Absent}
         /\ \A i \in Ids \ {c.id} : After(t, r, c)[i] = t[i]
         /\ \/ /\ c.op \in {"create", "update"}
               /\ After(t, r, c)[c.id] = r /\ Outcome(t, r, c) = r
            \/ /\ c.op = "delete"
               /\ After(t, r, c)[c.id] = Absent /\ Outcome(t, r, c) = t[c.id]
            \/ /\ c.op = "ready" /\ After(t, r, c) = t /\ Outcome(t, r, c) = r
            \/ /\ c.op \in {"get", "update"} /\ After(t, r, c) = t /\ Outcome(t, r, c) = t[c.id]
               /\ c.op = "update" => t[c.id] = Absent
<1>1. c.id \in Ids /\ c.op \in Ops
  BY DEF Calls
<1>2. t[c.id] \in Rows \cup {Absent} /\ r \in Rows
  BY <1>1 DEF Rows
<1>3. CASE c.op = "create" \/ (c.op = "update" /\ t[c.id] # Absent)
  BY <1>1, <1>2, <1>3 DEF After, Outcome
<1>4. CASE c.op = "delete"
  BY <1>1, <1>2, <1>4 DEF After, Outcome
<1>5. CASE c.op = "update" /\ t[c.id] = Absent
  BY <1>1, <1>2, <1>5 DEF After, Outcome
<1>6. CASE c.op \in {"get", "ready"}
  BY <1>1, <1>2, <1>6 DEF After, Outcome
<1> QED BY <1>1, <1>3, <1>4, <1>5, <1>6 DEF Ops

LEMMA Successes == \A op \in Ops : Success(op) \in {200, 201, 204}
                                   /\ (Success(op) = 204 <=> op = "delete")
                                   /\ (Success(op) = 201 <=> op = "create")
BY DEF Success, Ops

(* The statement of a call keeps the invariant, early or late.              *)
LEMMA TakeEffectKeeps ==
  ASSUME StoreInv, NEW r \in Requests, TakeEffect(r)
  PROVE  StoreInv'
<1>0. StoreTypes /\ Reported /\ Provenance /\ Removed /\ Kept
  BY DEF StoreInv
<1> DEFINE c == call[r]
           row == Outcome(table, r, c)
<1>1. /\ table' = After(table, r, c) /\ outcome' = [outcome EXCEPT ![r] = row]
      /\ UNCHANGED <<call, status>> /\ outcome[r] = None
      /\ c \in Calls /\ c.id \in Ids /\ c.op \in Ops
  BY <1>0 DEF TakeEffect, StoreTypes, Calls
<1>2. /\ table' \in [Ids -> Rows \cup {Absent}]
      /\ row \in Rows \cup {Absent}
      /\ \A i \in Ids \ {c.id} : table'[i] = table[i]
      /\ \/ c.op \in {"create", "update"} /\ table'[c.id] = r /\ row = r
         \/ c.op = "delete" /\ table'[c.id] = Absent /\ row = table[c.id]
         \/ c.op = "ready" /\ table' = table /\ row = r
         \/ /\ c.op \in {"get", "update"} /\ table' = table /\ row = table[c.id]
            /\ c.op = "update" => row = Absent
  <2>1. table \in [Ids -> Rows \cup {Absent}]
    BY <1>0 DEF StoreTypes
  <2> QED BY <1>1, <2>1, Effect
<1> HIDE DEF c, row
<1>3. outcome'[r] = row /\ \A q \in Requests \ {r} : outcome'[q] = outcome[q]
  BY <1>0, <1>1 DEF StoreTypes
<1>4. StoreTypes'
  BY <1>0, <1>1, <1>2 DEF StoreTypes
<1>5. Reported'
  <2>1. ASSUME NEW q \in Requests, status[q] \in {200, 201, 204} PROVE q # r
    BY <1>0, <1>1, <2>1, Markers DEF Reported
  <2> QED BY <1>0, <1>1, <1>3, <2>1 DEF Reported
<1>6. \A x : Named(x) => Named(x)'
  BY <1>1, <1>3, Markers DEF Named
<1>7. Provenance'
  <2>1. row \in Requests => outcome'[row] = row
    BY <1>0, <1>1, <1>2, <1>3, <1>6, Markers DEF Provenance, Named
  <2>2. \A x : x \in Requests /\ outcome[x] = x => outcome'[x] = x
    BY <1>6 DEF Named
  <2>3. ASSUME NEW i \in Ids
        PROVE  table'[i] \in {table[i], r, Absent} /\ (table'[i] = r => row = r \/ table[i] = r)
    <3>1. CASE i = c.id
      BY <1>2, <3>1, Markers
    <3>2. CASE i # c.id
      BY <1>2, <3>2
    <3> QED BY <3>1, <3>2
  <2>4. ASSUME NEW i \in Ids PROVE Named(table[i])'
    <3>1. row = r => outcome'[r] = r
      BY <1>3
    <3> QED BY <1>0, <2>2, <2>3, <3>1, Markers DEF Provenance, Named
  <2>5. ASSUME NEW q \in Requests PROVE Named(outcome[q])'
    BY <1>0, <1>3, <2>1, <2>2 DEF Provenance, Named
  <2> QED BY <2>4, <2>5 DEF Provenance
<1>8. Removed'
  <2>1. \A q \in Requests : q # r => outcome[q] # r
    BY <1>0, <1>1, Markers DEF Provenance, Named
  <2>2. ASSUME NEW d \in Requests, call[d].op = "delete", Written(d)'
        PROVE  table'[call[d].id] # outcome'[d]
    <3>1. CASE d = r
      BY <1>1, <1>2, <1>3, <2>2, <3>1 DEF Written, c
    <3>2. CASE d # r
      <4>1. table[call[d].id] # outcome[d] /\ outcome'[d] = outcome[d]
            /\ outcome[d] # Absent /\ call[d].id \in Ids
        BY <1>0, <1>3, <2>2, <3>2 DEF Removed, Written, StoreTypes, Calls
      <4> QED BY <1>1, <1>2, <2>1, <3>2, <4>1
    <3> QED BY <3>1, <3>2
  <2>3. ASSUME NEW d \in Requests, call[d].op = "delete", Written(d)',
               NEW e \in Requests \ {d}, call[e].op = "delete", call[e].id = call[d].id
        PROVE  outcome'[e] # outcome'[d]
    <3>1. CASE d = r
      <4>1. row = table[c.id] /\ row \notin {None, Absent} /\ c.id = call[e].id
        BY <1>1, <1>2, <1>3, <2>3, <3>1 DEF Written, c
      <4>2. Written(e) => table[call[e].id] # outcome[e]
        BY <1>0, <2>3 DEF Removed
      <4> QED BY <1>3, <3>1, <4>1, <4>2 DEF Written
    <3>2. CASE e = r
      <4>1. row = table[c.id] /\ c.id = call[d].id
        BY <1>1, <1>2, <2>3, <3>2 DEF c
      <4>2. outcome'[d] = outcome[d] /\ table[call[d].id] # outcome[d]
        BY <1>0, <1>3, <2>3, <3>2 DEF Removed, Written
      <4> QED BY <1>3, <3>2, <4>1, <4>2
    <3>3. CASE d # r /\ e # r
      BY <1>0, <1>3, <2>3, <3>3 DEF Removed, Written
    <3> QED BY <3>1, <3>2, <3>3
  <2> QED BY <1>1, <2>2, <2>3 DEF Removed
<1>9. Kept'
  <2>1. \A q \in Requests : Written(q) => q # r /\ Written(q)'
    BY <1>1, <1>3 DEF Written
  <2>2. ASSUME NEW q \in Requests, Writes(q), Written(q)'
        PROVE  table'[call[q].id] = q \/ Superseded(q)'
    <3>1. CASE q = r
      BY <1>1, <1>2, <1>3, <2>2, <3>1 DEF Writes, Written, c
    <3>2. CASE q # r
      <4>1. Written(q) /\ call[q].id \in Ids
        BY <1>0, <1>3, <2>2, <3>2 DEF Written, StoreTypes, Calls
      <4>2. Superseded(q) => Superseded(q)'
        BY <1>1, <2>1 DEF Superseded
      <4>3. ASSUME table[call[q].id] = q, table'[call[q].id] # q
            PROVE  Superseded(q)'
        <5>1. c.id = call[q].id /\ c.op \in {"create", "update", "delete"}
          BY <1>1, <1>2, <4>1, <4>3
        <5>2. row \in Requests
          BY <1>1, <1>2, <4>3, <5>1, Markers
        <5> QED BY <1>1, <1>3, <3>2, <5>1, <5>2, Markers DEF Superseded, Written, c
      <4>4. Kept /\ Writes(q)
        BY <1>0, <2>2
      <4> QED BY <4>1, <4>2, <4>3, <4>4 DEF Kept
    <3> QED BY <3>1, <3>2
  <2>3. \A q \in Requests : Writes(q)' = Writes(q)
    BY <1>1 DEF Writes
  <2> QED BY <1>1, <2>2, <2>3 DEF Kept
<1> QED BY <1>4, <1>5, <1>7, <1>8, <1>9 DEF StoreInv

(* An answer changes no row, and tells a success only of a row found.       *)
LEMMA AnswerKeeps ==
  ASSUME StoreInv, NEW r \in Requests, Answer(r)
  PROVE  StoreInv'
<1>0. StoreTypes /\ Reported /\ Provenance /\ Removed /\ Kept
  BY DEF StoreInv
<1>1. UNCHANGED <<table, call, outcome>> /\ call[r].op \in Ops
  BY <1>0 DEF Answer, StoreTypes, Calls
<1>2. /\ status' \in [Requests -> Statuses]
      /\ \A q \in Requests \ {r} : status'[q] = status[q]
      /\ \/ status'[r] = Success(call[r].op) /\ outcome[r] \in Rows
         \/ status'[r] \in {404, 500, 503}
  <2>1. Success(call[r].op) \in {200, 201, 204}
    BY <1>1, Successes
  <2>2. status \in [Requests -> Statuses]
    BY <1>0 DEF StoreTypes
  <2> QED BY <2>1, <2>2 DEF Answer, Statuses
<1>3. StoreTypes' /\ Reported'
  BY <1>0, <1>1, <1>2 DEF StoreTypes, Reported
<1>4. Provenance' /\ Removed' /\ Kept'
  BY <1>0, <1>1 DEF Provenance, Named, Removed, Kept, Writes, Superseded, Written
<1> QED BY <1>3, <1>4 DEF StoreInv

LEMMA InitStore == Init => StoreInv
<1> SUFFICES ASSUME Init PROVE StoreInv
  OBVIOUS
<1>1. StoreTypes
  BY DEF Init, StoreTypes, Statuses, Rows, Ids
<1>2. \A r \in Requests : outcome[r] = None /\ status[r] = 0 /\ None \notin Requests
  BY Markers DEF Init
<1>3. \A i \in Ids : table[i] \in {Absent, Seeded}
  BY DEF Init
<1> QED BY <1>1, <1>2, <1>3, Markers
        DEF StoreInv, Reported, Provenance, Named, Removed, Kept, Written

LEMMA NextStore == StoreInv /\ [Next]_vars => StoreInv'
<1> SUFFICES ASSUME StoreInv, [Next]_vars PROVE StoreInv'
  OBVIOUS
<1>1. CASE \E r \in Requests : TakeEffect(r) \/ Answer(r)
  BY <1>1, TakeEffectKeeps, AnswerKeeps
<1>2. CASE UNCHANGED <<table, call, outcome, status>>
  BY <1>2 DEF StoreInv, StoreTypes, Reported, Provenance, Named, Removed, Kept, Writes,
              Superseded, Written
<1> QED BY <1>1, <1>2 DEF Next, Submit, vars

-----------------------------------------------------------------------------
(* A row the table holds was written by a call that has had its effect, and *)
(* every acknowledged row is there or was written over.                     *)
THEOREM StoreInvariant == Spec => []StoreInv
BY InitStore, NextStore, PTL DEF Spec

(* What a caller may conclude follows from the promise: a 204 is final ...  *)
LEMMA DeletedFollows == StoreInv => DeletedForGood
<1> SUFFICES ASSUME StoreInv, NEW d \in Requests, status[d] = 204
             PROVE  /\ table[call[d].id] # outcome[d]
                    /\ \A e \in Requests \ {d} :
                         status[e] = 204 /\ call[e].id = call[d].id => outcome[e] # outcome[d]
  BY DEF DeletedForGood
<1>1. \A e \in Requests : status[e] = 204 => call[e].op = "delete" /\ Written(e)
  BY Successes, Markers DEF StoreInv, StoreTypes, Calls, Reported, Written
<1> QED BY <1>1 DEF StoreInv, Removed

(* ... and so is what was acknowledged, until another call wrote there.     *)
LEMMA KeptFollows == StoreInv => AcknowledgedStays
<1> SUFFICES ASSUME StoreInv, NEW r \in Requests, status[r] \in {200, 201}, Writes(r)
             PROVE  table[call[r].id] = r \/ Superseded(r)
  BY DEF AcknowledgedStays, Superseded, Writes
<1>1. Written(r)
  BY Markers DEF StoreInv, Reported, Written
<1> QED BY <1>1 DEF StoreInv, Kept

(* The store loses no acknowledged write and brings no removed row back.    *)
THEOREM StoreConclusions == Spec => [](DeletedForGood /\ AcknowledgedStays)
BY StoreInvariant, DeletedFollows, KeptFollows, PTL
=============================================================================
