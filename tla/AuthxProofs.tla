---------------------------- MODULE AuthxProofs ----------------------------
(* AllOf computes the conjunction of its arguments, for any argument list   *)
(* over any scopes and roles, and secured publishes no more than it asks.   *)
EXTENDS Authx, TLAPS

(* An alternative built by concat is met by the callers who meet both parts.*)
LEMMA ConcatIsAnd ==
  ASSUME NEW a \in Requirement, NEW t \in Requirement, NEW id \in Identity
  PROVE  satisfied(concat(a, t), id) <=> satisfied(a, id) /\ satisfied(t, id)
BY DEF concat, satisfied, Requirement, Identity

(* Cross stays within the requirements over the same names.                 *)
LEMMA CrossType ==
  ASSUME NEW acc \in Requirements, NEW req \in Requirements
  PROVE  Cross(acc, req) \in Requirements
BY DEF Cross, concat, Requirements, Requirement

(* One pass of the loop conjoins one argument: Cross is AllOf's inner loops.*)
LEMMA CrossIsAnd ==
  ASSUME NEW acc \in Requirements, NEW req \in Requirements, NEW id \in Identity
  PROVE  Satisfied(Cross(acc, req), id) <=> Satisfied(acc, id) /\ Satisfied(req, id)
<1>1. \A a \in acc, t \in req : a \in Requirement /\ t \in Requirement
  BY DEF Requirements
<1>3. ASSUME Satisfied(Cross(acc, req), id)
      PROVE  Satisfied(acc, id) /\ Satisfied(req, id)
  <2>1. PICK a \in acc, t \in req : satisfied(concat(a, t), id)
    BY <1>3 DEF Satisfied, Cross
  <2>2. satisfied(a, id) /\ satisfied(t, id)
    BY <1>1, <2>1, ConcatIsAnd
  <2> QED BY <2>2 DEF Satisfied
<1>4. ASSUME Satisfied(acc, id), Satisfied(req, id)
      PROVE  Satisfied(Cross(acc, req), id)
  <2>1. PICK a \in acc, t \in req : satisfied(a, id) /\ satisfied(t, id)
    BY <1>4 DEF Satisfied
  <2>2. satisfied(concat(a, t), id)
    BY <1>1, <2>1, ConcatIsAnd
  <2>3. concat(a, t) \in Cross(acc, req)
    BY DEF Cross
  <2> QED BY <2>2, <2>3 DEF Satisfied
<1> QED BY <1>3, <1>4

-----------------------------------------------------------------------------
\* The loop invariant: the accumulator admits whom the arguments so far admit.
SoFar(n) == \A id \in Identity : Satisfied(out, id) <=> \A m \in 1..n : Satisfied(rs[m], id)

LoopInv ==
  /\ TypeOK
  /\ step = "combining" => SoFar(i)
  /\ step # "combining" => SoFar(Len(rs))
  /\ step # "registered" => ~guarded /\ security = Open
  /\ step = "registered" =>
       /\ guarded = enabled
       /\ security = IF ~enabled THEN Open ELSE IF out = {} THEN {{}} ELSE OpenAPI(out)

(* The loop invariant of AllOf, kept by every step up to the registration.  *)
THEOREM AllOfLoop == Spec => []LoopInv
<1>1. Init => LoopInv
  <2> SUFFICES ASSUME Init PROVE LoopInv
    OBVIOUS
  <2>1. rs \in Seq(Requirements) /\ Len(rs) \in Nat
    BY ArgumentsAssumption DEF Init
  <2>2. Authenticated \in Requirements
    BY DEF Authenticated, Requirements, Requirement
  <2>3. TypeOK
    <3>1. i \in 0..Len(rs)
      BY <2>1 DEF Init
    <3> QED BY <3>1, <2>2 DEF Init, TypeOK, Open
  <2>4. \A id \in Identity : Satisfied(Authenticated, id)
    BY DEF Authenticated, Satisfied, satisfied, Identity
  <2>5. SoFar(0)
    BY <2>4 DEF SoFar, Init
  <2> QED BY <2>3, <2>5 DEF LoopInv, Init
<1>2. LoopInv /\ [Next]_vars => LoopInv'
  <2> SUFFICES ASSUME LoopInv, [Next]_vars PROVE LoopInv'
    OBVIOUS
  <2> USE DEF LoopInv
  <2>1. rs \in Seq(Requirements) /\ Len(rs) \in Nat /\ i \in 0..Len(rs)
        /\ out \in Requirements
    BY ArgumentsAssumption DEF TypeOK
  <2>2. \A m \in 1..Len(rs) : rs[m] \in Requirements
    BY <2>1
  <2>3. CASE NothingSatisfies
    <3>1. i + 1 \in 1..Len(rs) /\ rs[i + 1] = {}
      BY <2>1, <2>3 DEF NothingSatisfies
    <3>2. \A id \in Identity : ~Satisfied(rs[i + 1], id) /\ ~Satisfied(out', id)
      BY <2>3, <3>1 DEF NothingSatisfies, Satisfied
    <3>3. SoFar(Len(rs))'
      BY <2>3, <3>1, <3>2 DEF SoFar, NothingSatisfies
    <3>4. TypeOK'
      BY <2>3 DEF NothingSatisfies, TypeOK, Requirements
    <3> QED BY <2>3, <3>3, <3>4 DEF NothingSatisfies, Open
  <2>4. CASE CrossNext
    <3>1. i + 1 \in 1..Len(rs)
      BY <2>1, <2>4 DEF CrossNext
    <3>2. rs[i + 1] \in Requirements
      BY <2>2, <3>1
    <3>3. out' \in Requirements
      BY <2>1, <2>4, <3>2, CrossType DEF CrossNext
    <3>4. ASSUME NEW id \in Identity
          PROVE  Satisfied(out', id) <=> \A m \in 1..(i + 1) : Satisfied(rs[m], id)
      <4>1. Satisfied(out', id) <=> Satisfied(out, id) /\ Satisfied(rs[i + 1], id)
        BY <2>1, <2>4, <3>2, CrossIsAnd DEF CrossNext
      <4>2. Satisfied(out, id) <=> \A m \in 1..i : Satisfied(rs[m], id)
        BY <2>4 DEF CrossNext, SoFar
      <4>3. 1..(i + 1) = (1..i) \cup {i + 1}
        BY <2>1
      <4> QED BY <4>1, <4>2, <4>3
    <3>5. SoFar(i)'
      BY <2>4, <3>4 DEF SoFar, CrossNext
    <3>6. TypeOK'
      BY <2>1, <2>4, <3>1, <3>3 DEF CrossNext, TypeOK
    <3> QED BY <2>4, <3>5, <3>6 DEF CrossNext, Open
  <2>5. CASE AllCrossed
    <3>1. TypeOK'
      BY <2>5 DEF AllCrossed, TypeOK
    <3>2. SoFar(Len(rs))'
      BY <2>5 DEF AllCrossed, SoFar
    <3> QED BY <2>5, <3>1, <3>2 DEF AllCrossed, Open
  <2>6. CASE secured
    <3>1. OpenAPI(out) \in SUBSET SUBSET Scopes
      BY <2>1 DEF OpenAPI, Requirements, Requirement
    <3>2. TypeOK'
      BY <2>6, <3>1 DEF secured, TypeOK
    <3>3. SoFar(Len(rs))'
      BY <2>6 DEF secured, SoFar
    <3>4. (security = IF ~enabled THEN Open ELSE IF out = {} THEN {{}} ELSE OpenAPI(out))'
      BY <2>6 DEF secured, OpenAPI, Open
    <3>5. (guarded = enabled)'
      <4>1. CASE enabled
        BY <4>1, <2>6, Zenon DEF secured, TypeOK
      <4>2. CASE ~enabled
        <5>1. ~guarded /\ enabled = FALSE
          BY <4>2, <2>6 DEF secured, TypeOK
        <5> QED BY <4>2, <5>1, <2>6, Zenon DEF secured, TypeOK
      <4> QED BY <4>1, <4>2
    <3> QED BY <2>6, <3>2, <3>3, <3>4, <3>5 DEF secured
  <2>7. CASE UNCHANGED vars
    BY <2>7 DEF vars, TypeOK, SoFar, OpenAPI, Open
  <2> QED BY <2>3, <2>4, <2>5, <2>6, <2>7 DEF Next, Registered
<1> QED BY <1>1, <1>2, PTL DEF Spec

-----------------------------------------------------------------------------
(* authx.AllOf: the result admits a caller exactly when every argument does.*)
THEOREM AllOfComputesAnd == Spec => []AllOfIsConjunction
<1>1. LoopInv => AllOfIsConjunction
  <2> SUFFICES ASSUME LoopInv, step # "combining" PROVE SoFar(Len(rs)) => AllOfIsConjunction
    BY DEF LoopInv, AllOfIsConjunction
  <2>1. DOMAIN rs = 1..Len(rs)
    BY ArgumentsAssumption DEF LoopInv, TypeOK
  <2> QED BY <2>1 DEF SoFar, AllOfIsConjunction
<1> QED BY <1>1, AllOfLoop, PTL

(* api.secured: the published security field never asks for more than the   *)
(* guard does, and is there exactly when the guard is.                      *)
THEOREM DocumentedIsEnforced == Spec => []DocumentUnderstates
<1>1. LoopInv => DocumentUnderstates
  <2> SUFFICES ASSUME LoopInv, step = "registered" PROVE DocumentUnderstates
    BY DEF DocumentUnderstates
  <2>1. CASE ~enabled
    BY <2>1 DEF LoopInv, DocumentUnderstates, DocumentedAsEnough
  <2>2. CASE enabled /\ out = {}
    BY <2>2 DEF LoopInv, DocumentUnderstates, DocumentedAsEnough, Served, Satisfied, Open
  <2>3. CASE enabled /\ out # {}
    <3>1. guarded /\ security = OpenAPI(out)
      BY <2>3 DEF LoopInv
    <3>2. OpenAPI(out) # Open
      BY <2>3 DEF OpenAPI, Open
    <3>3. \A id \in Identity : Satisfied(out, id) => \E scopes \in security : scopes \subseteq id.scopes
      BY <3>1 DEF Satisfied, satisfied, OpenAPI
    <3> QED BY <3>1, <3>2, <3>3 DEF DocumentUnderstates, DocumentedAsEnough, Served
  <2> QED BY <2>1, <2>2, <2>3 DEF LoopInv, TypeOK
<1> QED BY <1>1, AllOfLoop, PTL

(* api.secured fails closed: a requirement nobody can meet serves nobody.   *)
THEOREM EmptyRefusesAll == Spec => []UnsatisfiableRefusesAll
<1>1. LoopInv /\ AllOfIsConjunction => UnsatisfiableRefusesAll
  BY DEF LoopInv, AllOfIsConjunction, UnsatisfiableRefusesAll, Served, Satisfied
<1> QED BY <1>1, AllOfLoop, AllOfComputesAnd, PTL

(* The requirement under construction and the caller keep their types.      *)
THEOREM TypeCorrect == Spec => []TypeOK
<1>1. LoopInv => TypeOK
  BY DEF LoopInv
<1> QED BY <1>1, AllOfLoop, PTL
=============================================================================
