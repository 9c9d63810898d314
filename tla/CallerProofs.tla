---------------------------- MODULE CallerProofs ----------------------------
(***************************************************************************)
(* A caller is served as granted, for claim names of any length, tokens of *)
(* any shape and requirements over any scopes and roles.  The loop of      *)
(* lookupClaim over the segments of a name is the recursive function Walk; *)
(* what it computes is shown by induction on the number of segments.       *)
(***************************************************************************)
EXTENDS Caller, AuthxProofs, Integers, WellFoundedInduction

(* Induction as a fact about sets of numbers: a set with 0 that is closed   *)
(* under successor has every number, for the least one missing would be     *)
(* neither.                                                                 *)
LEMMA SetInduction ==
  ASSUME NEW T, 0 \in T, \A n \in Nat : n \in T => n + 1 \in T
  PROVE  Nat \subseteq T
<1> SUFFICES ASSUME Nat \ T # {} PROVE FALSE
  OBVIOUS
<1> DEFINE Less == {p \in Nat \X Nat : p[1] < p[2]}
<1>1. \A x, y \in Nat : x < y => <<x, y>> \in Less
  OBVIOUS
<1>2. IsWellFoundedOn(Less, Nat)
  BY NatLessThanWellFounded DEF OpToRel
<1> HIDE DEF Less
<1>3. PICK m \in Nat \ T : \A k \in Nat \ T : ~(<<k, m>> \in Less)
  BY <1>2, WFMin
<1>4. m # 0 /\ m - 1 \in Nat /\ m - 1 < m
  BY <1>3
<1>5. m - 1 \in T
  BY <1>1, <1>3, <1>4
<1> QED BY <1>3, <1>4, <1>5

-----------------------------------------------------------------------------
(* The walk *)

(* Walk is the function its recursion describes: there is one for every     *)
(* number of segments, each extending the one before.                       *)
LEMMA WalkDef ==
  ASSUME NEW claims, NEW name, Len(name) \in Nat
  PROVE  Walk(claims, name) =
           [n \in 0..Len(name) |-> IF n = 0 THEN Object(claims)
                                   ELSE Member(Walk(claims, name)[n - 1], name[n])]
<1> DEFINE Step(f, k) == IF k = 0 THEN Object(claims) ELSE Member(f[k - 1], name[k])
           Reached == {n \in Nat : \E f : f = [k \in 0..n |-> Step(f, k)]}
<1>1. 0 \in Reached
  <2> DEFINE f == [k \in 0..0 |-> Object(claims)]
  <2>1. f = [k \in 0..0 |-> Step(f, k)]
    OBVIOUS
  <2> QED BY <2>1
<1>2. ASSUME NEW n \in Nat, n \in Reached PROVE n + 1 \in Reached
  <2>1. PICK f : f = [k \in 0..n |-> Step(f, k)]
    BY <1>2
  <2> DEFINE g == [k \in 0..(n + 1) |-> IF k = n + 1 THEN Member(f[n], name[n + 1]) ELSE f[k]]
  <2>2. ASSUME NEW k \in 0..(n + 1) PROVE g[k] = Step(g, k)
    <3>1. CASE k = n + 1
      BY <3>1
    <3>2. CASE k \in 0..n
      <4>1. f[k] = Step(f, k)
        BY <2>1, <3>2, Zenon
      <4>2. k # 0 => k - 1 \in 0..(n + 1) /\ k - 1 # n + 1
        BY <3>2
      <4>3. g[k] = f[k] /\ (k # 0 => g[k - 1] = f[k - 1])
        BY <3>2, <4>2
      <4> QED BY <4>1, <4>3
    <3> QED BY <3>1, <3>2
  <2>3. g = [k \in 0..(n + 1) |-> Step(g, k)]
    BY <2>2
  <2> HIDE DEF g
  <2>4. \E h : h = [k \in 0..(n + 1) |-> Step(h, k)]
    BY <2>3
  <2> QED BY <2>4
<1> HIDE DEF Reached
<1>3. Len(name) \in Reached
  BY <1>1, <1>2, SetInduction
<1>4. \E f : f = [k \in 0..Len(name) |-> Step(f, k)]
  BY <1>3 DEF Reached
<1>5. Walk(claims, name) = CHOOSE f : f = [k \in 0..Len(name) |-> Step(f, k)]
  BY DEF Walk
<1> QED BY <1>4, <1>5

\* The path is a name with at least one segment; what it is walked through.
WalkSteps(claims, name) ==
  /\ Walk(claims, name)[0] = Object(claims)
  /\ \A n \in 1..Len(name) :
       Walk(claims, name)[n] = Member(Walk(claims, name)[n - 1], name[n])

LEMMA WalkEquations ==
  ASSUME NEW claims, NEW name, Len(name) \in Nat
  PROVE  WalkSteps(claims, name)
<1> DEFINE w == Walk(claims, name)
<1>1. w = [n \in 0..Len(name) |-> IF n = 0 THEN Object(claims) ELSE Member(w[n - 1], name[n])]
  BY WalkDef
<1> HIDE DEF w
<1>2. w[0] = Object(claims)
  BY <1>1
<1>3. \A n \in 1..Len(name) : w[n] = Member(w[n - 1], name[n])
  BY <1>1
<1> QED BY <1>2, <1>3 DEF w, WalkSteps

\* What holds one object of a trail, as the object before it in Leads does.
Holder(claims, trail, n) == IF n = 1 THEN Object(claims) ELSE trail[n - 1]

Follows(claims, name, trail) ==
  \A n \in 1..Len(name) :
    /\ Has(Holder(claims, trail, n), name[n])
    /\ trail[n] = Holder(claims, trail, n).members[<<name[n]>>]

(* Where objects lead along the name, the walk of lookupClaim goes.         *)
LEMMA WalkFollows ==
  ASSUME NEW claims, NEW name, Len(name) \in Nat, NEW trail, Follows(claims, name, trail)
  PROVE  \A n \in 1..Len(name) : Walk(claims, name)[n] = trail[n]
<1> DEFINE w == Walk(claims, name)
           Same == {n \in Nat : n + 1 \in 1..Len(name) => w[n + 1] = trail[n + 1]}
<1>0. WalkSteps(claims, name)
  BY WalkEquations
<1>1. w[0] = Object(claims) /\ \A n \in 1..Len(name) : w[n] = Member(w[n - 1], name[n])
  BY <1>0 DEF WalkSteps
<1> HIDE DEF w
<1>2. ASSUME NEW n \in 1..Len(name), w[n - 1] = Holder(claims, trail, n)
      PROVE  w[n] = trail[n]
  BY <1>1, <1>2 DEF Follows, Member, Has
<1>3. 0 \in Same
  <2>1. CASE 1 \in 1..Len(name)
    <3>1. w[1 - 1] = Holder(claims, trail, 1)
      BY <1>1 DEF Holder
    <3>2. w[1] = trail[1]
      BY <1>2, <2>1, <3>1
    <3> QED BY <3>2
  <2> QED BY <2>1
<1>4. ASSUME NEW n \in Nat, n \in Same PROVE n + 1 \in Same
  <2>1. CASE n + 2 \in 1..Len(name)
    <3>1. n + 1 \in 1..Len(name) /\ (n + 2) - 1 = n + 1
      BY <2>1
    <3>2. w[(n + 2) - 1] = Holder(claims, trail, n + 2)
      BY <1>4, <3>1 DEF Holder
    <3>3. w[n + 2] = trail[n + 2]
      BY <1>2, <2>1, <3>2
    <3>4. (n + 1) + 1 = n + 2
      OBVIOUS
    <3> QED BY <3>3, <3>4
  <2> QED BY <2>1
<1>5. \A n \in Nat : n \in Same
  <2> HIDE DEF Same
  <2> QED BY <1>3, <1>4, SetInduction
<1>6. ASSUME NEW n \in 1..Len(name) PROVE w[n] = trail[n]
  <2>1. n - 1 \in Nat /\ (n - 1) + 1 = n
    OBVIOUS
  <2> QED BY <1>5, <2>1
<1> QED BY <1>6 DEF w

(* Where the walk of lookupClaim arrives at a value, objects lead to it:    *)
(* a segment missed once is missed for good.                                *)
LEMMA WalkLeads ==
  ASSUME NEW claims, \A s \in DOMAIN claims : claims[s] \in Values,
         NEW name, Len(name) \in Nat \ {0}, Path(claims, name) # Missing
  PROVE  Path(claims, name) \in Values /\ Leads(claims, name, Path(claims, name))
<1> DEFINE len == Len(name)
           w == Walk(claims, name)
           Found == {n \in Nat : n <= len => w[len - n] # Missing}
           Typed == {n \in Nat : n + 1 <= len => w[n + 1] \in Values}
<1>0. WalkSteps(claims, name) /\ len \in Nat \ {0}
  BY WalkEquations
<1>1. w[0] = Object(claims) /\ \A n \in 1..len : w[n] = Member(w[n - 1], name[n])
  BY <1>0 DEF WalkSteps
<1>2. w[len] # Missing
  BY DEF Path
<1> HIDE DEF w, len
<1>3. ASSUME NEW n \in 1..len, w[n] # Missing PROVE w[n - 1] # Missing
  <2>1. Missing.kind # "object"
    BY DEF Missing
  <2>2. Member(Missing, name[n]) = Missing
    BY <2>1 DEF Member
  <2>3. w[n] = Member(w[n - 1], name[n])
    BY <1>1
  <2> QED BY <1>3, <2>2, <2>3
<1>4. 0 \in Found
  BY <1>0, <1>2
<1>5. ASSUME NEW n \in Nat, n \in Found PROVE n + 1 \in Found
  <2>1. CASE n + 1 <= len
    <3>1. len - n \in 1..len /\ (len - n) - 1 = len - (n + 1) /\ n <= len
      BY <1>0, <2>1
    <3>2. w[len - n] # Missing
      BY <1>5, <3>1
    <3> QED BY <1>3, <3>1, <3>2
  <2> QED BY <2>1
<1>6. \A n \in Nat : n \in Found
  <2> HIDE DEF Found
  <2> QED BY <1>4, <1>5, SetInduction
<1>7. ASSUME NEW n \in 0..len PROVE w[n] # Missing
  <2>1. len - n \in Nat /\ len - n <= len /\ len - (len - n) = n
    BY <1>0
  <2> QED BY <1>6, <2>1
<1>8. ASSUME NEW n \in 1..len
      PROVE  Has(w[n - 1], name[n]) /\ w[n] = w[n - 1].members[<<name[n]>>]
  <2>1. w[n] # Missing /\ w[n] = Member(w[n - 1], name[n])
    BY <1>1, <1>7
  <2> QED BY <2>1 DEF Member, Has
<1>9. ASSUME NEW n \in 1..len, n # 1 => w[n - 1] \in Values PROVE w[n] \in Values
  <2>1. CASE n = 1
    <3>1. w[n - 1] = Object(claims)
      BY <1>1, <2>1
    <3>2. Object(claims).members = claims
      BY DEF Object
    <3>3. <<name[n]>> \in DOMAIN claims /\ w[n] = claims[<<name[n]>>]
      BY <1>8, <3>1, <3>2 DEF Has
    <3> QED BY <3>3
  <2>2. CASE n # 1
    BY <1>8, <1>9, <2>2, ValuesAssumption DEF Has
  <2> QED BY <2>1, <2>2
<1>10. 0 \in Typed
  <2>1. CASE 1 <= len
    <3>1. 1 \in 1..len
      BY <1>0, <2>1
    <3>2. w[1] \in Values
      BY <1>9, <3>1
    <3> QED BY <3>2
  <2> QED BY <2>1
<1>11. ASSUME NEW n \in Nat, n \in Typed PROVE n + 1 \in Typed
  <2>1. CASE n + 2 <= len
    <3>1. n + 2 \in 1..len /\ (n + 2) - 1 = n + 1 /\ (n + 1) + 1 = n + 2 /\ n + 1 <= len
      BY <1>0, <2>1
    <3>2. w[(n + 2) - 1] \in Values
      BY <1>11, <3>1
    <3>3. w[n + 2] \in Values
      BY <1>9, <3>1, <3>2
    <3> QED BY <3>1, <3>3
  <2>2. CASE ~(n + 2 <= len)
    <3>1. (n + 1) + 1 = n + 2
      OBVIOUS
    <3> QED BY <2>2, <3>1
  <2> QED BY <2>1, <2>2
<1>12. \A n \in Nat : n \in Typed
  <2> HIDE DEF Typed
  <2> QED BY <1>10, <1>11, SetInduction
<1>13. ASSUME NEW n \in 1..len PROVE w[n] \in Values
  <2>1. n - 1 \in Nat /\ (n - 1) + 1 = n /\ n <= len
    BY <1>0
  <2> QED BY <1>12, <2>1
<1>14. len \in 1..len /\ Path(claims, name) = w[len]
  BY <1>0 DEF Path, w, len
<1> DEFINE trail == [n \in 1..len |-> w[n]]
<1>15. trail \in [1..len -> Values] /\ trail[len] = w[len]
  BY <1>13, <1>14
<1>16. ASSUME NEW n \in 1..len
       PROVE  LET holder == IF n = 1 THEN Object(claims) ELSE trail[n - 1]
              IN Has(holder, name[n]) /\ trail[n] = holder.members[<<name[n]>>]
  <2>1. n # 1 => n - 1 \in 1..len
    BY <1>0
  <2>2. w[n - 1] = IF n = 1 THEN Object(claims) ELSE trail[n - 1]
    BY <1>1, <2>1
  <2>3. trail[n] = w[n]
    OBVIOUS
  <2> HIDE DEF trail
  <2> QED BY <1>8, <2>2, <2>3
<1> HIDE DEF trail
<1>17. Leads(claims, name, w[len])
  BY <1>15, <1>16 DEF Leads, len
<1> QED BY <1>13, <1>14, <1>17

(* claimList reads the names a provider meant: "one function therefore      *)
(* covers all three conventions in use".                                    *)
LEMMA ClaimListMeans ==
  ASSUME NEW claims, \A s \in DOMAIN claims : claims[s] \in Values,
         NEW name \in Seq(STRING), NEW names, Means(claims, name, names)
  PROVE  claimList(claims, name) = names
<1>1. Missing.kind # "names"
  BY DEF Missing
<1>2. name # None => Len(name) \in Nat \ {0}
  BY DEF None
<1>3. ASSUME NEW value, lookupClaim(claims, name) = value, Grants(value, names)
      PROVE  claimList(claims, name) = names
  BY <1>3 DEF claimList, Grants
<1>4. CASE name # None /\ name \in DOMAIN claims /\ Grants(claims[name], names)
  BY <1>3, <1>4 DEF lookupClaim
<1>5. CASE name # None /\ name \notin DOMAIN claims
           /\ \E value \in Values : Leads(claims, name, value) /\ Grants(value, names)
  <2>1. PICK value \in Values : Leads(claims, name, value) /\ Grants(value, names)
    BY <1>5
  <2>2. PICK trail \in [1..Len(name) -> Values] :
          trail[Len(name)] = value /\ Follows(claims, name, trail)
    BY <2>1 DEF Leads, Follows, Holder
  <2>3. \A n \in 1..Len(name) : Walk(claims, name)[n] = trail[n]
    BY <1>2, <1>5, <2>2, WalkFollows
  <2>4. Path(claims, name) = value
    BY <1>2, <1>5, <2>2, <2>3 DEF Path
  <2> QED BY <1>3, <1>5, <2>1, <2>4 DEF lookupClaim
<1>6. CASE /\ name = None \/ (name \notin DOMAIN claims
                             /\ \A value \in Values : ~Leads(claims, name, value))
           /\ names = {}
  <2>1. name # None => Path(claims, name) = Missing
    BY <1>2, <1>6, WalkLeads
  <2>2. lookupClaim(claims, name) = Missing
    BY <1>6, <2>1 DEF lookupClaim
  <2> QED BY <1>1, <1>6, <2>2 DEF claimList
<1> QED BY <1>4, <1>5, <1>6 DEF Means

-----------------------------------------------------------------------------
(* The composition *)

(* Callers do not disturb the registration: every theorem about Authx holds *)
(* of the composed system.                                                  *)
THEOREM CallerKeepsAuthx == CallerSpec => Spec
<1>1. CallerInit => Init
  BY DEF CallerInit
<1>2. [CallerNext]_<<vars, callerVars>> => [Next]_vars
  BY DEF CallerNext, Registering, Verify
<1> QED BY <1>1, <1>2, PTL DEF CallerSpec, Spec

Granted(t) == [scopes |-> t.scopes, roles |-> t.roles]

\* A verified caller stands before a registered guard, with what was meant.
CallerInv ==
  token # None =>
    step = "registered" /\ guarded /\ token \in Issued /\ id = Granted(token)

(* verifier.Verify hands the guard exactly the names the provider granted.  *)
THEOREM IdentityIsGranted == CallerSpec => []CallerInv
<1>1. CallerInit => CallerInv
  BY DEF CallerInit, CallerInv
<1>2. CallerInv /\ [CallerNext]_<<vars, callerVars>> => CallerInv'
  <2> SUFFICES ASSUME CallerInv, [CallerNext]_<<vars, callerVars>> PROVE CallerInv'
    OBVIOUS
  <2>1. CASE Registering
    <3>1. token' = token /\ id' = id
      BY <2>1 DEF Registering, callerVars
    <3>2. token # None => step' = step /\ guarded' = guarded
      BY <2>1 DEF CallerInv, Registering, Next, NothingSatisfies, CrossNext, AllCrossed, secured,
                  Registered, vars
    <3> QED BY <3>1, <3>2 DEF CallerInv, Granted
  <2>2. CASE Verify
    <3>1. PICK t \in Issued :
            /\ token' = t
            /\ id' = [scopes |-> claimList(t.claims, ScopeClaim),
                      roles  |-> claimList(t.claims, RolesClaim)]
      BY <2>2 DEF Verify
    <3>2. /\ claimList(t.claims, ScopeClaim) = t.scopes
          /\ claimList(t.claims, RolesClaim) = t.roles
      BY IssuedAssumption, NamesAssumption, ClaimListMeans
    <3>3. step' = "registered" /\ guarded'
      BY <2>2 DEF Verify, vars
    <3> QED BY <3>1, <3>2, <3>3 DEF CallerInv, Granted
  <2>3. CASE UNCHANGED <<vars, callerVars>>
    BY <2>3 DEF CallerInv, Granted, vars, callerVars
  <2> QED BY <2>1, <2>2, <2>3 DEF CallerNext
<1> QED BY <1>1, <1>2, PTL DEF CallerSpec

(* From the claims a provider wrote to the handler: a guarded operation     *)
(* serves a caller exactly when every requirement of its route is met by    *)
(* what the provider meant to grant.                                        *)
THEOREM GrantsDecide == CallerSpec => []ServedAsGranted
<1>1. CallerInv /\ AllOfIsConjunction => ServedAsGranted
  <2> SUFFICES ASSUME CallerInv, AllOfIsConjunction, token # None
               PROVE  Served(id) <=> \A n \in DOMAIN rs : Satisfied(rs[n], Granted(token))
    BY DEF ServedAsGranted, Granted
  <2>1. Granted(token) \in Identity
    BY IssuedAssumption DEF CallerInv, Granted, Identity
  <2>2. Satisfied(out, Granted(token)) <=> \A n \in DOMAIN rs : Satisfied(rs[n], Granted(token))
    BY <2>1 DEF CallerInv, AllOfIsConjunction
  <2> QED BY <2>2 DEF CallerInv, Served
<1> QED BY <1>1, IdentityIsGranted, CallerKeepsAuthx, AllOfComputesAnd, PTL
=============================================================================
