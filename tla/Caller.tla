------------------------------- MODULE Caller -------------------------------
(***************************************************************************)
(* From a verified token to the guard's decision: the verifier reads the   *)
(* caller's scopes and roles from two claims named by the configuration,   *)
(* and the guard of a registered operation weighs them.                    *)
(*                                                                         *)
(* The name of a claim is a sequence of segments, the parts between dots.  *)
(* Claims and nested objects map names to values: names granted, spelled   *)
(* as a string or as an array, an object, or anything else.                *)
(***************************************************************************)
EXTENDS Authx

CONSTANTS
  ScopeClaim,  \* the settings scope_claim and roles_claim
  RolesClaim,
  Values,      \* what a claim, or a member of an object in it, may hold
  Issued       \* tokens: the claims they carry, the scopes and roles they mean

VARIABLES
  token,  \* the token presented, or None
  id      \* the identity read from it, or None

None == <<>>

callerVars == <<token, id>>

-----------------------------------------------------------------------------
(* Claims *)

Granting(names) == [kind |-> "names", names |-> names]
Object(members) == [kind |-> "object", members |-> members]
Other == [kind |-> "other"]
Missing == [kind |-> "missing"]

\* One segment of the path walk; what is no object has no members.
Member(current, segment) ==
  IF current.kind = "object" /\ <<segment>> \in DOMAIN current.members
    THEN current.members[<<segment>>] ELSE Missing

\* Where the loop over the segments stands after each of them.
Walk(claims, name) ==
  LET current[n \in 0..Len(name)] ==
        IF n = 0 THEN Object(claims) ELSE Member(current[n - 1], name[n])
  IN current

Path(claims, name) == Walk(claims, name)[Len(name)]

\* Regression: the path is walked before the whole name is tried.
lookupClaimPathFirst(claims, name) ==
  IF Path(claims, name) # Missing THEN Path(claims, name)
  ELSE IF name \in DOMAIN claims THEN claims[name] ELSE Missing

\* The whole name is a top-level claim, or else a path; no name is no claim.
lookupClaim(claims, name) ==
  IF name = None THEN Missing
  ELSE IF name \in DOMAIN claims THEN claims[name] ELSE Path(claims, name)

claimList(claims, name) ==
  LET value == lookupClaim(claims, name)
  IN IF value.kind = "names" THEN value.names ELSE {}

-----------------------------------------------------------------------------
(* What a provider means by a token, said without the walk.                 *)

Has(value, segment) == value.kind = "object" /\ <<segment>> \in DOMAIN value.members

\* Objects nested along the segments of name hold value, at their end.
Leads(claims, name, value) ==
  \E trail \in [1..Len(name) -> Values] :
    /\ trail[Len(name)] = value
    /\ \A n \in 1..Len(name) :
         LET holder == IF n = 1 THEN Object(claims) ELSE trail[n - 1]
         IN Has(holder, name[n]) /\ trail[n] = holder.members[<<name[n]>>]

\* Only a list of names, in either spelling, grants anything.
Grants(value, names) == names = IF value.kind = "names" THEN value.names ELSE {}

\* The conventions in use: names are granted by the claim that bears the whole
\* name, else at the end of the objects nested along it, else not at all.
Means(claims, name, names) ==
  \/ name # None /\ name \in DOMAIN claims /\ Grants(claims[name], names)
  \/ /\ name # None /\ name \notin DOMAIN claims
     /\ \E value \in Values : Leads(claims, name, value) /\ Grants(value, names)
  \/ /\ name = None \/ (name \notin DOMAIN claims /\ \A value \in Values : ~Leads(claims, name, value))
     /\ names = {}

ASSUME NamesAssumption == {ScopeClaim, RolesClaim} \subseteq Seq(STRING)

ASSUME ValuesAssumption ==
  /\ Missing \notin Values
  /\ \A v \in Values : v.kind = "object" => \A s \in DOMAIN v.members : v.members[s] \in Values

ASSUME IssuedAssumption ==
  \A t \in Issued :
    /\ \A s \in DOMAIN t.claims : t.claims[s] \in Values
    /\ t.scopes \subseteq Scopes /\ Means(t.claims, ScopeClaim, t.scopes)
    /\ t.roles \subseteq Roles /\ Means(t.claims, RolesClaim, t.roles)

-----------------------------------------------------------------------------
CallerInit == Init /\ token = None /\ id = None

Registering == Next /\ UNCHANGED callerVars

\* The end of verifier.Verify, for a token that passed every check; only the
\* guard calls it.
Verify ==
  /\ step = "registered" /\ guarded /\ token = None
  /\ \E t \in Issued :
       /\ token' = t
       /\ id' = [scopes |-> claimList(t.claims, ScopeClaim),
                 roles  |-> claimList(t.claims, RolesClaim)]
  /\ UNCHANGED vars

CallerNext == Registering \/ Verify

CallerSpec == CallerInit /\ [][CallerNext]_<<vars, callerVars>>

-----------------------------------------------------------------------------
(* "One function therefore covers all three conventions in use": from the   *)
(* claim a provider wrote to the handler, a guarded operation serves a      *)
(* caller exactly when every requirement its route combined is met by what  *)
(* the provider meant to grant, whatever else the token carries.            *)
ServedAsGranted ==
  token # None =>
    (Served(id) <=>
       \A n \in DOMAIN rs : Satisfied(rs[n], [scopes |-> token.scopes, roles |-> token.roles]))
=============================================================================
