------------------------------- MODULE Authx -------------------------------
(***************************************************************************)
(* How a route gets its guard: pkg/authx evaluates the requirement an      *)
(* operation declares, a conjunction of disjunctions, into disjunctive     *)
(* normal form, and api.secured attaches the result to the operation, once *)
(* as the check that is enforced and once as the OpenAPI security field.   *)
(*                                                                         *)
(* A Requirement's lists of names are sets here: satisfied only asks for   *)
(* membership, so order and repetition make no difference, and concat is   *)
(* union.  For the same reason Requirements is a set of alternatives.      *)
(***************************************************************************)
EXTENDS Naturals, Sequences

CONSTANTS
  Scopes,    \* the scope names in use
  Roles,     \* the role names in use
  Arguments  \* the argument lists AllOf is called with

Requirement == [scopes : SUBSET Scopes, roles : SUBSET Roles]
Requirements == SUBSET Requirement

ASSUME ArgumentsAssumption == Arguments \subseteq Seq(Requirements)

\* What the guard can see of a verified caller.
Identity == [scopes : SUBSET Scopes, roles : SUBSET Roles]

VARIABLES
  rs,       \* the arguments of the call of AllOf under way
  enabled,  \* the service was given a guard: cfg.Oidc.Enabled
  step,     \* combining, combined or registered
  i,        \* the arguments already crossed in
  out,      \* AllOf's accumulator, later its result
  guarded,  \* the operation carries the guard's middleware
  security  \* the operation's OpenAPI security field

vars == <<rs, enabled, step, i, out, guarded, security>>

-----------------------------------------------------------------------------
(* Requirements as values *)

Scope(names) == {[scopes |-> names, roles |-> {}]}
Role(names) == {[scopes |-> {}, roles |-> names]}
Authenticated == {[scopes |-> {}, roles |-> {}]}
AnyOf(reqs) == UNION reqs

satisfied(alt, id) == alt.scopes \subseteq id.scopes /\ alt.roles \subseteq id.roles
Satisfied(req, id) == \E alt \in req : satisfied(alt, id)

\* Regression: the two lists of the term are swapped.
concatSwapped(acc, term) == [scopes |-> acc.scopes \cup term.roles,
                             roles  |-> acc.roles \cup term.scopes]

concat(acc, term) == [scopes |-> acc.scopes \cup term.scopes,
                      roles  |-> acc.roles \cup term.roles]

\* Regression: the accumulated roles are overwritten by those of the term.
CrossLosingRoles(acc, req) ==
  {[scopes |-> a.scopes \cup t.scopes, roles |-> t.roles] : a \in acc, t \in req}

\* One pass of AllOf's two inner loops.
Cross(acc, req) == {concat(a, t) : a \in acc, t \in req}

\* Regression: one documented entry that demands every scope of every alternative.
OpenAPIMerged(req) == {UNION {alt.scopes : alt \in req}}

\* The scope lists documented as sufficient; roles cannot be expressed.
OpenAPI(req) == {alt.scopes : alt \in req}

\* A nil security field.
Open == {}

-----------------------------------------------------------------------------
TypeOK ==
  /\ rs \in Arguments
  /\ enabled \in BOOLEAN
  /\ step \in {"combining", "combined", "registered"}
  /\ i \in 0..Len(rs)
  /\ out \in Requirements
  /\ guarded \in BOOLEAN
  /\ security \in SUBSET SUBSET Scopes

Init ==
  /\ rs \in Arguments /\ enabled \in BOOLEAN
  /\ step = "combining"
  /\ i = 0 /\ out = Authenticated
  /\ guarded = FALSE /\ security = Open

\* Regression: an argument nobody can satisfy is skipped.
SkipEmpty ==
  /\ step = "combining" /\ i < Len(rs) /\ rs[i + 1] = {}
  /\ i' = i + 1
  /\ UNCHANGED <<rs, enabled, step, out, guarded, security>>

\* The early return of AllOf: nil, whatever was accumulated.
NothingSatisfies ==
  /\ step = "combining" /\ i < Len(rs) /\ rs[i + 1] = {}
  /\ out' = {} /\ step' = "combined"
  /\ UNCHANGED <<rs, enabled, i, guarded, security>>

CrossNext ==
  /\ step = "combining" /\ i < Len(rs) /\ rs[i + 1] # {}
  /\ out' = Cross(out, rs[i + 1])
  /\ i' = i + 1
  /\ UNCHANGED <<rs, enabled, step, guarded, security>>

AllCrossed ==
  /\ step = "combining" /\ i = Len(rs)
  /\ step' = "combined"
  /\ UNCHANGED <<rs, enabled, i, out, guarded, security>>

\* Regression: an empty requirement is read as "no requirement".
SecuredIfDocumented ==
  /\ step = "combined" /\ step' = "registered"
  /\ IF enabled /\ out # {}
       THEN guarded' = TRUE /\ security' = OpenAPI(out)
       ELSE UNCHANGED <<guarded, security>>
  /\ UNCHANGED <<rs, enabled, i, out>>

\* secured: without a guard the operation is left as it was; an empty
\* requirement is enforced all the same, and documented as "a token is required".
secured ==
  /\ step = "combined" /\ step' = "registered"
  /\ IF enabled
       THEN guarded' = TRUE /\ security' = IF out = {} THEN {{}} ELSE OpenAPI(out)
       ELSE UNCHANGED <<guarded, security>>
  /\ UNCHANGED <<rs, enabled, i, out>>

Registered == step = "registered" /\ UNCHANGED vars

Next == NothingSatisfies \/ CrossNext \/ AllCrossed \/ secured \/ Registered

Spec == Init /\ [][Next]_vars

-----------------------------------------------------------------------------
(* Properties *)

\* The guard's answer once the token verified.
Served(id) == guarded => Satisfied(out, id)

\* What a reader of the document takes to be enough.
DocumentedAsEnough(id) == security = Open \/ \E scopes \in security : scopes \subseteq id.scopes

(* "AllOf is satisfied only when every one of rs is": the normal form built *)
(* by the loop admits exactly the callers every argument admits, an empty   *)
(* argument and the empty list of arguments included.                       *)
AllOfIsConjunction ==
  step # "combining" =>
    \A id \in Identity :
      Satisfied(out, id) <=> \A n \in DOMAIN rs : Satisfied(rs[n], id)

(* "The document can only ever understate what is enforced": whoever the    *)
(* guard serves meets an alternative of the published security field, and   *)
(* the field is absent only from an operation that enforces nothing.        *)
DocumentUnderstates ==
  step = "registered" =>
    /\ (security = Open) <=> ~guarded
    /\ \A id \in Identity : Served(id) => DocumentedAsEnough(id)

(* "An empty requirement does not reopen it": with authentication on, one   *)
(* argument nobody can satisfy refuses everybody.                           *)
UnsatisfiableRefusesAll ==
  step = "registered" /\ enabled /\ (\E n \in DOMAIN rs : rs[n] = {})
    => \A id \in Identity : ~Served(id)
=============================================================================
