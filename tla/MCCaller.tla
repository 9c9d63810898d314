------------------------------ MODULE MCCaller ------------------------------
(* Tokens of the three conventions: a roles claim at the top level whose    *)
(* name has a dot in it, one nested in an object, and none of either, each  *)
(* beside whatever else a token could carry at the other place.             *)
EXTENDS Caller, MCAuthx, TLC

MCScopeClaim == <<"scope">>
MCRolesClaim == <<"realm", "roles">>

Leaves(names) == {Granting(set) : set \in SUBSET names} \cup {Other}
Listed(leaf) == IF leaf.kind = "names" THEN leaf.names ELSE {}
Nothing == [n \in {} |-> Other]

Nesting == {Object(Nothing)} \cup {Object(<<"roles">> :> leaf) : leaf \in Leaves(MCRoles)}
Realms == Leaves(MCRoles) \cup Nesting

Namespaced ==
  {[claims |-> (MCRolesClaim :> leaf) @@ (<<"realm">> :> realm), roles |-> Listed(leaf)] :
     leaf \in Leaves(MCRoles), realm \in Realms}
Nested ==
  {[claims |-> <<"realm">> :> Object(<<"roles">> :> leaf), roles |-> Listed(leaf)] :
     leaf \in Leaves(MCRoles)}
Without ==
  {[claims |-> <<"realm">> :> realm, roles |-> {}] : realm \in Leaves(MCRoles) \cup {Object(Nothing)}}
    \cup {[claims |-> Nothing, roles |-> {}]}
    \cup {[claims |-> <<"roles">> :> leaf, roles |-> {}] : leaf \in Leaves(MCRoles)}

Scoped(t) ==
  {[claims |-> (MCScopeClaim :> leaf) @@ t.claims, scopes |-> Listed(leaf),
    roles  |-> t.roles] : leaf \in Leaves(MCScopes)}
    \cup {[claims |-> t.claims, scopes |-> {}, roles |-> t.roles]}

\* Every value under a claim, and every member of one that is an object.
MCValues ==
  Leaves(MCScopes) \cup Leaves(MCRoles) \cup Nesting

MCIssued == UNION {Scoped(t) : t \in Namespaced \cup Nested \cup Without}
=============================================================================
