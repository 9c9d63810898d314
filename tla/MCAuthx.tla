------------------------------- MODULE MCAuthx -------------------------------
(* Every call of AllOf with at most MaxArguments arguments, each the AnyOf  *)
(* of at most two simple requirements.                                      *)
EXTENDS Authx

CONSTANT MaxArguments

MCScopes == {"read", "write"}
MCRoles == {"admin"}

MCSimple == {Scope(names) : names \in SUBSET MCScopes} \cup {Role(MCRoles), Authenticated}
MCDisjunctions == {AnyOf({a, b}) : a \in MCSimple, b \in MCSimple}
                    \cup {AnyOf({})}
                    \cup {{[scopes |-> {"write"}, roles |-> MCRoles]}}
MCArguments == UNION {[1..n -> MCDisjunctions] : n \in 0..MaxArguments}
=============================================================================
