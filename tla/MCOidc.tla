------------------------------- MODULE MCOidc -------------------------------
(***************************************************************************)
(* Two callers and two keys, of which the provider starts with the first.  *)
(* One caller holds a good token signed by the second key; the other one   *)
(* whose type, signature or claims do not hold, by the first.              *)
(***************************************************************************)
EXTENDS Oidc

CONSTANTS c1, c2, k1, k2

MCTokens == [key : {k1, k2}, flaw : Flaws]

MCHoldings ==
  {[c \in {c1, c2} |->
      IF c = c1 THEN [key |-> k2, flaw |-> "none"] ELSE [key |-> k1, flaw |-> flaw]] :
   flaw \in {"untyped", "forged", "invalid"}}
=============================================================================
