---------------------------- MODULE MCProfileApi ----------------------------
(***************************************************************************)
(* Two requests make every pair of calls on one seeded id and on the ids   *)
(* the creates take.                                                       *)
(***************************************************************************)
EXTENDS ProfileApi

CONSTANTS r1, r2, s1

MCRequests == {r1, r2}
MCSeeds == {s1}
=============================================================================
