------------------------------ MODULE MCServe ------------------------------
(***************************************************************************)
(* Two requests on a pool of one connection: one can hold it while the     *)
(* other waits, is turned away or gives up, in any phase of the shutdown.  *)
(***************************************************************************)
EXTENDS Serve

CONSTANTS r1, r2

MCRequests == {r1, r2}
=============================================================================
