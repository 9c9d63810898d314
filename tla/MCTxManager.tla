----------------------------- MODULE MCTxManager -----------------------------
(***************************************************************************)
(* Two calls of Execute on a pool of one connection: whoever holds it can  *)
(* also be the one waiting for it.                                         *)
(***************************************************************************)
EXTENDS TxManager

CONSTANTS t1, t2

MCTxs == {t1, t2}
=============================================================================
