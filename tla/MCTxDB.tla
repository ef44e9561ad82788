------------------------------- MODULE MCTxDB -------------------------------
(* Two handles, two keys, two values.                                          *)
EXTENDS TxDB
=============================================================================
