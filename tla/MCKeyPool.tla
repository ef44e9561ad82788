------------------------------ MODULE MCKeyPool ------------------------------
(* A pool of one and the key that is being handed out. *)
EXTENDS KeyPool
=============================================================================
