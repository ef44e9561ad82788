------------------------------- MODULE MCPeers -------------------------------
(* Two openers that compete for the slots, and inbound connections. *)
EXTENDS Peers
=============================================================================
