---------------------------- MODULE MCSendQueue -----------------------------
(* Two threads, a socket that is smaller than two messages.                    *)
EXTENDS SendQueue
=============================================================================
