----------------------------- MODULE MCAddrMan ------------------------------
(* Three addresses from two sources, small buckets.                             *)
EXTENDS AddrMan

\* x and y fall into the same bucket whatever their source is.
MCGetNewBucket == [a \in Addr, s \in Source |-> IF a \in {"x", "y"} THEN 1 ELSE s]
MCGetTriedBucket == [a \in Addr |-> 1]
=============================================================================
