-------------------------- MODULE MCSyncCheckpoint --------------------------
(* Two branches; the hardened checkpoint b2 is on the one that ends up heavier. *)
EXTENDS SyncCheckpoint

g == <<0>>
a1 == <<0, 1>>
a2 == <<0, 1, 2>>   a3 == <<0, 1, 2, 3>>   a4 == <<0, 1, 2, 3, 4>>
b2 == <<0, 1, 5>>   b3 == <<0, 1, 5, 6>>   b4 == <<0, 1, 5, 6, 7>>

MCBlock == {g, a1, a2, a3, a4, b2, b3, b4}
MCTrust == [b \in MCBlock |-> IF b = b4 THEN 7 ELSE Len(b)]

MCHardened == {g, b2}
MCSigned == {a1, a3, a4, b3, b4}
\* All blocks connect, or the end of each branch does not, or the hardened checkpoint.
MCBadBlocks == {{}, {a4, b4}, {a4, b2}}
=============================================================================
