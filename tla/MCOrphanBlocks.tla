--------------------------- MODULE MCOrphanBlocks ---------------------------
(* A chain of four blocks and two side branches.                               *)
EXTENDS OrphanBlocks

g == <<0>>
a1 == <<0, 1>>   a2 == <<0, 1, 2>>   a3 == <<0, 1, 2, 3>>   a4 == <<0, 1, 2, 3, 4>>
b2 == <<0, 1, 5>>   b3 == <<0, 1, 5, 6>>   c3 == <<0, 1, 2, 7>>

MCBlock == {g, a1, a2, a3, a4, b2, b3, c3}
MCTrust == [b \in MCBlock |-> Len(b)]

\* Every block from height 2 with a stake of its own, or three blocks sharing one
OwnStake == [b \in MCBlock |-> IF Len(b) <= 2 THEN NULL ELSE b[Len(b)]]
SharedStake == [b \in MCBlock |-> IF b \in {a3, b3, c3} THEN "s" ELSE NULL]

MCCases ==
    {[Stake |-> OwnStake, Malformed |-> {}, Refused |-> {c3}, BadBlock |-> {}, Pending |-> NULL],
     [Stake |-> OwnStake, Malformed |-> {b2}, Refused |-> {}, BadBlock |-> {a2}, Pending |-> NULL],
     [Stake |-> SharedStake, Malformed |-> {b3}, Refused |-> {}, BadBlock |-> {a2}, Pending |-> a3],
     [Stake |-> SharedStake, Malformed |-> {}, Refused |-> {a3}, BadBlock |-> {}, Pending |-> NULL]}
=============================================================================
