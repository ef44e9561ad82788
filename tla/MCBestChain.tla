---------------------------- MODULE MCBestChain -----------------------------
(* A tree with three branches of close trust. *)
EXTENDS BestChain, TLC

g == <<0>>
a1 == <<0, 1>>          a2 == <<0, 1, 2>>
b1 == <<0, 3>>          b2 == <<0, 3, 4>>       b3 == <<0, 3, 4, 5>>
b4 == <<0, 3, 4, 5, 6>>
c2 == <<0, 1, 7>>       c3 == <<0, 1, 7, 8>>

MCBlock == {g, a1, a2, b1, b2, b3, b4, c2, c3}
MCTrust ==
    (g :> 1) @@ (a1 :> 3) @@ (a2 :> 6) @@ (c2 :> 5) @@ (c3 :> 8)
    @@ (b1 :> 2) @@ (b2 :> 4) @@ (b3 :> 7) @@ (b4 :> 9)

\* A block in the middle of one branch and one at the end of another do not connect.
MCValidBlock == MCBlock \ {b3, c3}
=============================================================================
