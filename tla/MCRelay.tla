------------------------------- MODULE MCRelay -------------------------------
(* Instance of Relay: c spends a, b spends a and c, d spends a and is
   invalid; the wallet may make a *)
EXTENDS Relay

CONSTANTS a, b, c, d, p, q

Announcing == {<<p, a>>, <<q, a>>}
Sending == {<<p, a>>, <<q, b>>, <<q, c>>, <<q, d>>}
Spends == (a :> {}) @@ (b :> {a, c}) @@ (c :> {a}) @@ (d :> {a})
=============================================================================
