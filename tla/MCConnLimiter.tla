--------------------------- MODULE MCConnLimiter ---------------------------
(* An instance of ConnLimiter for TLC: two connections from one address and *)
(* one from another.                                                        *)
EXTENDS ConnLimiter, TLC

CONSTANTS c1, c2, c3, home, office

TwoAddresses == c1 :> home @@ c2 :> home @@ c3 :> office
=============================================================================
