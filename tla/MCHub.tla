------------------------------- MODULE MCHub -------------------------------
(* Small instances of Hub for TLC.                                          *)
EXTENDS Hub, TLC

CONSTANTS c1, c2, u1, A, B

TwoClients == {c1, c2}
OneUser    == {u1}
SameUser   == (c1 :> u1) @@ (c2 :> u1)
TwoNamed   == {A, B, Empty}
Alike      == Permutations(TwoClients) \cup Permutations({A, B})
=============================================================================
