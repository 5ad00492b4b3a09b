----------------------------- MODULE MCAccounts -----------------------------
(* An instance of Accounts for TLC: two registrations that clash in both    *)
(* credentials or in one.                                                   *)
EXTENDS Accounts

CONSTANTS r1, r2, q1, q2

SameName == {[username |-> "ann", email |-> e] : e \in {"a", "b"}}
=============================================================================
