---------------------------- MODULE MCDeadLetter ----------------------------
(* Small instances of DeadLetter for TLC.                                   *)
EXTENDS DeadLetter

CONSTANTS j1, j2

OneJob    == {j1}
TwoJobs   == {j1, j2}
OnlyJ2    == {j2}
NoJob     == {}
Doubling  == [n \in 1..MaxRetryCount |-> 2 ^ n]
=============================================================================
