---------------------------- MODULE MCWorkerPool ----------------------------
(* Small instances of WorkerPool for TLC.                                   *)
EXTENDS WorkerPool, TLC

CONSTANTS o1, o2, m1, r1, w1, w2

(* o1, o2 send OTP mails and may fail; m1 and r1 broadcast a message and a  *)
(* reply, with priorities 2 and 1.                                          *)
MCJobs3   == {o1, m1, r1}
MCJobType3 == (o1 :> OTP) @@ (m1 :> Message) @@ (r1 :> Reply)
MCJobs2   == {o1, m1}
MCJobType2 == (o1 :> OTP) @@ (m1 :> Message)
MCJobsOO  == {o1, o2}
MCJobTypeOO == (o1 :> OTP) @@ (o2 :> OTP)

MCWorkers == {w1, w2}
WorkerSymmetry == Permutations(MCWorkers)
=============================================================================
