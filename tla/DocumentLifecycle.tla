------------------------- MODULE DocumentLifecycle -------------------------
(***************************************************************************)
(* What the retry consumer promises about the documents of "dlq_jobs",     *)
(* without its batches, snapshots and backoffs.  A document that waits is  *)
(* taken, its job is run, and the outcome of the run is recorded: it waits *)
(* again, or is at its end.  One that was taken may stay so for ever,      *)
(* because a write failed or the process died, but it is given up only     *)
(* after all the runs it is due, and a run that succeeded is its last.     *)
(***************************************************************************)
EXTENDS Integers, Sequences

CONSTANT Limit             \* the runs a document is due

VARIABLES status, runs     \* of each document, in the order of creation

docVars == <<status, runs>>

Ends == {"completed", "permanently_failed"}

Init == status = <<>> /\ runs = <<>>

Move(d, from, to) == status[d] = from /\ status' = [status EXCEPT ![d] = to]

File == status' = Append(status, "waiting") /\ runs' = Append(runs, 0)

Take(d) == Move(d, "waiting", "taken") /\ UNCHANGED runs

\* Its payload is no job.
Return(d) == Move(d, "taken", "waiting") /\ UNCHANGED runs

Run(d) ==
    /\ runs[d] < Limit
    /\ Move(d, "taken", "succeeded") \/ Move(d, "taken", "failed")
    /\ runs' = [runs EXCEPT ![d] = @ + 1]

Complete(d) == Move(d, "succeeded", "completed") /\ UNCHANGED runs

Retry(d) == runs[d] < Limit /\ Move(d, "failed", "waiting") /\ UNCHANGED runs

GiveUp(d) == runs[d] = Limit /\ Move(d, "failed", "permanently_failed") /\ UNCHANGED runs

Next ==
    \/ File
    \/ \E d \in DOMAIN status :
          Take(d) \/ Return(d) \/ Run(d) \/ Complete(d) \/ Retry(d) \/ GiveUp(d)

Spec == Init /\ [][Next]_docVars

(* A document is "completed" after a run, and given up after all it is due. *)
EndsAreEarned ==
    \A d \in DOMAIN status :
        /\ status[d] \in {"succeeded", "completed"} => runs[d] > 0
        /\ status[d] = "permanently_failed" => runs[d] = Limit
=============================================================================
