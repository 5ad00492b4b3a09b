---------------------------- MODULE JobLifecycle ----------------------------
(***************************************************************************)
(* The life of a background job as its producers and the users see it:     *)
(* what the job pool (WorkerPool) promises, without its queues, goroutines *)
(* and clock.  A job is queued, claimed by one party, run, and then either *)
(* queued again for another attempt or at its end.  The pool claims a job  *)
(* by removing it, so one whose claim is not answered, or that is claimed  *)
(* or running when the process dies, is lost: delivery is at most once per *)
(* attempt.  A job whose retry and whose dead letter both took effect ends *)
(* dead instead of lost.                                                   *)
(***************************************************************************)
EXTENDS Integers

CONSTANTS Jobs, Limit      \* Limit[j]: the attempts job j may have

VARIABLES status, attempts

lifeVars == <<status, attempts>>

Ends     == {"done", "dead", "lost"}
Statuses == {"absent", "queued", "claimed", "running"} \cup Ends

Init ==
    /\ status = [j \in Jobs |-> "absent"]
    /\ attempts = [j \in Jobs |-> 0]

Move(j, from, to) == status[j] = from /\ status' = [status EXCEPT ![j] = to]

Create(j) ==
    /\ Move(j, "absent", "queued") \/ Move(j, "absent", "lost")
    /\ UNCHANGED attempts

\* It is removed and nobody has it.
Lose(j) ==
    /\ Move(j, "queued", "lost") \/ Move(j, "queued", "dead")
    /\ UNCHANGED attempts

Claim(j) == Move(j, "queued", "claimed") /\ UNCHANGED attempts

\* Its time is over, or the claimant gives it up.
GiveUp(j) ==
    /\ Move(j, "claimed", "dead") \/ Move(j, "claimed", "lost")
    /\ UNCHANGED attempts

Start(j) ==
    /\ attempts[j] < Limit[j]
    /\ Move(j, "claimed", "running")
    /\ attempts' = [attempts EXCEPT ![j] = @ + 1]

Succeed(j) == Move(j, "running", "done") /\ UNCHANGED attempts

Retry(j) ==
    /\ attempts[j] < Limit[j]
    /\ Move(j, "running", "queued")
    /\ UNCHANGED attempts

Fail(j) ==
    /\ Move(j, "running", "dead") \/ Move(j, "running", "lost")
    /\ UNCHANGED attempts

\* The process dies: whatever it had claimed is gone.
LoseClaimed ==
    /\ \E deadLettered \in SUBSET Jobs :
          status' = [j \in Jobs |->
              IF status[j] \notin {"claimed", "running"} THEN status[j]
              ELSE IF j \in deadLettered THEN "dead" ELSE "lost"]
    /\ UNCHANGED attempts

Next ==
    \/ \E j \in Jobs : \/ Create(j) \/ Lose(j) \/ Claim(j) \/ GiveUp(j) \/ Start(j)
                       \/ Succeed(j) \/ Retry(j) \/ Fail(j)
    \/ LoseClaimed

Spec == Init /\ [][Next]_lifeVars

(* The end of a job is final and it is never attempted again.               *)
EndsStay ==
    \A j \in Jobs : status[j] \in Ends =>
        status'[j] = status[j] /\ attempts'[j] = attempts[j]
EndIsFinal == [][EndsStay]_lifeVars
=============================================================================
