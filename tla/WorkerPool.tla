----------------------------- MODULE WorkerPool -----------------------------
(***************************************************************************)
(* The background job pool (internal/worker/worker.go) between the Redis   *)
(* sorted set "priority_queue", which the HTTP handlers fill, and the      *)
(* Redis list "priority_queue_dlq", which the dead letter workers drain.   *)
(*                                                                         *)
(*   handlers --ZADD--> pq --pop--> producer --send--> JobChannel          *)
(*                      ^                              |                   *)
(*                      +---- retry ---- workers <-----+                   *)
(*                                         |                               *)
(*                                         +--RPUSH--> dlq                 *)
(*                                                                         *)
(* The pool has one producer goroutine and WorkerNum worker goroutines.    *)
(* A job is its id; what a queue holds is an envelope, the id with the     *)
(* Retry count marshalled into it.  Time is in seconds (time.Now().Unix).  *)
(* Every Redis call of the pool is made with the pool's own context: once  *)
(* it is cancelled, the client refuses the call before sending it.         *)
(***************************************************************************)
EXTENDS Integers, Sequences, Functions

CONSTANTS
    Jobs,            \* the jobs the handlers may create
    Workers,         \* the worker goroutines
    JobType,         \* the Type field of each job
    ChanCap,         \* capacity of JobChannel
    MsgTTL, OtpTTL,              \* ExpireAt - CreatedAt, per kind of producer
    MsgMaxRetry, OtpMaxRetry,    \* MaxRetry, per kind of producer
    BackoffUnit,     \* first retry delay
    PriorityWeight,  \* 1e10 in the score of the sorted set
    MaxTime,         \* bound on the clock
    Faults           \* what may go wrong: see below

OTP       == "create_user_otp"
Message   == "broadcast_private_message"
Reply     == "broadcast_private_message_reply"
Updated   == "broadcast_private_message_updated"
JobTypes  == {OTP, Message, Reply, Updated}

(* "refused": a Redis call fails and has no effect.  "lostReply": it takes  *)
(* effect and the client sees an error.  "crash": the process dies.         *)
FaultKinds == {"refused", "lostReply", "crash"}

Priority(j) == IF JobType[j] \in {OTP, Reply} THEN 1 ELSE 2
MaxRetry(j) == IF JobType[j] = OTP THEN OtpMaxRetry ELSE MsgMaxRetry
TTL(j)      == IF JobType[j] = OTP THEN OtpTTL ELSE MsgTTL

\* Mailing an OTP may fail; a broadcast of a well formed payload never does.
MayFail(j)  == JobType[j] = OTP

Backoff(retry) == BackoffUnit * 2^(retry - 1)

ASSUME JobTypeAssumption   == JobType \in [Jobs -> JobTypes]
ASSUME CapAssumption       == ChanCap \in Nat \ {0}
ASSUME TimeAssumption      == {MsgTTL, OtpTTL, BackoffUnit, MaxTime} \subseteq Nat
ASSUME RetryAssumption     == {MsgMaxRetry, OtpMaxRetry} \subseteq Nat \ {0}
ASSUME FaultsAssumption    == Faults \subseteq FaultKinds
ASSUME BackoffAssumption   ==
    \A j \in Jobs : \A r \in 1..MaxRetry(j) : Backoff(r) \in Nat
(* The time part of a score stays below the weight of a priority.          *)
ASSUME WeightAssumption    ==
    /\ PriorityWeight \in Nat
    /\ \A j \in Jobs :
          /\ MaxTime + TTL(j) < PriorityWeight
          /\ \A r \in 1..MaxRetry(j) : MaxTime + Backoff(r) < PriorityWeight

VARIABLES
    now,         \* the clock
    createdAt,   \* CreatedAt of each job; Never before it is created
    pq,          \* "priority_queue": envelopes with their score
    producer,    \* where the producer goroutine is
    held,        \* the envelope in its local variable, if any
    chan,        \* JobChannel
    chanClosed,
    alive,       \* the workers that have not returned
    hand,        \* the envelope each worker is handling, if any
    dlq,         \* "priority_queue_dlq"
    done,        \* history: jobs whose HandleJob succeeded
    dropped,     \* history: jobs given up with an error in the log
    runs,        \* history: how often HandleJob was started on each job
    trouble,     \* history: the faults that have hit each job
    parentDone,  \* the context main cancels on a signal
    ctxDone      \* the context of the pool

redisVars   == <<pq, dlq>>
procVars    == <<producer, held, chan, chanClosed, alive, hand>>
ctxVars     == <<parentDone, ctxDone>>
historyVars == <<createdAt, done, dropped, runs, trouble>>
vars        == <<now, redisVars, procVars, ctxVars, historyVars>>

Never    == -1
Envelope == [id : Jobs, retry : Nat]
Entry    == [id : Jobs, retry : Nat, score : Nat]

Init ==
    /\ now = 0
    /\ createdAt = [j \in Jobs |-> Never]
    /\ pq = {} /\ dlq = <<>>
    /\ producer = "poll" /\ held = {}
    /\ chan = <<>> /\ chanClosed = FALSE
    /\ alive = Workers /\ hand = [w \in Workers |-> {}]
    /\ done = {} /\ dropped = {} /\ runs = [j \in Jobs |-> 0]
    /\ trouble = [j \in Jobs |-> {}]
    /\ parentDone = FALSE /\ ctxDone = FALSE

-----------------------------------------------------------------------------
(* Where a job is.                                                          *)

Ids(seq)  == {e.id : e \in Range(seq)}
Queued    == {x.id : x \in pq}
Held      == {e.id : e \in held}
Buffered  == Ids(chan)
Handled(w) == {e.id : e \in hand[w]}
Running   == UNION {Handled(w) : w \in Workers}
Live      == Queued \cup Held \cup Buffered \cup Running
Dead      == Ids(dlq)
Created   == {j \in Jobs : createdAt[j] # Never}
Stopped   == producer = "stopped" /\ alive = {}

-----------------------------------------------------------------------------
(* Redis, as the pool sees it.  (A definition that only a mutant of the     *)
(* model uses stands before the definition it would replace: the runs show  *)
(* that the property it is paired with notices the difference.)             *)

Replies(cancelled) ==
    IF cancelled THEN {"refused"} ELSE {"ok"} \cup (Faults \cap {"refused", "lostReply"})
Applied(reply) == reply \in {"ok", "lostReply"}

ScoreUnweighted(j, time) == time
Score(j, time) == Priority(j) * PriorityWeight + time

\* ZADD replaces the score of a member that is already there.
ZAdd(q, e, time) ==
    {x \in q : <<x.id, x.retry>> # <<e.id, e.retry>>}
        \cup {[id |-> e.id, retry |-> e.retry, score |-> Score(e.id, time)]}

\* What the pop script may return: a member with the lowest score, due or not.
Lowest(q) == {x \in q : \A y \in q : x.score <= y.score}
ZRemForgotten(q, x) == q
ZRem(q, x) == q \ {x}

ExpireAt(j)    == createdAt[j] + TTL(j)
ExpiredEarly(j) == now >= ExpireAt(j)
Expired(j)     == now > ExpireAt(j)
IsExhaustedLate(e) == e.retry > MaxRetry(e.id)
IsExhausted(e) == e.retry >= MaxRetry(e.id)
Bump(e)        == [e EXCEPT !.retry = @ + 1]

\* The replies to the calls made for a job are on its record unless all is well.
Note(j, replies) == trouble' = [trouble EXCEPT ![j] = @ \cup (replies \ {"ok"})]

\* moveToDLQ, after a call answered by before: a failed RPUSH is only logged
\* ("job lost!").
MoveToDLQ(e, before) ==
    \E reply \in Replies(ctxDone) :
        /\ dlq' = IF Applied(reply) THEN Append(dlq, e) ELSE dlq
        /\ dropped' = IF Applied(reply) THEN dropped ELSE dropped \cup {e.id}
        /\ Note(e.id, {before, reply})

ScheduleRetryNoReturn(e) ==
    \E reply \in Replies(ctxDone) :
        /\ pq' = IF Applied(reply) THEN ZAdd(pq, e, now + Backoff(e.retry)) ELSE pq
        /\ MoveToDLQ(e, reply)
ScheduleRetryUnchecked(e) ==
    \E reply \in Replies(ctxDone) :
        /\ pq' = IF Applied(reply) THEN ZAdd(pq, e, now + Backoff(e.retry)) ELSE pq
        /\ UNCHANGED <<dlq, dropped>> /\ Note(e.id, {reply})

\* scheduleRetry: an error of the ZADD sends the job to the DLQ.
ScheduleRetry(e) ==
    \E reply \in Replies(ctxDone) :
        /\ pq' = IF Applied(reply) THEN ZAdd(pq, e, now + Backoff(e.retry)) ELSE pq
        /\ IF reply = "ok" THEN UNCHANGED <<dlq, dropped, trouble>> ELSE MoveToDLQ(e, reply)

-----------------------------------------------------------------------------
(* The environment: the clock, the handlers, and main.                      *)

Tick ==
    /\ now < MaxTime
    /\ now' = now + 1
    /\ UNCHANGED <<redisVars, procVars, ctxVars, historyVars>>

(* A handler's goroutine marshals a new job and enqueues it with the signal *)
(* context; an error is only logged.                                        *)
Enqueue(j) ==
    /\ createdAt[j] = Never
    /\ createdAt' = [createdAt EXCEPT ![j] = now]
    /\ \E reply \in Replies(parentDone) :
          /\ pq' = IF Applied(reply)
                     THEN ZAdd(pq, [id |-> j, retry |-> 0], now + TTL(j)) ELSE pq
          /\ dropped' = IF Applied(reply) THEN dropped ELSE dropped \cup {j}
          /\ Note(j, {reply})
    /\ UNCHANGED <<now, dlq, procVars, ctxVars, done, runs>>

\* SIGINT or SIGTERM.
Signal ==
    /\ ~parentDone
    /\ parentDone' = TRUE
    /\ UNCHANGED <<now, redisVars, procVars, ctxDone, historyVars>>

\* main calls Stop after the signal, which cancels the pool's context.
Stop ==
    /\ parentDone /\ ~ctxDone
    /\ ctxDone' = TRUE
    /\ UNCHANGED <<now, redisVars, procVars, parentDone, historyVars>>

(* The process dies, at any step, and a new one starts: what was in memory  *)
(* is gone, what was in Redis stays.                                        *)
Crash ==
    /\ "crash" \in Faults
    /\ producer' = "poll" /\ held' = {}
    /\ chan' = <<>> /\ chanClosed' = FALSE
    /\ alive' = Workers /\ hand' = [w \in Workers |-> {}]
    /\ parentDone' = FALSE /\ ctxDone' = FALSE
    /\ trouble' = [j \in Jobs |-> IF j \in Held \cup Buffered \cup Running
                                   THEN trouble[j] \cup {"crash"} ELSE trouble[j]]
    /\ UNCHANGED <<now, redisVars, createdAt, done, dropped, runs>>

-----------------------------------------------------------------------------
(* The producer goroutine.                                                  *)

\* select: one of the contexts is done; the deferred close runs.
ProducerStop ==
    /\ producer = "poll"
    /\ ctxDone \/ parentDone
    /\ ctxDone' = TRUE
    /\ producer' = "stopped" /\ chanClosed' = TRUE
    /\ UNCHANGED <<now, redisVars, held, chan, alive, hand, parentDone, historyVars>>

(* select: the ticker fires and the queue is not empty.  When the reply is  *)
(* lost the member has left the sorted set and nobody holds it.             *)
ProducerPop ==
    /\ producer = "poll"
    /\ \E reply \in Replies(ctxDone), x \in Lowest(pq) :
          /\ Applied(reply)
          /\ pq' = ZRem(pq, x)
          /\ IF reply = "ok"
               THEN producer' = "check" /\ held' = {[id |-> x.id, retry |-> x.retry]}
               ELSE UNCHANGED <<producer, held>>
          /\ Note(x.id, {reply})
    /\ UNCHANGED <<now, dlq, chan, chanClosed, alive, hand, ctxVars, createdAt, done,
                   dropped, runs>>

ProducerExpire ==
    /\ producer = "check"
    /\ \E e \in held : Expired(e.id) /\ MoveToDLQ(e, "ok")
    /\ producer' = "poll" /\ held' = {}
    /\ UNCHANGED <<now, pq, chan, chanClosed, alive, hand, ctxVars, createdAt, done, runs>>

ProducerAdmit ==
    /\ producer = "check"
    /\ \A e \in held : ~Expired(e.id)
    /\ producer' = "send"
    /\ UNCHANGED <<now, redisVars, held, chan, chanClosed, alive, hand, ctxVars, historyVars>>

ProducerSend ==
    /\ producer = "send"
    /\ Len(chan) < ChanCap
    /\ \E e \in held : chan' = Append(chan, e)
    /\ producer' = "poll" /\ held' = {}
    /\ UNCHANGED <<now, redisVars, chanClosed, alive, hand, ctxVars, historyVars>>

ProducerRequeueMissing == FALSE

(* The other case of the inner select: requeueJob, then return.  Its ZADD   *)
(* uses the context that has just been cancelled.                           *)
ProducerRequeue ==
    /\ producer = "send"
    /\ ctxDone
    /\ \E e \in held, reply \in Replies(ctxDone) :
          /\ pq' = IF Applied(reply) THEN ZAdd(pq, e, createdAt[e.id]) ELSE pq
          /\ dropped' = IF Applied(reply) THEN dropped ELSE dropped \cup {e.id}
          /\ Note(e.id, {reply})
    /\ producer' = "stopped" /\ held' = {} /\ chanClosed' = TRUE
    /\ UNCHANGED <<now, dlq, chan, alive, hand, ctxVars, createdAt, done, runs>>

-----------------------------------------------------------------------------
(* A worker goroutine.                                                      *)

\* select: a payload arrives, and HandleJob starts.
WorkerTake(w) ==
    /\ w \in alive /\ hand[w] = {}
    /\ chan # <<>>
    /\ chan' = Tail(chan)
    /\ hand' = [hand EXCEPT ![w] = {Head(chan)}]
    /\ runs' = [runs EXCEPT ![Head(chan).id] = @ + 1]
    /\ UNCHANGED <<now, redisVars, producer, held, chanClosed, alive, ctxVars,
                   createdAt, done, dropped, trouble>>

\* select: the context is done, or the channel is closed and drained.
WorkerQuit(w) ==
    /\ w \in alive /\ hand[w] = {}
    /\ ctxDone \/ (chanClosed /\ chan = <<>>)
    /\ alive' = alive \ {w}
    /\ UNCHANGED <<now, redisVars, producer, held, chan, chanClosed, hand, ctxVars,
                   historyVars>>

WorkerSucceed(w) ==
    /\ \E e \in hand[w] : done' = done \cup {e.id}
    /\ hand' = [hand EXCEPT ![w] = {}]
    /\ UNCHANGED <<now, redisVars, producer, held, chan, chanClosed, alive, ctxVars,
                   createdAt, dropped, runs, trouble>>

WorkerFailReturns(w) ==
    /\ \E e \in hand[w] :
          /\ MayFail(e.id)
          /\ IF IsExhausted(Bump(e)) \/ Expired(e.id)
               THEN MoveToDLQ(Bump(e), "ok") /\ UNCHANGED pq
               ELSE ScheduleRetry(Bump(e))
    /\ hand' = [hand EXCEPT ![w] = {}]
    /\ alive' = alive \ {w}
    /\ UNCHANGED <<now, producer, held, chan, chanClosed, ctxVars, createdAt, done, runs>>

\* HandleJob returns an error: handlerJobFailure.
WorkerFail(w) ==
    /\ \E e \in hand[w] :
          /\ MayFail(e.id)
          /\ IF IsExhausted(Bump(e)) \/ Expired(e.id)
               THEN MoveToDLQ(Bump(e), "ok") /\ UNCHANGED pq
               ELSE ScheduleRetry(Bump(e))
    /\ hand' = [hand EXCEPT ![w] = {}]
    /\ UNCHANGED <<now, producer, held, chan, chanClosed, alive, ctxVars,
                   createdAt, done, runs>>

-----------------------------------------------------------------------------
Producer ==
    \/ ProducerStop \/ ProducerPop \/ ProducerExpire
    \/ ProducerAdmit \/ ProducerSend \/ ProducerRequeue

Worker(w) == WorkerTake(w) \/ WorkerQuit(w) \/ WorkerSucceed(w) \/ WorkerFail(w)

Next ==
    \/ Tick \/ Signal \/ Stop \/ Crash
    \/ \E j \in Jobs : Enqueue(j)
    \/ Producer
    \/ \E w \in Workers : Worker(w)

Spec == Init /\ [][Next]_vars

(* Goroutines that can run do run, HandleJob returns, and main reaches Stop *)
(* (Shutdown has a timeout).  Nothing makes a handler create a job, a       *)
(* signal arrive or the clock tick.                                         *)
FairSpec ==
    /\ Spec
    /\ WF_vars(Stop) /\ WF_vars(Producer)
    /\ \A w \in Workers : WF_vars(Worker(w))

-----------------------------------------------------------------------------
(* Type invariant.                                                          *)
TypeOK ==
    /\ now \in 0..MaxTime
    /\ createdAt \in [Jobs -> {Never} \cup (0..MaxTime)]
    /\ pq \subseteq Entry
    /\ producer \in {"poll", "check", "send", "stopped"}
    /\ held \subseteq Envelope
    /\ chan \in Seq(Envelope)
    /\ chanClosed \in BOOLEAN
    /\ alive \subseteq Workers
    /\ hand \in [Workers -> SUBSET Envelope]
    /\ dlq \in Seq(Envelope)
    /\ done \subseteq Jobs
    /\ dropped \subseteq Jobs
    /\ runs \in [Jobs -> Nat]
    /\ trouble \in [Jobs -> SUBSET FaultKinds]
    /\ parentDone \in BOOLEAN /\ ctxDone \in BOOLEAN

-----------------------------------------------------------------------------
(* Safety.                                                                  *)

NotTwice(seq) == \A i, k \in DOMAIN seq : seq[i].id = seq[k].id => i = k

\* No place holds two envelopes of a job ...
OneEnvelope ==
    /\ \A x, y \in pq : x.id = y.id => x = y
    /\ \A e, f \in held : e = f
    /\ NotTwice(chan)
    /\ \A v, w \in Workers : \A e \in hand[v], f \in hand[w] :
          e.id = f.id => v = w /\ e = f
\* ... and no two places hold one.
OnePlace ==
    /\ Queued \cap (Held \cup Buffered \cup Running \cup done) = {}
    /\ Held \cap (Buffered \cup Running \cup done) = {}
    /\ Buffered \cap (Running \cup done) = {}
    /\ Running \cap done = {}

(* Whatever fails, at most one slot of the sorted set, the producer, the    *)
(* channel or a worker holds a job, and none does after it has succeeded:   *)
(* the pop is atomic (worker.go:19), a retry is queued only after the run   *)
(* it follows, and no path both passes a job on and keeps it.  TypeOK is    *)
(* checked with it.                                                         *)
OneOwner == OneEnvelope /\ OnePlace
LiveOnce == TypeOK /\ OneOwner

(* The Retry count marshalled into the one live envelope of a job is the    *)
(* number of times the job has been run, also across lost replies and       *)
(* crashes, and it has not reached MaxRetry (worker.go:198-202).            *)
RetryCountsRuns ==
    /\ \A e \in pq \cup held \cup Range(chan) :
          runs[e.id] = e.retry /\ ~IsExhausted(e)
    /\ \A w \in Workers : \A e \in hand[w] : runs[e.id] = e.retry + 1 /\ ~IsExhausted(e)

(* HandleJob is started at most MaxRetry times on a job before the dead     *)
(* letter queue takes it, however its retries, crashes and shutdowns        *)
(* interleave: a user gets at most MaxRetry mails from one job.             *)
RunsBounded == \A j \in Jobs : runs[j] <= MaxRetry(j)

\* A job that was not created is nowhere.
NotYet ==
    \A j \in Jobs : createdAt[j] = Never =>
        /\ runs[j] = 0
        /\ j \notin Queued \cup Held \cup Buffered \cup Running \cup done
\* The producer starts a round of its loop empty-handed.
PollsEmptyHanded == producer = "poll" => held = {}

(* The inductive invariant behind LiveOnce and RunsBounded.                 *)
LiveInv ==
    TypeOK /\ OneOwner /\ RetryCountsRuns /\ RunsBounded /\ NotYet /\ PollsEmptyHanded

(* What the dead letter queue holds was created, and a worker handles one   *)
(* job at a time: with these, every step is one of JobLifecycle.            *)
DeadExist == \A j \in Dead : createdAt[j] # Never
OneInHand == \A w \in Workers : \A e, f \in hand[w] : e = f
LifeInv   == LiveInv /\ DeadExist /\ OneInHand

(* Whatever time a score was computed from, it stays in the band of the     *)
(* priority of its job; with LiveInv, this is inductive.                    *)
InBand(x) ==
    /\ Priority(x.id) * PriorityWeight <= x.score
    /\ x.score < (Priority(x.id) + 1) * PriorityWeight
ScoreInBand == \A x \in pq : InBand(x)

(* Unless a reply about it is lost, a job ends one way only: once it        *)
(* succeeded, was dead lettered or was given up in the log, no queue and no *)
(* goroutine has it, and it is in the dead letter queue at most once        *)
(* (worker.go:223-230: a retry that could not be queued is moved, not both).*)
SettledOnce ==
    \A j \in Jobs : "lostReply" \notin trouble[j] =>
        /\ \A i, k \in DOMAIN dlq : dlq[i].id = j /\ dlq[k].id = j => i = k
        /\ j \notin Dead \cap (done \cup dropped \cup Live)
        /\ j \notin done \cap (dropped \cup Live)
        /\ j \notin dropped \cap Live

(* Every job ever created is still held somewhere, has succeeded, is dead   *)
(* lettered, or its loss is in the log (worker.go:239, 253), however many   *)
(* calls are refused, unless a reply about it was lost or the process died  *)
(* with it in memory.                                                       *)
NoSilentLoss ==
    \A j \in Created : trouble[j] \subseteq {"refused"} =>
        j \in Live \cup Dead \cup done \cup dropped

(* A job no fault has hit is dead lettered only when its time has passed or *)
(* its last allowed run has failed (worker.go:140, 202).                    *)
DeadForCause ==
    \A e \in Range(dlq) : trouble[e.id] = {} =>
        now > createdAt[e.id] + TTL(e.id) \/ e.retry >= MaxRetry(e.id)

(* A pop never overtakes a waiting job of a more urgent priority, whatever  *)
(* expiry, retry or creation time their scores were computed from.          *)
PopPriority ==
    [][\A x \in pq \ pq', y \in pq : Priority(x.id) <= Priority(y.id)]_vars

-----------------------------------------------------------------------------
(* Liveness, under FairSpec.                                                *)

(* Unless a shutdown begins, every job comes to rest: it succeeds, or it is *)
(* dead lettered, or its loss is logged.  No job waits for ever behind the  *)
(* retries of another, and producer and workers never wait on each other.   *)
EventuallySettled ==
    \A j \in Jobs : (j \in Created) ~> (j \in done \cup dropped \cup Dead \/ parentDone)

(* wg.Wait returns (worker.go:283): after a signal the producer leaves the  *)
(* channel send even when it is full, and every worker returns.             *)
ShutdownCompletes == parentDone ~> Stopped

-----------------------------------------------------------------------------
(* What the pool promises about one job: see JobLifecycle.                  *)

Status(j) ==
    IF createdAt[j] = Never          THEN "absent"
    ELSE IF j \in Queued             THEN "queued"
    ELSE IF j \in Held \cup Buffered THEN "claimed"
    ELSE IF j \in Running            THEN "running"
    ELSE IF j \in done               THEN "done"
    ELSE IF j \in Dead               THEN "dead"
    ELSE "lost"

Lifecycle == INSTANCE JobLifecycle
                WITH Limit    <- [j \in Jobs |-> MaxRetry(j)],
                     status   <- [j \in Jobs |-> Status(j)],
                     attempts <- runs

(* The pool implements the lifecycle of a job: it is claimed by one party   *)
(* at a time, run at most MaxRetry times, and its end is final, through     *)
(* retries, expiry, shutdown, refused calls, lost replies and crashes.      *)
ImplementsLifecycle == Lifecycle!Spec

-----------------------------------------------------------------------------
(* A claim of a comment, checked by a run of its own.                       *)

(* "put job back to queue with original priority" (worker.go:244).          *)
RequeueRestores ==
    [][\A e \in held : producer = "send" /\ producer' = "stopped"
           => \E x \in pq' : x.id = e.id /\ x.retry = e.retry]_vars
=============================================================================
