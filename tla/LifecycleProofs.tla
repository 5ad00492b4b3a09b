-------------------------- MODULE LifecycleProofs ---------------------------
(* The job pool implements JobLifecycle: every step of WorkerPool is a step *)
(* of the life of one job, the death of the process, or no step at all.     *)
EXTENDS WorkerPoolProofs

(***************************************************************************)
(* What changes the status of a job.                                       *)
(***************************************************************************)

(* A job keeps its status when no place gains or loses it.                  *)
LEMMA SameStatus ==
    ASSUME NEW j,
           createdAt'[j] = createdAt[j],
           j \in Queued' <=> j \in Queued,
           j \in (Held \cup Buffered)' <=> j \in Held \cup Buffered,
           j \in Running' <=> j \in Running,
           j \in done' <=> j \in done,
           j \in Dead' <=> j \in Dead
    PROVE  Status(j)' = Status(j)
BY DEF Status

(* One place holds a live job, so its status names that place.              *)
LEMMA StatusOfPlace ==
    ASSUME LiveInv, DeadExist, NEW j \in Jobs
    PROVE  /\ createdAt[j] = Never <=> Status(j) = "absent"
           /\ j \in Queued <=> Status(j) = "queued"
           /\ j \in Held \cup Buffered <=> Status(j) = "claimed"
           /\ j \in Running <=> Status(j) = "running"
           /\ j \in done <=> Status(j) = "done"
           /\ Status(j) = "dead" <=>
                /\ j \in Dead
                /\ j \notin Queued \cup Held \cup Buffered \cup Running \cup done
<1>1. createdAt[j] = Never =>
        j \notin Queued \cup Held \cup Buffered \cup Running \cup done \cup Dead
  BY DEF LiveInv, NotYet, DeadExist
<1>2. OnePlace
  BY DEF LiveInv, OneOwner
<1>3. QED
  BY <1>1, <1>2 DEF Status, OnePlace

(* A step that moves one job and leaves the others is a move of its life.   *)
LEMMA OneMoves ==
    ASSUME NEW j \in Jobs, NEW from, NEW to, Status(j) = from, Status(j)' = to,
           \A k \in Jobs \ {j} : Status(k)' = Status(k)
    PROVE  Lifecycle!Move(j, from, to)
BY DEF Lifecycle!Move

LEMMA NoneMoves ==
    ASSUME \A k \in Jobs : Status(k)' = Status(k), runs' = runs
    PROVE  UNCHANGED Lifecycle!lifeVars
BY DEF Lifecycle!lifeVars

(* A dead letter is written about one job.                                  *)
LEMMA DeadGains ==
    ASSUME TypeOK, NEW e \in Envelope, NEW before, MoveToDLQ(e, before)
    PROVE  Dead' = Dead \/ Dead' = Dead \cup {e.id}
BY AppendIds DEF MoveToDLQ, TypeOK, Dead

(***************************************************************************)
(* The invariant.                                                          *)
(***************************************************************************)

(* A dead letter is written by the producer about the job it holds or by a  *)
(* worker about the job it has run.                                         *)
LEMMA DeadSteps ==
    ASSUME LifeInv, [Next]_vars
    PROVE  \/ Dead' = Dead
           \/ \E e \in held \cup UNION {hand[w] : w \in Workers} : Dead' = Dead \cup {e.id}
<1> USE DEF LifeInv, LiveInv, redisVars, procVars, ctxVars, historyVars
<1>1. CASE ProducerExpire
  <2>1. PICK e \in held : MoveToDLQ(e, "ok")
    BY <1>1 DEF ProducerExpire
  <2>2. QED
    BY <2>1, DeadGains DEF TypeOK
<1>2. ASSUME NEW w \in Workers, WorkerFail(w)
      PROVE  \/ Dead' = Dead
             \/ \E e \in hand[w] : Dead' = Dead \cup {e.id}
  <2>1. PICK e \in hand[w] :
             IF IsExhausted(Bump(e)) \/ Expired(e.id)
               THEN MoveToDLQ(Bump(e), "ok") /\ UNCHANGED pq
               ELSE ScheduleRetry(Bump(e))
    BY <1>2 DEF WorkerFail
  <2>2. Bump(e) \in Envelope /\ Bump(e).id = e.id
    BY BumpType DEF TypeOK
  <2>3. dlq' = dlq \/ \E before : MoveToDLQ(Bump(e), before)
    BY <2>1 DEF ScheduleRetry
  <2>4. QED
    BY <2>2, <2>3, DeadGains DEF Dead
<1>3. CASE \/ Tick \/ Signal \/ Stop \/ Crash \/ ProducerStop \/ ProducerPop
           \/ ProducerAdmit \/ ProducerSend \/ ProducerRequeue \/ UNCHANGED vars
  BY <1>3 DEF Tick, Signal, Stop, Crash, ProducerStop, ProducerPop, ProducerAdmit,
              ProducerSend, ProducerRequeue, vars, Dead
<1>4. ASSUME NEW w \in Workers, WorkerTake(w) \/ WorkerQuit(w) \/ WorkerSucceed(w)
      PROVE  Dead' = Dead
  BY <1>4 DEF WorkerTake, WorkerQuit, WorkerSucceed, Dead
<1>5. ASSUME NEW j \in Jobs, Enqueue(j) PROVE Dead' = Dead
  BY <1>5 DEF Enqueue, Dead
<1>6. QED
  BY <1>1, <1>2, <1>3, <1>4, <1>5 DEF Next, Producer, Worker

(* Only the creation of a job sets its creation time.                       *)
LEMMA CreatedSteps ==
    ASSUME TypeOK, [Next]_vars
    PROVE  \/ createdAt' = createdAt
           \/ \E j \in Jobs : createdAt' = [createdAt EXCEPT ![j] = now]
<1> USE DEF redisVars, procVars, ctxVars, historyVars
<1>1. CASE \/ Tick \/ Signal \/ Stop \/ Crash \/ Producer \/ UNCHANGED vars
  BY <1>1 DEF Tick, Signal, Stop, Crash, Producer, ProducerStop, ProducerPop,
              ProducerExpire, ProducerAdmit, ProducerSend, ProducerRequeue, vars
<1>2. ASSUME NEW w \in Workers, Worker(w) PROVE createdAt' = createdAt
  BY <1>2 DEF Worker, WorkerTake, WorkerQuit, WorkerSucceed, WorkerFail
<1>3. ASSUME NEW j \in Jobs, Enqueue(j)
      PROVE  createdAt' = [createdAt EXCEPT ![j] = now]
  BY <1>3 DEF Enqueue
<1>4. QED
  BY <1>1, <1>2, <1>3 DEF Next

(* A worker gets one envelope and gives away what it has.                   *)
LEMMA HandSteps ==
    ASSUME TypeOK, OneInHand, [Next]_vars
    PROVE  OneInHand'
<1> USE DEF redisVars, procVars, ctxVars, historyVars, OneInHand, TypeOK
<1>1. CASE \/ Tick \/ Signal \/ Stop \/ Crash \/ Producer \/ UNCHANGED vars
  BY <1>1 DEF Tick, Signal, Stop, Crash, Producer, ProducerStop, ProducerPop,
              ProducerExpire, ProducerAdmit, ProducerSend, ProducerRequeue, vars
<1>2. ASSUME NEW w \in Workers, Worker(w) PROVE OneInHand'
  BY <1>2 DEF Worker, WorkerTake, WorkerQuit, WorkerSucceed, WorkerFail
<1>3. ASSUME NEW j \in Jobs, Enqueue(j) PROVE OneInHand'
  BY <1>3 DEF Enqueue
<1>4. QED
  BY <1>1, <1>2, <1>3 DEF Next

LEMMA InitLifeInv == Init => LifeInv
<1> SUFFICES ASSUME Init PROVE LifeInv
  OBVIOUS
<1>1. LiveInv
  BY InitLive
<1>2. DeadExist /\ OneInHand
  BY DEF Init, DeadExist, OneInHand, Dead, Ids, Range
<1>3. QED
  BY <1>1, <1>2 DEF LifeInv

LEMMA NextLifeInv == LifeInv /\ [Next]_vars => LifeInv'
<1> SUFFICES ASSUME LifeInv, [Next]_vars PROVE LifeInv'
  OBVIOUS
<1>1. LiveInv'
  BY NextLive DEF LifeInv
<1>2. OneInHand'
  BY HandSteps DEF LifeInv, LiveInv
<1>3. \A j \in Dead' : createdAt[j] # Never
  <2>1. \A e \in held \cup UNION {hand[w] : w \in Workers} : createdAt[e.id] # Never
    BY DEF LifeInv, LiveInv, NotYet, TypeOK, Envelope, Held, Running, Handled
  <2>2. QED
    BY <2>1, DeadSteps DEF LifeInv, DeadExist
<1>4. \A j \in Jobs : createdAt[j] # Never => createdAt'[j] # Never
  <2>1. now # Never
    BY TimeAssumption DEF LifeInv, LiveInv, TypeOK, Never
  <2>2. QED
    BY <2>1, CreatedSteps DEF LifeInv, LiveInv, TypeOK
<1>5. DeadExist'
  <2>1. Range(dlq') \subseteq Envelope
    BY <1>1, RangeType DEF LiveInv, TypeOK
  <2>2. Dead' \subseteq Jobs
    BY <2>1 DEF Dead, Ids, Envelope
  <2>3. QED
    BY <1>3, <1>4, <2>2 DEF DeadExist
<1>6. QED
  BY <1>1, <1>2, <1>5 DEF LifeInv

(***************************************************************************)
(* The steps.                                                              *)
(***************************************************************************)

LEMMA EnqueueMoves ==
    ASSUME LifeInv, NEW j \in Jobs, Enqueue(j)
    PROVE  Lifecycle!Create(j)
<1> USE DEF LifeInv, LiveInv
<1>1. /\ UNCHANGED <<held, chan, hand, dlq, done, runs>>
      /\ Held' = Held /\ Buffered' = Buffered /\ Running' = Running /\ Dead' = Dead
  BY DEF Enqueue, procVars, Held, Buffered, Running, Handled, Dead
<1>2. Status(j) = "absent" /\ Status(j)' \in {"queued", "lost"}
  <2>1. j \notin Held \cup Buffered \cup Running \cup done \cup Dead
    BY DEF Enqueue, NotYet, DeadExist
  <2>2. createdAt[j] = Never /\ createdAt'[j] # Never
    BY TimeAssumption DEF Enqueue, TypeOK, Never
  <2>3. QED
    BY <1>1, <2>1, <2>2 DEF Status
<1>3. \A k \in Jobs \ {j} : Status(k)' = Status(k)
  <2>1. \A k \in Jobs \ {j} : createdAt'[k] = createdAt[k]
    BY DEF Enqueue, TypeOK
  <2>2. \A k \in Jobs \ {j} : k \in Queued' <=> k \in Queued
    BY DEF Enqueue, ZAdd, Queued
  <2>3. QED
    BY <1>1, <2>1, <2>2, SameStatus
<1>4. QED
  BY <1>1, <1>2, <1>3, OneMoves DEF Lifecycle!Create

LEMMA PopMoves ==
    ASSUME LifeInv, ProducerPop
    PROVE  \E j \in Jobs : Lifecycle!Claim(j) \/ Lifecycle!Lose(j)
<1> USE DEF LifeInv, LiveInv
<1>1. PICK x \in pq, reply \in Replies(ctxDone) :
           /\ pq' = pq \ {x}
           /\ \/ held' = {[id |-> x.id, retry |-> x.retry]}
              \/ UNCHANGED held
  BY DEF ProducerPop, Lowest, ZRem
<1>2. /\ UNCHANGED <<createdAt, chan, hand, dlq, done, runs>> /\ held = {}
      /\ Buffered' = Buffered /\ Running' = Running /\ Dead' = Dead
  BY DEF ProducerPop, PollsEmptyHanded, Buffered, Running, Handled, Dead
<1>3. x.id \in Jobs /\ x.id \in Queued
  BY DEF TypeOK, Entry, Queued
<1>4. Queued' = Queued \ {x.id}
  <2>1. \A y \in pq \ {x} : y.id # x.id
    BY DEF OneOwner, OneEnvelope
  <2>2. QED
    BY <1>1, <2>1 DEF Queued
<1>5. Held = {} /\ (Held' = {} \/ Held' = {x.id})
  BY <1>1, <1>2 DEF Held
<1>6. Status(x.id) = "queued" /\ Status(x.id)' \in {"claimed", "lost", "dead"}
  <2>1. createdAt[x.id] # Never
    BY <1>3 DEF NotYet
  <2>2. x.id \notin Buffered \cup Running \cup done
    BY <1>3 DEF OneOwner, OnePlace
  <2>3. QED
    BY <1>2, <1>3, <1>4, <2>1, <2>2 DEF Status
<1>7. \A k \in Jobs \ {x.id} : Status(k)' = Status(k)
  BY <1>2, <1>4, <1>5, SameStatus
<1>8. QED
  BY <1>2, <1>3, <1>6, <1>7, OneMoves DEF Lifecycle!Claim, Lifecycle!Lose

(* The producer gives up the job it holds: it has expired, or a shutdown    *)
(* found it in the producer's hands.                                        *)
LEMMA HeldMoves ==
    ASSUME LifeInv, held' = {}, NEW e \in held, Dead' = Dead \/ Dead' = Dead \cup {e.id},
           UNCHANGED <<createdAt, pq, chan, hand, done, runs>>
    PROVE  Lifecycle!GiveUp(e.id) /\ e.id \in Jobs
<1> USE DEF LifeInv, LiveInv
<1>1. e.id \in Jobs /\ Held = {e.id} /\ Held' = {}
  BY DEF TypeOK, Envelope, Held, OneOwner, OneEnvelope
<1>2. Queued' = Queued /\ Buffered' = Buffered /\ Running' = Running
  BY DEF Queued, Buffered, Running, Handled
<1>3. Status(e.id) = "claimed" /\ Status(e.id)' \in {"lost", "dead"}
  <2>1. createdAt[e.id] # Never
    BY <1>1 DEF NotYet
  <2>2. e.id \notin Queued \cup Buffered \cup Running \cup done
    BY <1>1 DEF OneOwner, OnePlace
  <2>3. QED
    BY <1>1, <1>2, <2>1, <2>2 DEF Status
<1>4. \A k \in Jobs \ {e.id} : Status(k)' = Status(k)
  BY <1>1, <1>2, SameStatus
<1>5. QED
  BY <1>1, <1>3, <1>4, OneMoves DEF Lifecycle!GiveUp

(* A send leaves the job claimed: it is in the channel instead of the       *)
(* producer's variable.                                                     *)
LEMMA SendStays ==
    ASSUME LifeInv, ProducerSend
    PROVE  UNCHANGED Lifecycle!lifeVars
<1> USE DEF LifeInv, LiveInv
<1>1. PICK e \in held : chan' = Append(chan, e)
  BY DEF ProducerSend
<1>2. held' = {} /\ UNCHANGED <<createdAt, pq, hand, dlq, done, runs>>
      /\ Queued' = Queued /\ Running' = Running /\ Dead' = Dead
  BY DEF ProducerSend, redisVars, historyVars, Queued, Running, Handled, Dead
<1>3. Held = {e.id} /\ Held' = {}
  BY <1>2 DEF Held, OneOwner, OneEnvelope
<1>4. Buffered' = Buffered \cup {e.id}
  BY <1>1, AppendIds DEF TypeOK, Buffered
<1>5. QED
  BY <1>2, <1>3, <1>4, SameStatus, NoneMoves

LEMMA TakeMoves ==
    ASSUME LifeInv, NEW w \in Workers, WorkerTake(w)
    PROVE  \E j \in Jobs : Lifecycle!Start(j)
<1> USE DEF LifeInv, LiveInv
<1>0. chan # <<>> /\ chan \in Seq(Envelope)
  BY DEF WorkerTake, TypeOK
<1>1. PICK e \in Envelope : e = Head(chan) /\ e \in Range(chan) /\ e.id \in Jobs
  <2>1. Head(chan) \in Envelope /\ Head(chan) \in Range(chan)
    BY <1>0, TailRange
  <2>2. QED
    BY <2>1 DEF Envelope
<1>2. /\ UNCHANGED <<createdAt, pq, held, dlq, done>>
      /\ hand[w] = {} /\ chan' = Tail(chan)
      /\ hand' = [hand EXCEPT ![w] = {e}] /\ runs' = [runs EXCEPT ![e.id] = @ + 1]
      /\ Queued' = Queued /\ Held' = Held /\ Dead' = Dead
  BY <1>1 DEF WorkerTake, redisVars, Queued, Held, Dead
<1>3. Buffered = Buffered' \cup {e.id} /\ e.id \notin Buffered'
  BY <1>0, <1>1, <1>2, TailIds, TailNotTwice DEF Buffered, OneOwner, OneEnvelope
<1>4. Running' = Running \cup {e.id}
  BY <1>2 DEF Running, Handled, TypeOK
<1>5. e.id \notin Queued \cup Held \cup Running \cup done
  BY <1>3 DEF OneOwner, OnePlace
<1>6. runs[e.id] < MaxRetry(e.id)
  BY <1>1, JobConstants DEF RetryCountsRuns, IsExhausted, Envelope
<1>7. Status(e.id) = "claimed" /\ Status(e.id)' = "running"
  <2>1. createdAt[e.id] # Never
    BY <1>1, <1>3 DEF NotYet
  <2>2. QED
    BY <1>2, <1>3, <1>4, <1>5, <2>1 DEF Status
<1>8. \A k \in Jobs \ {e.id} : Status(k)' = Status(k)
  BY <1>2, <1>3, <1>4, SameStatus
<1>9. Lifecycle!Move(e.id, "claimed", "running")
  BY <1>1, <1>7, <1>8, OneMoves
<1>10. QED
  BY <1>1, <1>2, <1>6, <1>9 DEF Lifecycle!Start

(* A worker ends its run of a job; where the job goes from there is left to *)
(* the lemmas below.                                                        *)
LEMMA HandEmptied ==
    ASSUME LifeInv, NEW w \in Workers, NEW e \in hand[w],
           hand' = [hand EXCEPT ![w] = {}], UNCHANGED <<createdAt, held, chan>>
    PROVE  /\ e.id \in Jobs /\ createdAt[e.id] # Never /\ createdAt'[e.id] # Never
           /\ e.id \in Running /\ Running' = Running \ {e.id}
           /\ e.id \notin Queued \cup Held \cup Buffered \cup done
           /\ Held' = Held /\ Buffered' = Buffered
<1> USE DEF LifeInv, LiveInv
<1>1. e.id \in Jobs /\ e.id \in Running
  BY DEF TypeOK, Envelope, Running, Handled
<1>2. /\ e.id \notin Queued \cup Held \cup Buffered \cup done
      /\ createdAt[e.id] # Never
  BY <1>1 DEF OneOwner, OnePlace, NotYet
<1>3. hand'[w] = {} /\ \A v \in Workers \ {w} : hand'[v] = hand[v]
  BY DEF TypeOK
<1>4. \A v \in Workers \ {w} : \A f \in hand[v] : f.id # e.id
  BY DEF OneOwner, OneEnvelope
<1>5. \A f \in hand[w] : f = e
  BY DEF OneInHand
<1>6. Running' = Running \ {e.id}
  BY <1>3, <1>4, <1>5 DEF Running, Handled
<1>7. QED
  BY <1>1, <1>2, <1>6 DEF Held, Buffered

LEMMA SucceedMoves ==
    ASSUME LifeInv, NEW w \in Workers, WorkerSucceed(w)
    PROVE  \E j \in Jobs : Lifecycle!Succeed(j)
<1>1. PICK e \in hand[w] : done' = done \cup {e.id}
  BY DEF WorkerSucceed
<1>2. /\ UNCHANGED <<createdAt, pq, held, chan, dlq, runs>>
      /\ hand' = [hand EXCEPT ![w] = {}]
      /\ Queued' = Queued /\ Dead' = Dead
  BY DEF WorkerSucceed, redisVars, Queued, Dead
<1>3. /\ e.id \in Jobs /\ createdAt[e.id] # Never
      /\ e.id \in Running /\ Running' = Running \ {e.id}
      /\ e.id \notin Queued \cup Held \cup Buffered \cup done
      /\ Held' = Held /\ Buffered' = Buffered
  BY <1>2, HandEmptied
<1>4. Status(e.id) = "running" /\ Status(e.id)' = "done"
  BY <1>1, <1>2, <1>3 DEF Status
<1>5. \A k \in Jobs \ {e.id} : Status(k)' = Status(k)
  BY <1>1, <1>2, <1>3, SameStatus
<1>6. QED
  BY <1>2, <1>3, <1>4, <1>5, OneMoves DEF Lifecycle!Succeed

LEMMA FailMoves ==
    ASSUME LifeInv, NEW w \in Workers, WorkerFail(w)
    PROVE  \E j \in Jobs : Lifecycle!Retry(j) \/ Lifecycle!Fail(j)
<1> USE DEF LifeInv, LiveInv
<1>1. PICK e \in hand[w] :
           IF IsExhausted(Bump(e)) \/ Expired(e.id)
             THEN MoveToDLQ(Bump(e), "ok") /\ UNCHANGED pq
             ELSE ScheduleRetry(Bump(e))
  BY DEF WorkerFail
<1>2. UNCHANGED <<createdAt, held, chan, done, runs>> /\ hand' = [hand EXCEPT ![w] = {}]
  BY DEF WorkerFail
<1>3. /\ e.id \in Jobs /\ createdAt[e.id] # Never
      /\ e.id \in Running /\ Running' = Running \ {e.id}
      /\ e.id \notin Queued \cup Held \cup Buffered \cup done
      /\ Held' = Held /\ Buffered' = Buffered
  BY <1>2, HandEmptied
<1>4. e \in Envelope /\ Bump(e) \in Envelope /\ Bump(e).id = e.id
      /\ Bump(e).retry = e.retry + 1
  BY BumpType DEF TypeOK
<1>5. Dead' = Dead \/ Dead' = Dead \cup {e.id}
  <2>1. dlq' = dlq \/ \E before : MoveToDLQ(Bump(e), before)
    BY <1>1 DEF ScheduleRetry
  <2>2. QED
    BY <1>4, <2>1, DeadGains DEF Dead
<1>6. CASE pq' = pq
  <2>1. Queued' = Queued
    BY <1>6 DEF Queued
  <2>2. Status(e.id) = "running" /\ Status(e.id)' \in {"lost", "dead"}
    BY <1>2, <1>3, <2>1 DEF Status
  <2>3. \A k \in Jobs \ {e.id} : Status(k)' = Status(k)
    BY <1>2, <1>3, <1>5, <2>1, SameStatus
  <2>4. QED
    BY <1>2, <1>3, <2>2, <2>3, OneMoves DEF Lifecycle!Fail
<1>7. CASE pq' # pq
  <2>1. /\ ~IsExhausted(Bump(e))
        /\ pq' = ZAdd(pq, Bump(e), now + Backoff(Bump(e).retry))
    BY <1>1, <1>7 DEF ScheduleRetry
  <2>2. \A x \in pq : x.id # Bump(e).id
    BY <1>3, <1>4 DEF Queued
  <2>3. Queued' = Queued \cup {e.id}
    <3>1. PICK x : x.id = e.id /\ pq' = pq \cup {x}
      BY <1>4, <2>1, <2>2 DEF ZAdd
    <3>2. QED
      BY <3>1 DEF Queued
  <2>4. Status(e.id) = "running" /\ Status(e.id)' = "queued"
    BY <1>2, <1>3, <2>3 DEF Status
  <2>5. \A k \in Jobs \ {e.id} : Status(k)' = Status(k)
    BY <1>2, <1>3, <1>5, <2>3, SameStatus
  <2>6. Lifecycle!Move(e.id, "running", "queued")
    BY <1>3, <2>4, <2>5, OneMoves
  <2>7. runs[e.id] < MaxRetry(e.id)
    <3>1. runs[e.id] = e.retry + 1
      BY DEF RetryCountsRuns
    <3>2. QED
      BY <1>3, <1>4, <2>1, <3>1, JobConstants DEF IsExhausted, Envelope
  <2>8. QED
    BY <1>2, <1>3, <2>6, <2>7 DEF Lifecycle!Retry
<1>8. QED
  BY <1>6, <1>7

(* When the process dies, what it had claimed is lost, or dead if its dead  *)
(* letter had been written all the same.                                    *)
LEMMA CrashMoves ==
    ASSUME LifeInv, Crash
    PROVE  Lifecycle!LoseClaimed
<1> USE DEF LifeInv, LiveInv
<1>1. UNCHANGED <<createdAt, pq, dlq, done, runs>> /\ Queued' = Queued /\ Dead' = Dead
  BY DEF Crash, redisVars, Queued, Dead
<1>2. Held' = {} /\ Buffered' = {} /\ Running' = {}
  BY DEF Crash, Held, Buffered, Ids, Range, Running, Handled
<1>3. ASSUME NEW j \in Jobs
      PROVE  Status(j)' = IF Status(j) \notin {"claimed", "running"} THEN Status(j)
                          ELSE IF j \in Dead THEN "dead" ELSE "lost"
  <2>1. CASE j \in Held \cup Buffered \cup Running
    <3>1. createdAt[j] # Never /\ j \notin Queued \cup done
      BY <2>1 DEF NotYet, OneOwner, OnePlace
    <3>2. QED
      BY <1>1, <1>2, <2>1, <3>1 DEF Status
  <2>2. CASE j \notin Held \cup Buffered \cup Running
    <3>1. Status(j)' = Status(j) /\ Status(j) \notin {"claimed", "running"}
      BY <1>1, <1>2, <2>2 DEF Status
    <3>2. QED
      BY <3>1
  <2>3. QED
    BY <2>1, <2>2
<1>4. Dead \cap Jobs \in SUBSET Jobs
  OBVIOUS
<1>5. QED
  BY <1>1, <1>3, <1>4 DEF Lifecycle!LoseClaimed

LEMMA InitMaps == Init => Lifecycle!Init
BY DEF Init, Lifecycle!Init, Status

LEMMA NextMaps == LifeInv /\ [Next]_vars => [Lifecycle!Next]_Lifecycle!lifeVars
<1> SUFFICES ASSUME LifeInv, [Next]_vars PROVE [Lifecycle!Next]_Lifecycle!lifeVars
  OBVIOUS
<1> USE DEF Lifecycle!Next, redisVars, procVars, ctxVars, historyVars
<1>1. CASE \/ Tick \/ Signal \/ Stop \/ ProducerStop \/ ProducerAdmit
           \/ \E w \in Workers : WorkerQuit(w)
           \/ UNCHANGED vars
  <2>1. UNCHANGED <<createdAt, pq, held, chan, hand, done, dlq, runs>>
    BY <1>1 DEF Tick, Signal, Stop, ProducerStop, ProducerAdmit, WorkerQuit, vars
  <2>2. \A k \in Jobs : Status(k)' = Status(k)
    BY <2>1 DEF Status, Queued, Held, Buffered, Running, Handled, Dead
  <2>3. QED
    BY <2>1, <2>2, NoneMoves
<1>2. CASE Crash
  BY <1>2, CrashMoves
<1>3. ASSUME NEW j \in Jobs, Enqueue(j) PROVE Lifecycle!Next
  BY <1>3, EnqueueMoves
<1>4. CASE ProducerPop
  BY <1>4, PopMoves
<1>5. CASE ProducerExpire
  <2>1. PICK e \in held : MoveToDLQ(e, "ok")
    BY <1>5 DEF ProducerExpire
  <2>2. Dead' = Dead \/ Dead' = Dead \cup {e.id}
    BY <2>1, DeadGains DEF LifeInv, LiveInv, TypeOK
  <2>3. QED
    BY <1>5, <2>2, HeldMoves DEF ProducerExpire
<1>6. CASE ProducerSend
  BY <1>6, SendStays
<1>7. CASE ProducerRequeue
  <2>1. /\ held # {} /\ held' = {} /\ Dead' = Dead
        /\ UNCHANGED <<createdAt, pq, chan, hand, done, runs>>
    BY <1>7 DEF ProducerRequeue, Replies, Applied, Dead
  <2>2. QED
    BY <2>1, HeldMoves
<1>8. ASSUME NEW w \in Workers, WorkerTake(w) PROVE Lifecycle!Next
  BY <1>8, TakeMoves
<1>9. ASSUME NEW w \in Workers, WorkerSucceed(w) PROVE Lifecycle!Next
  BY <1>9, SucceedMoves
<1>10. ASSUME NEW w \in Workers, WorkerFail(w) PROVE Lifecycle!Next
  BY <1>10, FailMoves
<1>11. QED
  BY <1>1, <1>2, <1>3, <1>4, <1>5, <1>6, <1>7, <1>8, <1>9, <1>10
     DEF Next, Producer, Worker

LEMMA LifeInvariant == Spec => []LifeInv
<1>1. QED
  BY InitLifeInv, NextLifeInv, PTL DEF Spec

(* The job pool is a JobLifecycle: a job is claimed by one party at a time, *)
(* run at most MaxRetry times, and nothing brings it back from its end, for *)
(* any number of jobs and workers and whatever fails.                       *)
THEOREM PoolImplementsLifecycle == Spec => ImplementsLifecycle
<1>1. QED
  BY InitMaps, NextMaps, LifeInvariant, PTL DEF Spec, Lifecycle!Spec, ImplementsLifecycle

(* The end of a job is final: once it has succeeded, is dead lettered or is *)
(* lost, no retry, late reply or restart brings it back or runs it again.   *)
THEOREM EndsAreFinal == Spec => Lifecycle!EndIsFinal
<1>1. LifeInv /\ [Lifecycle!Next]_Lifecycle!lifeVars
        => [Lifecycle!EndsStay]_Lifecycle!lifeVars
  <2> SUFFICES ASSUME LifeInv, Lifecycle!Next, NEW j \in Jobs,
                      Status(j) \in {"done", "dead", "lost"}
               PROVE  Status(j)' = Status(j) /\ runs'[j] = runs[j]
    BY DEF Lifecycle!EndsStay, Lifecycle!Ends
  <2>1. runs \in [Jobs -> Nat]
    BY DEF LifeInv, LiveInv, TypeOK
  <2>2. ASSUME NEW k \in Jobs, NEW from, NEW to, Lifecycle!Move(k, from, to),
               from \notin {"done", "dead", "lost"}
        PROVE  k # j /\ Status(j)' = Status(j)
    BY <2>2 DEF Lifecycle!Move
  <2>3. ASSUME NEW k \in Jobs,
               \/ Lifecycle!Create(k) \/ Lifecycle!Lose(k) \/ Lifecycle!Claim(k)
               \/ Lifecycle!GiveUp(k) \/ Lifecycle!Succeed(k) \/ Lifecycle!Retry(k)
               \/ Lifecycle!Fail(k)
        PROVE  Status(j)' = Status(j) /\ runs' = runs
    BY <2>2, <2>3 DEF Lifecycle!Create, Lifecycle!Lose, Lifecycle!Claim, Lifecycle!GiveUp,
                      Lifecycle!Succeed, Lifecycle!Retry, Lifecycle!Fail
  <2>4. ASSUME NEW k \in Jobs, Lifecycle!Start(k)
        PROVE  Status(j)' = Status(j) /\ runs'[j] = runs[j]
    BY <2>1, <2>2, <2>4 DEF Lifecycle!Start
  <2>5. CASE Lifecycle!LoseClaimed
    BY <2>5 DEF Lifecycle!LoseClaimed
  <2>6. QED
    BY <2>3, <2>4, <2>5 DEF Lifecycle!Next
<1>2. QED
  BY <1>1, LifeInvariant, PoolImplementsLifecycle, PTL
     DEF ImplementsLifecycle, Lifecycle!Spec, Lifecycle!EndIsFinal

(***************************************************************************)
(* How a job leaves the pool: nothing is lost without a trace, nothing     *)
(* ends twice, and nothing is dead lettered without a cause, for any       *)
(* number of jobs and workers and whatever fails.                          *)
(***************************************************************************)

(***************************************************************************)
(* What a step does to the places a job can be in.                         *)
(***************************************************************************)

\* A step about job j concerns no other job.
OnlyAbout(j) ==
    /\ now' = now /\ trouble[j] \subseteq trouble'[j]
    /\ \A k \in Jobs \ {j} :
           /\ createdAt'[k] = createdAt[k] /\ trouble'[k] = trouble[k]
           /\ k \in Live' <=> k \in Live
           /\ k \in done' <=> k \in done
           /\ k \in dropped' <=> k \in dropped

\* No job comes or goes; time may pass.
NoneEnds ==
    /\ now' >= now
    /\ Live' = Live /\ UNCHANGED <<createdAt, trouble, dlq, done, dropped>>

\* A handler creates j: it is queued, or given up in the log.
Appears(j) ==
    /\ createdAt[j] = Never /\ createdAt'[j] # Never
    /\ \/ j \in Live' /\ dropped' = dropped
       \/ j \notin Live' /\ dropped' = dropped \cup {j}
    /\ UNCHANGED <<dlq, done>>

\* j succeeds.
Succeeds(j) ==
    /\ j \in Live /\ j \notin Live' /\ done' = done \cup {j}
    /\ UNCHANGED <<createdAt, dlq, dropped>>

\* A reply about j was lost, and j with it.
Vanishes(j) ==
    /\ j \in Live /\ "lostReply" \in trouble'[j]
    /\ UNCHANGED <<createdAt, dlq, done, dropped>>

Cause(e) == Expired(e.id) \/ IsExhausted(e) \/ trouble'[e.id] # {}

\* j is given up: dead lettered, or that failed and is in the log.  It stays
\* live only if the reply to a retry was lost.
GivenUp(j) ==
    /\ j \in Live /\ UNCHANGED <<createdAt, done>>
    /\ j \notin Live' \/ "lostReply" \in trouble'[j]
    /\ \/ /\ dropped' = dropped /\ \E e \in Envelope :
                e.id = j /\ Cause(e) /\ dlq' = Append(dlq, e)
       \/ dropped' = dropped \cup {j} /\ dlq' = dlq

\* The process dies, and what it had in memory with it.
Dies ==
    /\ now' = now /\ Live' \subseteq Live /\ UNCHANGED <<createdAt, dlq, done, dropped>>
    /\ \A k \in Jobs : /\ trouble[k] \subseteq trouble'[k]
                       /\ k \in Live \ Live' => "crash" \in trouble'[k]

(***************************************************************************)
(* The steps.                                                              *)
(***************************************************************************)

(* A job given up is dead lettered or noted as dropped; a call about it     *)
(* that was not answered is on its record.                                  *)
LEMMA GiveUpFacts ==
    ASSUME TypeOK, NEW e \in Envelope, NEW before \in {"ok", "refused", "lostReply"},
           MoveToDLQ(e, before)
    PROVE  /\ \/ dropped' = dropped /\ dlq' = Append(dlq, e)
              \/ dropped' = dropped \cup {e.id} /\ dlq' = dlq
           /\ trouble[e.id] \subseteq trouble'[e.id]
           /\ before # "ok" => before \in trouble'[e.id]
           /\ \A k \in Jobs \ {e.id} :
                  trouble'[k] = trouble[k] /\ (k \in dropped' <=> k \in dropped)
<1>1. e.id \in Jobs /\ trouble \in [Jobs -> SUBSET FaultKinds]
  BY DEF Envelope, TypeOK
<1>2. PICK reply \in Replies(ctxDone) :
           /\ dlq' = IF Applied(reply) THEN Append(dlq, e) ELSE dlq
           /\ dropped' = IF Applied(reply) THEN dropped ELSE dropped \cup {e.id}
           /\ trouble' = [trouble EXCEPT ![e.id] = @ \cup ({before, reply} \ {"ok"})]
  BY DEF MoveToDLQ, Note
<1>3. QED
  BY <1>1, <1>2

(* Steps that move nothing, or move a job between the pool's hands.         *)
LEMMA StillSteps ==
    ASSUME \/ Tick \/ Signal \/ Stop \/ ProducerStop \/ ProducerAdmit
           \/ \E w \in Workers : WorkerQuit(w)
           \/ UNCHANGED vars,
           TypeOK
    PROVE  NoneEnds
<1> USE DEF redisVars, procVars, ctxVars, historyVars
<1>1. UNCHANGED <<createdAt, pq, held, chan, hand, done, dlq, dropped, trouble>>
  BY DEF Tick, Signal, Stop, ProducerStop, ProducerAdmit, WorkerQuit, vars
<1>2. now' >= now
  BY TimeAssumption
     DEF Tick, Signal, Stop, ProducerStop, ProducerAdmit, WorkerQuit, vars, TypeOK
<1>3. Live' = Live
  BY <1>1 DEF Live, Queued, Held, Buffered, Running, Handled
<1>4. QED
  BY <1>1, <1>2, <1>3 DEF NoneEnds

LEMMA SendStill ==
    ASSUME LifeInv, ProducerSend
    PROVE  NoneEnds
<1> USE DEF LifeInv, LiveInv
<1>1. PICK e \in held : chan' = Append(chan, e)
  BY DEF ProducerSend
<1>2. /\ held' = {} /\ now' = now /\ UNCHANGED <<createdAt, pq, hand, dlq, done, dropped, trouble>>
      /\ Queued' = Queued /\ Running' = Running
  BY DEF ProducerSend, redisVars, historyVars, Queued, Running, Handled
<1>3. Held = {e.id} /\ Held' = {}
  BY <1>2 DEF Held, OneOwner, OneEnvelope
<1>4. Buffered' = Buffered \cup {e.id}
  BY <1>1, AppendIds DEF TypeOK, Buffered
<1>5. Live' = Live
  BY <1>2, <1>3, <1>4 DEF Live
<1>6. now' >= now
  BY <1>2, TimeAssumption DEF TypeOK
<1>7. QED
  BY <1>2, <1>5, <1>6 DEF NoneEnds

LEMMA TakeStill ==
    ASSUME LifeInv, NEW w \in Workers, WorkerTake(w)
    PROVE  NoneEnds
<1> USE DEF LifeInv, LiveInv
<1>1. chan # <<>> /\ chan \in Seq(Envelope) /\ now' = now
      /\ UNCHANGED <<createdAt, pq, held, dlq, done, dropped, trouble>>
  BY DEF WorkerTake, TypeOK, redisVars
<1> DEFINE e == Head(chan)
<1>2. Buffered = Buffered' \cup {e.id}
  BY <1>1, TailIds DEF WorkerTake, Buffered
<1> HIDE DEF e
<1>3. hand[w] = {} /\ hand' = [hand EXCEPT ![w] = {e}]
  BY DEF WorkerTake, e
<1>4. Running' = Running \cup {e.id}
  BY <1>3 DEF Running, Handled, TypeOK
<1>5. Queued' = Queued /\ Held' = Held
  BY <1>1 DEF Queued, Held
<1>6. Live' = Live
  BY <1>2, <1>4, <1>5 DEF Live
<1>7. now' >= now
  BY <1>1, TimeAssumption DEF TypeOK
<1>8. QED
  BY <1>1, <1>6, <1>7 DEF NoneEnds

(* A handler creates a job.                                                 *)
LEMMA EnqueueOutcome ==
    ASSUME LifeInv, NEW j \in Jobs, Enqueue(j)
    PROVE  OnlyAbout(j) /\ Appears(j)
<1> USE DEF LifeInv, LiveInv
<1>1. PICK reply \in Replies(parentDone) :
           /\ pq' = IF Applied(reply)
                      THEN ZAdd(pq, [id |-> j, retry |-> 0], now + TTL(j)) ELSE pq
           /\ dropped' = IF Applied(reply) THEN dropped ELSE dropped \cup {j}
           /\ Note(j, {reply})
  BY DEF Enqueue
<1>2. /\ createdAt[j] = Never /\ createdAt' = [createdAt EXCEPT ![j] = now] /\ now' = now
      /\ UNCHANGED <<held, chan, hand, dlq, done>>
  BY DEF Enqueue, procVars
<1>3. Held' = Held /\ Buffered' = Buffered /\ Running' = Running /\ j \notin Live
  BY <1>2 DEF Held, Buffered, Running, Handled, NotYet, Live
<1>4. createdAt'[j] # Never /\ \A k \in Jobs \ {j} : createdAt'[k] = createdAt[k]
  BY <1>2, TimeAssumption DEF TypeOK, Never
<1>5. trouble[j] \subseteq trouble'[j] /\ \A k \in Jobs \ {j} : trouble'[k] = trouble[k]
  BY <1>1 DEF Note, TypeOK
<1>6. CASE Applied(reply)
  <2>1. Queued' = Queued \cup {j}
    <3>1. \A x \in pq : x.id # j
      BY <1>3 DEF Live, Queued
    <3>2. PICK x : x.id = j /\ pq' = pq \cup {x}
      BY <1>1, <1>6, <3>1 DEF ZAdd
    <3>3. QED
      BY <3>2 DEF Queued
  <2>2. Live' = Live \cup {j} /\ dropped' = dropped
    BY <1>1, <1>3, <1>6, <2>1 DEF Live
  <2>3. QED
    BY <1>2, <1>4, <1>5, <2>2 DEF OnlyAbout, Appears
<1>7. CASE ~Applied(reply)
  <2>1. Live' = Live /\ dropped' = dropped \cup {j}
    BY <1>1, <1>3, <1>7 DEF Live, Queued
  <2>2. QED
    BY <1>2, <1>3, <1>4, <1>5, <2>1 DEF OnlyAbout, Appears
<1>8. QED
  BY <1>6, <1>7

(* A pop passes a job to the producer, or its reply is lost.                *)
LEMMA PopOutcome ==
    ASSUME LifeInv, ProducerPop
    PROVE  NoneEnds \/ \E j \in Jobs : OnlyAbout(j) /\ Vanishes(j)
<1> USE DEF LifeInv, LiveInv
<1>1. PICK x \in pq, reply \in Replies(ctxDone) :
           /\ pq' = pq \ {x} /\ reply \in {"ok", "lostReply"}
           /\ IF reply = "ok" THEN held' = {[id |-> x.id, retry |-> x.retry]}
                              ELSE held' = held
           /\ Note(x.id, {reply})
  BY DEF ProducerPop, Lowest, ZRem, Applied
<1>2. /\ UNCHANGED <<createdAt, chan, hand, dlq, done, dropped>> /\ held = {} /\ now' = now
      /\ Buffered' = Buffered /\ Running' = Running
  BY DEF ProducerPop, PollsEmptyHanded, Buffered, Running, Handled
<1>3. x.id \in Jobs /\ x.id \in Queued /\ now \in Int
  BY TimeAssumption DEF TypeOK, Entry, Queued
<1>4. Queued' = Queued \ {x.id}
  <2>1. \A y \in pq \ {x} : y.id # x.id
    BY DEF OneOwner, OneEnvelope
  <2>2. QED
    BY <1>1, <2>1 DEF Queued
<1>5. trouble' = [trouble EXCEPT ![x.id] = @ \cup ({reply} \ {"ok"})]
      /\ trouble \in [Jobs -> SUBSET FaultKinds]
  BY <1>1 DEF Note, TypeOK
<1>6. CASE reply = "ok"
  <2>1. Held = {} /\ Held' = {x.id}
    <3> DEFINE p == [id |-> x.id, retry |-> x.retry]
    <3>1. held' = {p} /\ p.id = x.id
      BY <1>1, <1>6
    <3> HIDE DEF p
    <3>2. QED
      BY <1>2, <3>1 DEF Held
  <2>2. Live' = Live
    BY <1>2, <1>3, <1>4, <2>1 DEF Live
  <2>3. trouble[x.id] \cup ({reply} \ {"ok"}) = trouble[x.id]
    BY <1>6
  <2>4. trouble' = trouble
    BY <1>5, <2>3
  <2>5. QED
    BY <1>2, <1>3, <2>2, <2>4 DEF NoneEnds
<1>7. CASE reply = "lostReply"
  <2>1. Held = {} /\ Held' = {}
    BY <1>1, <1>2, <1>7 DEF Held
  <2>2. Live' = (Live \ {x.id}) \/ Live' = Live
    BY <1>2, <1>4, <2>1 DEF Live
  <2>3. "lostReply" \in trouble'[x.id] /\ trouble[x.id] \subseteq trouble'[x.id]
        /\ \A k \in Jobs \ {x.id} : trouble'[k] = trouble[k]
    BY <1>3, <1>5, <1>7
  <2>4. QED
    BY <1>2, <1>3, <2>2, <2>3 DEF OnlyAbout, Vanishes, Live
<1>8. QED
  BY <1>1, <1>6, <1>7

(* The producer gives up the job it holds, which has expired or which a     *)
(* shutdown has found there.                                                *)
LEMMA HeldOutcome ==
    ASSUME LifeInv, ProducerExpire \/ ProducerRequeue
    PROVE  \E j \in Jobs : OnlyAbout(j) /\ GivenUp(j)
<1> USE DEF LifeInv, LiveInv
<1>1. PICK e \in held :
          \/ Expired(e.id) /\ MoveToDLQ(e, "ok")
          \/ \E reply \in Replies(TRUE) :
                 /\ dropped' = (IF Applied(reply) THEN dropped ELSE dropped \cup {e.id})
                 /\ Note(e.id, {reply}) /\ dlq' = dlq
  BY DEF ProducerExpire, ProducerRequeue
<1>2. /\ held' = {} /\ now' = now /\ UNCHANGED <<createdAt, chan, hand, done>> /\ pq' = pq
      /\ Queued' = Queued /\ Buffered' = Buffered /\ Running' = Running
  BY DEF ProducerExpire, ProducerRequeue, Replies, Applied, Queued, Buffered, Running, Handled
<1>3. e \in Envelope /\ e.id \in Jobs /\ Held = {e.id} /\ Held' = {}
  BY <1>2 DEF TypeOK, Envelope, Held, OneOwner, OneEnvelope
<1>4. Live' = Live \ {e.id} /\ e.id \in Live
  BY <1>2, <1>3 DEF Live, OneOwner, OnePlace
<1>5. /\ trouble[e.id] \subseteq trouble'[e.id]
      /\ \/ dropped' = dropped /\ dlq' = Append(dlq, e) /\ Expired(e.id)
         \/ dropped' = dropped \cup {e.id} /\ dlq' = dlq
      /\ \A k \in Jobs \ {e.id} :
             trouble'[k] = trouble[k] /\ (k \in dropped' <=> k \in dropped)
  <2>1. CASE Expired(e.id) /\ MoveToDLQ(e, "ok")
    BY <1>3, <2>1, GiveUpFacts
  <2>2. CASE \E reply \in Replies(TRUE) :
                 /\ dropped' = (IF Applied(reply) THEN dropped ELSE dropped \cup {e.id})
                 /\ Note(e.id, {reply}) /\ dlq' = dlq
    BY <1>3, <2>2 DEF Replies, Applied, Note, TypeOK
  <2>3. QED
    BY <1>1, <2>1, <2>2
<1>6. QED
  BY <1>2, <1>3, <1>4, <1>5 DEF OnlyAbout, GivenUp, Cause

(* The worker's envelope leaves its hand.                                   *)
LEMMA HandLive ==
    ASSUME LifeInv, NEW w \in Workers, NEW e \in hand[w],
           hand' = [hand EXCEPT ![w] = {}], UNCHANGED <<createdAt, held, chan>>
    PROVE  /\ e.id \in Jobs /\ e.id \in Live
           /\ Queued' = Queued => Live' = Live \ {e.id}
           /\ Queued' = Queued \cup {e.id} => Live' = Live
BY HandEmptied DEF Live

LEMMA SucceedOutcome ==
    ASSUME LifeInv, NEW w \in Workers, WorkerSucceed(w)
    PROVE  \E j \in Jobs : OnlyAbout(j) /\ Succeeds(j)
<1>1. PICK e \in hand[w] : done' = done \cup {e.id}
  BY DEF WorkerSucceed
<1>2. /\ UNCHANGED <<createdAt, pq, held, chan, dlq, dropped, trouble>> /\ now' = now
      /\ hand' = [hand EXCEPT ![w] = {}] /\ Queued' = Queued
  BY DEF WorkerSucceed, redisVars, Queued
<1>3. e.id \in Jobs /\ e.id \in Live /\ Live' = Live \ {e.id}
  BY <1>2, HandLive
<1>4. QED
  BY <1>1, <1>2, <1>3 DEF OnlyAbout, Succeeds

(* A failed run is queued again, or the job is given up.                    *)
LEMMA FailOutcome ==
    ASSUME LifeInv, NEW w \in Workers, WorkerFail(w)
    PROVE  NoneEnds \/ \E j \in Jobs : OnlyAbout(j) /\ GivenUp(j)
<1> USE DEF LifeInv, LiveInv
<1>1. PICK e \in hand[w] :
           IF IsExhausted(Bump(e)) \/ Expired(e.id)
             THEN MoveToDLQ(Bump(e), "ok") /\ UNCHANGED pq
             ELSE ScheduleRetry(Bump(e))
  BY DEF WorkerFail
<1>2. UNCHANGED <<createdAt, held, chan, done>> /\ hand' = [hand EXCEPT ![w] = {}] /\ now' = now
  BY DEF WorkerFail
<1> DEFINE b == Bump(e)
<1>3. b \in Envelope /\ b.id = e.id /\ b.id \in Jobs /\ now \in Int
  BY BumpType, TimeAssumption DEF TypeOK, Envelope
<1>4. /\ e.id \in Live
      /\ Queued' = Queued => Live' = Live \ {e.id}
      /\ Queued' = Queued \cup {e.id} => Live' = Live
  BY <1>2, HandLive
<1>5. \/ Queued' = Queued /\ pq' = pq
      \/ Queued' = Queued \cup {e.id}
  <2>1. pq' = pq \/ pq' = ZAdd(pq, b, now + Backoff(b.retry))
    BY <1>1 DEF ScheduleRetry
  <2> HIDE DEF b
  <2>2. CASE pq' = pq
    BY <2>2 DEF Queued
  <2>3. CASE pq' # pq
    <3>1. \A x \in pq : x.id # b.id
      BY <1>2, <1>3, HandEmptied DEF Queued
    <3>2. PICK x : x.id = b.id /\ pq' = pq \cup {x}
      BY <2>1, <2>3, <3>1 DEF ZAdd
    <3>3. QED
      BY <1>3, <3>2 DEF Queued
  <2>4. QED
    BY <2>2, <2>3
<1>6. ASSUME NEW before \in {"ok", "refused", "lostReply"}, MoveToDLQ(b, before),
             before = "ok" => IsExhausted(b) \/ Expired(e.id),
             Queued' = Queued \/ before = "lostReply"
      PROVE  OnlyAbout(e.id) /\ GivenUp(e.id)
  <2> HIDE DEF b
  <2>1. /\ \/ dropped' = dropped /\ dlq' = Append(dlq, b)
           \/ dropped' = dropped \cup {b.id} /\ dlq' = dlq
        /\ trouble[e.id] \subseteq trouble'[e.id]
        /\ before # "ok" => before \in trouble'[e.id]
        /\ \A k \in Jobs \ {e.id} :
               trouble'[k] = trouble[k] /\ (k \in dropped' <=> k \in dropped)
    BY <1>3, <1>6, GiveUpFacts
  <2>2. Cause(b)
    BY <1>3, <1>6, <2>1 DEF Cause
  <2>3. Live' = Live \ {e.id} \/ (Live' = Live /\ "lostReply" \in trouble'[e.id])
    BY <1>4, <1>5, <1>6, <2>1
  <2>4. QED
    BY <1>2, <1>3, <1>4, <2>1, <2>2, <2>3 DEF OnlyAbout, GivenUp
<1>7. CASE IsExhausted(b) \/ Expired(e.id)
  <2>1. MoveToDLQ(b, "ok") /\ Queued' = Queued
    BY <1>1, <1>7 DEF Queued
  <2>2. QED
    BY <1>3, <1>6, <1>7, <2>1
<1>8. CASE ~(IsExhausted(b) \/ Expired(e.id))
  <2>1. PICK reply \in Replies(ctxDone) :
             /\ pq' = IF Applied(reply) THEN ZAdd(pq, b, now + Backoff(b.retry)) ELSE pq
             /\ IF reply = "ok" THEN UNCHANGED <<dlq, dropped, trouble>> ELSE MoveToDLQ(b, reply)
    BY <1>1, <1>8 DEF ScheduleRetry
  <2>2. reply \in {"ok", "refused", "lostReply"}
    BY ReplyType
  <2>3. CASE reply = "ok"
    <3>1. Queued' = Queued \cup {e.id}
      <4>1. PICK x : x.id = b.id /\ x \in pq'
        BY <2>1, <2>3 DEF ZAdd, Applied
      <4>2. QED
        BY <1>3, <1>5, <4>1 DEF Queued
    <3>2. QED
      BY <1>2, <1>3, <1>4, <2>1, <2>3, <3>1 DEF NoneEnds
  <2>4. CASE reply = "refused"
    BY <1>3, <1>6, <2>1, <2>4 DEF Applied, Queued
  <2>5. CASE reply = "lostReply"
    BY <1>3, <1>6, <2>1, <2>5
  <2>6. QED
    BY <2>2, <2>3, <2>4, <2>5
<1>9. QED
  BY <1>7, <1>8

LEMMA CrashOutcome ==
    ASSUME LifeInv, Crash
    PROVE  Dies
<1>1. now' = now /\ UNCHANGED <<createdAt, pq, dlq, done, dropped>> /\ Queued' = Queued
  BY DEF Crash, redisVars, Queued
<1>2. Held' = {} /\ Buffered' = {} /\ Running' = {}
  BY DEF Crash, Held, Buffered, Ids, Range, Running, Handled
<1>3. \A k \in Jobs : /\ trouble[k] \subseteq trouble'[k]
                      /\ k \in Live \ Queued => "crash" \in trouble'[k]
  BY DEF Crash, Live, LifeInv, LiveInv, TypeOK
<1>4. QED
  BY <1>1, <1>2, <1>3 DEF Dies, Live

(* All there is: nobody's job ends, the process dies, or one job comes,     *)
(* succeeds, vanishes or is given up.                                       *)
LEMMA Outcomes ==
    ASSUME LifeInv, [Next]_vars
    PROVE  \/ NoneEnds \/ Dies
           \/ \E j \in Jobs : OnlyAbout(j) /\
                  (Appears(j) \/ Succeeds(j) \/ Vanishes(j) \/ GivenUp(j))
<1>1. TypeOK
  BY DEF LifeInv, LiveInv
<1>2. CASE \/ Tick \/ Signal \/ Stop \/ ProducerStop \/ ProducerAdmit
           \/ \E w \in Workers : WorkerQuit(w)
           \/ UNCHANGED vars
  BY <1>1, <1>2, StillSteps
<1>3. CASE Crash \/ ProducerPop \/ ProducerSend \/ ProducerExpire \/ ProducerRequeue
  BY <1>3, CrashOutcome, PopOutcome, SendStill, HeldOutcome
<1>4. ASSUME NEW w \in Workers, WorkerTake(w) \/ WorkerSucceed(w) \/ WorkerFail(w)
      PROVE  \/ NoneEnds
             \/ \E j \in Jobs : OnlyAbout(j) /\ (Succeeds(j) \/ GivenUp(j))
  BY <1>4, TakeStill, SucceedOutcome, FailOutcome
<1>5. ASSUME NEW j \in Jobs, Enqueue(j)
      PROVE  OnlyAbout(j) /\ Appears(j)
  BY <1>5, EnqueueOutcome
<1>6. QED
  BY <1>2, <1>3, <1>4, <1>5 DEF Next, Producer, Worker

(***************************************************************************)
(* The invariant.                                                          *)
(***************************************************************************)

\* Only a job that was created can be given up.
DroppedExist == \A j \in dropped : createdAt[j] # Never

LossInv == LifeInv /\ DroppedExist /\ NoSilentLoss /\ DeadForCause /\ SettledOnce

\* No two entries of s are about job k.
AtMostOnce(s, k) == \A i, l \in DOMAIN s : s[i].id = k /\ s[l].id = k => i = l

(* A list that has no entry about a job has one after the first arrives.    *)
LEMMA AppendOnce ==
    ASSUME NEW s \in Seq(Envelope), NEW e \in Envelope, NEW k, AtMostOnce(s, k),
           e.id = k => k \notin Ids(s)
    PROVE  AtMostOnce(Append(s, e), k)
<1>1. DOMAIN Append(s, e) = DOMAIN s \cup {Len(s) + 1} /\ Append(s, e)[Len(s) + 1] = e
  OBVIOUS
<1>2. \A i \in DOMAIN s : Append(s, e)[i] = s[i]
  OBVIOUS
<1>3. e.id = k => \A i \in DOMAIN s : s[i].id # k
  BY DEF Ids, Range
<1>4. QED
  BY <1>1, <1>2, <1>3 DEF AtMostOnce

(* What the dead letter queue gains is about the job that is given up.      *)
LEMMA DeadAfter ==
    ASSUME TypeOK, NEW j, GivenUp(j)
    PROVE  \/ Dead' = Dead /\ dlq' = dlq /\ dropped' = dropped \cup {j}
           \/ Dead' = Dead \cup {j} /\ dropped' = dropped
BY AppendIds DEF GivenUp, TypeOK, Dead

LEMMA LiveExist ==
    ASSUME LifeInv, NEW j \in Jobs, j \in Live \cup Dead
    PROVE  createdAt[j] # Never
BY DEF LifeInv, LiveInv, NotYet, DeadExist, Live

LEMMA NextDropped ==
    ASSUME LossInv, [Next]_vars
    PROVE  DroppedExist'
<1>1. LifeInv /\ DroppedExist /\ TypeOK /\ TypeOK'
  BY NextType DEF LossInv, LifeInv, LiveInv
<1>2. SUFFICES ASSUME NEW k \in Jobs, k \in dropped' PROVE createdAt'[k] # Never
  BY <1>1 DEF DroppedExist, TypeOK
<1>3. CASE NoneEnds \/ Dies
  BY <1>1, <1>2, <1>3 DEF NoneEnds, Dies, DroppedExist
<1>4. ASSUME NEW j \in Jobs, OnlyAbout(j),
             Appears(j) \/ Succeeds(j) \/ Vanishes(j) \/ GivenUp(j)
      PROVE  createdAt'[k] # Never
  <2>1. CASE k # j
    BY <1>1, <1>2, <1>4, <2>1 DEF OnlyAbout, DroppedExist
  <2>2. CASE k = j
    BY <1>1, <1>2, <1>4, <2>2, LiveExist
       DEF Appears, Succeeds, Vanishes, GivenUp, DroppedExist
  <2>3. QED
    BY <2>1, <2>2
<1>5. QED
  BY <1>1, <1>3, <1>4, Outcomes

LEMMA NextNoSilentLoss ==
    ASSUME LossInv, [Next]_vars
    PROVE  NoSilentLoss'
<1>1. LifeInv /\ NoSilentLoss /\ TypeOK
  BY DEF LossInv, LifeInv, LiveInv
<1>2. SUFFICES ASSUME NEW k \in Jobs, createdAt'[k] # Never, trouble'[k] \subseteq {"refused"}
               PROVE  k \in (Live \cup Dead \cup done \cup dropped)'
  BY DEF NoSilentLoss, Created
<1>3. createdAt[k] # Never /\ trouble[k] \subseteq {"refused"}
        => k \in Live \cup Dead \cup done \cup dropped
  BY <1>1 DEF NoSilentLoss, Created
<1>4. CASE NoneEnds
  BY <1>2, <1>3, <1>4 DEF NoneEnds, Dead
<1>5. CASE Dies
  <2>1. k \notin Live \ Live' /\ trouble[k] \subseteq {"refused"}
    BY <1>2, <1>5 DEF Dies
  <2>2. QED
    BY <1>2, <1>3, <1>5, <2>1 DEF Dies, Dead
<1>6. ASSUME NEW j \in Jobs, OnlyAbout(j),
             Appears(j) \/ Succeeds(j) \/ Vanishes(j) \/ GivenUp(j)
      PROVE  k \in (Live \cup Dead \cup done \cup dropped)'
  <2>1. Dead \subseteq Dead'
    <3>1. CASE GivenUp(j)
      BY <1>1, <3>1, DeadAfter
    <3>2. CASE dlq' = dlq
      BY <3>2 DEF Dead
    <3>3. QED
      BY <1>6, <3>1, <3>2 DEF Appears, Succeeds, Vanishes
  <2>2. CASE k # j
    BY <1>2, <1>3, <1>6, <2>1, <2>2 DEF OnlyAbout
  <2>3. CASE k = j
    <3>1. CASE GivenUp(j)
      BY <1>1, <2>3, <3>1, DeadAfter
    <3>2. CASE Appears(j) \/ Succeeds(j)
      BY <2>3, <3>2 DEF Appears, Succeeds
    <3>3. CASE Vanishes(j)
      BY <1>2, <2>3, <3>3 DEF Vanishes
    <3>4. QED
      BY <1>6, <3>1, <3>2, <3>3
  <2>4. QED
    BY <2>2, <2>3
<1>7. QED
  BY <1>1, <1>4, <1>5, <1>6, Outcomes

LEMMA NextDeadForCause ==
    ASSUME LossInv, [Next]_vars
    PROVE  DeadForCause'
<1>1. LifeInv /\ DeadForCause /\ TypeOK /\ TypeOK'
  BY NextType DEF LossInv, LifeInv, LiveInv
<1> DEFINE Caused(e) == now > createdAt[e.id] + TTL(e.id) \/ e.retry >= MaxRetry(e.id)
<1>2. Range(dlq) \subseteq Envelope
  BY <1>1, RangeType DEF TypeOK
<1>3. ASSUME NEW e \in Range(dlq), trouble'[e.id] = {}, trouble[e.id] \subseteq trouble'[e.id],
             now' >= now, createdAt'[e.id] = createdAt[e.id]
      PROVE  Caused(e)'
  <2>1. Caused(e)
    BY <1>1, <1>3 DEF DeadForCause
  <2>2. e.id \in Jobs /\ now \in Int /\ now' \in Int /\ createdAt[e.id] \in Int /\ TTL(e.id) \in Int
    BY <1>1, <1>2, JobConstants, TimeAssumption DEF TypeOK, Envelope, Never
  <2>3. QED
    BY <1>3, <2>1, <2>2 DEF TTL, MaxRetry
<1>4. \A e \in Range(dlq) : e.id \in Jobs /\ createdAt[e.id] # Never
  <2>1. \A e \in Range(dlq) : e.id \in Jobs /\ e.id \in Dead
    BY <1>2 DEF Envelope, Dead, Ids
  <2>2. QED
    BY <1>1, <2>1, LiveExist
<1>5. SUFFICES ASSUME NEW e \in Range(dlq'), trouble'[e.id] = {} PROVE Caused(e)'
  BY DEF DeadForCause
<1>6. CASE NoneEnds \/ Dies
  <2>1. dlq' = dlq /\ createdAt' = createdAt /\ now' >= now
        /\ \A k \in Jobs : trouble[k] \subseteq trouble'[k]
    BY <1>1, <1>6, TimeAssumption DEF NoneEnds, Dies, TypeOK
  <2>2. QED
    BY <1>3, <1>4, <1>5, <2>1
<1>7. ASSUME NEW j \in Jobs, OnlyAbout(j),
             Appears(j) \/ Succeeds(j) \/ Vanishes(j) \/ GivenUp(j)
      PROVE  Caused(e)'
  <2>1. now' >= now /\ \A k \in Jobs : trouble[k] \subseteq trouble'[k]
    <3>1. now \in Int /\ now' = now
      BY <1>1, <1>7, TimeAssumption DEF OnlyAbout, TypeOK
    <3>2. \A k \in Jobs : trouble[k] \subseteq trouble'[k]
      BY <1>7 DEF OnlyAbout
    <3>3. QED
      BY <3>1, <3>2
  <2>2. \A k \in Jobs : createdAt[k] # Never => createdAt'[k] = createdAt[k]
    BY <1>7 DEF OnlyAbout, Appears, Succeeds, Vanishes, GivenUp
  <2>3. CASE e \in Range(dlq)
    BY <1>3, <1>4, <1>5, <2>1, <2>2, <2>3
  <2>4. CASE e \notin Range(dlq)
    <3>1. GivenUp(j) /\ dlq' # dlq
      BY <1>5, <1>7, <2>4 DEF Appears, Succeeds, Vanishes
    <3>2. PICK f \in Envelope : f.id = j /\ Cause(f) /\ dlq' = Append(dlq, f)
      BY <3>1 DEF GivenUp
    <3>3. Range(dlq') = Range(dlq) \cup {f}
      BY <1>1, <3>2, AppendRange DEF TypeOK
    <3>4. e = f /\ (Expired(e.id) \/ IsExhausted(e))
      BY <1>5, <2>4, <3>2, <3>3 DEF Cause
    <3>5. now' = now /\ createdAt' = createdAt
      BY <1>7, <3>1 DEF OnlyAbout, GivenUp
    <3>6. QED
      BY <3>4, <3>5 DEF Expired, ExpireAt, IsExhausted, TTL, MaxRetry
  <2>5. QED
    BY <2>3, <2>4
<1>8. QED
  BY <1>1, <1>6, <1>7, Outcomes

\* What SettledOnce says of one job.
Settled(k) ==
    /\ AtMostOnce(dlq, k)
    /\ k \notin Dead \cap (done \cup dropped \cup Live)
    /\ k \notin done \cap (dropped \cup Live)
    /\ k \notin dropped \cap Live

LEMMA NextSettledOnce ==
    ASSUME LossInv, [Next]_vars
    PROVE  SettledOnce'
<1>1. LifeInv /\ DroppedExist /\ TypeOK
  BY DEF LossInv, LifeInv, LiveInv
<1>2. \A k \in Jobs : "lostReply" \notin trouble[k] => Settled(k)
  BY DEF LossInv, SettledOnce, Settled, AtMostOnce
<1>3. SUFFICES ASSUME NEW k \in Jobs, "lostReply" \notin trouble'[k] PROVE Settled(k)'
  BY DEF SettledOnce, Settled, AtMostOnce
<1>4. CASE NoneEnds \/ Dies
  <2>1. /\ dlq' = dlq /\ done' = done /\ dropped' = dropped /\ Dead' = Dead /\ Live' \subseteq Live
        /\ trouble[k] \subseteq trouble'[k]
    BY <1>4 DEF NoneEnds, Dies, Dead
  <2>2. Settled(k)
    BY <1>2, <1>3, <2>1
  <2>3. QED
    BY <2>1, <2>2 DEF Settled, AtMostOnce
<1>5. ASSUME NEW j \in Jobs, OnlyAbout(j),
             Appears(j) \/ Succeeds(j) \/ Vanishes(j) \/ GivenUp(j)
      PROVE  Settled(k)'
  <2>1. Settled(k)
    BY <1>2, <1>3, <1>5 DEF OnlyAbout
  <2>2. CASE dlq' = dlq
    <3>1. Dead' = Dead /\ AtMostOnce(dlq', k)
      BY <2>1, <2>2 DEF Dead, Settled, AtMostOnce
    <3>2. CASE k # j
      BY <1>5, <2>1, <3>1, <3>2 DEF Settled, OnlyAbout
    <3>3. CASE k = j /\ Appears(j)
      <4>1. k \notin Dead \cup done \cup dropped
        BY <1>1, <3>3, LiveExist DEF Appears, DroppedExist, LifeInv, LiveInv, NotYet
      <4>2. QED
        BY <3>1, <3>3, <4>1 DEF Appears, Settled
    <3>4. CASE k = j /\ Succeeds(j)
      BY <2>1, <3>1, <3>4 DEF Succeeds, Settled
    <3>5. CASE k = j /\ GivenUp(j)
      BY <1>1, <1>3, <2>1, <2>2, <3>1, <3>5, DeadAfter DEF GivenUp, Settled
    <3>6. QED
      BY <1>3, <1>5, <3>2, <3>3, <3>4, <3>5 DEF Vanishes
  <2>3. CASE dlq' # dlq
    <3>1. PICK e \in Envelope : e.id = j /\ dlq' = Append(dlq, e)
      BY <1>5, <2>3 DEF Appears, Succeeds, Vanishes, GivenUp
    <3>2. GivenUp(j) /\ Dead' = Dead \cup {j} /\ dropped' = dropped /\ done' = done /\ j \in Live
      BY <1>1, <1>5, <2>3, DeadAfter DEF Appears, Succeeds, Vanishes, GivenUp
    <3>3. k = j => k \notin Dead \cup done \cup dropped /\ k \notin Live'
      BY <1>3, <2>1, <3>2 DEF Settled, GivenUp
    <3>4. AtMostOnce(dlq', k)
      BY <1>1, <2>1, <3>1, <3>3, AppendOnce DEF TypeOK, Settled, Dead
    <3>5. QED
      BY <1>5, <2>1, <3>2, <3>3, <3>4 DEF Settled, OnlyAbout
  <2>4. QED
    BY <2>2, <2>3
<1>6. QED
  BY <1>1, <1>4, <1>5, Outcomes

LEMMA InitLoss == Init => LossInv
<1> SUFFICES ASSUME Init PROVE LossInv
  OBVIOUS
<1>1. LifeInv
  BY InitLifeInv
<1>2. DroppedExist /\ NoSilentLoss
  BY DEF Init, DroppedExist, NoSilentLoss, Created
<1>3. Range(dlq) = {} /\ DOMAIN dlq = {}
  BY DEF Init, Range
<1>4. DeadForCause /\ SettledOnce
  BY <1>3 DEF Init, DeadForCause, SettledOnce, Dead, Ids
<1>5. QED
  BY <1>1, <1>2, <1>4 DEF LossInv

LEMMA LossAlways == Spec => []LossInv
<1>1. LossInv /\ [Next]_vars => LossInv'
  BY NextLifeInv, NextDropped, NextNoSilentLoss, NextDeadForCause, NextSettledOnce
     DEF LossInv
<1>2. QED
  BY <1>1, InitLoss, PTL DEF Spec

(* A job that was created is always somewhere, at its end, or given up in   *)
(* the log, unless a reply about it was lost or the process died with it.   *)
THEOREM NothingLostSilently == Spec => []NoSilentLoss
<1>1. LossInv => NoSilentLoss
  BY DEF LossInv
<1>2. QED
  BY <1>1, LossAlways, PTL

(* A job about which no reply was lost ends one way only, and is in the     *)
(* dead letter queue at most once.                                          *)
THEOREM JobsSettleOnce == Spec => []SettledOnce
<1>1. LossInv => SettledOnce
  BY DEF LossInv
<1>2. QED
  BY <1>1, LossAlways, PTL

(* A job no fault has hit is dead lettered for its age or for its failures. *)
THEOREM DeadLettersHaveCause == Spec => []DeadForCause
<1>1. LossInv => DeadForCause
  BY DEF LossInv
<1>2. QED
  BY <1>1, LossAlways, PTL
=============================================================================
