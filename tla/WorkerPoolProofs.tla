-------------------------- MODULE WorkerPoolProofs --------------------------
(* Theorems about WorkerPool, for every set of jobs and workers, every      *)
(* capacity, time-to-live and retry limit, and every kind of fault.         *)
EXTENDS WorkerPool, TLAPS

(***************************************************************************)
(* Sequences.                                                              *)
(***************************************************************************)

(* What RPUSH and a channel send do to the envelopes a queue holds.         *)
LEMMA AppendRange ==
    ASSUME NEW S, NEW s \in Seq(S), NEW e \in S
    PROVE  Range(Append(s, e)) = Range(s) \cup {e}
BY DEF Range

(* What a channel receive does to them.                                     *)
LEMMA TailRange ==
    ASSUME NEW S, NEW s \in Seq(S), s # <<>>
    PROVE  /\ Head(s) \in S /\ Tail(s) \in Seq(S)
           /\ Range(s) = Range(Tail(s)) \cup {Head(s)}
<1>1. Head(s) = s[1] /\ Len(s) \in Nat \ {0} /\ DOMAIN s = 1..Len(s)
  OBVIOUS
<1>2. Tail(s) \in Seq(S) /\ Len(Tail(s)) = Len(s) - 1
  OBVIOUS
<1>3. \A i \in 1..(Len(s) - 1) : Tail(s)[i] = s[i + 1]
  OBVIOUS
<1>4. \A i \in 2..Len(s) : s[i] = Tail(s)[i - 1] /\ i - 1 \in DOMAIN Tail(s)
  BY <1>1, <1>2, <1>3
<1>5. Range(s) \subseteq Range(Tail(s)) \cup {Head(s)}
  <2>1. SUFFICES ASSUME NEW i \in DOMAIN s
                 PROVE  s[i] \in Range(Tail(s)) \cup {Head(s)}
    BY DEF Range
  <2>2. CASE i = 1
    BY <1>1, <2>2
  <2>3. CASE i # 1
    <3>1. i \in 2..Len(s)
      BY <1>1, <2>3
    <3>2. s[i] = Tail(s)[i - 1] /\ i - 1 \in DOMAIN Tail(s)
      BY <1>4, <3>1
    <3>3. QED
      BY <3>2 DEF Range
  <2>4. QED
    BY <2>2, <2>3
<1>6. Range(Tail(s)) \cup {Head(s)} \subseteq Range(s)
  BY <1>1, <1>2, <1>3 DEF Range
<1>7. QED
  BY <1>1, <1>2, <1>5, <1>6

LEMMA RangeType ==
    ASSUME NEW S, NEW s \in Seq(S)
    PROVE  Range(s) \subseteq S
BY DEF Range

(* A queue of distinct jobs stays one when a job it does not hold arrives.  *)
LEMMA AppendNotTwice ==
    ASSUME NEW s \in Seq(Envelope), NEW e \in Envelope,
           NotTwice(s), e.id \notin Ids(s)
    PROVE  NotTwice(Append(s, e))
<1>1. \A i \in DOMAIN s : s[i].id # e.id
  BY DEF Ids, Range
<1>2. DOMAIN Append(s, e) = DOMAIN s \cup {Len(s) + 1} /\ Append(s, e)[Len(s) + 1] = e
  OBVIOUS
<1>3. \A i \in DOMAIN s : Append(s, e)[i] = s[i]
  OBVIOUS
<1>4. QED
  BY <1>1, <1>2, <1>3 DEF NotTwice

(* The job taken from a queue of distinct jobs is not in it any more.       *)
LEMMA TailNotTwice ==
    ASSUME NEW s \in Seq(Envelope), s # <<>>, NotTwice(s)
    PROVE  NotTwice(Tail(s)) /\ Head(s).id \notin Ids(Tail(s))
<1>1. Len(s) \in Nat \ {0} /\ DOMAIN s = 1..Len(s) /\ Head(s) = s[1]
  OBVIOUS
<1>2. DOMAIN Tail(s) = 1..(Len(s) - 1)
  OBVIOUS
<1>3. \A i \in DOMAIN Tail(s) : Tail(s)[i] = s[i + 1] /\ i + 1 \in DOMAIN s /\ i + 1 # 1
  BY <1>1, <1>2
<1>4. NotTwice(Tail(s))
  BY <1>1, <1>2, <1>3 DEF NotTwice
<1>5. Head(s).id \notin Ids(Tail(s))
  BY <1>1, <1>3 DEF NotTwice, Ids, Range
<1>6. QED
  BY <1>4, <1>5

(***************************************************************************)
(* Types of what the Redis calls write.                                    *)
(***************************************************************************)

LEMMA JobConstants ==
    ASSUME NEW j \in Jobs
    PROVE  /\ Priority(j) \in {1, 2}
           /\ MaxRetry(j) \in Nat \ {0}
           /\ TTL(j) \in Nat
BY TimeAssumption, RetryAssumption DEF Priority, MaxRetry, TTL

(* A ZADD keeps the sorted set a set of scored envelopes.                   *)
LEMMA ZAddType ==
    ASSUME NEW q \in SUBSET Entry, NEW e \in Envelope, NEW time \in Nat
    PROVE  ZAdd(q, e, time) \in SUBSET Entry
<1>1. e.id \in Jobs /\ e.retry \in Nat
  BY DEF Envelope
<1>2. Score(e.id, time) \in Nat
  BY <1>1, JobConstants, WeightAssumption DEF Score
<1>3. QED
  BY <1>1, <1>2 DEF ZAdd, Entry

(* What is noted about a job are faults.                                    *)
LEMMA NoteType ==
    ASSUME TypeOK, NEW j \in Jobs, NEW replies, Note(j, replies),
           replies \subseteq {"ok", "refused", "lostReply"}
    PROVE  trouble' \in [Jobs -> SUBSET FaultKinds]
<1>1. replies \ {"ok"} \subseteq FaultKinds
  BY DEF FaultKinds
<1>2. trouble[j] \cup (replies \ {"ok"}) \in SUBSET FaultKinds
  BY <1>1 DEF TypeOK
<1>3. QED
  BY <1>2 DEF Note, TypeOK

LEMMA ReplyType ==
    ASSUME NEW cancelled, NEW reply \in Replies(cancelled)
    PROVE  reply \in {"ok", "refused", "lostReply"}
BY DEF Replies

LEMMA MoveToDLQType ==
    ASSUME TypeOK, NEW e \in Envelope, NEW before \in {"ok", "refused", "lostReply"},
           MoveToDLQ(e, before)
    PROVE  /\ dlq' \in Seq(Envelope) /\ dropped' \subseteq Jobs
           /\ trouble' \in [Jobs -> SUBSET FaultKinds]
<1>1. e.id \in Jobs
  BY DEF Envelope
<1>2. dlq \in Seq(Envelope) /\ Append(dlq, e) \in Seq(Envelope)
  BY DEF TypeOK
<1>3. PICK reply \in Replies(ctxDone) :
           /\ dlq' = IF Applied(reply) THEN Append(dlq, e) ELSE dlq
           /\ dropped' = IF Applied(reply) THEN dropped ELSE dropped \cup {e.id}
           /\ Note(e.id, {before, reply})
  BY DEF MoveToDLQ
<1>4. trouble' \in [Jobs -> SUBSET FaultKinds]
  BY <1>1, <1>3, ReplyType, NoteType
<1>5. QED
  BY <1>1, <1>2, <1>3, <1>4 DEF TypeOK

(* A retry is only scheduled for an envelope that was run and may run again.*)
LEMMA ScheduleRetryType ==
    ASSUME TypeOK, NEW e \in Envelope, e.retry # 0, ~IsExhausted(e), ScheduleRetry(e)
    PROVE  /\ pq' \subseteq Entry /\ dlq' \in Seq(Envelope) /\ dropped' \subseteq Jobs
           /\ trouble' \in [Jobs -> SUBSET FaultKinds]
<1>1. e.id \in Jobs /\ e.retry \in 1..MaxRetry(e.id)
  BY JobConstants DEF Envelope, IsExhausted
<1>2. now + Backoff(e.retry) \in Nat
  BY <1>1, BackoffAssumption, TimeAssumption DEF TypeOK
<1>3. pq' \subseteq Entry
  BY <1>2, ZAddType DEF ScheduleRetry, TypeOK
<1>4. /\ dlq' \in Seq(Envelope) /\ dropped' \subseteq Jobs
      /\ trouble' \in [Jobs -> SUBSET FaultKinds]
  BY MoveToDLQType, ReplyType DEF ScheduleRetry, TypeOK
<1>5. QED
  BY <1>3, <1>4

LEMMA BumpType ==
    ASSUME NEW e \in Envelope
    PROVE  /\ Bump(e) \in Envelope /\ Bump(e).id = e.id
           /\ Bump(e).retry = e.retry + 1 /\ Bump(e).retry # 0
BY DEF Bump, Envelope

(***************************************************************************)
(* Type correctness.                                                       *)
(***************************************************************************)

LEMMA InitType == Init => TypeOK
<1> SUFFICES ASSUME Init PROVE TypeOK
  OBVIOUS
<1>1. <<>> \in Seq(Envelope)
  OBVIOUS
<1>2. [w \in Workers |-> {}] \in [Workers -> SUBSET Envelope]
  OBVIOUS
<1>3. createdAt \in [Jobs -> {Never} \cup (0..MaxTime)] /\ runs \in [Jobs -> Nat]
  BY DEF Init
<1>4. now \in 0..MaxTime
  BY TimeAssumption DEF Init
<1>5. pq \subseteq Entry /\ held \subseteq Envelope
  BY DEF Init
<1>6. QED
  BY <1>1, <1>2, <1>3, <1>4, <1>5 DEF Init, TypeOK

LEMMA NextType == TypeOK /\ [Next]_vars => TypeOK'
<1> SUFFICES ASSUME TypeOK, [Next]_vars PROVE TypeOK'
  OBVIOUS
<1> USE DEF redisVars, procVars, ctxVars, historyVars
<1>1. CASE Tick
  BY <1>1, TimeAssumption DEF Tick, TypeOK
<1>2. CASE Signal
  BY <1>2 DEF Signal, TypeOK
<1>3. CASE Stop
  BY <1>3 DEF Stop, TypeOK
<1>4. CASE Crash
  <2>1. <<>> \in Seq(Envelope)
    OBVIOUS
  <2>2. [w \in Workers |-> {}] \in [Workers -> SUBSET Envelope]
    OBVIOUS
  <2>3. trouble' \in [Jobs -> SUBSET FaultKinds]
    BY <1>4 DEF Crash, TypeOK, FaultKinds
  <2>4. QED
    BY <1>4, <2>1, <2>2, <2>3 DEF Crash, TypeOK
<1>5. ASSUME NEW j \in Jobs, Enqueue(j) PROVE TypeOK'
  <2>1. [id |-> j, retry |-> 0] \in Envelope
    BY DEF Envelope
  <2>2. now + TTL(j) \in Nat
    BY JobConstants, TimeAssumption DEF TypeOK
  <2>3. pq' \subseteq Entry /\ dropped' \subseteq Jobs
    BY <1>5, <2>1, <2>2, ZAddType DEF Enqueue, TypeOK
  <2>4. createdAt' \in [Jobs -> {Never} \cup (0..MaxTime)]
    BY <1>5 DEF Enqueue, TypeOK
  <2>5. trouble' \in [Jobs -> SUBSET FaultKinds]
    BY <1>5, NoteType, ReplyType DEF Enqueue
  <2>6. QED
    BY <1>5, <2>3, <2>4, <2>5 DEF Enqueue, TypeOK
<1>6. CASE ProducerStop
  BY <1>6 DEF ProducerStop, TypeOK
<1>7. CASE ProducerPop
  <2>1. PICK x \in pq, reply \in Replies(ctxDone) :
             /\ pq' = ZRem(pq, x)
             /\ \/ producer' = "check" /\ held' = {[id |-> x.id, retry |-> x.retry]}
                \/ UNCHANGED <<producer, held>>
             /\ Note(x.id, {reply})
    BY <1>7 DEF ProducerPop, Lowest
  <2>2. [id |-> x.id, retry |-> x.retry] \in Envelope
    BY DEF TypeOK, Entry, Envelope
  <2>3. trouble' \in [Jobs -> SUBSET FaultKinds]
    BY <2>1, NoteType, ReplyType DEF TypeOK, Entry
  <2>4. QED
    BY <1>7, <2>1, <2>2, <2>3 DEF ProducerPop, TypeOK, ZRem
<1>8. CASE ProducerExpire
  <2>1. /\ dlq' \in Seq(Envelope) /\ dropped' \subseteq Jobs
        /\ trouble' \in [Jobs -> SUBSET FaultKinds]
    BY <1>8, MoveToDLQType DEF ProducerExpire, TypeOK
  <2>2. QED
    BY <1>8, <2>1 DEF ProducerExpire, TypeOK
<1>9. CASE ProducerAdmit
  BY <1>9 DEF ProducerAdmit, TypeOK
<1>10. CASE ProducerSend
  BY <1>10 DEF ProducerSend, TypeOK
<1>11. CASE ProducerRequeue
  <2>1. pq' = pq /\ dropped' \subseteq Jobs
    BY <1>11 DEF ProducerRequeue, TypeOK, Replies, Applied, Envelope
  <2>2. trouble' \in [Jobs -> SUBSET FaultKinds]
    BY <1>11, NoteType, ReplyType DEF ProducerRequeue, TypeOK, Envelope
  <2>3. QED
    BY <1>11, <2>1, <2>2 DEF ProducerRequeue, TypeOK
<1>12. ASSUME NEW w \in Workers, WorkerTake(w) PROVE TypeOK'
  <2>1. Head(chan) \in Envelope /\ Tail(chan) \in Seq(Envelope)
    BY <1>12, TailRange DEF WorkerTake, TypeOK
  <2>2. runs' \in [Jobs -> Nat]
    BY <1>12, <2>1 DEF WorkerTake, TypeOK, Envelope
  <2>3. QED
    BY <1>12, <2>1, <2>2 DEF WorkerTake, TypeOK
<1>13. ASSUME NEW w \in Workers, WorkerQuit(w) PROVE TypeOK'
  BY <1>13 DEF WorkerQuit, TypeOK
<1>14. ASSUME NEW w \in Workers, WorkerSucceed(w) PROVE TypeOK'
  BY <1>14 DEF WorkerSucceed, TypeOK, Envelope
<1>15. ASSUME NEW w \in Workers, WorkerFail(w) PROVE TypeOK'
  <2>1. PICK e \in hand[w] :
             IF IsExhausted(Bump(e)) \/ Expired(e.id)
               THEN MoveToDLQ(Bump(e), "ok") /\ UNCHANGED pq
               ELSE ScheduleRetry(Bump(e))
    BY <1>15 DEF WorkerFail
  <2>2. Bump(e) \in Envelope /\ Bump(e).retry # 0
    BY BumpType DEF TypeOK
  <2>3. /\ pq' \subseteq Entry /\ dlq' \in Seq(Envelope) /\ dropped' \subseteq Jobs
        /\ trouble' \in [Jobs -> SUBSET FaultKinds]
    BY <2>1, <2>2, MoveToDLQType, ScheduleRetryType DEF TypeOK
  <2>4. QED
    BY <1>15, <2>3 DEF WorkerFail, TypeOK
<1>16. CASE UNCHANGED vars
  BY <1>16 DEF vars, TypeOK
<1>17. QED
  BY <1>1, <1>2, <1>3, <1>4, <1>5, <1>6, <1>7, <1>8, <1>9, <1>10, <1>11, <1>12,
     <1>13, <1>14, <1>15, <1>16 DEF Next, Producer, Worker

(* The state of the pool keeps its types for every value of the constants:  *)
(* the scores stay natural numbers although they are computed from three    *)
(* different times (expiry, retry and creation), and only envelopes of      *)
(* known jobs reach the queues.                                             *)
THEOREM TypeCorrect == Spec => []TypeOK
<1>1. Init => TypeOK
  BY InitType
<1>2. TypeOK /\ [Next]_vars => TypeOK'
  BY NextType
<1>3. QED
  BY <1>1, <1>2, PTL DEF Spec

(***************************************************************************)
(* One owner and bounded runs.  Each step either takes envelopes away      *)
(* (Shrink) or moves one envelope from the place that holds it to another. *)
(***************************************************************************)

(* The jobs in a channel after a send and after a receive.                  *)
LEMMA AppendIds ==
    ASSUME NEW s \in Seq(Envelope), NEW e \in Envelope
    PROVE  Ids(Append(s, e)) = Ids(s) \cup {e.id}
BY AppendRange DEF Ids

LEMMA TailIds ==
    ASSUME NEW s \in Seq(Envelope), s # <<>>
    PROVE  Ids(s) = Ids(Tail(s)) \cup {Head(s).id}
BY TailRange DEF Ids

LEMMA InitLive == Init => LiveInv
<1> SUFFICES ASSUME Init PROVE LiveInv
  OBVIOUS
<1>1. TypeOK
  BY InitType
<1>2. Range(chan) = {} /\ NotTwice(chan)
  BY DEF Init, Range, NotTwice
<1>3. Queued = {} /\ Held = {} /\ Buffered = {} /\ Running = {} /\ done = {}
  BY <1>2 DEF Init, Queued, Held, Buffered, Ids, Running, Handled
<1>4. OneOwner
  BY <1>2, <1>3 DEF Init, OneOwner, OneEnvelope, OnePlace
<1>5. RetryCountsRuns
  BY <1>2 DEF Init, RetryCountsRuns
<1>6. RunsBounded
  BY JobConstants DEF Init, RunsBounded
<1>7. NotYet /\ PollsEmptyHanded
  BY <1>3 DEF Init, NotYet, PollsEmptyHanded
<1>8. QED
  BY <1>1, <1>4, <1>5, <1>6, <1>7 DEF LiveInv

(* Taking envelopes away, by a lost reply, a crash, a dead letter or a      *)
(* refused requeue, keeps the invariant.                                    *)
LEMMA Shrink ==
    ASSUME LiveInv, TypeOK',
           pq' \subseteq pq, held' \subseteq held, chan' \in {chan, <<>>},
           \A w \in Workers : hand'[w] \subseteq hand[w],
           UNCHANGED <<createdAt, done, runs>>,
           producer' = "poll" => held' = {}
    PROVE  LiveInv'
<1> USE DEF LiveInv
<1>1. Range(chan') \subseteq Range(chan) /\ (NotTwice(chan) => NotTwice(chan'))
  BY DEF Range, NotTwice
<1>2. /\ Queued' \subseteq Queued /\ Held' \subseteq Held
      /\ Buffered' \subseteq Buffered /\ Running' \subseteq Running
  BY <1>1 DEF Queued, Held, Buffered, Ids, Running, Handled
<1>3. OneEnvelope'
  BY <1>1 DEF OneOwner, OneEnvelope
<1>4. OnePlace'
  BY <1>2 DEF OneOwner, OnePlace
<1>5. RetryCountsRuns'
  BY <1>1 DEF RetryCountsRuns, IsExhausted
<1>6. RunsBounded' /\ NotYet'
  BY <1>2 DEF RunsBounded, NotYet
<1>7. QED
  BY <1>3, <1>4, <1>5, <1>6 DEF OneOwner, PollsEmptyHanded

(* A handler creates a job no place has seen.                               *)
LEMMA EnqueueLive ==
    ASSUME LiveInv, TypeOK', NEW j \in Jobs, Enqueue(j)
    PROVE  LiveInv'
<1> USE DEF LiveInv
<1> DEFINE new == [id |-> j, retry |-> 0, score |-> Score(j, now + TTL(j))]
<1>1. /\ runs[j] = 0
      /\ j \notin Queued \cup Held \cup Buffered \cup Running \cup done
  BY DEF Enqueue, NotYet
<1>2. \A x \in pq : x.id # j
  BY <1>1 DEF Queued
<1>3. pq' = pq \/ pq' = pq \cup {new}
  BY <1>2 DEF Enqueue, ZAdd
<1>4. /\ UNCHANGED <<held, chan, hand, done, runs, producer>>
      /\ Held' = Held /\ Buffered' = Buffered /\ Running' = Running
  BY DEF Enqueue, procVars, Held, Buffered, Running, Handled
<1>5. Queued' \subseteq Queued \cup {j} /\ createdAt'[j] # Never
      /\ \A k \in Jobs \ {j} : createdAt'[k] = createdAt[k]
  BY <1>3 DEF Queued, Enqueue, TypeOK, Never
<1>6. OneEnvelope'
  BY <1>2, <1>3, <1>4 DEF OneOwner, OneEnvelope
<1>7. OnePlace'
  BY <1>1, <1>4, <1>5 DEF OneOwner, OnePlace
<1>8. RetryCountsRuns'
  <2>1. ~IsExhausted(new)
    BY JobConstants DEF IsExhausted
  <2>2. QED
    BY <1>1, <1>3, <1>4, <2>1 DEF RetryCountsRuns, IsExhausted
<1>9. RunsBounded' /\ NotYet' /\ PollsEmptyHanded'
  BY <1>1, <1>4, <1>5 DEF RunsBounded, NotYet, PollsEmptyHanded
<1>10. QED
  BY <1>6, <1>7, <1>8, <1>9 DEF OneOwner

(* A pop moves a job from the sorted set to the producer, or loses it.      *)
LEMMA PopLive ==
    ASSUME LiveInv, TypeOK', ProducerPop
    PROVE  LiveInv'
<1> USE DEF LiveInv
<1>1. PICK x \in pq, reply \in Replies(ctxDone) :
           /\ pq' = pq \ {x}
           /\ IF reply = "ok"
                THEN producer' = "check" /\ held' = {[id |-> x.id, retry |-> x.retry]}
                ELSE UNCHANGED <<producer, held>>
  BY DEF ProducerPop, Lowest, ZRem
<1>2. /\ UNCHANGED <<chan, hand, done, runs, createdAt>> /\ held = {}
      /\ Buffered' = Buffered /\ Running' = Running
  BY DEF ProducerPop, historyVars, PollsEmptyHanded, Buffered, Running, Handled
<1>3. CASE reply # "ok"
  BY <1>1, <1>2, <1>3, Shrink DEF PollsEmptyHanded
<1>4. CASE reply = "ok"
  <2>1. /\ Queued' = Queued \ {x.id} /\ Held' = {x.id} /\ x.id \in Queued
        /\ Held = {}
    <3>1. \A y \in pq : y.id = x.id => y = x
      BY DEF OneOwner, OneEnvelope
    <3>2. Queued' = Queued \ {x.id} /\ x.id \in Queued
      BY <1>1, <3>1 DEF Queued
    <3>3. Held = {}
      BY <1>2 DEF Held
    <3>4. Held' = {x.id}
      <4> DEFINE p == [id |-> x.id, retry |-> x.retry]
      <4>1. held' = {p} /\ p.id = x.id
        BY <1>1, <1>4
      <4> HIDE DEF p
      <4>2. QED
        BY <4>1 DEF Held
    <3>5. QED
      BY <3>2, <3>3, <3>4
  <2>2. OneEnvelope'
    BY <1>1, <1>2, <1>4 DEF OneOwner, OneEnvelope
  <2>3. OnePlace'
    BY <1>2, <2>1 DEF OneOwner, OnePlace
  <2>4. RetryCountsRuns'
    BY <1>1, <1>2, <1>4 DEF RetryCountsRuns, IsExhausted
  <2>5. RunsBounded' /\ NotYet' /\ PollsEmptyHanded'
    BY <1>1, <1>2, <1>4, <2>1 DEF RunsBounded, NotYet, PollsEmptyHanded
  <2>6. QED
    BY <2>2, <2>3, <2>4, <2>5 DEF OneOwner
<1>5. QED
  BY <1>3, <1>4

(* A send moves it from the producer to the channel.                        *)
LEMMA SendLive ==
    ASSUME LiveInv, TypeOK', ProducerSend
    PROVE  LiveInv'
<1> USE DEF LiveInv
<1>1. PICK e \in held : chan' = Append(chan, e)
  BY DEF ProducerSend
<1>2. /\ UNCHANGED <<pq, hand, done, runs, createdAt>> /\ held' = {}
      /\ Queued' = Queued /\ Running' = Running
  BY DEF ProducerSend, redisVars, historyVars, Queued, Running, Handled
<1>3. e \in Envelope /\ chan \in Seq(Envelope)
  BY DEF TypeOK
<1>4. Range(chan') = Range(chan) \cup {e} /\ Buffered' = Buffered \cup {e.id}
  BY <1>1, <1>3, AppendRange, AppendIds DEF Buffered
<1>5. e.id \in Held /\ Held' = {}
  BY <1>2 DEF Held
<1>6. NotTwice(chan')
  BY <1>1, <1>3, <1>5, AppendNotTwice DEF OneOwner, OneEnvelope, OnePlace, Buffered
<1>7. OneEnvelope'
  BY <1>2, <1>6 DEF OneOwner, OneEnvelope
<1>8. OnePlace'
  BY <1>2, <1>4, <1>5 DEF OneOwner, OnePlace
<1>9. RetryCountsRuns'
  BY <1>2, <1>4 DEF RetryCountsRuns, IsExhausted
<1>10. RunsBounded' /\ NotYet' /\ PollsEmptyHanded'
  BY <1>2, <1>4, <1>5 DEF RunsBounded, NotYet, PollsEmptyHanded
<1>11. QED
  BY <1>7, <1>8, <1>9, <1>10 DEF OneOwner

(* A receive moves it from the channel to a worker, which starts a run.     *)
LEMMA TakeLive ==
    ASSUME LiveInv, TypeOK', NEW w \in Workers, WorkerTake(w)
    PROVE  LiveInv'
<1> USE DEF LiveInv
<1> DEFINE e == Head(chan)
<1>1. /\ chan \in Seq(Envelope) /\ chan # <<>> /\ hand[w] = {}
      /\ chan' = Tail(chan) /\ hand' = [hand EXCEPT ![w] = {e}]
      /\ runs' = [runs EXCEPT ![e.id] = @ + 1]
  BY DEF WorkerTake, TypeOK
<1>2. /\ UNCHANGED <<pq, held, done, createdAt, producer>>
      /\ Queued' = Queued /\ Held' = Held
  BY DEF WorkerTake, redisVars, Queued, Held
<1>3. /\ e \in Envelope /\ Tail(chan) \in Seq(Envelope)
      /\ Range(chan) = Range(chan') \cup {e}
  BY <1>1, TailRange
<1>4. Buffered = Buffered' \cup {e.id}
  BY <1>1, TailIds DEF Buffered
<1>5. NotTwice(chan') /\ e.id \notin Buffered'
  BY <1>1, TailNotTwice DEF OneOwner, OneEnvelope, Buffered
<1>6. hand \in [Workers -> SUBSET Envelope] /\ runs \in [Jobs -> Nat] /\ e.id \in Jobs
  BY <1>3 DEF TypeOK, Envelope
<1>7. /\ hand'[w] = {e}
      /\ \A v \in Workers \ {w} : hand'[v] = hand[v]
      /\ runs'[e.id] = runs[e.id] + 1
      /\ \A j \in Jobs \ {e.id} : runs'[j] = runs[j]
  BY <1>1, <1>6
<1>8. Running' = Running \cup {e.id}
  BY <1>1, <1>7 DEF Running, Handled
<1>9. e.id \notin Running
  BY <1>4 DEF OneOwner, OnePlace
<1>10. OneEnvelope'
  <2>1. \A v \in Workers : \A f \in hand[v] : f.id # e.id
    BY <1>9 DEF Running, Handled
  <2>2. \A u, v \in Workers : \A f \in hand'[u], g \in hand'[v] :
           f.id = g.id => u = v /\ f = g
    BY <1>7, <2>1 DEF OneOwner, OneEnvelope
  <2>3. QED
    BY <1>2, <1>5, <2>2 DEF OneOwner, OneEnvelope
<1>11. OnePlace'
  BY <1>2, <1>4, <1>5, <1>8 DEF OneOwner, OnePlace
<1>12. runs[e.id] = e.retry /\ ~IsExhausted(e)
  BY <1>3 DEF RetryCountsRuns
<1>13. \A f \in pq' \cup held' \cup Range(chan') : f.id \in Jobs /\ f.id # e.id
  <2>1. \A f \in pq' \cup held' \cup Range(chan') :
           f.id \in Queued' \cup Held' \cup Buffered'
    BY DEF Queued, Held, Buffered, Ids
  <2>2. e.id \notin Queued' \cup Held' \cup Buffered'
    BY <1>8, <1>11 DEF OnePlace
  <2>3. \A f \in pq' \cup held' \cup Range(chan') : f.id \in Jobs
    <3>1. Range(chan') \subseteq Envelope
      BY <1>1, <1>3, RangeType
    <3>2. pq' \subseteq Entry /\ held' \subseteq Envelope
      BY DEF TypeOK
    <3>3. QED
      BY <3>1, <3>2 DEF Entry, Envelope
  <2>4. QED
    BY <2>1, <2>2, <2>3
<1>14. RetryCountsRuns'
  <2>1. \A f \in pq' \cup held' \cup Range(chan') :
           runs'[f.id] = f.retry /\ ~IsExhausted(f)
    BY <1>2, <1>3, <1>7, <1>13 DEF RetryCountsRuns
  <2>2. \A v \in Workers \ {w} : \A f \in hand'[v] :
           runs'[f.id] = f.retry + 1 /\ ~IsExhausted(f)
    <3>1. \A v \in Workers : \A f \in hand[v] : f.id \in Jobs /\ f.id # e.id
      BY <1>6, <1>9 DEF Running, Handled, Envelope
    <3>2. QED
      BY <1>7, <3>1 DEF RetryCountsRuns
  <2>3. \A f \in hand'[w] : runs'[f.id] = f.retry + 1 /\ ~IsExhausted(f)
    BY <1>7, <1>12
  <2>4. QED
    BY <2>1, <2>2, <2>3 DEF RetryCountsRuns, IsExhausted
<1>15. RunsBounded'
  <2>1. runs[e.id] + 1 <= MaxRetry(e.id)
    BY <1>6, <1>12, JobConstants DEF IsExhausted
  <2>2. QED
    BY <1>6, <1>7, <2>1 DEF RunsBounded
<1>16. NotYet' /\ PollsEmptyHanded'
  <2>1. createdAt[e.id] # Never
    BY <1>4, <1>6 DEF NotYet
  <2>2. QED
    BY <1>2, <1>4, <1>6, <1>7, <1>8, <2>1 DEF NotYet, PollsEmptyHanded
<1>17. QED
  BY <1>10, <1>11, <1>14, <1>15, <1>16 DEF OneOwner

(* A run that succeeds moves it from the worker to the finished jobs.       *)
LEMMA SucceedLive ==
    ASSUME LiveInv, TypeOK', NEW w \in Workers, WorkerSucceed(w)
    PROVE  LiveInv'
<1> USE DEF LiveInv
<1>1. PICK e \in hand[w] : done' = done \cup {e.id}
  BY DEF WorkerSucceed
<1>2. /\ UNCHANGED <<pq, held, chan, runs, createdAt, producer>>
      /\ hand' = [hand EXCEPT ![w] = {}]
      /\ Queued' = Queued /\ Held' = Held /\ Buffered' = Buffered
  BY DEF WorkerSucceed, redisVars, Queued, Held, Buffered
<1>3. /\ hand'[w] = {} /\ \A v \in Workers \ {w} : hand'[v] = hand[v]
  BY <1>2 DEF TypeOK
<1>4. e.id \in Running
  BY DEF Running, Handled
<1>5. Running' \subseteq Running \ {e.id}
  <2>1. \A v \in Workers \ {w} : \A f \in hand[v] : f.id # e.id
    BY DEF OneOwner, OneEnvelope
  <2>2. QED
    BY <1>3, <2>1 DEF Running, Handled
<1>6. OneEnvelope'
  BY <1>2, <1>3 DEF OneOwner, OneEnvelope
<1>7. OnePlace'
  BY <1>1, <1>2, <1>4, <1>5 DEF OneOwner, OnePlace
<1>8. RetryCountsRuns'
  BY <1>2, <1>3 DEF RetryCountsRuns, IsExhausted
<1>9. RunsBounded' /\ NotYet' /\ PollsEmptyHanded'
  BY <1>1, <1>2, <1>4, <1>5 DEF RunsBounded, NotYet, PollsEmptyHanded
<1>10. QED
  BY <1>6, <1>7, <1>8, <1>9 DEF OneOwner

(* A run that fails moves it back to the sorted set with its count raised,  *)
(* or takes it away.                                                        *)
LEMMA FailLive ==
    ASSUME LiveInv, TypeOK', NEW w \in Workers, WorkerFail(w)
    PROVE  LiveInv'
<1> USE DEF LiveInv
<1>1. PICK e \in hand[w] :
           IF IsExhausted(Bump(e)) \/ Expired(e.id)
             THEN MoveToDLQ(Bump(e), "ok") /\ UNCHANGED pq
             ELSE ScheduleRetry(Bump(e))
  BY DEF WorkerFail
<1>2. /\ UNCHANGED <<held, chan, runs, createdAt, done, producer>>
      /\ hand' = [hand EXCEPT ![w] = {}]
      /\ Held' = Held /\ Buffered' = Buffered
  BY DEF WorkerFail, Held, Buffered
<1>3. /\ hand'[w] = {} /\ \A v \in Workers \ {w} : hand'[v] = hand[v]
  BY <1>2 DEF TypeOK
<1>4. CASE pq' = pq
  <2>1. \A v \in Workers : hand'[v] \subseteq hand[v]
    BY <1>3
  <2>2. QED
    BY <1>2, <1>4, <2>1, Shrink DEF PollsEmptyHanded
<1>5. CASE pq' # pq
  <2> DEFINE b == Bump(e)
             x == [id |-> b.id, retry |-> b.retry,
                   score |-> Score(b.id, now + Backoff(b.retry))]
  <2>1. e \in Envelope
    BY DEF TypeOK
  <2>2. b.id = e.id /\ b.retry = e.retry + 1
    BY <2>1, BumpType
  <2>3. ~IsExhausted(b) /\ pq' = ZAdd(pq, b, now + Backoff(b.retry))
    BY <1>1, <1>5 DEF ScheduleRetry
  <2>4. e.id \in Running /\ e.id \in Jobs
    BY <2>1 DEF Running, Handled, Envelope
  <2>5. \A y \in pq : y.id # e.id
    BY <2>4 DEF OneOwner, OnePlace, Queued
  <2>6. /\ x.id = e.id /\ x.retry = e.retry + 1
        /\ pq' = pq \cup {x}
    BY <2>2, <2>3, <2>5 DEF ZAdd
  <2>7. ~IsExhausted(x)
    BY <2>2, <2>3 DEF IsExhausted
  <2> HIDE DEF x, b
  <2>8. Queued' = Queued \cup {e.id}
    BY <2>6 DEF Queued
  <2>9. Running' \subseteq Running \ {e.id}
    <3>1. \A v \in Workers \ {w} : \A f \in hand[v] : f.id # e.id
      BY DEF OneOwner, OneEnvelope
    <3>2. QED
      BY <1>3, <3>1 DEF Running, Handled
  <2>10. OneEnvelope'
    BY <1>2, <1>3, <2>5, <2>6 DEF OneOwner, OneEnvelope
  <2>11. OnePlace'
    BY <1>2, <2>4, <2>8, <2>9 DEF OneOwner, OnePlace
  <2>12. RetryCountsRuns'
    <3>1. runs[e.id] = e.retry + 1
      BY DEF RetryCountsRuns
    <3>2. QED
      BY <1>2, <1>3, <2>6, <2>7, <3>1 DEF RetryCountsRuns, IsExhausted
  <2>13. RunsBounded' /\ NotYet' /\ PollsEmptyHanded'
    BY <1>2, <2>4, <2>8, <2>9 DEF RunsBounded, NotYet, PollsEmptyHanded
  <2>14. QED
    BY <2>10, <2>11, <2>12, <2>13 DEF OneOwner
<1>6. QED
  BY <1>4, <1>5

LEMMA NextLive == LiveInv /\ [Next]_vars => LiveInv'
<1> SUFFICES ASSUME LiveInv, [Next]_vars PROVE LiveInv'
  OBVIOUS
<1>0. TypeOK'
  BY NextType DEF LiveInv
<1> USE <1>0 DEF redisVars, procVars, ctxVars, historyVars, LiveInv, PollsEmptyHanded
<1>1. CASE Tick
  BY <1>1, Shrink DEF Tick
<1>2. CASE Signal
  BY <1>2, Shrink DEF Signal
<1>3. CASE Stop
  BY <1>3, Shrink DEF Stop
<1>4. CASE Crash
  BY <1>4, Shrink DEF Crash
<1>5. ASSUME NEW j \in Jobs, Enqueue(j) PROVE LiveInv'
  BY <1>5, EnqueueLive
<1>6. CASE ProducerStop
  BY <1>6, Shrink DEF ProducerStop
<1>7. CASE ProducerPop
  BY <1>7, PopLive
<1>8. CASE ProducerExpire
  BY <1>8, Shrink DEF ProducerExpire
<1>9. CASE ProducerAdmit
  BY <1>9, Shrink DEF ProducerAdmit
<1>10. CASE ProducerSend
  BY <1>10, SendLive
<1>11. CASE ProducerRequeue
  <2>1. pq' = pq
    BY <1>11 DEF ProducerRequeue, Replies, Applied
  <2>2. QED
    BY <1>11, <2>1, Shrink DEF ProducerRequeue
<1>12. ASSUME NEW w \in Workers, WorkerTake(w) PROVE LiveInv'
  BY <1>12, TakeLive
<1>13. ASSUME NEW w \in Workers, WorkerQuit(w) PROVE LiveInv'
  BY <1>13, Shrink DEF WorkerQuit
<1>14. ASSUME NEW w \in Workers, WorkerSucceed(w) PROVE LiveInv'
  BY <1>14, SucceedLive
<1>15. ASSUME NEW w \in Workers, WorkerFail(w) PROVE LiveInv'
  BY <1>15, FailLive
<1>16. CASE UNCHANGED vars
  BY <1>16, Shrink DEF vars
<1>17. QED
  BY <1>1, <1>2, <1>3, <1>4, <1>5, <1>6, <1>7, <1>8, <1>9, <1>10, <1>11, <1>12,
     <1>13, <1>14, <1>15, <1>16 DEF Next, Producer, Worker

LEMMA LiveInvariant == Spec => []LiveInv
<1>1. Init => LiveInv
  BY InitLive
<1>2. LiveInv /\ [Next]_vars => LiveInv'
  BY NextLive
<1>3. QED
  BY <1>1, <1>2, PTL DEF Spec

(* No job is ever in two hands: not in two slots of the sorted set, the     *)
(* producer, the channel and the workers, and in none of them once it has   *)
(* succeeded, whatever replies are lost and whenever the process dies.      *)
THEOREM JobHasOneOwner == Spec => []LiveOnce
<1>1. LiveInv => LiveOnce
  BY DEF LiveInv, LiveOnce
<1>2. QED
  BY <1>1, LiveInvariant, PTL

(* A job is never run more often than its MaxRetry allows.                  *)
THEOREM RunsNeverExceedMaxRetry == Spec => []RunsBounded
<1>1. LiveInv => RunsBounded
  BY DEF LiveInv
<1>2. QED
  BY <1>1, LiveInvariant, PTL

(* The Retry count in a live envelope is the number of runs behind it.      *)
THEOREM RetryIsTheRunCount == Spec => []RetryCountsRuns
<1>1. LiveInv => RetryCountsRuns
  BY DEF LiveInv
<1>2. QED
  BY <1>1, LiveInvariant, PTL

(***************************************************************************)
(* Priorities.  A score is in the band of its priority because a job lives *)
(* in one place: no ZADD overwrites the member of another.                 *)
(***************************************************************************)

(* A member whose time is below the weight is in the band of its priority.  *)
LEMMA ScoreBand ==
    ASSUME NEW j \in Jobs, NEW retry \in Nat, NEW time \in Nat, time < PriorityWeight
    PROVE  LET x == [id |-> j, retry |-> retry, score |-> Score(j, time)]
           IN  x \in Entry /\ InBand(x)
<1>1. PriorityWeight \in Nat /\ Priority(j) \in {1, 2}
  BY WeightAssumption, JobConstants
<1>2. /\ Score(j, time) \in Nat
      /\ Priority(j) * PriorityWeight <= Score(j, time)
      /\ Score(j, time) < (Priority(j) + 1) * PriorityWeight
  <2>1. CASE Priority(j) = 1
    BY <1>1, <2>1 DEF Score
  <2>2. CASE Priority(j) = 2
    BY <1>1, <2>2 DEF Score
  <2>3. QED
    BY <1>1, <2>1, <2>2
<1>3. QED
  BY <1>2 DEF Entry, InBand

(* What a ZADD does when the job is not in the sorted set: it only adds.    *)
LEMMA ZAddNew ==
    ASSUME NEW q, NEW e \in Envelope, NEW time, \A x \in q : x.id # e.id
    PROVE  ZAdd(q, e, time) =
             q \cup {[id |-> e.id, retry |-> e.retry, score |-> Score(e.id, time)]}
BY DEF ZAdd

(* A new job is queued in its band ...                                      *)
LEMMA EnqueueBand ==
    ASSUME LiveInv, NEW j \in Jobs, Enqueue(j), pq' # pq
    PROVE  \E x \in Entry : InBand(x) /\ pq' = pq \cup {x}
<1> USE DEF LiveInv
<1>1. \A x \in pq : x.id # j
  BY DEF Enqueue, NotYet, Queued
<1>2. [id |-> j, retry |-> 0] \in Envelope
  BY DEF Envelope
<1>3. pq' = ZAdd(pq, [id |-> j, retry |-> 0], now + TTL(j))
  BY DEF Enqueue
<1>4. pq' = pq \cup {[id |-> j, retry |-> 0, score |-> Score(j, now + TTL(j))]}
  BY <1>1, <1>2, <1>3, ZAddNew
<1>5. now + TTL(j) \in Nat /\ now + TTL(j) < PriorityWeight
  BY JobConstants, TimeAssumption, WeightAssumption DEF TypeOK
<1>6. QED
  BY <1>4, <1>5, ScoreBand

(* ... and a retry, which nothing in the sorted set stands for, in its own. *)
LEMMA RetryBand ==
    ASSUME LiveInv, NEW w \in Workers, WorkerFail(w), pq' # pq
    PROVE  \E x \in Entry : InBand(x) /\ pq' = pq \cup {x}
<1> USE DEF LiveInv
<1>1. PICK e \in hand[w] : ~IsExhausted(Bump(e)) /\ ScheduleRetry(Bump(e))
  BY DEF WorkerFail
<1>2. e \in Envelope
  BY DEF TypeOK
<1> DEFINE b == Bump(e)
           time == now + Backoff(b.retry)
<1>3. b \in Envelope /\ b.id = e.id /\ b.retry # 0
  BY <1>2, BumpType
<1>4. b.id \in Jobs /\ b.retry \in Nat /\ b.retry \in 1..MaxRetry(b.id)
  BY <1>1, <1>3, JobConstants DEF IsExhausted, Envelope
<1>5. \A x \in pq : x.id # b.id
  BY <1>3 DEF OneOwner, OnePlace, Queued, Running, Handled
<1>6. pq' = ZAdd(pq, b, time)
  BY <1>1 DEF ScheduleRetry
<1> HIDE DEF b
<1>7. time \in Nat /\ time < PriorityWeight
  <2>1. Backoff(b.retry) \in Nat /\ MaxTime + Backoff(b.retry) < PriorityWeight
    BY <1>4, BackoffAssumption, WeightAssumption
  <2>2. QED
    BY <2>1, TimeAssumption, WeightAssumption DEF TypeOK
<1> HIDE DEF time
<1>8. pq' = pq \cup {[id |-> b.id, retry |-> b.retry, score |-> Score(b.id, time)]}
  BY <1>3, <1>5, <1>6, ZAddNew
<1>9. QED
  BY <1>4, <1>7, <1>8, ScoreBand

(* Every step leaves the sorted set alone, pops a member with the lowest    *)
(* score, or adds one member in its band.                                   *)
LEMMA QueueSteps ==
    ASSUME LiveInv, [Next]_vars
    PROVE  \/ pq' = pq
           \/ \E x \in Lowest(pq) : pq' = pq \ {x}
           \/ \E x \in Entry : InBand(x) /\ pq' = pq \cup {x}
<1> USE DEF redisVars, procVars, ctxVars, historyVars
<1>1. CASE ProducerPop
  BY <1>1 DEF ProducerPop, ZRem
<1>2. CASE ProducerRequeue
  BY <1>2 DEF ProducerRequeue, Replies, Applied
<1>3. CASE \/ Tick \/ Signal \/ Stop \/ Crash \/ ProducerStop \/ ProducerExpire
           \/ ProducerAdmit \/ ProducerSend \/ UNCHANGED vars
  BY <1>3 DEF Tick, Signal, Stop, Crash, ProducerStop, ProducerExpire, ProducerAdmit,
              ProducerSend, vars
<1>4. ASSUME NEW w \in Workers, WorkerTake(w) \/ WorkerQuit(w) \/ WorkerSucceed(w)
      PROVE  pq' = pq
  BY <1>4 DEF WorkerTake, WorkerQuit, WorkerSucceed
<1>5. QED
  BY <1>1, <1>2, <1>3, <1>4, EnqueueBand, RetryBand DEF Next, Producer, Worker

LEMMA NextBand == LiveInv /\ ScoreInBand /\ [Next]_vars => ScoreInBand'
<1> SUFFICES ASSUME LiveInv, ScoreInBand, [Next]_vars PROVE ScoreInBand'
  OBVIOUS
<1>1. \/ pq' \subseteq pq
      \/ \E x \in Entry : InBand(x) /\ pq' = pq \cup {x}
  BY QueueSteps
<1>2. QED
  BY <1>1 DEF ScoreInBand, InBand, Priority

(* A member with the lowest score has the most urgent priority.             *)
LEMMA LowestIsUrgent ==
    ASSUME TypeOK, ScoreInBand, NEW x \in Lowest(pq), NEW y \in pq
    PROVE  Priority(x.id) <= Priority(y.id)
<1>1. x \in pq /\ x.score <= y.score
  BY DEF Lowest
<1>2. /\ x.id \in Jobs /\ y.id \in Jobs /\ x.score \in Nat /\ y.score \in Nat
      /\ PriorityWeight \in Nat
  BY <1>1, WeightAssumption DEF TypeOK, Entry
<1>3. Priority(x.id) \in {1, 2} /\ Priority(y.id) \in {1, 2}
  BY <1>2, JobConstants
<1>4. ASSUME Priority(x.id) = 2, Priority(y.id) = 1 PROVE FALSE
  <2>1. x.score >= 2 * PriorityWeight
    BY <1>1, <1>2, <1>4 DEF ScoreInBand, InBand
  <2>2. y.score <= 2 * PriorityWeight - 1
    BY <1>2, <1>4 DEF ScoreInBand, InBand
  <2>3. QED
    BY <1>1, <1>2, <2>1, <2>2
<1>5. QED
  BY <1>3, <1>4

(* The producer never pops a job while one of a more urgent priority waits, *)
(* for any bound on the clock, time-to-live and backoff below the weight.   *)
THEOREM PopsMostUrgent == Spec => PopPriority
<1>1. Init => ScoreInBand
  BY DEF Init, ScoreInBand
<1>2. LiveInv /\ ScoreInBand /\ [Next]_vars
        => [\A x \in pq \ pq', y \in pq : Priority(x.id) <= Priority(y.id)]_vars
  <2> SUFFICES ASSUME LiveInv, ScoreInBand, [Next]_vars,
                      NEW x \in pq \ pq', NEW y \in pq
               PROVE  Priority(x.id) <= Priority(y.id)
    OBVIOUS
  <2>1. x \in Lowest(pq)
    BY QueueSteps
  <2>2. QED
    BY <2>1, LowestIsUrgent DEF LiveInv
<1>3. QED
  BY <1>1, <1>2, LiveInvariant, NextBand, PTL DEF Spec, PopPriority
=============================================================================
