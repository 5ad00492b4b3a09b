----------------------------- MODULE DeadLetter -----------------------------
(***************************************************************************)
(* What becomes of a dead lettered job.  The mover goroutine               *)
(* (start-dlq-worker.go) takes jobs from the Redis list                    *)
(* "priority_queue_dlq" and saves each as a document of the MongoDB        *)
(* collection "dlq_jobs".  The retry consumer (retry-dlq-worker.go)        *)
(* fetches a batch of documents on every tick of its ticker, runs each job *)
(* again with HandleJob, and writes the outcome back.                      *)
(*                                                                         *)
(* The unit of time is the consumer's RetryInterval.  A document's         *)
(* next_retry_at is kept as the number of ticks still to wait.  Documents  *)
(* are numbered in the order of their created_at.  The deletion of a       *)
(* document by the TTL index (7 days) is left out.                         *)
(*                                                                         *)
(* Two constants say what the stores and drivers that are deployed do.  By *)
(* initMongo.go the validator is in force (Validated), and it rejects      *)
(* every document.  DLQJob.ID is an ObjectID of the first version of the   *)
(* driver and the collection belongs to the second, which decodes the _id  *)
(* of no document into it (~IdDecodes), and so decodes no batch; the       *)
(* updates by that _id, which would match no document, are never reached.  *)
(* With the one off and the other on, the model does whatever the code     *)
(* does, and what the code is written to do besides.                       *)
(***************************************************************************)
EXTENDS Integers, Sequences, FiniteSets

CONSTANTS
    Jobs,            \* jobs that the worker pool may dead letter
    Parsable,        \* those whose Payload unmarshals as a queue.Job
    Validated,       \* is the validator of initDLQCollection in force?
    IdDecodes,       \* does the driver decode the _id of a document?
    MaxRetryCount,   \* DLQConfig
    BatchSize,       \* DLQConfig
    Backoff,         \* BackoffFactor ^ n, for the n-th retry, in RetryIntervals
    MaxDocs,         \* bound on the number of documents; without a fault there
                     \* are no more than jobs
    Faults           \* as in WorkerPool

ASSUME JobsAssumption   == Parsable \subseteq Jobs
ASSUME StoreAssumption  == {Validated, IdDecodes} \subseteq BOOLEAN
ASSUME ConfigAssumption == {MaxRetryCount, BatchSize, MaxDocs} \subseteq Nat \ {0}
ASSUME BackoffAssumption == Backoff \in [1..MaxRetryCount -> Nat]
ASSUME DocsAssumption   == Cardinality(Jobs) <= MaxDocs
ASSUME FaultsAssumption == Faults \subseteq {"refused", "lostReply", "crash"}

VARIABLES
    unburied,     \* jobs the worker pool has not dead lettered yet
    dlq,          \* "priority_queue_dlq"
    mover,        \* where the DLQ worker is
    carried,      \* the job in its local variable, if any
    docs,         \* the documents of "dlq_jobs"
    consumer,     \* where the retry consumer is
    batch,        \* what remains of the decoded batch: snapshots of documents
    tickPending,  \* a tick waits in the ticker's channel
    ctxDone,      \* the context of the pool
    trouble       \* history: a call failed in a way that the code cannot make
                  \* good, or the process died

moverVars    == <<mover, carried>>
consumerVars == <<consumer, batch, tickPending>>
vars == <<unburied, dlq, moverVars, docs, consumerVars, ctxDone, trouble>>

Init ==
    /\ unburied = Jobs
    /\ dlq = <<>> /\ mover = "pop" /\ carried = {}
    /\ docs = <<>>
    /\ consumer = "wait" /\ batch = <<>> /\ tickPending = FALSE
    /\ ctxDone = FALSE /\ trouble = FALSE

-----------------------------------------------------------------------------
(* The stores.                                                              *)

Replies == IF ctxDone THEN {"refused"} ELSE {"ok"} \cup (Faults \cap {"refused", "lostReply"})
Applied(reply) == reply \in {"ok", "lostReply"}
\* After some calls the code goes on from a refusal as if nothing had been
\* asked, after others not; what took effect unnoticed it never makes good.
Note(reply)     == trouble' = (trouble \/ (reply # "ok" /\ ~ctxDone))
NoteLost(reply) == trouble' = (trouble \/ reply = "lostReply")

\* The BSON types that the validator accepts, and those the driver writes.
Schema ==
    [job_id     |-> {"string"},    type       |-> {"string"},
     status     |-> {"string"},    payload    |-> {"object", "array"},
     error_msg  |-> {"string"},    retry_count |-> {"int"},
     created_at |-> {"timestamp"}, updated_at |-> {"timestamp"},
     expired_at |-> {"timestamp"}]
Encoded ==
    [job_id     |-> "string",      type       |-> "string",
     status     |-> "string",      payload    |-> "binData",
     error_msg  |-> "string",      retry_count |-> "int",
     created_at |-> "date",        updated_at |-> "date",
     expired_at |-> "date"]
Rejected == Validated /\ \E f \in DOMAIN Schema : Encoded[f] \notin Schema[f]

\* Bound: a collection of MaxDocs documents refuses another one.
InsertReplies == IF Rejected \/ Len(docs) = MaxDocs THEN {"refused"} ELSE Replies

\* attempts and succeeded are history: the runs of HandleJob on the document.
NewDoc(j) == [job |-> j, status |-> "pending", retryCount |-> 0, wait |-> 0,
              attempts |-> 0, succeeded |-> FALSE]

\* UpdateOne with $set on the document of the batch's first snapshot.
Current == Head(batch)
Set(reply, new) ==
    docs' = IF Applied(reply) THEN [docs EXCEPT ![Current.doc] = new] ELSE docs

\* The filter of processDLQJobs.
ReadyAnyStatus(d) == docs[d].retryCount < MaxRetryCount /\ docs[d].wait = 0
Ready(d) ==
    /\ docs[d].status \in {"pending", "failed"}
    /\ docs[d].retryCount < MaxRetryCount
    /\ docs[d].wait = 0

-----------------------------------------------------------------------------
(* The environment.                                                         *)

\* moveToDLQ of the worker pool.
Bury(j) ==
    /\ j \in unburied
    /\ unburied' = unburied \ {j}
    /\ dlq' = Append(dlq, j)
    /\ UNCHANGED <<moverVars, docs, consumerVars, ctxDone, trouble>>

\* A RetryInterval passes; a ticker's channel holds one tick.
Tick ==
    /\ docs' = [d \in DOMAIN docs |->
                  [docs[d] EXCEPT !.wait = IF @ = 0 THEN 0 ELSE @ - 1]]
    /\ tickPending' = TRUE
    /\ UNCHANGED <<unburied, dlq, moverVars, consumer, batch, ctxDone, trouble>>

Cancel ==
    /\ ~ctxDone
    /\ ctxDone' = TRUE
    /\ UNCHANGED <<unburied, dlq, moverVars, docs, consumerVars, trouble>>

\* The process dies and a new one starts.
Crash ==
    /\ "crash" \in Faults
    /\ mover' = "pop" /\ carried' = {}
    /\ consumer' = "wait" /\ batch' = <<>> /\ tickPending' = FALSE
    /\ ctxDone' = FALSE /\ trouble' = TRUE
    /\ UNCHANGED <<unburied, dlq, docs>>

-----------------------------------------------------------------------------
(* The DLQ worker: BLPOP, InsertOne, and RPUSH as the fallback.             *)

\* The call is sent; from here on cancelling the context does not stop it.
MoverCall ==
    /\ mover = "pop" /\ ~ctxDone
    /\ mover' = "blocked"
    /\ UNCHANGED <<unburied, dlq, carried, docs, consumerVars, ctxDone, trouble>>

MoverPop ==
    /\ mover = "blocked" /\ dlq # <<>>
    /\ dlq' = Tail(dlq)
    /\ \/ mover' = "insert" /\ carried' = {Head(dlq)} /\ UNCHANGED trouble
       \/ "lostReply" \in Faults /\ mover' = "pop" /\ trouble' = TRUE /\ UNCHANGED carried
    /\ UNCHANGED <<unburied, docs, consumerVars, ctxDone>>

\* The timeout of 10 seconds, or an error.
MoverNothing ==
    /\ mover = "blocked"
    /\ dlq = <<>> \/ "refused" \in Faults
    /\ mover' = "pop"
    /\ UNCHANGED <<unburied, dlq, carried, docs, consumerVars, ctxDone, trouble>>

MoverInsertAndPushBack ==
    /\ mover = "insert"
    /\ \E j \in carried, reply \in InsertReplies :
          /\ docs' = IF Applied(reply) THEN Append(docs, NewDoc(j)) ELSE docs
          /\ NoteLost(reply)
    /\ mover' = "pushback"
    /\ UNCHANGED <<unburied, dlq, carried, consumerVars, ctxDone>>
MoverInsert ==
    /\ mover = "insert"
    /\ \E j \in carried, reply \in InsertReplies :
          /\ docs' = IF Applied(reply) THEN Append(docs, NewDoc(j)) ELSE docs
          /\ NoteLost(reply)
          /\ IF reply = "ok" THEN mover' = "pop" /\ carried' = {}
                             ELSE mover' = "pushback" /\ UNCHANGED carried
    /\ UNCHANGED <<unburied, dlq, consumerVars, ctxDone>>

\* The error of the RPUSH is ignored.
MoverPushBack ==
    /\ mover = "pushback"
    /\ \E j \in carried, reply \in Replies :
          /\ dlq' = IF Applied(reply) THEN Append(dlq, j) ELSE dlq
          /\ Note(reply)
    /\ mover' = "pop" /\ carried' = {}
    /\ UNCHANGED <<unburied, docs, consumerVars, ctxDone>>

MoverStop ==
    /\ mover = "pop" /\ ctxDone
    /\ mover' = "stopped"
    /\ UNCHANGED <<unburied, dlq, carried, docs, consumerVars, ctxDone, trouble>>

-----------------------------------------------------------------------------
(* The retry consumer.                                                      *)

\* What Find returns: the first BatchSize of the documents that are ready.
IsPage(found) ==
    /\ \A i, k \in DOMAIN found : i < k => found[i] < found[k]
    /\ \A i \in DOMAIN found : Ready(found[i])
    /\ \A d \in DOMAIN docs : Ready(d) =>
          \/ \E i \in DOMAIN found : found[i] = d
          \/ Len(found) = BatchSize /\ found[BatchSize] < d
Pages == {found \in UNION {[1..n -> DOMAIN docs] : n \in 0..BatchSize} : IsPage(found)}

\* Ping, Find with the sort and the limit, and All, which fails on the first
\* document it cannot decode: a snapshot, or nothing.
ConsumerFetch ==
    /\ consumer = "wait" /\ tickPending
    /\ tickPending' = FALSE
    /\ \E reply \in Replies, found \in Pages :
          IF reply = "ok" /\ IdDecodes /\ found # <<>>
            THEN /\ batch' = [i \in DOMAIN found |->
                                [doc |-> found[i], retryCount |-> docs[found[i]].retryCount]]
                 /\ consumer' = "mark"
            ELSE UNCHANGED <<batch, consumer>>
    /\ UNCHANGED <<unburied, dlq, moverVars, docs, ctxDone, trouble>>

\* On to the next document of the batch, or back to the ticker.
NextDoc ==
    /\ batch' = Tail(batch)
    /\ consumer' = IF Len(batch) > 1 THEN "mark" ELSE "wait"

\* Status "processing"; an error skips the document.
ConsumerMark ==
    /\ consumer = "mark"
    /\ \E reply \in Replies :
          /\ Set(reply, [docs[Current.doc] EXCEPT !.status = "processing"])
          /\ NoteLost(reply)
          /\ IF reply = "ok" THEN consumer' = "handle" /\ UNCHANGED batch ELSE NextDoc
    /\ UNCHANGED <<unburied, dlq, moverVars, tickPending, ctxDone>>

ConsumerRejectUnmarked ==
    /\ consumer = "handle" /\ docs[Current.doc].job \notin Parsable
    /\ NextDoc
    /\ UNCHANGED <<unburied, dlq, moverVars, docs, tickPending, ctxDone, trouble>>

\* The payload is no job: markDLQJobAsFailed; next_retry_at stays as it is.
ConsumerReject ==
    /\ consumer = "handle" /\ docs[Current.doc].job \notin Parsable
    /\ \E reply \in Replies :
          Set(reply, [docs[Current.doc] EXCEPT !.status = "failed"]) /\ Note(reply)
    /\ NextDoc
    /\ UNCHANGED <<unburied, dlq, moverVars, tickPending, ctxDone>>

\* HandleJob runs and returns.
ConsumerHandle ==
    /\ consumer = "handle" /\ docs[Current.doc].job \in Parsable
    /\ \E ok \in BOOLEAN :
          /\ docs' = [docs EXCEPT ![Current.doc].attempts = @ + 1,
                                  ![Current.doc].succeeded = @ \/ ok]
          /\ consumer' = IF ok THEN "complete" ELSE "fail"
    /\ UNCHANGED <<unburied, dlq, moverVars, batch, tickPending, ctxDone, trouble>>

ConsumerComplete ==
    /\ consumer = "complete"
    /\ \E reply \in Replies :
          Set(reply, [docs[Current.doc] EXCEPT !.status = "completed"]) /\ Note(reply)
    /\ NextDoc
    /\ UNCHANGED <<unburied, dlq, moverVars, tickPending, ctxDone>>

FailedDocUncounted(doc, retryCount) ==
    [doc EXCEPT !.status = "failed", !.wait = Backoff[retryCount + 1]]
FailedDocEarly(doc, retryCount) ==
    IF retryCount + 2 >= MaxRetryCount
      THEN [doc EXCEPT !.status = "permanently_failed"]
      ELSE [doc EXCEPT !.status = "failed", !.retryCount = retryCount + 1,
                       !.wait = Backoff[retryCount + 1]]
\* The update of handleDLQRetryFailure, from the count in the snapshot.
FailedDoc(doc, retryCount) ==
    IF retryCount + 1 >= MaxRetryCount
      THEN [doc EXCEPT !.status = "permanently_failed"]
      ELSE [doc EXCEPT !.status = "failed", !.retryCount = retryCount + 1,
                       !.wait = Backoff[retryCount + 1]]

ConsumerFail ==
    /\ consumer = "fail"
    /\ \E reply \in Replies :
          Set(reply, FailedDoc(docs[Current.doc], Current.retryCount)) /\ Note(reply)
    /\ NextDoc
    /\ UNCHANGED <<unburied, dlq, moverVars, tickPending, ctxDone>>

ConsumerStop ==
    /\ consumer = "wait" /\ ctxDone
    /\ consumer' = "stopped"
    /\ UNCHANGED <<unburied, dlq, moverVars, docs, batch, tickPending, ctxDone, trouble>>

-----------------------------------------------------------------------------
Mover    == \/ MoverCall \/ MoverPop \/ MoverNothing
            \/ MoverInsert \/ MoverPushBack \/ MoverStop
Consumer == \/ ConsumerFetch \/ ConsumerMark \/ ConsumerReject \/ ConsumerHandle
            \/ ConsumerComplete \/ ConsumerFail \/ ConsumerStop

Next ==
    \/ Tick \/ Cancel \/ Crash
    \/ \E j \in Jobs : Bury(j)
    \/ Mover \/ Consumer

Spec == Init /\ [][Next]_vars

(* Time passes, and goroutines that can run do run.  Whether a run of       *)
(* HandleJob succeeds is not assumed.  When both the context and the ticker *)
(* are ready, select chooses at random, so ConsumerStop is fair by itself.  *)
FairSpec ==
    /\ Spec
    /\ WF_vars(Tick) /\ WF_vars(Mover) /\ WF_vars(Consumer) /\ WF_vars(ConsumerStop)

-----------------------------------------------------------------------------
Final == {"completed", "permanently_failed"}
InList(j) == {i \in DOMAIN dlq : dlq[i] = j}
InDocs(j) == {d \in DOMAIN docs : docs[d].job = j}
Places(j) == ({"list"} \X InList(j)) \cup ({"docs"} \X InDocs(j))
                \cup ({"mover"} \X (carried \cap {j}))

(* Type invariant.                                                          *)
TypeOK ==
    /\ unburied \subseteq Jobs
    /\ dlq \in Seq(Jobs)
    /\ mover \in {"pop", "blocked", "insert", "pushback", "stopped"} /\ carried \subseteq Jobs
    /\ docs \in Seq([job : Jobs, retryCount : 0..(MaxRetryCount - 1),
                     status : {"pending", "processing", "failed"} \cup Final,
                     wait : Nat, attempts : Nat, succeeded : BOOLEAN])
    /\ consumer \in {"wait", "mark", "handle", "complete", "fail", "stopped"}
    /\ batch \in Seq([doc : DOMAIN docs, retryCount : 0..(MaxRetryCount - 1)])
    /\ (batch = <<>>) <=> (consumer \in {"wait", "stopped"})
    /\ {tickPending, ctxDone, trouble} \subseteq BOOLEAN

(* A document is run at most MaxRetryCount times, although the count is     *)
(* written back from a snapshot and any of the writes may fail or be cut    *)
(* off by a crash (retry-dlq-worker.go:124-150).  TypeOK is checked with    *)
(* it.                                                                      *)
AttemptsBounded ==
    TypeOK /\ \A d \in DOMAIN docs : docs[d].attempts <= MaxRetryCount

(* "completed" and "permanently_failed" are final, and a document is never  *)
(* run again after a run that succeeded, even when the write of "completed" *)
(* fails, its reply is lost or the process dies before it: "processing"     *)
(* keeps it out of every later batch (retry-dlq-worker.go:92-129).          *)
FinalIsFinal ==
    [][\A d \in DOMAIN docs :
          /\ docs[d].status \in Final => docs'[d] = docs[d]
          /\ docs[d].succeeded => docs'[d].attempts = docs[d].attempts]_vars

(* A document is "processing" only while the consumer works on it, so that  *)
(* none is stranded out of the reach of the filter: no refused ping, find,  *)
(* decoding or mark strands one, until the pool is shut down or a call      *)
(* fails that leaves one behind, of which the code sees no more than a log  *)
(* line (retry-dlq-worker.go:90-97, 139-155).                               *)
ProcessingIsOwned ==
    ~trouble /\ ~ctxDone =>
        \A d \in DOMAIN docs : docs[d].status = "processing" =>
            consumer \in {"handle", "complete", "fail"} /\ Current.doc = d

(* A dead lettered job is in exactly one of the list, the mover's hand and  *)
(* the collection, however often inserts are refused and pushed back, until *)
(* the pool is shut down, the push back fails too, the reply of a pop or an *)
(* insert is lost, or the process dies (start-dlq-worker.go:23-65).         *)
DeadLetterKeptOnce ==
    ~trouble /\ ~ctxDone =>
        \A j \in Jobs \ unburied : \E place \in Places(j) : Places(j) = {place}

\* What has become of a document: in "processing" it may have been run.
Stage(doc) ==
    IF doc.status \in Final THEN doc.status
    ELSE IF doc.status # "processing" THEN "waiting"
    ELSE IF doc.succeeded THEN "succeeded"
    ELSE IF doc.attempts > doc.retryCount THEN "failed" ELSE "taken"

Stages == [d \in DOMAIN docs |-> Stage(docs[d])]
Runs   == [d \in DOMAIN docs |-> docs[d].attempts]

Documents == INSTANCE DocumentLifecycle WITH
    Limit <- MaxRetryCount, status <- Stages, runs <- Runs

(* The consumer implements DocumentLifecycle: each write is about one       *)
(* document that its stage allows, whatever was fetched when; a document is *)
(* given up after exactly MaxRetryCount failed runs, although the count is  *)
(* that of a snapshot (retry-dlq-worker.go:59-150).                         *)
ImplementsDocuments == Documents!Spec

-----------------------------------------------------------------------------
(* A claim of a comment, checked by a run of its own.                       *)

(* "save to MongoDB DLQ collection" (start-dlq-worker.go:44).               *)
DeadLetterSaved == \A j \in Jobs : (j \in carried) ~> (ctxDone \/ InDocs(j) # {})
=============================================================================
