-------------------------- MODULE DeadLetterProofs --------------------------
(* Theorems about DeadLetter, for any number of jobs and documents, any     *)
(* limits and any of the faults.                                            *)
EXTENDS DeadLetter, SequenceTheorems, TLAPS

(***************************************************************************)
(* The inductive invariant.                                                *)
(***************************************************************************)

DocType == [job : Jobs, retryCount : 0..(MaxRetryCount - 1),
            status : {"pending", "processing", "failed"} \cup Final,
            wait : Nat, attempts : Nat, succeeded : BOOLEAN]
Waiting == {"pending", "failed"}

\* The count of a document that may be fetched is that of its runs, none of
\* which succeeded; the others are at most one run ahead, and wait for nothing.
Counted ==
    \A d \in DOMAIN docs :
        /\ docs[d].attempts <= docs[d].retryCount + 1
        /\ IF docs[d].status \in Waiting
             THEN docs[d].attempts = docs[d].retryCount /\ ~docs[d].succeeded
             ELSE docs[d].wait = 0

\* The snapshots of a batch are of distinct documents and still true, and all
\* but the one at work wait to be marked.
BatchIsFresh ==
    /\ \A i \in DOMAIN batch :
          /\ batch[i].retryCount = docs[batch[i].doc].retryCount
          /\ docs[batch[i].doc].wait = 0
          /\ (i > 1 \/ consumer = "mark") => docs[batch[i].doc].status \in Waiting
    /\ \A i, k \in DOMAIN batch : i # k => batch[i].doc # batch[k].doc

\* The document at work is "processing"; its count is that of its runs until
\* HandleJob has returned, and then one behind.
WorkIsMarked ==
    consumer \in {"handle", "complete", "fail"} =>
        /\ docs[Current.doc].status = "processing"
        /\ consumer = "handle" => docs[Current.doc].attempts = docs[Current.doc].retryCount
        /\ consumer = "fail" => docs[Current.doc].attempts = docs[Current.doc].retryCount + 1
        /\ consumer = "complete" <=> docs[Current.doc].succeeded

DocsInv == TypeOK /\ Counted /\ BatchIsFresh /\ WorkIsMarked /\ ProcessingIsOwned

(***************************************************************************)
(* Steps.                                                                  *)
(***************************************************************************)

(* The snapshots Find returns are of distinct documents that are ready.     *)
LEMMA PageFacts ==
    ASSUME DocsInv, NEW found \in Pages
    PROVE  /\ found \in Seq(DOMAIN docs)
           /\ DOMAIN found = 1..Len(found)
           /\ \A i \in DOMAIN found : found[i] \in DOMAIN docs /\ Ready(found[i])
           /\ \A i, k \in DOMAIN found : i # k => found[i] # found[k]
<1>1. /\ docs \in Seq(DocType) /\ BatchSize \in Nat
  BY ConfigAssumption DEF DocsInv, TypeOK, DocType
<1>2. PICK n \in 0..BatchSize : found \in [1..n -> DOMAIN docs]
  BY DEF Pages
<1>3. found \in Seq(DOMAIN docs) /\ Len(found) = n
  BY <1>1, <1>2
<1>4. \A i \in DOMAIN found : found[i] \in 1..Len(docs)
  BY <1>1, <1>2
<1>5. \A i, k \in DOMAIN found : i < k => found[i] < found[k]
  BY DEF Pages, IsPage
<1>6. \A i, k \in DOMAIN found : i # k => found[i] # found[k]
  BY <1>2, <1>4, <1>5
<1>7. QED
  BY <1>2, <1>3, <1>6 DEF Pages, IsPage

(* A sequence is empty when its length is zero.                             *)
LEMMA EmptyFacts ==
    ASSUME NEW S, NEW s \in Seq(S)
    PROVE  s = <<>> <=> Len(s) = 0
<1>1. Len(<<>>) = 0
  BY EmptySeq
<1>2. s # <<>> => Len(s) \in Nat \ {0}
  BY EmptySeq
<1>3. QED
  BY <1>1, <1>2, Zenon

(* The snapshot of the document at work, and the rest of the batch.         *)
LEMMA BatchFacts ==
    ASSUME DocsInv, batch # <<>>
    PROVE  /\ Len(batch) \in Nat \ {0} /\ DOMAIN batch = 1..Len(batch)
           /\ Current = batch[1] /\ Current.doc \in DOMAIN docs
           /\ Current.retryCount \in 0..(MaxRetryCount - 1)
           /\ \A i \in DOMAIN batch : batch[i].doc \in DOMAIN docs
           /\ Tail(batch) \in Seq([doc : DOMAIN docs, retryCount : 0..(MaxRetryCount - 1)])
           /\ DOMAIN Tail(batch) = 1..(Len(batch) - 1)
           /\ \A i \in DOMAIN Tail(batch) : Tail(batch)[i] = batch[i + 1]
           /\ Tail(batch) = <<>> <=> Len(batch) = 1
<1> DEFINE Snapshots == [doc : DOMAIN docs, retryCount : 0..(MaxRetryCount - 1)]
<1>1. batch \in Seq(Snapshots)
  BY DEF DocsInv, TypeOK
<1> HIDE DEF Snapshots
<1>2. Len(batch) \in Nat \ {0} /\ DOMAIN batch = 1..Len(batch) /\ Head(batch) = batch[1]
  BY <1>1, EmptySeq, LenProperties
<1>3. \A i \in DOMAIN batch : batch[i] \in Snapshots
  BY <1>1, <1>2, ElementOfSeq
<1>4. /\ Tail(batch) \in Seq(Snapshots) /\ Len(Tail(batch)) = Len(batch) - 1
      /\ \A i \in 1..Len(Tail(batch)) : Tail(batch)[i] = batch[i + 1]
  BY <1>1, HeadTailProperties
<1>5. DOMAIN Tail(batch) = 1..(Len(batch) - 1)
  BY <1>4, LenProperties
<1>6. Tail(batch) = <<>> <=> Len(batch) = 1
  <2>1. Tail(batch) = <<>> <=> Len(Tail(batch)) = 0
    BY <1>4, EmptyFacts
  <2>2. QED
    BY <1>2, <1>4, <2>1
<1>7. 1 \in DOMAIN batch
  BY <1>2
<1>8. Current.doc \in DOMAIN docs /\ Current.retryCount \in 0..(MaxRetryCount - 1)
  BY <1>2, <1>3, <1>7 DEF Current, Snapshots
<1>9. \A i \in DOMAIN batch : batch[i].doc \in DOMAIN docs
  BY <1>3 DEF Snapshots
<1>10. QED
  BY <1>2, <1>4, <1>5, <1>6, <1>8, <1>9 DEF Current, Snapshots

(* A write of the consumer changes the document at work only.               *)
LEMMA SetFacts ==
    ASSUME DocsInv, batch # <<>>, NEW new \in DocType,
           docs' \in {docs, [docs EXCEPT ![Current.doc] = new]}
    PROVE  /\ docs' \in Seq(DocType) /\ DOMAIN docs' = DOMAIN docs
           /\ Current.doc \in DOMAIN docs
           /\ \A d \in DOMAIN docs : d # Current.doc => docs'[d] = docs[d]
           /\ docs'[Current.doc] \in {docs[Current.doc], new}
<1>1. docs \in Seq(DocType) /\ Current.doc \in DOMAIN docs
  BY BatchFacts DEF DocsInv, TypeOK, DocType
<1>2. DOMAIN docs = 1..Len(docs)
  BY <1>1, LenProperties
<1>3. docs' \in Seq(DocType) /\ DOMAIN docs' = DOMAIN docs
  BY <1>1, <1>2, ExceptSeq, LenProperties
<1>4. QED
  BY <1>1, <1>3

(* The rest of the batch is as fresh as it was.                             *)
LEMMA NextDocFacts ==
    ASSUME DocsInv, batch # <<>>, NextDoc, DOMAIN docs' = DOMAIN docs,
           \A d \in DOMAIN docs : d # Current.doc => docs'[d] = docs[d]
    PROVE  /\ batch' \in Seq([doc : DOMAIN docs', retryCount : 0..(MaxRetryCount - 1)])
           /\ (batch' = <<>>) <=> (consumer' \in {"wait", "stopped"})
           /\ consumer' \in {"wait", "mark"}
           /\ BatchIsFresh' /\ WorkIsMarked'
<1>1. BatchIsFresh /\ batch' = Tail(batch)
      /\ consumer' = IF Len(batch) > 1 THEN "mark" ELSE "wait"
  BY DEF DocsInv, NextDoc
<1>2. /\ \A i \in DOMAIN batch' : i + 1 \in DOMAIN batch /\ i + 1 > 1 /\ batch'[i] = batch[i + 1]
      /\ \A i, k \in DOMAIN batch' : i # k => i + 1 # k + 1
  BY <1>1, BatchFacts
<1>3. \A i \in DOMAIN batch' : batch'[i].doc # Current.doc /\ batch'[i].doc \in DOMAIN docs
  <2>1. 1 \in DOMAIN batch /\ Current = batch[1]
    BY BatchFacts
  <2>2. \A i \in DOMAIN batch' : i + 1 # 1
    BY <1>1, BatchFacts
  <2>3. QED
    BY <1>1, <1>2, <2>1, <2>2, BatchFacts DEF BatchIsFresh
<1>4. \A i \in DOMAIN batch' :
          /\ batch'[i].retryCount = docs'[batch'[i].doc].retryCount
          /\ docs'[batch'[i].doc].wait = 0
          /\ docs'[batch'[i].doc].status \in Waiting
  BY <1>1, <1>2, <1>3 DEF BatchIsFresh
<1>5. \A i, k \in DOMAIN batch' : i # k => batch'[i].doc # batch'[k].doc
  BY <1>1, <1>2 DEF BatchIsFresh
<1>6. BatchIsFresh' /\ WorkIsMarked'
  BY <1>1, <1>4, <1>5 DEF BatchIsFresh, WorkIsMarked
<1>7. /\ (batch' = <<>>) <=> (consumer' \in {"wait", "stopped"})
      /\ consumer' \in {"wait", "mark"}
  BY <1>1, BatchFacts
<1>8. QED
  BY <1>1, <1>6, <1>7, BatchFacts

(* Steps that leave the collection and the retry consumer alone: the pool   *)
(* dead letters a job or is shut down, and the DLQ worker does anything but *)
(* insert.                                                                  *)
LEMMA ListStep ==
    ASSUME DocsInv,
           \/ \E j \in Jobs : Bury(j)
           \/ Cancel \/ MoverCall \/ MoverPop \/ MoverNothing \/ MoverPushBack \/ MoverStop
    PROVE  DocsInv'
<1>1. TypeOK /\ Counted /\ BatchIsFresh /\ WorkIsMarked /\ ProcessingIsOwned
  BY DEF DocsInv
<1>2. dlq \in Seq(Jobs) /\ carried \subseteq Jobs
  BY <1>1 DEF TypeOK
<1>3. /\ UNCHANGED <<docs, consumer, batch, tickPending>>
      /\ trouble' \in BOOLEAN /\ (trouble => trouble')
      /\ ctxDone' \in BOOLEAN /\ (ctxDone => ctxDone')
  <2>1. UNCHANGED <<docs, consumer, batch, tickPending>>
    BY DEF Bury, Cancel, MoverCall, MoverPop, MoverNothing, MoverPushBack, MoverStop, consumerVars
  <2>2. trouble \in BOOLEAN /\ ctxDone \in BOOLEAN
    BY <1>1 DEF TypeOK
  <2>3. trouble' \in {trouble, TRUE}
    <3>1. CASE MoverPushBack
      BY <2>2, <3>1 DEF MoverPushBack, Note
    <3>2. CASE ~MoverPushBack
      BY <3>2 DEF Bury, Cancel, MoverCall, MoverPop, MoverNothing, MoverStop
    <3>3. QED
      BY <3>1, <3>2
  <2>4. ctxDone' \in {ctxDone, TRUE}
    BY DEF Bury, Cancel, MoverCall, MoverPop, MoverNothing, MoverPushBack, MoverStop
  <2>5. QED
    BY <2>1, <2>2, <2>3, <2>4
<1>4. /\ unburied' \subseteq Jobs /\ dlq' \in Seq(Jobs) /\ carried' \subseteq Jobs
      /\ mover' \in {"pop", "blocked", "insert", "pushback", "stopped"}
  <2>1. CASE \E j \in Jobs : Bury(j)
    BY <1>1, <1>2, <2>1 DEF Bury, moverVars, TypeOK
  <2>2. CASE MoverPop
    <3>1. Head(dlq) \in Jobs /\ Tail(dlq) \in Seq(Jobs)
      BY <1>2, <2>2, HeadTailProperties DEF MoverPop
    <3>2. QED
      BY <1>1, <1>2, <2>2, <3>1 DEF MoverPop, TypeOK
  <2>3. CASE MoverPushBack
    BY <1>1, <1>2, <2>3 DEF MoverPushBack, TypeOK
  <2>4. CASE Cancel \/ MoverCall \/ MoverNothing \/ MoverStop
    BY <1>1, <1>2, <2>4 DEF Cancel, MoverCall, MoverNothing, MoverStop, moverVars, TypeOK
  <2>5. QED
    BY <2>1, <2>2, <2>3, <2>4
<1>5. TypeOK'
  BY <1>1, <1>3, <1>4 DEF TypeOK
<1>6. Counted' /\ BatchIsFresh' /\ WorkIsMarked'
  BY <1>1, <1>3 DEF Counted, BatchIsFresh, WorkIsMarked, Current
<1>7. ProcessingIsOwned'
  BY <1>1, <1>3 DEF ProcessingIsOwned, Current
<1>8. QED
  BY <1>5, <1>6, <1>7 DEF DocsInv

(* A document is appended, pending and never run.                           *)
LEMMA InsertStep ==
    ASSUME DocsInv, MoverInsert
    PROVE  DocsInv'
<1>1. TypeOK /\ Counted /\ BatchIsFresh /\ WorkIsMarked /\ ProcessingIsOwned
  BY DEF DocsInv
<1>2. PICK j \in carried, reply \in InsertReplies :
          /\ docs' = IF Applied(reply) THEN Append(docs, NewDoc(j)) ELSE docs
          /\ NoteLost(reply)
          /\ IF reply = "ok" THEN mover' = "pop" /\ carried' = {}
                             ELSE mover' = "pushback" /\ UNCHANGED carried
  BY DEF MoverInsert
<1>3. /\ UNCHANGED <<unburied, dlq, consumer, batch, tickPending, ctxDone>>
      /\ trouble' \in BOOLEAN /\ (trouble => trouble')
  BY <1>1, <1>2 DEF MoverInsert, consumerVars, NoteLost, TypeOK
<1>4. NewDoc(j) \in DocType /\ docs \in Seq(DocType)
  BY <1>1, <1>2, ConfigAssumption DEF NewDoc, DocType, TypeOK
<1>5. /\ docs' \in Seq(DocType) /\ DOMAIN docs \subseteq DOMAIN docs'
      /\ \A d \in DOMAIN docs : docs'[d] = docs[d]
      /\ \A d \in DOMAIN docs' \ DOMAIN docs : docs'[d] = NewDoc(j)
  BY <1>2, <1>4
<1>6. batch' \in Seq([doc : DOMAIN docs', retryCount : 0..(MaxRetryCount - 1)])
  <2>1. [doc : DOMAIN docs, retryCount : 0..(MaxRetryCount - 1)]
            \subseteq [doc : DOMAIN docs', retryCount : 0..(MaxRetryCount - 1)]
    BY <1>5
  <2>2. batch \in Seq([doc : DOMAIN docs, retryCount : 0..(MaxRetryCount - 1)])
    BY <1>1 DEF TypeOK
  <2>3. QED
    BY <1>3, <2>1, <2>2, SeqMonotonic
<1>7. TypeOK'
  BY <1>1, <1>2, <1>3, <1>5, <1>6 DEF TypeOK, DocType
<1>8. Counted'
  BY <1>1, <1>5 DEF Counted, NewDoc, Waiting
<1>9. BatchIsFresh' /\ WorkIsMarked' /\ ProcessingIsOwned'
  <2>1. CASE batch = <<>>
    <3>1. consumer \in {"wait", "stopped"} /\ DOMAIN batch = {}
      BY <1>1, <2>1 DEF TypeOK
    <3>2. QED
      BY <1>1, <1>3, <1>5, <3>1 DEF BatchIsFresh, WorkIsMarked, ProcessingIsOwned, NewDoc
  <2>2. CASE batch # <<>>
    <3>1. /\ \A i \in DOMAIN batch : docs'[batch[i].doc] = docs[batch[i].doc]
          /\ Current' = Current /\ docs'[Current.doc] = docs[Current.doc]
      BY <1>3, <1>5, <2>2, BatchFacts DEF Current
    <3>2. QED
      BY <1>1, <1>3, <1>5, <3>1 DEF BatchIsFresh, WorkIsMarked, ProcessingIsOwned, NewDoc
  <2>3. QED
    BY <2>1, <2>2
<1>10. QED
  BY <1>7, <1>8, <1>9 DEF DocsInv

(* Time passes: only what waits waits less, and nothing in a batch waits.   *)
LEMMA TickStep ==
    ASSUME DocsInv, Tick
    PROVE  DocsInv'
<1>1. TypeOK /\ Counted /\ BatchIsFresh /\ WorkIsMarked /\ ProcessingIsOwned
  BY DEF DocsInv
<1>2. /\ UNCHANGED <<unburied, dlq, mover, carried, consumer, batch, ctxDone, trouble>>
      /\ tickPending' = TRUE
      /\ docs' = [d \in DOMAIN docs |->
                      [docs[d] EXCEPT !.wait = IF @ = 0 THEN 0 ELSE @ - 1]]
  BY DEF Tick, moverVars
<1>3. docs \in Seq(DocType) /\ DOMAIN docs = 1..Len(docs) /\ Len(docs) \in Nat
  BY <1>1, LenProperties DEF TypeOK, DocType
<1>4. \A d \in DOMAIN docs : docs[d] \in DocType
  BY <1>3, ElementOfSeq
<1>5. \A d \in DOMAIN docs :
          /\ docs'[d] \in DocType
          /\ docs'[d].status = docs[d].status /\ docs'[d].retryCount = docs[d].retryCount
          /\ docs'[d].attempts = docs[d].attempts /\ docs'[d].succeeded = docs[d].succeeded
          /\ docs[d].wait = 0 => docs'[d].wait = 0
  BY <1>2, <1>4 DEF DocType
<1>6. docs' \in Seq(DocType) /\ DOMAIN docs' = DOMAIN docs
  <2>1. docs' \in [1..Len(docs) -> DocType]
    BY <1>2, <1>3, <1>5
  <2>2. QED
    BY <1>2, <1>3, <2>1, SeqDef
<1>7. TypeOK'
  BY <1>1, <1>2, <1>6 DEF TypeOK, DocType
<1>8. Counted'
  BY <1>1, <1>5, <1>6 DEF Counted
<1>9. BatchIsFresh' /\ WorkIsMarked' /\ ProcessingIsOwned'
  <2>1. CASE batch = <<>>
    <3>1. consumer \in {"wait", "stopped"} /\ DOMAIN batch = {}
      BY <1>1, <2>1 DEF TypeOK
    <3>2. QED
      BY <1>1, <1>2, <1>5, <1>6, <3>1 DEF BatchIsFresh, WorkIsMarked, ProcessingIsOwned
  <2>2. CASE batch # <<>>
    <3>1. /\ \A i \in DOMAIN batch : batch[i].doc \in DOMAIN docs
          /\ Current' = Current /\ Current.doc \in DOMAIN docs
      BY <1>2, <2>2, BatchFacts DEF Current
    <3>2. BatchIsFresh'
      BY <1>1, <1>2, <1>5, <3>1 DEF BatchIsFresh
    <3>3. WorkIsMarked'
      BY <1>1, <1>2, <1>5, <3>1 DEF WorkIsMarked
    <3>4. ProcessingIsOwned'
      BY <1>1, <1>2, <1>5, <1>6, <3>1 DEF ProcessingIsOwned
    <3>5. QED
      BY <3>2, <3>3, <3>4
  <2>3. QED
    BY <2>1, <2>2
<1>10. QED
  BY <1>7, <1>8, <1>9 DEF DocsInv

(* A crash forgets the batch; documents stay as they were written.          *)
LEMMA CrashStep ==
    ASSUME DocsInv, Crash
    PROVE  DocsInv'
<1>1. TypeOK /\ Counted
  BY DEF DocsInv
<1>2. UNCHANGED <<unburied, dlq, docs>> /\ batch' = <<>> /\ consumer' = "wait" /\ trouble'
  BY DEF Crash
<1>3. TypeOK'
  BY <1>1, EmptySeq DEF Crash, TypeOK
<1>4. Counted' /\ BatchIsFresh' /\ WorkIsMarked' /\ ProcessingIsOwned'
  BY <1>1, <1>2 DEF Counted, BatchIsFresh, WorkIsMarked, ProcessingIsOwned
<1>5. QED
  BY <1>3, <1>4 DEF DocsInv

(* The batch that is fetched: distinct documents that may be run.           *)
LEMMA FetchStep ==
    ASSUME DocsInv, ConsumerFetch
    PROVE  DocsInv'
<1>1. TypeOK /\ Counted /\ BatchIsFresh /\ WorkIsMarked /\ ProcessingIsOwned
  BY DEF DocsInv
<1>2. /\ UNCHANGED <<unburied, dlq, mover, carried, docs, ctxDone, trouble>>
      /\ tickPending' = FALSE /\ consumer = "wait"
  BY DEF ConsumerFetch, moverVars
<1>3. PICK reply \in Replies, found \in Pages :
          IF reply = "ok" /\ IdDecodes /\ found # <<>>
            THEN /\ batch' = [i \in DOMAIN found |->
                                [doc |-> found[i], retryCount |-> docs[found[i]].retryCount]]
                 /\ consumer' = "mark"
            ELSE UNCHANGED <<batch, consumer>>
  BY DEF ConsumerFetch
<1>4. trouble \in BOOLEAN
  BY <1>1 DEF TypeOK
<1>5. \A d \in DOMAIN docs : docs[d] \in DocType
  BY <1>1, ElementOfSeq, LenProperties DEF TypeOK, DocType
<1>6. /\ batch' \in Seq([doc : DOMAIN docs, retryCount : 0..(MaxRetryCount - 1)])
      /\ (batch' = <<>>) <=> (consumer' \in {"wait", "stopped"})
      /\ consumer' \in {"wait", "mark"}
      /\ BatchIsFresh'
  <2>1. CASE reply = "ok" /\ IdDecodes /\ found # <<>>
    <3> DEFINE Snapshots == [doc : DOMAIN docs, retryCount : 0..(MaxRetryCount - 1)]
    <3>1. /\ found \in Seq(DOMAIN docs) /\ DOMAIN found = 1..Len(found)
          /\ \A i \in DOMAIN found : found[i] \in DOMAIN docs /\ Ready(found[i])
          /\ \A i, k \in DOMAIN found : i # k => found[i] # found[k]
      BY PageFacts
    <3>2. Len(found) \in Nat \ {0}
      BY <2>1, <3>1, EmptySeq
    <3>3. /\ consumer' = "mark" /\ DOMAIN batch' = DOMAIN found
          /\ \A i \in DOMAIN found :
                /\ batch'[i] \in Snapshots /\ batch'[i].doc = found[i]
                /\ batch'[i].retryCount = docs[found[i]].retryCount
      BY <1>3, <1>5, <2>1, <3>1 DEF DocType
    <3>4. batch' \in [1..Len(found) -> Snapshots]
      BY <1>3, <2>1, <3>1, <3>3
    <3>5. batch' \in Seq(Snapshots)
      <4> HIDE DEF Snapshots
      <4>1. QED
        BY <3>2, <3>4, SeqDef
    <3>6. batch' # <<>>
      <4>1. 1 \in DOMAIN batch'
        BY <3>1, <3>2, <3>3
      <4>2. QED
        BY <4>1
    <3>7. BatchIsFresh'
      BY <1>2, <3>1, <3>3 DEF BatchIsFresh, Ready, Waiting
    <3>8. QED
      BY <3>3, <3>5, <3>6, <3>7
  <2>2. CASE ~(reply = "ok" /\ IdDecodes /\ found # <<>>)
    <3>1. UNCHANGED <<batch, consumer>>
      BY <1>3, <2>2
    <3>2. QED
      BY <1>1, <1>2, <3>1 DEF TypeOK, BatchIsFresh
  <2>3. QED
    BY <2>1, <2>2
<1>7. TypeOK' /\ Counted'
  BY <1>1, <1>2, <1>4, <1>6 DEF TypeOK, Counted
<1>8. WorkIsMarked' /\ ProcessingIsOwned'
  BY <1>1, <1>2, <1>4, <1>6 DEF WorkIsMarked, ProcessingIsOwned
<1>9. QED
  BY <1>6, <1>7, <1>8 DEF DocsInv

(* The outcome of a call: trouble, unless it was answered or cut off by the *)
(* shutdown.                                                                *)
LEMMA NoteFacts ==
    ASSUME DocsInv, NEW reply \in Replies, Note(reply)
    PROVE  /\ trouble' \in BOOLEAN /\ (trouble => trouble')
           /\ reply = "ok" \/ trouble' \/ ctxDone
           /\ reply = "ok" => Applied(reply)
<1>1. trouble \in BOOLEAN
  BY DEF DocsInv, TypeOK
<1>2. QED
  BY <1>1 DEF Note, Applied

(* A call about the document at work, after which the consumer goes on to   *)
(* the next one: what it leaves of the document decides.                    *)
LEMMA DoneStep ==
    ASSUME DocsInv, batch # <<>>, NextDoc, NEW reply \in Replies,
           trouble' \in BOOLEAN, trouble => trouble',
           \/ reply = "ok" \/ trouble' \/ ctxDone
           \/ reply = "refused" /\ docs[Current.doc].status # "processing",
           NEW new \in DocType, Set(reply, new),
           UNCHANGED <<unburied, dlq, mover, carried, tickPending, ctxDone>>,
           new.attempts <= new.retryCount + 1,
           IF new.status \in Waiting
             THEN new.attempts = new.retryCount /\ ~new.succeeded
             ELSE new.wait = 0,
           reply = "ok" => new.status # "processing"
    PROVE  DocsInv'
<1>1. TypeOK /\ Counted /\ ProcessingIsOwned
  BY DEF DocsInv
<1>2. docs' \in {docs, [docs EXCEPT ![Current.doc] = new]}
      /\ (reply = "ok" => docs' = [docs EXCEPT ![Current.doc] = new])
      /\ (reply = "refused" => docs' = docs)
  BY DEF Set, Applied
<1>3. /\ docs' \in Seq(DocType) /\ DOMAIN docs' = DOMAIN docs
      /\ Current.doc \in DOMAIN docs
      /\ \A d \in DOMAIN docs : d # Current.doc => docs'[d] = docs[d]
      /\ docs'[Current.doc] \in {docs[Current.doc], new}
      /\ reply = "ok" => docs'[Current.doc] = new
      /\ reply = "refused" => docs'[Current.doc] = docs[Current.doc]
  BY <1>2, SetFacts
<1>4. /\ batch' \in Seq([doc : DOMAIN docs', retryCount : 0..(MaxRetryCount - 1)])
      /\ (batch' = <<>>) <=> (consumer' \in {"wait", "stopped"})
      /\ consumer' \in {"wait", "mark"}
      /\ BatchIsFresh' /\ WorkIsMarked'
  BY <1>3, NextDocFacts
<1>6. TypeOK'
  BY <1>1, <1>3, <1>4 DEF TypeOK, DocType
<1>7. Counted'
  BY <1>1, <1>3 DEF Counted
<1>8. ProcessingIsOwned'
  <2>1. SUFFICES ASSUME ~trouble', ~ctxDone', NEW d \in DOMAIN docs', docs'[d].status = "processing"
                 PROVE  FALSE
    BY DEF ProcessingIsOwned
  <2>2. /\ ~trouble /\ ~ctxDone
        /\ \/ reply = "ok"
           \/ reply = "refused" /\ docs[Current.doc].status # "processing"
    BY <2>1
  <2>3. d # Current.doc
    BY <1>3, <2>1, <2>2
  <2>4. docs[d].status = "processing"
    BY <1>3, <2>1, <2>3
  <2>5. QED
    BY <1>1, <1>3, <2>1, <2>2, <2>3, <2>4 DEF ProcessingIsOwned
<1>9. QED
  BY <1>4, <1>6, <1>7, <1>8 DEF DocsInv

(* The document the consumer is at, as the steps before it have left it.    *)
LEMMA CurrentFacts ==
    ASSUME DocsInv, consumer \in {"mark", "handle", "complete", "fail"}
    PROVE  /\ batch # <<>> /\ Current.doc \in DOMAIN docs /\ docs[Current.doc] \in DocType
           /\ Current.retryCount = docs[Current.doc].retryCount
           /\ docs[Current.doc].wait = 0
           /\ consumer = "mark" => docs[Current.doc].status \in Waiting
           /\ docs[Current.doc].attempts <= docs[Current.doc].retryCount + 1
           /\ consumer \in {"mark", "handle"} =>
                 docs[Current.doc].attempts = docs[Current.doc].retryCount
           /\ consumer = "fail" =>
                 docs[Current.doc].attempts = docs[Current.doc].retryCount + 1
           /\ consumer = "complete" <=> docs[Current.doc].succeeded
<1>1. TypeOK /\ Counted /\ BatchIsFresh /\ WorkIsMarked
  BY DEF DocsInv
<1>2. batch # <<>>
  BY <1>1 DEF TypeOK
<1>3. 1 \in DOMAIN batch /\ Current = batch[1] /\ Current.doc \in DOMAIN docs
  BY <1>2, BatchFacts
<1>4. docs[Current.doc] \in DocType
  <2>1. docs \in Seq(DocType)
    BY <1>1 DEF TypeOK, DocType
  <2>2. QED
    BY <1>3, <2>1, ElementOfSeq, LenProperties
<1>5. /\ Current.retryCount = docs[Current.doc].retryCount
      /\ docs[Current.doc].wait = 0
      /\ consumer = "mark" => docs[Current.doc].status \in Waiting
  BY <1>1, <1>3 DEF BatchIsFresh
<1>6. /\ docs[Current.doc].attempts <= docs[Current.doc].retryCount + 1
      /\ docs[Current.doc].status \in Waiting =>
            /\ docs[Current.doc].attempts = docs[Current.doc].retryCount
            /\ ~docs[Current.doc].succeeded
  BY <1>1, <1>3 DEF Counted
<1>7. QED
  BY <1>1, <1>2, <1>3, <1>4, <1>5, <1>6 DEF WorkIsMarked

(* The document is marked before its job is run.                            *)
LEMMA MarkStep ==
    ASSUME DocsInv, ConsumerMark
    PROVE  DocsInv'
<1> DEFINE new == [docs[Current.doc] EXCEPT !.status = "processing"]
<1>1. /\ UNCHANGED <<unburied, dlq, mover, carried, tickPending, ctxDone>>
      /\ consumer = "mark"
  BY DEF ConsumerMark, moverVars
<1>2. PICK reply \in Replies :
          /\ Set(reply, new) /\ NoteLost(reply)
          /\ IF reply = "ok" THEN consumer' = "handle" /\ UNCHANGED batch ELSE NextDoc
  BY DEF ConsumerMark
<1>3. /\ batch # <<>> /\ docs[Current.doc].status \in Waiting /\ docs[Current.doc].wait = 0
      /\ docs[Current.doc].attempts = docs[Current.doc].retryCount
      /\ ~docs[Current.doc].succeeded /\ docs[Current.doc] \in DocType
  BY <1>1, CurrentFacts
<1>4. /\ new \in DocType /\ new.status = "processing" /\ new.wait = 0 /\ ~new.succeeded
      /\ new.attempts = docs[Current.doc].attempts /\ new.retryCount = docs[Current.doc].retryCount
      /\ new.attempts = new.retryCount /\ new.attempts <= new.retryCount + 1
  BY <1>3 DEF DocType
<1>5. /\ trouble' \in BOOLEAN /\ (trouble => trouble')
      /\ reply \in {"ok", "refused"} \/ trouble'
  <2>1. trouble \in BOOLEAN
    BY DEF DocsInv, TypeOK
  <2>2. QED
    BY <1>2, <2>1 DEF NoteLost, Replies
<1>6. CASE reply # "ok"
  <2>1. NextDoc
    BY <1>2, <1>6
  <2> HIDE DEF new
  <2>2. new.status \notin Waiting /\ docs[Current.doc].status # "processing"
    BY <1>3, <1>4 DEF Waiting
  <2>3. QED
    BY <1>1, <1>2, <1>3, <1>4, <1>6, <1>5, <2>1, <2>2, DoneStep
<1>7. CASE reply = "ok"
  <2>1. docs' = [docs EXCEPT ![Current.doc] = new] /\ consumer' = "handle" /\ batch' = batch
    BY <1>2, <1>7 DEF Set, Applied
  <2> HIDE DEF new
  <2>2. /\ docs' \in Seq(DocType) /\ DOMAIN docs' = DOMAIN docs
        /\ Current.doc \in DOMAIN docs
        /\ \A d \in DOMAIN docs : d # Current.doc => docs'[d] = docs[d]
        /\ docs'[Current.doc] = new
    BY <1>3, <1>4, <2>1, SetFacts
  <2>3. TypeOK /\ Counted /\ BatchIsFresh /\ ProcessingIsOwned
    BY DEF DocsInv
  <2>4. trouble' \in BOOLEAN /\ (trouble => trouble')
    BY <1>5
  <2>5. TypeOK'
    BY <1>1, <1>3, <2>1, <2>2, <2>3, <2>4 DEF TypeOK, DocType
  <2>6. Counted'
    BY <1>4, <2>2, <2>3 DEF Counted, Waiting
  <2>7. BatchIsFresh'
    <3>1. 1 \in DOMAIN batch /\ Current = batch[1]
          /\ \A i \in DOMAIN batch : batch[i].doc \in DOMAIN docs
      BY <1>3, BatchFacts
    <3>2. \A i \in DOMAIN batch : i # 1 => docs'[batch[i].doc] = docs[batch[i].doc]
      BY <2>2, <2>3, <3>1 DEF BatchIsFresh
    <3>3. ASSUME NEW i \in DOMAIN batch'
          PROVE  /\ batch'[i].retryCount = docs'[batch'[i].doc].retryCount
                 /\ docs'[batch'[i].doc].wait = 0
                 /\ (i > 1 \/ consumer' = "mark") => docs'[batch'[i].doc].status \in Waiting
      <4>1. CASE i = 1
        BY <1>4, <2>1, <2>2, <2>3, <3>1, <4>1 DEF BatchIsFresh
      <4>2. CASE i # 1
        BY <2>1, <2>3, <3>2, <3>3, <4>2 DEF BatchIsFresh
      <4>3. QED
        BY <4>1, <4>2
    <3>4. QED
      BY <2>1, <2>3, <3>3 DEF BatchIsFresh
  <2>8. Current' = Current
    BY <2>1 DEF Current
  <2>9. WorkIsMarked'
    BY <1>4, <2>1, <2>2, <2>8 DEF WorkIsMarked
  <2>10. ProcessingIsOwned'
    BY <1>1, <2>1, <2>2, <2>3, <2>4, <2>8 DEF ProcessingIsOwned
  <2>11. QED
    BY <2>5, <2>6, <2>7, <2>9, <2>10 DEF DocsInv
<1>8. QED
  BY <1>6, <1>7

(* A payload that is no job: the document goes back to "failed", not run.   *)
LEMMA RejectStep ==
    ASSUME DocsInv, ConsumerReject
    PROVE  DocsInv'
<1> DEFINE new == [docs[Current.doc] EXCEPT !.status = "failed"]
<1>1. /\ UNCHANGED <<unburied, dlq, mover, carried, tickPending, ctxDone>>
      /\ consumer = "handle" /\ NextDoc
  BY DEF ConsumerReject, moverVars
<1>2. PICK reply \in Replies : Set(reply, new) /\ Note(reply)
  BY DEF ConsumerReject
<1>3. /\ batch # <<>> /\ docs[Current.doc] \in DocType
      /\ docs[Current.doc].attempts = docs[Current.doc].retryCount
      /\ ~docs[Current.doc].succeeded
  BY <1>1, CurrentFacts
<1>4. /\ new \in DocType /\ new.status = "failed" /\ ~new.succeeded
      /\ new.attempts = new.retryCount /\ new.attempts <= new.retryCount + 1
  BY <1>3 DEF DocType
<1> HIDE DEF new
<1>5. QED
  BY <1>1, <1>2, <1>3, <1>4, NoteFacts, DoneStep DEF Waiting

(* A run that succeeded: the document is final.                             *)
LEMMA CompleteStep ==
    ASSUME DocsInv, ConsumerComplete
    PROVE  DocsInv'
<1> DEFINE new == [docs[Current.doc] EXCEPT !.status = "completed"]
<1>1. /\ UNCHANGED <<unburied, dlq, mover, carried, tickPending, ctxDone>>
      /\ consumer = "complete" /\ NextDoc
  BY DEF ConsumerComplete, moverVars
<1>2. PICK reply \in Replies : Set(reply, new) /\ Note(reply)
  BY DEF ConsumerComplete
<1>3. /\ batch # <<>> /\ docs[Current.doc] \in DocType /\ docs[Current.doc].wait = 0
      /\ docs[Current.doc].attempts <= docs[Current.doc].retryCount + 1
  BY <1>1, CurrentFacts
<1>4. /\ new \in DocType /\ new.status = "completed" /\ new.wait = 0
      /\ new.attempts <= new.retryCount + 1
  BY <1>3 DEF DocType, Final
<1> HIDE DEF new
<1>5. QED
  BY <1>1, <1>2, <1>3, <1>4, NoteFacts, DoneStep DEF Waiting

(* A run that failed: the count takes it in, or the document is final.      *)
LEMMA FailStep ==
    ASSUME DocsInv, ConsumerFail
    PROVE  DocsInv'
<1> DEFINE new == FailedDoc(docs[Current.doc], Current.retryCount)
<1>1. /\ UNCHANGED <<unburied, dlq, mover, carried, tickPending, ctxDone>>
      /\ consumer = "fail" /\ NextDoc
  BY DEF ConsumerFail, moverVars
<1>2. PICK reply \in Replies : Set(reply, new) /\ Note(reply)
  BY DEF ConsumerFail
<1>3. /\ batch # <<>> /\ docs[Current.doc] \in DocType /\ docs[Current.doc].wait = 0
      /\ Current.retryCount = docs[Current.doc].retryCount
      /\ docs[Current.doc].attempts = docs[Current.doc].retryCount + 1
      /\ ~docs[Current.doc].succeeded
  BY <1>1, CurrentFacts
<1>4. /\ new \in DocType /\ new.attempts <= new.retryCount + 1
      /\ \/ new.status = "permanently_failed" /\ new.wait = 0
         \/ new.status = "failed" /\ new.attempts = new.retryCount /\ ~new.succeeded
  <2>1. CASE Current.retryCount + 1 >= MaxRetryCount
    BY <1>3, <2>1 DEF FailedDoc, DocType, Final
  <2>2. CASE ~(Current.retryCount + 1 >= MaxRetryCount)
    <3>1. /\ Current.retryCount + 1 \in 0..(MaxRetryCount - 1)
          /\ Backoff[Current.retryCount + 1] \in Nat
      BY <1>3, <2>2, ConfigAssumption, BackoffAssumption DEF DocType
    <3>2. new = [docs[Current.doc] EXCEPT !.status = "failed",
                                          !.retryCount = Current.retryCount + 1,
                                          !.wait = Backoff[Current.retryCount + 1]]
      BY <2>2 DEF FailedDoc
    <3>3. new \in DocType
      BY <1>3, <3>1, <3>2 DEF DocType
    <3>4. /\ new.attempts = docs[Current.doc].attempts
          /\ new.retryCount = Current.retryCount + 1
          /\ new.status = "failed" /\ new.succeeded = docs[Current.doc].succeeded
      BY <1>3, <3>2 DEF DocType
    <3> HIDE DEF new
    <3>5. QED
      BY <1>3, <3>3, <3>4 DEF DocType
  <2>3. QED
    BY <2>1, <2>2
<1> HIDE DEF new
<1>5. QED
  BY <1>1, <1>2, <1>3, <1>4, NoteFacts, DoneStep DEF Waiting

(* HandleJob is run: the document is one run ahead of its count.            *)
LEMMA HandleStep ==
    ASSUME DocsInv, ConsumerHandle
    PROVE  DocsInv'
<1>1. TypeOK /\ Counted /\ BatchIsFresh /\ WorkIsMarked /\ ProcessingIsOwned
  BY DEF DocsInv
<1>2. /\ UNCHANGED <<unburied, dlq, mover, carried, batch, tickPending, ctxDone, trouble>>
      /\ consumer = "handle"
  BY DEF ConsumerHandle, moverVars
<1>3. PICK ok \in BOOLEAN :
          /\ docs' = [docs EXCEPT ![Current.doc].attempts = @ + 1,
                                  ![Current.doc].succeeded = @ \/ ok]
          /\ consumer' = IF ok THEN "complete" ELSE "fail"
  BY DEF ConsumerHandle
<1> DEFINE new == [docs[Current.doc] EXCEPT !.attempts = @ + 1, !.succeeded = @ \/ ok]
<1>4. /\ batch # <<>> /\ Current.doc \in DOMAIN docs /\ docs[Current.doc] \in DocType
      /\ docs[Current.doc].attempts = docs[Current.doc].retryCount
      /\ docs[Current.doc].wait = 0 /\ ~docs[Current.doc].succeeded
      /\ docs[Current.doc].status = "processing"
  BY <1>1, <1>2, CurrentFacts DEF WorkIsMarked
<1>5. /\ new.job = docs[Current.doc].job /\ new.status = "processing"
      /\ new.retryCount = docs[Current.doc].retryCount /\ new.wait = 0
      /\ new.attempts = docs[Current.doc].attempts + 1
      /\ (new.succeeded <=> ok) /\ new \in DocType
  <2>1. docs[Current.doc].succeeded = FALSE
    BY <1>4 DEF DocType
  <2>2. new = [docs[Current.doc] EXCEPT !.attempts = @ + 1, !.succeeded = ok]
    BY <2>1
  <2> HIDE DEF new
  <2>3. new \in DocType
    <3>1. docs[Current.doc].attempts + 1 \in Nat
      BY <1>4 DEF DocType
    <3>2. CASE ok = TRUE
      BY <1>4, <2>2, <3>1, <3>2 DEF DocType
    <3>3. CASE ok = FALSE
      BY <1>4, <2>2, <3>1, <3>3 DEF DocType
    <3>4. QED
      BY <3>2, <3>3
  <2>4. new.attempts = docs[Current.doc].attempts + 1 /\ new.succeeded = ok
    BY <1>4, <2>2 DEF DocType
  <2>5. QED
    BY <1>4, <2>2, <2>3, <2>4 DEF DocType
<1>6. docs' = [docs EXCEPT ![Current.doc] = new]
  BY <1>3, <1>4 DEF DocType
<1> HIDE DEF new
<1>7. /\ docs' \in Seq(DocType) /\ DOMAIN docs' = DOMAIN docs
      /\ \A d \in DOMAIN docs : d # Current.doc => docs'[d] = docs[d]
      /\ docs'[Current.doc] = new
  BY <1>4, <1>5, <1>6, SetFacts
<1>8. /\ consumer' \in {"complete", "fail"} /\ (consumer' = "complete" <=> new.succeeded)
      /\ new.attempts = new.retryCount + 1
  BY <1>3, <1>4, <1>5
<1>9. TypeOK'
  BY <1>1, <1>2, <1>4, <1>7, <1>8 DEF TypeOK, DocType
<1>10. Counted'
  <2>1. new.attempts <= new.retryCount + 1
    BY <1>4, <1>5 DEF DocType
  <2>2. QED
    BY <1>1, <1>5, <1>7, <2>1 DEF Counted, Waiting
<1>11. BatchIsFresh'
  <2>1. /\ \A i \in DOMAIN batch : batch[i].doc \in DOMAIN docs
        /\ 1 \in DOMAIN batch /\ Current = batch[1]
    BY <1>4, BatchFacts
  <2>2. \A i \in DOMAIN batch : i # 1 => docs'[batch[i].doc] = docs[batch[i].doc]
    BY <1>1, <1>7, <2>1 DEF BatchIsFresh
  <2>3. ASSUME NEW i \in DOMAIN batch'
        PROVE  /\ batch'[i].retryCount = docs'[batch'[i].doc].retryCount
               /\ docs'[batch'[i].doc].wait = 0
               /\ (i > 1 \/ consumer' = "mark") => docs'[batch'[i].doc].status \in Waiting
    <3>1. CASE i = 1
      BY <1>1, <1>2, <1>5, <1>7, <1>8, <2>1, <3>1 DEF BatchIsFresh
    <3>2. CASE i # 1
      BY <1>1, <1>2, <1>8, <2>2, <2>3, <3>2 DEF BatchIsFresh
    <3>3. QED
      BY <3>1, <3>2
  <2>4. QED
    BY <1>1, <1>2, <2>3 DEF BatchIsFresh
<1>12. Current' = Current
  BY <1>2 DEF Current
<1>13. WorkIsMarked'
  BY <1>5, <1>7, <1>8, <1>12 DEF WorkIsMarked
<1>14. ProcessingIsOwned'
  BY <1>1, <1>2, <1>7, <1>8, <1>12 DEF ProcessingIsOwned
<1>15. QED
  BY <1>9, <1>10, <1>11, <1>13, <1>14 DEF DocsInv

(* The consumer stops with no batch in hand.                                *)
LEMMA StopStep ==
    ASSUME DocsInv, ConsumerStop
    PROVE  DocsInv'
<1>1. TypeOK /\ Counted /\ BatchIsFresh /\ WorkIsMarked /\ ProcessingIsOwned
  BY DEF DocsInv
<1>2. /\ UNCHANGED <<unburied, dlq, mover, carried, docs, batch, tickPending, ctxDone, trouble>>
      /\ consumer = "wait" /\ consumer' = "stopped"
  BY DEF ConsumerStop, moverVars
<1>3. TypeOK' /\ Counted' /\ BatchIsFresh' /\ WorkIsMarked'
  BY <1>1, <1>2 DEF TypeOK, Counted, BatchIsFresh, WorkIsMarked
<1>4. ProcessingIsOwned'
  BY <1>1, <1>2 DEF ProcessingIsOwned
<1>5. QED
  BY <1>3, <1>4 DEF DocsInv

(***************************************************************************)
(* The specification.                                                      *)
(***************************************************************************)

(* At the start there is no document.                                       *)
LEMMA InitDocs == Init => DocsInv
<1>1. SUFFICES ASSUME Init PROVE DocsInv
  OBVIOUS
<1>2. docs = <<>> /\ batch = <<>> /\ dlq = <<>> /\ DOMAIN docs = {} /\ DOMAIN batch = {}
  BY <1>1 DEF Init
<1>3. TypeOK
  BY <1>1, EmptySeq DEF Init, TypeOK
<1>4. Counted /\ BatchIsFresh /\ WorkIsMarked /\ ProcessingIsOwned
  BY <1>1, <1>2 DEF Init, Counted, BatchIsFresh, WorkIsMarked, ProcessingIsOwned
<1>5. QED
  BY <1>3, <1>4 DEF DocsInv

(* Every step keeps the invariant of the documents.                         *)
LEMMA NextDocs == DocsInv /\ [Next]_vars => DocsInv'
<1>1. SUFFICES ASSUME DocsInv, [Next]_vars PROVE DocsInv'
  OBVIOUS
<1>2. CASE \/ \E j \in Jobs : Bury(j)
           \/ Cancel \/ MoverCall \/ MoverPop \/ MoverNothing \/ MoverPushBack \/ MoverStop
  BY <1>1, <1>2, ListStep
<1>3. CASE Tick \/ Crash \/ MoverInsert
  BY <1>1, <1>3, TickStep, CrashStep, InsertStep
<1>4. CASE Consumer
  BY <1>1, <1>4, FetchStep, MarkStep, RejectStep, HandleStep, CompleteStep, FailStep, StopStep
     DEF Consumer
<1>5. CASE UNCHANGED vars
  <2>1. TypeOK' /\ Counted' /\ BatchIsFresh'
    BY <1>1, <1>5 DEF vars, moverVars, consumerVars, DocsInv, TypeOK, Counted, BatchIsFresh
  <2>2. WorkIsMarked' /\ ProcessingIsOwned'
    BY <1>1, <1>5 DEF vars, moverVars, consumerVars, DocsInv, WorkIsMarked, ProcessingIsOwned, Current
  <2>3. QED
    BY <2>1, <2>2 DEF DocsInv
<1>6. QED
  BY <1>1, <1>2, <1>3, <1>4, <1>5 DEF Next, Mover

(* The invariant of the documents holds in every state.                     *)
LEMMA DocsAlways == Spec => []DocsInv
BY InitDocs, NextDocs, PTL DEF Spec

(* A document is run at most MaxRetryCount times, although its count is     *)
(* written back from a snapshot, after the run, by a call that may fail or  *)
(* be cut off by a crash (retry-dlq-worker.go:124-150).                     *)
THEOREM RunsOfDocumentsBounded == Spec => []AttemptsBounded
<1>1. DocsInv => AttemptsBounded
  <2>1. SUFFICES ASSUME DocsInv, NEW d \in DOMAIN docs
                 PROVE  TypeOK /\ docs[d].attempts <= MaxRetryCount
    BY DEF AttemptsBounded, DocsInv
  <2>2. docs \in Seq(DocType) /\ Counted /\ TypeOK
    BY <2>1 DEF DocsInv, TypeOK, DocType
  <2>3. docs[d] \in DocType
    BY <2>1, <2>2, ElementOfSeq, LenProperties
  <2>4. QED
    BY <2>1, <2>2, <2>3, ConfigAssumption DEF Counted, DocType
<1>2. QED
  BY <1>1, DocsAlways, PTL

(* No document is left "processing", where no batch would ever find it,     *)
(* while the stores answer and the pool runs (retry-dlq-worker.go:88-121).  *)
THEOREM NoDocumentStranded == Spec => []ProcessingIsOwned
<1>1. DocsInv => ProcessingIsOwned
  BY DEF DocsInv
<1>2. QED
  BY <1>1, DocsAlways, PTL

(***************************************************************************)
(* What a document goes through.                                           *)
(***************************************************************************)

(* What the consumer writes is never about a document that is final, nor    *)
(* does it run one that has succeeded, nor change its job.                  *)
LEMMA ConsumerWrites ==
    ASSUME DocsInv, Consumer
    PROVE  /\ UNCHANGED <<unburied, dlq, mover, carried, ctxDone>>
           /\ DOMAIN docs' = DOMAIN docs
           /\ \A d \in DOMAIN docs :
                 /\ docs'[d].job = docs[d].job
                 /\ docs[d].status \in Final => docs'[d] = docs[d]
                 /\ docs[d].succeeded => docs'[d].attempts = docs[d].attempts
<1>1. UNCHANGED <<unburied, dlq, mover, carried, ctxDone>>
  BY DEF Consumer, ConsumerFetch, ConsumerMark, ConsumerReject, ConsumerHandle,
         ConsumerComplete, ConsumerFail, ConsumerStop, moverVars
<1>2. CASE docs' = docs
  BY <1>1, <1>2
<1>3. CASE docs' # docs
  <2>1. \/ ConsumerMark \/ ConsumerReject \/ ConsumerHandle
        \/ ConsumerComplete \/ ConsumerFail
    BY <1>3 DEF Consumer, ConsumerFetch, ConsumerStop
  <2>2. consumer \in {"mark", "handle", "complete", "fail"}
    BY <2>1 DEF ConsumerMark, ConsumerReject, ConsumerHandle, ConsumerComplete, ConsumerFail
  <2>3. /\ Current.doc \in DOMAIN docs /\ docs[Current.doc] \in DocType
        /\ consumer = "mark" => docs[Current.doc].status \in Waiting
        /\ consumer # "complete" => ~docs[Current.doc].succeeded
    BY <2>2, CurrentFacts
  <2>4. docs[Current.doc].status \notin Final
    BY <2>2, <2>3 DEF DocsInv, WorkIsMarked, Waiting, Final
  <2>5. \E new : /\ docs' = [docs EXCEPT ![Current.doc] = new]
                 /\ new.job = docs[Current.doc].job
                 /\ consumer = "complete" => new.attempts = docs[Current.doc].attempts
    <3>1. CASE ConsumerMark
      BY <1>3, <2>3, <3>1 DEF ConsumerMark, Set, DocType
    <3>2. CASE ConsumerReject
      BY <1>3, <2>3, <3>2 DEF ConsumerReject, Set, DocType
    <3>3. CASE ConsumerComplete
      BY <1>3, <2>3, <3>3 DEF ConsumerComplete, Set, DocType
    <3>4. CASE ConsumerFail
      <4> DEFINE new == FailedDoc(docs[Current.doc], Current.retryCount)
      <4>1. new.job = docs[Current.doc].job
        BY <2>3 DEF FailedDoc, DocType
      <4> HIDE DEF new
      <4>2. docs' = [docs EXCEPT ![Current.doc] = new] /\ consumer = "fail"
        BY <1>3, <3>4 DEF ConsumerFail, Set, new
      <4>3. QED
        BY <4>1, <4>2
    <3>5. CASE ConsumerHandle
      <4>1. PICK ok \in BOOLEAN :
               docs' = [docs EXCEPT ![Current.doc].attempts = @ + 1,
                                    ![Current.doc].succeeded = @ \/ ok]
        BY <3>5 DEF ConsumerHandle
      <4> DEFINE new == [docs[Current.doc] EXCEPT !.attempts = @ + 1, !.succeeded = @ \/ ok]
      <4>2. new.job = docs[Current.doc].job
        BY <2>3 DEF DocType
      <4>3. docs' = [docs EXCEPT ![Current.doc] = new]
        BY <2>3, <4>1 DEF DocType
      <4>4. consumer = "handle"
        BY <3>5 DEF ConsumerHandle
      <4> HIDE DEF new
      <4>5. QED
        BY <4>2, <4>3, <4>4
    <3>6. QED
      BY <2>1, <3>1, <3>2, <3>3, <3>4, <3>5
  <2>6. QED
    BY <1>1, <2>3, <2>4, <2>5
<1>4. QED
  BY <1>2, <1>3

(* "completed" and "permanently_failed" are final, and a run that succeeded *)
(* is never repeated, whatever the write that follows it comes to           *)
(* (retry-dlq-worker.go:92-129).                                            *)
THEOREM DocumentsEndOnce == Spec => FinalIsFinal
<1> DEFINE Step == \A d \in DOMAIN docs :
                     /\ docs[d].status \in Final => docs'[d] = docs[d]
                     /\ docs[d].succeeded => docs'[d].attempts = docs[d].attempts
<1>1. DocsInv /\ [Next]_vars => [Step]_vars
  <2>1. SUFFICES ASSUME DocsInv, Next PROVE Step
    BY DEF vars
  <2>2. CASE docs' = docs
    BY <2>2
  <2>3. CASE MoverInsert
    <3>1. docs \in Seq(DocType)
      BY <2>1 DEF DocsInv, TypeOK, DocType
    <3>2. \A d \in DOMAIN docs : docs'[d] = docs[d]
      BY <2>3, <3>1 DEF MoverInsert
    <3>3. QED
      BY <3>2
  <2>4. CASE Tick
    <3>1. docs \in Seq(DocType) /\ Counted
      BY <2>1 DEF DocsInv, TypeOK, DocType
    <3>2. ASSUME NEW d \in DOMAIN docs PROVE docs[d] \in DocType
      BY <3>1, <3>2, ElementOfSeq, LenProperties
    <3>3. ASSUME NEW d \in DOMAIN docs
          PROVE  /\ docs'[d].attempts = docs[d].attempts
                 /\ docs[d].wait = 0 => docs'[d] = docs[d]
      BY <2>4, <3>2, <3>3 DEF Tick, DocType
    <3>4. QED
      BY <3>1, <3>3 DEF Counted, Waiting, Final
  <2>5. CASE Consumer
    BY <2>1, <2>5, ConsumerWrites
  <2>6. QED
    BY <2>1, <2>2, <2>3, <2>4, <2>5
       DEF Next, Mover, Bury, Cancel, Crash, MoverCall, MoverPop, MoverNothing, MoverPushBack,
           MoverStop
<1>2. QED
  BY <1>1, DocsAlways, PTL DEF Spec, FinalIsFinal

(***************************************************************************)
(* Where a dead lettered job is.                                           *)
(***************************************************************************)

\* The mover has one job in hand from the pop to the end of the insert.
HandInv ==
    IF mover \in {"insert", "pushback"} THEN \E j \in Jobs : carried = {j} ELSE carried = {}

Listed(j) == \E i \in DOMAIN dlq : dlq[i] = j
Filed(j)  == \E d \in DOMAIN docs : docs[d].job = j

\* Once it has left the pool, a job is in one of the three places.
KeptOnce(j) ==
    /\ \A i, k \in DOMAIN dlq : dlq[i] = j /\ dlq[k] = j => i = k
    /\ \A d, e \in DOMAIN docs : docs[d].job = j /\ docs[e].job = j => d = e
    /\ Listed(j) => ~Filed(j) /\ j \notin carried
    /\ Filed(j) => j \notin carried
    /\ j \in unburied <=> ~(Listed(j) \/ Filed(j) \/ j \in carried)

KeptInv == ~trouble /\ ~ctxDone => \A j \in Jobs : KeptOnce(j)

(* Nothing moves.                                                           *)
LEMMA StillKept ==
    ASSUME HandInv, KeptInv, UNCHANGED <<unburied, dlq, carried>>,
           \/ mover' = mover
           \/ (mover = "insert" /\ mover' = "pushback")
           \/ (carried = {} /\ mover' \in {"pop", "blocked", "stopped"}),
           DOMAIN docs' = DOMAIN docs, \A d \in DOMAIN docs : docs'[d].job = docs[d].job,
           trouble => trouble', ctxDone => ctxDone'
    PROVE  HandInv' /\ KeptInv'
<1>1. HandInv'
  BY DEF HandInv
<1>2. KeptInv'
  <2>1. SUFFICES ASSUME ~trouble', ~ctxDone', NEW j \in Jobs
                 PROVE  KeptOnce(j)'
    BY DEF KeptInv
  <2>2. KeptOnce(j)
    BY <2>1 DEF KeptInv
  <2>3. (Listed(j)' <=> Listed(j)) /\ (Filed(j)' <=> Filed(j))
    BY DEF Listed, Filed
  <2>4. QED
    BY <2>2, <2>3 DEF KeptOnce
<1>3. QED
  BY <1>1, <1>2

(* A job that is in neither store goes to the end of the list.              *)
LEMMA AppendKeeps ==
    ASSUME DocsInv, \A k \in Jobs : KeptOnce(k), NEW j \in Jobs,
           dlq' = Append(dlq, j), docs' = docs, ~Listed(j), ~Filed(j),
           j \notin carried', j \notin unburied',
           \A k \in Jobs \ {j} : (k \in carried' <=> k \in carried)
                                /\ (k \in unburied' <=> k \in unburied)
    PROVE  \A k \in Jobs : KeptOnce(k)'
<1>1. dlq \in Seq(Jobs)
  BY DEF DocsInv, TypeOK
<1>2. /\ DOMAIN dlq = 1..Len(dlq) /\ DOMAIN dlq' = 1..(Len(dlq) + 1) /\ Len(dlq) \in Nat
      /\ \A i \in DOMAIN dlq : dlq'[i] = dlq[i]
      /\ dlq'[Len(dlq) + 1] = j
  BY <1>1
<1>3. ASSUME NEW k \in Jobs PROVE KeptOnce(k)'
  <2>1. KeptOnce(k) /\ (Listed(k)' <=> Listed(k) \/ k = j) /\ (Filed(k)' <=> Filed(k))
    BY <1>2 DEF Listed, Filed
  <2>2. CASE k = j
    <3>1. \A i \in DOMAIN dlq' : dlq'[i] = k => i = Len(dlq) + 1
      BY <1>2, <2>2 DEF Listed
    <3>2. QED
      BY <2>1, <2>2, <3>1 DEF KeptOnce
  <2>3. CASE k # j
    <3>1. \A i \in DOMAIN dlq' : dlq'[i] = k => i \in DOMAIN dlq /\ dlq[i] = k
      BY <1>2, <2>3
    <3>2. QED
      BY <2>1, <2>3, <3>1 DEF KeptOnce
  <2>4. QED
    BY <2>2, <2>3
<1>4. QED
  BY <1>3

(* The pool hands a job over.                                               *)
LEMMA BuryKeeps ==
    ASSUME DocsInv, HandInv, KeptInv, NEW j \in Jobs, Bury(j)
    PROVE  HandInv' /\ KeptInv'
<1>1. /\ j \in unburied /\ unburied' = unburied \ {j} /\ dlq' = Append(dlq, j)
      /\ UNCHANGED <<mover, carried, docs, ctxDone, trouble>>
  BY DEF Bury, moverVars
<1>2. HandInv'
  BY <1>1 DEF HandInv
<1>3. ASSUME ~trouble', ~ctxDone'
      PROVE  \A k \in Jobs : KeptOnce(k)'
  <2>1. \A k \in Jobs : KeptOnce(k)
    BY <1>1, <1>3 DEF KeptInv
  <2>2. ~Listed(j) /\ ~Filed(j) /\ j \notin carried
    BY <1>1, <2>1 DEF KeptOnce
  <2>3. QED
    BY <1>1, <2>1, <2>2, AppendKeeps
<1>4. QED
  BY <1>2, <1>3 DEF KeptInv

(* The mover takes the head of the list in hand.                            *)
LEMMA PopKeeps ==
    ASSUME DocsInv, HandInv, KeptInv, MoverPop
    PROVE  HandInv' /\ KeptInv'
<1>1. /\ dlq \in Seq(Jobs) /\ dlq # <<>> /\ dlq' = Tail(dlq) /\ mover = "blocked"
      /\ UNCHANGED <<unburied, docs, ctxDone>>
      /\ \/ mover' = "insert" /\ carried' = {Head(dlq)} /\ trouble' = trouble
         \/ mover' = "pop" /\ trouble' = TRUE /\ carried' = carried
  BY DEF MoverPop, DocsInv, TypeOK
<1>2. /\ Head(dlq) \in Jobs /\ Head(dlq) = dlq[1]
      /\ Len(dlq) \in Nat \ {0} /\ DOMAIN dlq = 1..Len(dlq)
      /\ DOMAIN dlq' = 1..(Len(dlq) - 1)
      /\ \A i \in DOMAIN dlq' : dlq'[i] = dlq[i + 1]
  <2>1. Tail(dlq) \in Seq(Jobs) /\ Len(Tail(dlq)) = Len(dlq) - 1
        /\ \A i \in 1..Len(Tail(dlq)) : Tail(dlq)[i] = dlq[i + 1]
    BY <1>1, HeadTailProperties
  <2>2. Len(dlq) \in Nat \ {0} /\ DOMAIN dlq = 1..Len(dlq) /\ Head(dlq) = dlq[1]
    BY <1>1, EmptySeq, LenProperties
  <2>3. DOMAIN Tail(dlq) = 1..(Len(dlq) - 1)
    BY <2>1, LenProperties
  <2>4. QED
    BY <1>1, <2>1, <2>2, <2>3, HeadTailProperties
<1>3. carried = {} /\ HandInv'
  BY <1>1, <1>2 DEF HandInv
<1>4. KeptInv'
  <2>1. SUFFICES ASSUME ~trouble', ~ctxDone', NEW j \in Jobs
                 PROVE  KeptOnce(j)'
    BY <1>1 DEF KeptInv
  <2>2. /\ mover' = "insert" /\ carried' = {dlq[1]} /\ KeptOnce(j)
    BY <1>1, <1>2, <2>1 DEF KeptInv
  <2>3. \A i \in DOMAIN dlq : i = 1 \/ (i - 1 \in DOMAIN dlq' /\ dlq'[i - 1] = dlq[i])
    BY <1>2
  <2>4. 1 \in DOMAIN dlq /\ \A i \in DOMAIN dlq' : i + 1 \in DOMAIN dlq /\ i + 1 # 1
    BY <1>2
  <2>5. /\ Filed(j)' <=> Filed(j)
        /\ Listed(j) <=> Listed(j)' \/ dlq[1] = j
        /\ dlq[1] = j => ~Listed(j)'
        /\ \A i, k \in DOMAIN dlq' : dlq'[i] = j /\ dlq'[k] = j => i = k
    <3>1. Filed(j)' <=> Filed(j)
      BY <1>1 DEF Filed
    <3>2. Listed(j) <=> Listed(j)' \/ dlq[1] = j
      BY <1>2, <2>3, <2>4 DEF Listed
    <3>3. dlq[1] = j => ~Listed(j)'
      BY <1>2, <2>2, <2>4 DEF Listed, KeptOnce
    <3>4. ASSUME NEW i \in DOMAIN dlq', NEW k \in DOMAIN dlq', dlq'[i] = j, dlq'[k] = j
          PROVE  i = k
      <4>1. i + 1 = k + 1
        BY <1>2, <2>2, <2>4, <3>4 DEF KeptOnce
      <4>2. QED
        BY <1>2, <3>4, <4>1
    <3>5. QED
      BY <3>1, <3>2, <3>3, <3>4
  <2>6. QED
    BY <1>1, <1>3, <2>2, <2>5 DEF KeptOnce
<1>5. QED
  BY <1>3, <1>4

(* The job in hand is inserted, or the insert is refused and the job stays. *)
LEMMA InsertKeeps ==
    ASSUME DocsInv, HandInv, KeptInv, MoverInsert
    PROVE  HandInv' /\ KeptInv'
<1>1. PICK j \in carried, reply \in InsertReplies :
          /\ docs' = IF Applied(reply) THEN Append(docs, NewDoc(j)) ELSE docs
          /\ NoteLost(reply)
          /\ IF reply = "ok" THEN mover' = "pop" /\ carried' = {}
                             ELSE mover' = "pushback" /\ UNCHANGED carried
  BY DEF MoverInsert
<1>2. /\ mover = "insert" /\ carried = {j} /\ j \in Jobs
      /\ UNCHANGED <<unburied, dlq, ctxDone>>
  BY <1>1 DEF MoverInsert, HandInv
<1>3. HandInv'
  BY <1>1, <1>2 DEF HandInv
<1>4. docs \in Seq(DocType)
  BY DEF DocsInv, TypeOK, DocType
<1>5. CASE ~Applied(reply)
  <2>1. docs' = docs /\ mover' = "pushback" /\ carried' = carried /\ (trouble => trouble')
    BY <1>1, <1>5 DEF Applied, NoteLost
  <2>2. QED
    BY <1>2, <2>1, StillKept
<1>6. CASE Applied(reply)
  <2> SUFFICES ASSUME ~trouble', ~ctxDone', NEW k \in Jobs
               PROVE  KeptOnce(k)'
    BY <1>3 DEF KeptInv
  <2>1. reply = "ok" /\ ~trouble /\ ~ctxDone
    BY <1>1, <1>2, <1>6 DEF NoteLost, Applied
  <2>2. docs' = Append(docs, NewDoc(j)) /\ mover' = "pop" /\ carried' = {}
    BY <1>1, <2>1 DEF Applied
  <2>3. docs' = Append(docs, NewDoc(j)) /\ mover' = "pop" /\ carried' = {} /\ KeptOnce(k)
    BY <2>1, <2>2 DEF KeptInv
  <2>4. /\ DOMAIN docs = 1..Len(docs) /\ DOMAIN docs' = 1..(Len(docs) + 1) /\ Len(docs) \in Nat
        /\ \A d \in DOMAIN docs : docs'[d] = docs[d]
        /\ docs'[Len(docs) + 1].job = j
    BY <1>4, <2>3 DEF NewDoc
  <2>5. /\ Filed(k)' <=> Filed(k) \/ k = j
        /\ Listed(k)' <=> Listed(k)
    BY <1>2, <2>4 DEF Filed, Listed
  <2>6. \A d, e \in DOMAIN docs' : docs'[d].job = k /\ docs'[e].job = k => d = e
    <3>1. CASE k = j
      <4>1. ~Filed(k)
        BY <1>2, <2>3, <3>1 DEF KeptOnce
      <4>2. \A d \in DOMAIN docs' : docs'[d].job = k => d = Len(docs) + 1
        BY <2>4, <4>1 DEF Filed
      <4>3. QED
        BY <4>2
    <3>2. CASE k # j
      <4>1. \A d \in DOMAIN docs' : docs'[d].job = k => d \in DOMAIN docs /\ docs[d].job = k
        BY <2>4, <3>2
      <4>2. QED
        BY <2>3, <4>1 DEF KeptOnce
    <3>3. QED
      BY <3>1, <3>2
  <2>7. QED
    BY <1>2, <2>3, <2>5, <2>6 DEF KeptOnce
<1>7. QED
  BY <1>5, <1>6

(* The job whose insert was refused is back in the list.                    *)
LEMMA PushBackKeeps ==
    ASSUME DocsInv, HandInv, KeptInv, MoverPushBack
    PROVE  HandInv' /\ KeptInv'
<1>1. PICK j \in carried, reply \in Replies :
          /\ dlq' = IF Applied(reply) THEN Append(dlq, j) ELSE dlq
          /\ Note(reply)
  BY DEF MoverPushBack
<1>2. /\ mover = "pushback" /\ mover' = "pop" /\ carried' = {}
      /\ UNCHANGED <<unburied, docs, ctxDone>>
      /\ carried = {j} /\ j \in Jobs
  BY <1>1 DEF MoverPushBack, HandInv
<1>3. HandInv'
  BY <1>2 DEF HandInv
<1>4. ASSUME ~trouble', ~ctxDone'
      PROVE  \A k \in Jobs : KeptOnce(k)'
  <2>1. reply = "ok" /\ ~trouble /\ ~ctxDone
    BY <1>1, <1>2, <1>4 DEF Note
  <2>2. dlq' = Append(dlq, j) /\ \A k \in Jobs : KeptOnce(k)
    BY <1>1, <2>1 DEF KeptInv, Applied
  <2>3. ~Listed(j) /\ ~Filed(j) /\ j \notin unburied
    BY <1>2, <2>2 DEF KeptOnce
  <2>4. QED
    BY <1>2, <2>2, <2>3, AppendKeeps
<1>5. QED
  BY <1>3, <1>4 DEF KeptInv

(* At the start every job is the pool's.                                    *)
LEMMA InitKept == Init => HandInv /\ KeptInv
<1>1. SUFFICES ASSUME Init PROVE HandInv /\ KeptInv
  OBVIOUS
<1>2. DOMAIN dlq = {} /\ DOMAIN docs = {}
  BY <1>1 DEF Init
<1>3. QED
  BY <1>1, <1>2 DEF Init, HandInv, KeptInv, KeptOnce, Listed, Filed

(* Every step keeps a dead lettered job in one place.                       *)
LEMMA NextKept == DocsInv /\ HandInv /\ KeptInv /\ [Next]_vars => HandInv' /\ KeptInv'
<1>1. SUFFICES ASSUME DocsInv, HandInv, KeptInv, [Next]_vars PROVE HandInv' /\ KeptInv'
  OBVIOUS
<1>2. CASE \E j \in Jobs : Bury(j)
  BY <1>1, <1>2, BuryKeeps
<1>3. CASE MoverPop \/ MoverInsert \/ MoverPushBack
  BY <1>1, <1>3, PopKeeps, InsertKeeps, PushBackKeeps
<1>4. CASE MoverCall \/ MoverNothing \/ MoverStop
  <2>1. /\ UNCHANGED <<unburied, dlq, carried, docs, ctxDone>> /\ (trouble => trouble')
        /\ mover \in {"pop", "blocked"} /\ mover' \in {"pop", "blocked", "stopped"}
    BY <1>4 DEF MoverCall, MoverNothing, MoverStop
  <2>2. carried = {}
    BY <1>1, <2>1 DEF HandInv
  <2>3. QED
    BY <1>1, <2>1, <2>2, StillKept
<1>5. CASE Tick \/ Cancel \/ UNCHANGED vars
  <2>1. /\ UNCHANGED <<unburied, dlq, mover, carried, trouble>> /\ (ctxDone => ctxDone')
        /\ DOMAIN docs' = DOMAIN docs
    BY <1>5 DEF Tick, Cancel, vars, moverVars, consumerVars
  <2>2. \A d \in DOMAIN docs : docs'[d].job = docs[d].job
    <3>1. CASE Tick
      <4>1. docs \in Seq(DocType)
        BY <1>1 DEF DocsInv, TypeOK, DocType
      <4>2. ASSUME NEW d \in DOMAIN docs PROVE docs[d] \in DocType
        BY <4>1, <4>2, ElementOfSeq, LenProperties
      <4>3. QED
        BY <3>1, <4>2 DEF Tick, DocType
    <3>2. CASE ~Tick
      BY <1>5, <3>2 DEF Cancel, vars
    <3>3. QED
      BY <3>1, <3>2
  <2>3. QED
    BY <1>1, <2>1, <2>2, StillKept
<1>6. CASE Crash
  BY <1>6 DEF Crash, HandInv, KeptInv
<1>7. CASE Consumer
  <2>1. trouble => trouble'
    BY <1>1, <1>7, NoteFacts
       DEF Consumer, ConsumerFetch, ConsumerMark, ConsumerReject, ConsumerHandle,
           ConsumerComplete, ConsumerFail, ConsumerStop, NoteLost
  <2>2. QED
    BY <1>1, <1>7, <2>1, ConsumerWrites, StillKept
<1>8. QED
  BY <1>1, <1>2, <1>3, <1>4, <1>5, <1>6, <1>7 DEF Next, Mover

(* From the pool to the collection a dead lettered job is neither lost nor  *)
(* doubled, however often its insert is refused, until the pool is shut     *)
(* down or a failure strikes that the code cannot make good: it is in the   *)
(* list, in the hand of the DLQ worker, or one document                     *)
(* (start-dlq-worker.go:23-65).                                             *)
THEOREM DeadLettersAreKept == Spec => []DeadLetterKeptOnce
<1>1. HandInv /\ KeptInv => DeadLetterKeptOnce
  <2>1. SUFFICES ASSUME HandInv, KeptInv, ~trouble, ~ctxDone, NEW j \in Jobs \ unburied
                 PROVE  \E place \in Places(j) : Places(j) = {place}
    BY DEF DeadLetterKeptOnce
  <2>2. KeptOnce(j) /\ (Listed(j) \/ Filed(j) \/ j \in carried)
    BY <2>1 DEF KeptInv, KeptOnce
  <2>3. CASE Listed(j)
    <3>1. PICK i \in DOMAIN dlq : dlq[i] = j
      BY <2>3 DEF Listed
    <3>2. InList(j) = {i} /\ InDocs(j) = {} /\ carried \cap {j} = {}
      BY <2>2, <2>3, <3>1 DEF KeptOnce, Filed, InList, InDocs
    <3>3. Places(j) = {<<"list", i>>}
      BY <3>2 DEF Places
    <3>4. QED
      BY <3>3
  <2>4. CASE Filed(j)
    <3>1. PICK d \in DOMAIN docs : docs[d].job = j
      BY <2>4 DEF Filed
    <3>2. InDocs(j) = {d} /\ InList(j) = {} /\ carried \cap {j} = {}
      BY <2>2, <2>4, <3>1 DEF KeptOnce, Listed, InList, InDocs
    <3>3. Places(j) = {<<"docs", d>>}
      BY <3>2 DEF Places
    <3>4. QED
      BY <3>3
  <2>5. CASE j \in carried
    <3>1. InDocs(j) = {} /\ InList(j) = {} /\ carried \cap {j} = {j}
      BY <2>2, <2>5 DEF KeptOnce, Listed, Filed, InList, InDocs
    <3>2. Places(j) = {<<"mover", j>>}
      BY <3>1 DEF Places
    <3>3. QED
      BY <3>2
  <2>6. QED
    BY <2>2, <2>3, <2>4, <2>5
<1>2. Spec => [](HandInv /\ KeptInv)
  BY InitKept, NextKept, DocsAlways, PTL DEF Spec
<1>3. QED
  BY <1>1, <1>2, PTL


(***************************************************************************)
(* The consumer implements DocumentLifecycle.                              *)
(***************************************************************************)

(* A sequence with one more element, as a function.                         *)
LEMMA AppendFacts ==
    ASSUME NEW S, NEW s \in Seq(S), NEW e \in S
    PROVE  Append(s, e) = [i \in 1..(Len(s) + 1) |-> IF i = Len(s) + 1 THEN e ELSE s[i]]
<1>1. /\ Append(s, e) \in Seq(S) /\ Len(Append(s, e)) = Len(s) + 1 /\ Len(s) \in Nat
      /\ \A i \in 1..Len(s) : Append(s, e)[i] = s[i]
      /\ Append(s, e)[Len(s) + 1] = e
  BY AppendProperties, LenProperties
<1>2. Append(s, e) = [i \in 1..(Len(s) + 1) |-> Append(s, e)[i]]
  BY <1>1, LenProperties
<1>3. \A i \in 1..(Len(s) + 1) : i = Len(s) + 1 \/ i \in 1..Len(s)
  BY <1>1
<1>4. \A i \in 1..(Len(s) + 1) : Append(s, e)[i] = IF i = Len(s) + 1 THEN e ELSE s[i]
  BY <1>1, <1>3
<1>5. QED
  BY <1>2, <1>4

(* A write about one document changes the stage and the runs of that one.   *)
LEMMA OneWrite ==
    ASSUME docs \in Seq(DocType), NEW d \in DOMAIN docs, NEW new \in DocType,
           docs' = [docs EXCEPT ![d] = new]
    PROVE  /\ Stages' = [Stages EXCEPT ![d] = Stage(new)]
           /\ Runs' = [Runs EXCEPT ![d] = new.attempts]
           /\ d \in DOMAIN Stages /\ Stages[d] = Stage(docs[d]) /\ Runs[d] = docs[d].attempts
<1>1. DOMAIN docs' = DOMAIN docs /\ \A e \in DOMAIN docs : docs'[e] = IF e = d THEN new ELSE docs[e]
  OBVIOUS
<1>2. Stages' = [e \in DOMAIN docs |-> Stage(docs'[e])]
      /\ Runs' = [e \in DOMAIN docs |-> docs'[e].attempts]
  BY <1>1 DEF Stages, Runs, Stage, Final
<1>3. QED
  BY <1>1, <1>2 DEF Stages, Runs

(* A document appears when the mover inserts it, and waits.                 *)
LEMMA InsertMaps ==
    ASSUME DocsInv, MoverInsert
    PROVE  Documents!File \/ UNCHANGED Documents!docVars
<1>1. CASE docs' = docs
  BY <1>1 DEF Documents!docVars, Stages, Runs, Stage, Final
<1>2. ASSUME NEW j \in Jobs, docs' = Append(docs, NewDoc(j))
      PROVE  Documents!File
  <2>1. /\ docs \in Seq(DocType) /\ Len(docs) \in Nat /\ DOMAIN docs = 1..Len(docs)
    BY DEF DocsInv, TypeOK, DocType
  <2>2. /\ DOMAIN docs' = 1..(Len(docs) + 1) /\ docs'[Len(docs) + 1] = NewDoc(j)
        /\ \A d \in 1..Len(docs) : docs'[d] = docs[d]
    BY <1>2, <2>1
  <2>3. Stage(NewDoc(j)) = "waiting" /\ NewDoc(j).attempts = 0
    BY DEF Stage, NewDoc, Final
  <2>4. /\ Stages \in Seq({"waiting"} \cup {Stage(docs[d]) : d \in DOMAIN docs})
        /\ Runs \in Seq({0} \cup {docs[d].attempts : d \in DOMAIN docs})
        /\ Len(Stages) = Len(docs) /\ Len(Runs) = Len(docs)
    BY <2>1 DEF Stages, Runs
  <2>5. Stages' = [d \in 1..(Len(docs) + 1) |-> Stage(docs'[d])]
        /\ Runs' = [d \in 1..(Len(docs) + 1) |-> docs'[d].attempts]
    BY <2>2 DEF Stages, Runs, Stage, Final
  <2>6. Append(Stages, "waiting") =
          [d \in 1..(Len(docs) + 1) |-> IF d = Len(docs) + 1 THEN "waiting" ELSE Stages[d]]
    BY <2>4, AppendFacts
  <2>7. Append(Runs, 0) =
          [d \in 1..(Len(docs) + 1) |-> IF d = Len(docs) + 1 THEN 0 ELSE Runs[d]]
    BY <2>4, AppendFacts
  <2>8. \A d \in 1..(Len(docs) + 1) : d # Len(docs) + 1 => d \in 1..Len(docs)
    BY <2>1
  <2>9. Stages' = Append(Stages, "waiting") /\ Runs' = Append(Runs, 0)
    BY <2>1, <2>2, <2>3, <2>5, <2>6, <2>7, <2>8 DEF Stages, Runs
  <2>10. QED
    BY <2>9 DEF Documents!File
<1>3. QED
  BY <1>1, <1>2 DEF MoverInsert, DocsInv, TypeOK

(* Each write of the consumer is a step of the document at work.            *)
LEMMA ConsumerMaps ==
    ASSUME DocsInv, Consumer
    PROVE  [Documents!Next]_Documents!docVars
<1>1. CASE docs' = docs
  BY <1>1 DEF Documents!docVars, Stages, Runs, Stage, Final
<1>2. CASE docs' # docs
  <2> DEFINE d   == Current.doc
             old == docs[d]
             new == docs'[d]
  <2>1. \/ ConsumerMark \/ ConsumerReject \/ ConsumerHandle
        \/ ConsumerComplete \/ ConsumerFail
    BY <1>2 DEF Consumer, ConsumerFetch, ConsumerStop
  <2>2. consumer \in {"mark", "handle", "complete", "fail"}
    BY <2>1 DEF ConsumerMark, ConsumerReject, ConsumerHandle, ConsumerComplete, ConsumerFail
  <2>3. /\ docs \in Seq(DocType) /\ d \in DOMAIN docs /\ old \in DocType
        /\ Current.retryCount = old.retryCount
        /\ consumer = "mark" => old.status \in Waiting
        /\ consumer # "mark" => old.status = "processing"
        /\ consumer \in {"mark", "handle"} => old.attempts = old.retryCount
        /\ consumer = "fail" => old.attempts = old.retryCount + 1
        /\ consumer = "complete" <=> old.succeeded
    BY <2>2, CurrentFacts DEF DocsInv, TypeOK, DocType, WorkIsMarked
  <2>4. /\ old.retryCount \in 0..(MaxRetryCount - 1) /\ old.attempts \in Nat
        /\ MaxRetryCount \in Nat \ {0}
    BY <2>3, ConfigAssumption DEF DocType
  <2> HIDE DEF old, new
  <2>5. ASSUME NEW e \in DocType, docs' = [docs EXCEPT ![d] = e]
        PROVE  /\ e = new
               /\ Stages' = [Stages EXCEPT ![d] = Stage(e)]
               /\ Runs' = [Runs EXCEPT ![d] = e.attempts]
               /\ d \in DOMAIN Stages /\ Stages[d] = Stage(old) /\ Runs[d] = old.attempts
    BY <2>3, <2>5, OneWrite DEF old, new
  <2>6. ASSUME NEW e \in DocType, docs' = [docs EXCEPT ![d] = e], e.attempts = old.attempts
        PROVE  UNCHANGED Runs
    <3>1. Runs' = [Runs EXCEPT ![d] = Runs[d]]
      BY <2>5, <2>6
    <3>2. QED
      BY <3>1 DEF Runs
  <2>7. \A e \in DocType : e.succeeded \in BOOLEAN
    BY DEF DocType
  <2>8. CASE ConsumerMark
    <3> DEFINE e == [old EXCEPT !.status = "processing"]
    <3>1. consumer = "mark" /\ docs' = [docs EXCEPT ![d] = e]
      BY <1>2, <2>8 DEF ConsumerMark, Set, old
    <3>2. /\ e \in DocType /\ e.attempts = old.attempts /\ e.status = "processing"
          /\ e.retryCount = old.retryCount /\ e.succeeded = old.succeeded
      BY <2>3 DEF DocType
    <3> HIDE DEF e
    <3>3. Stage(old) = "waiting"
      BY <2>3, <3>1 DEF Stage, Waiting, Final
    <3>4. Stage(e) = "taken"
      BY <2>3, <2>4, <3>1, <3>2 DEF Stage, Final
    <3>5. Documents!Take(d)
      BY <2>5, <2>6, <3>1, <3>2, <3>3, <3>4 DEF Documents!Take, Documents!Move
    <3>6. QED
      BY <2>5, <3>1, <3>2, <3>5 DEF Documents!Next
  <2>9. CASE ConsumerReject
    <3> DEFINE e == [old EXCEPT !.status = "failed"]
    <3>1. consumer = "handle" /\ docs' = [docs EXCEPT ![d] = e]
      BY <1>2, <2>9 DEF ConsumerReject, Set, old
    <3>2. e \in DocType /\ e.attempts = old.attempts /\ e.status = "failed"
      BY <2>3 DEF DocType
    <3> HIDE DEF e
    <3>3. Stage(old) = "taken"
      BY <2>3, <2>4, <3>1 DEF Stage, Final
    <3>4. Stage(e) = "waiting"
      BY <3>2 DEF Stage, Final
    <3>5. Documents!Return(d)
      BY <2>5, <2>6, <3>1, <3>2, <3>3, <3>4 DEF Documents!Return, Documents!Move
    <3>6. QED
      BY <2>5, <3>1, <3>2, <3>5 DEF Documents!Next
  <2>10. CASE ConsumerHandle
    <3>1. PICK ok \in BOOLEAN :
             docs' = [docs EXCEPT ![d].attempts = @ + 1, ![d].succeeded = @ \/ ok]
      BY <2>10 DEF ConsumerHandle
    <3> DEFINE e == [old EXCEPT !.attempts = @ + 1, !.succeeded = ok]
    <3>2. consumer = "handle" /\ old.succeeded = FALSE
      BY <2>3, <2>7, <2>10 DEF ConsumerHandle
    <3>3. docs' = [docs EXCEPT ![d] = e]
      BY <2>3, <3>1, <3>2 DEF old, DocType
    <3>4. /\ e \in DocType /\ e.attempts = old.attempts + 1 /\ e.status = "processing"
          /\ e.retryCount = old.retryCount /\ e.succeeded = ok
      <4>1. /\ e = [old EXCEPT !.attempts = @ + 1, !.succeeded = ok]
            /\ old.attempts + 1 \in Nat /\ old.status = "processing" /\ old \in DocType
        BY <2>3, <2>4, <3>2
      <4> HIDE DEF e
      <4>2. CASE ok = TRUE
        BY <4>1, <4>2 DEF DocType
      <4>3. CASE ok = FALSE
        BY <4>1, <4>3 DEF DocType
      <4>4. QED
        BY <4>2, <4>3
    <3> HIDE DEF e
    <3>5. Stage(old) = "taken"
      BY <2>3, <2>4, <3>2 DEF Stage, Final
    <3>6. Stage(e) \in {"succeeded", "failed"}
      BY <2>3, <2>4, <3>2, <3>4 DEF Stage, Final
    <3>7. Runs[d] < MaxRetryCount /\ Runs' = [Runs EXCEPT ![d] = @ + 1]
      <4>1. Runs[d] = old.attempts /\ Runs' = [Runs EXCEPT ![d] = e.attempts]
        BY <2>5, <3>3, <3>4
      <4>2. old.attempts < MaxRetryCount
        BY <2>3, <2>4, <2>10 DEF ConsumerHandle
      <4>3. QED
        BY <3>4, <4>1, <4>2
    <3>8. Documents!Run(d)
      BY <2>5, <3>3, <3>4, <3>5, <3>6, <3>7 DEF Documents!Run, Documents!Move
    <3>9. QED
      BY <2>5, <3>3, <3>4, <3>8 DEF Documents!Next
  <2>11. CASE ConsumerComplete
    <3> DEFINE e == [old EXCEPT !.status = "completed"]
    <3>1. consumer = "complete" /\ docs' = [docs EXCEPT ![d] = e]
      BY <1>2, <2>11 DEF ConsumerComplete, Set, old
    <3>2. e \in DocType /\ e.attempts = old.attempts /\ e.status = "completed"
      BY <2>3 DEF DocType, Final
    <3> HIDE DEF e
    <3>3. Stage(old) = "succeeded"
      BY <2>3, <3>1 DEF Stage, Final
    <3>4. Stage(e) = "completed"
      BY <3>2 DEF Stage, Final
    <3>5. Documents!Complete(d)
      BY <2>5, <2>6, <3>1, <3>2, <3>3, <3>4 DEF Documents!Complete, Documents!Move
    <3>6. QED
      BY <2>5, <3>1, <3>2, <3>5 DEF Documents!Next
  <2>12. CASE ConsumerFail
    <3> DEFINE e == FailedDoc(old, old.retryCount)
    <3>1. consumer = "fail" /\ docs' = [docs EXCEPT ![d] = e]
      BY <1>2, <2>3, <2>12 DEF ConsumerFail, Set, old
    <3>2. Stage(old) = "failed" /\ old.attempts = old.retryCount + 1
      BY <2>3, <2>4, <3>1 DEF Stage, Final
    <3>3. CASE old.retryCount + 1 >= MaxRetryCount
      <4>1. /\ e \in DocType /\ e.attempts = old.attempts
            /\ e.status = "permanently_failed"
        BY <2>3, <3>3 DEF FailedDoc, DocType, Final
      <4> HIDE DEF e
      <4>2. Stage(e) = "permanently_failed" /\ Runs[d] = MaxRetryCount
        <5>1. Runs[d] = old.attempts
          BY <2>5, <3>1, <4>1
        <5>2. old.attempts = MaxRetryCount
          BY <2>4, <3>2, <3>3
        <5>3. QED
          BY <4>1, <5>1, <5>2 DEF Stage, Final
      <4>3. Documents!GiveUp(d)
        BY <2>5, <2>6, <3>1, <3>2, <4>1, <4>2 DEF Documents!GiveUp, Documents!Move
      <4>4. QED
        BY <2>5, <3>1, <4>1, <4>3 DEF Documents!Next
    <3>4. CASE ~(old.retryCount + 1 >= MaxRetryCount)
      <4>1. /\ old.retryCount + 1 \in 0..(MaxRetryCount - 1)
            /\ Backoff[old.retryCount + 1] \in Nat
        BY <2>4, <3>4, BackoffAssumption
      <4>2. e = [old EXCEPT !.status = "failed", !.retryCount = old.retryCount + 1,
                            !.wait = Backoff[old.retryCount + 1]]
        BY <3>4 DEF FailedDoc
      <4>3. e \in DocType /\ e.attempts = old.attempts /\ e.status = "failed"
        BY <2>3, <4>1, <4>2 DEF DocType
      <4> HIDE DEF e
      <4>4. Stage(e) = "waiting" /\ Runs[d] < MaxRetryCount
        <5>1. Runs[d] = old.attempts
          BY <2>5, <3>1, <4>3
        <5>2. old.attempts < MaxRetryCount
          BY <2>4, <3>2, <3>4
        <5>3. QED
          BY <4>3, <5>1, <5>2 DEF Stage, Final
      <4>5. Documents!Retry(d)
        BY <2>5, <2>6, <3>1, <3>2, <4>3, <4>4 DEF Documents!Retry, Documents!Move
      <4>6. QED
        BY <2>5, <3>1, <4>3, <4>5 DEF Documents!Next
    <3>5. QED
      BY <3>3, <3>4
  <2>13. QED
    BY <2>1, <2>8, <2>9, <2>10, <2>11, <2>12
<1>3. QED
  BY <1>1, <1>2

(* Time changes no stage and no count of runs.                              *)
LEMMA TickMaps ==
    ASSUME DocsInv, Tick
    PROVE  UNCHANGED Documents!docVars
<1>1. docs \in Seq(DocType)
  BY DEF DocsInv, TypeOK, DocType
<1>2. ASSUME NEW d \in DOMAIN docs
      PROVE  /\ docs'[d].status = docs[d].status /\ docs'[d].succeeded = docs[d].succeeded
             /\ docs'[d].attempts = docs[d].attempts
             /\ docs'[d].retryCount = docs[d].retryCount
  <2>1. docs[d] \in DocType
    BY <1>1, ElementOfSeq, LenProperties
  <2>2. QED
    BY <2>1 DEF Tick, DocType
<1>3. DOMAIN docs' = DOMAIN docs /\ \A d \in DOMAIN docs : Stage(docs'[d]) = Stage(docs[d])
  BY <1>2 DEF Tick, Stage
<1>4. QED
  BY <1>2, <1>3 DEF Documents!docVars, Stages, Runs

(* Every step maps to a step of a document or to none.                      *)
LEMMA NextMaps == DocsInv /\ [Next]_vars => [Documents!Next]_Documents!docVars
<1>1. SUFFICES ASSUME DocsInv, [Next]_vars PROVE [Documents!Next]_Documents!docVars
  OBVIOUS
<1>2. CASE docs' = docs
  BY <1>2 DEF Documents!docVars, Stages, Runs, Stage, Final
<1>3. CASE MoverInsert \/ Consumer \/ Tick
  BY <1>1, <1>3, InsertMaps, ConsumerMaps, TickMaps DEF Documents!Next
<1>4. QED
  BY <1>1, <1>2, <1>3
     DEF Next, Mover, Bury, Cancel, Crash, MoverCall, MoverPop, MoverNothing, MoverPushBack,
         MoverStop, vars

(* The retry consumer implements DocumentLifecycle: whatever it fetched     *)
(* when, and whichever of its writes fail, each step is one that the stage  *)
(* of the document allows (retry-dlq-worker.go:59-150).                     *)
THEOREM ConsumerImplementsDocuments == Spec => ImplementsDocuments
<1>1. Init => Documents!Init
  <2>1. SUFFICES ASSUME Init PROVE Stages = <<>> /\ Runs = <<>>
    BY DEF Documents!Init
  <2>2. DOMAIN docs = {}
    BY <2>1 DEF Init
  <2>3. QED
    BY <2>2 DEF Stages, Runs
<1>2. QED
  BY <1>1, NextMaps, DocsAlways, PTL DEF Spec, Documents!Spec, ImplementsDocuments

(* A document is "completed" only after a run, and given up only after      *)
(* exactly MaxRetryCount runs, none of which succeeded: a fact about        *)
(* DocumentLifecycle that the consumer inherits                             *)
(* (retry-dlq-worker.go:124-150).                                           *)
THEOREM EndsOfDocumentsEarned == Spec => []Documents!EndsAreEarned
<1>1. ASSUME DocsInv
      PROVE  /\ DOMAIN Stages = DOMAIN docs /\ DOMAIN Runs = DOMAIN docs
             /\ DOMAIN docs = 1..Len(docs)
             /\ \A d \in DOMAIN docs : Runs[d] \in Nat
  <2>1. docs \in Seq(DocType)
    BY <1>1 DEF DocsInv, TypeOK, DocType
  <2>2. ASSUME NEW d \in DOMAIN docs PROVE docs[d].attempts \in Nat
    <3>1. docs[d] \in DocType
      BY <2>1, <2>2, ElementOfSeq, LenProperties
    <3>2. QED
      BY <3>1 DEF DocType
  <2>3. QED
    BY <2>1, <2>2, LenProperties DEF Runs, Stages
<1>2. Init => Documents!EndsAreEarned
  BY DEF Init, Stages, Documents!EndsAreEarned
<1>3. DocsInv /\ Documents!EndsAreEarned /\ [Next]_vars => Documents!EndsAreEarned'
  <2>1. SUFFICES ASSUME DocsInv, Documents!EndsAreEarned, [Next]_vars
                 PROVE  Documents!EndsAreEarned'
    OBVIOUS
  <2>2. [Documents!Next]_Documents!docVars
    BY <2>1, NextMaps
  <2>3. CASE UNCHANGED Documents!docVars
    BY <2>1, <2>3 DEF Documents!docVars, Documents!EndsAreEarned
  <2>4. CASE Documents!File
    <3> DEFINE n == Len(docs)
    <3>1. n \in Nat /\ DOMAIN Stages = 1..n /\ DOMAIN Runs = 1..n
      BY <1>1, <2>1, LenProperties DEF DocsInv, TypeOK
    <3> HIDE DEF n
    <3>2. /\ Stages \in Seq({"waiting"} \cup {Stages[d] : d \in 1..n}) /\ Len(Stages) = n
          /\ Runs \in Seq({0} \cup {Runs[d] : d \in 1..n}) /\ Len(Runs) = n
      <4>1. Stages = [d \in 1..n |-> Stages[d]] /\ Runs = [d \in 1..n |-> Runs[d]]
        BY <3>1 DEF Stages, Runs
      <4>2. QED
        BY <3>1, <4>1
    <3>3. /\ Stages' = [d \in 1..(n + 1) |-> IF d = n + 1 THEN "waiting" ELSE Stages[d]]
          /\ Runs' = [d \in 1..(n + 1) |-> IF d = n + 1 THEN 0 ELSE Runs[d]]
      BY <2>4, <3>2, AppendFacts DEF Documents!File
    <3>4. \A d \in 1..(n + 1) : d = n + 1 \/ d \in DOMAIN Stages
      BY <3>1
    <3>5. QED
      BY <2>1, <3>3, <3>4 DEF Documents!EndsAreEarned
  <2>5. ASSUME NEW d \in DOMAIN Stages, NEW to, Stages' = [Stages EXCEPT ![d] = to],
               NEW n \in Nat, Runs' = [Runs EXCEPT ![d] = n],
               to \in {"succeeded", "completed"} => n > 0,
               to = "permanently_failed" => n = MaxRetryCount
        PROVE  Documents!EndsAreEarned'
    BY <1>1, <2>1, <2>5 DEF Documents!EndsAreEarned
  <2>6. ASSUME NEW d \in DOMAIN Stages, NEW to, Stages' = [Stages EXCEPT ![d] = to],
               UNCHANGED Runs,
               to \in {"succeeded", "completed"} => Stages[d] = "succeeded",
               to = "permanently_failed" => Runs[d] = MaxRetryCount
        PROVE  Documents!EndsAreEarned'
    BY <1>1, <2>1, <2>6 DEF Documents!EndsAreEarned
  <2>7. ASSUME NEW d \in DOMAIN Stages, Documents!Run(d)
        PROVE  Documents!EndsAreEarned'
    <3>1. Runs[d] + 1 \in Nat /\ Runs[d] + 1 > 0 /\ Runs' = [Runs EXCEPT ![d] = Runs[d] + 1]
      BY <1>1, <2>1, <2>7 DEF Documents!Run
    <3>2. QED
      BY <2>5, <2>7, <3>1 DEF Documents!Run, Documents!Move
  <2>8. ASSUME NEW d \in DOMAIN Stages,
               \/ Documents!Take(d) \/ Documents!Return(d) \/ Documents!Complete(d)
               \/ Documents!Retry(d) \/ Documents!GiveUp(d)
        PROVE  Documents!EndsAreEarned'
    BY <2>6, <2>8 DEF Documents!Take, Documents!Return, Documents!Complete, Documents!Retry,
                      Documents!GiveUp, Documents!Move
  <2>9. QED
    BY <2>2, <2>3, <2>4, <2>7, <2>8 DEF Documents!Next
<1>4. QED
  BY <1>2, <1>3, DocsAlways, PTL DEF Spec
=============================================================================
