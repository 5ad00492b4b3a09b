------------------------- MODULE ClientPumpsProofs -------------------------
(* Theorems about ClientPumps, for every capacity of the channels, every    *)
(* set of message kinds and broadcasts, and any number of pumps and events. *)
EXTENDS ClientPumps, SequenceTheorems, FiniteSetTheorems, TLAPS

(***************************************************************************)
(* The inductive invariant.                                                *)
(***************************************************************************)

Flags ==
    /\ sendClosed \in BOOLEAN /\ receiveClosed \in BOOLEAN /\ active \in BOOLEAN
    /\ ctxDone \in BOOLEAN /\ registered \in BOOLEAN /\ slow \in BOOLEAN

Types ==
    /\ send \in Seq(Nat) /\ Len(send) <= SendCap
    /\ receive \in Seq(Kinds) /\ Len(receive) <= ReceiveCap
    /\ conn \in {"open", "broken", "closed"}
    /\ hold \in [Writers -> Seq(Nat)] /\ left \in [Writers -> 0..(SendCap - 1)]
    /\ events \in 0..MaxEvents /\ snapshot \in [Broadcasts -> 0..events]
    /\ crashed \in {"no", "send on closed channel", "close of closed channel",
                    "nil message", "concurrent write"}
    /\ accepted \in Nat /\ out \in Seq(Nat)

\* Where the goroutines of each kind can be.
Stages == Cleaning \cup
    {"idle", "loop", "writing", "read", "cancel", "join", "leave", "reply", "done"}
Steps ==
    /\ task \in [Threads -> Stages]
    /\ \A w \in Writers : task[w] \in Cleaning \cup {"idle", "loop", "writing", "done"}
    /\ \A r \in Readers : task[r] \in Cleaning \cup {"idle", "loop", "read", "done"}
    /\ \A p \in Pumps : task[p] \in {"idle", "loop", "join", "leave", "reply", "done"}
    /\ task[Closer] \in Cleaning \cup {"idle", "cancel", "done"}

\* The sets of pumps are started one after the other, each as a whole.
SetsInTurn ==
    \E n \in Sets : \A t \in Threads \ {Closer} : task[t] # "idle" <=> t[2] <= n

\* What only a leaving client can show.
Leaving ==
    /\ task[Closer] # "idle" => ~active
    /\ sendClosed \/ receiveClosed \/ ctxDone \/ conn = "closed" => Departing
    /\ crashed # "no" => Departing \/ Starts > 1

Held == \A w \in Writers : hold[w] # <<>> <=> task[w] = "writing"

\* Each accepted message is in one place.
Placed ==
    /\ IsInjective(send) /\ IsInjective(out) /\ \A w \in Writers : IsInjective(hold[w])
    /\ ToSet(send) \cap ToSet(out) = {}
    /\ discarded \cap (ToSet(send) \cup ToSet(out)) = {}
    /\ \A w \in Writers :
          /\ ToSet(hold[w]) \cap (ToSet(send) \cup ToSet(out) \cup discarded) = {}
          /\ \A v \in Writers \ {w} : ToSet(hold[w]) \cap ToSet(hold[v]) = {}
    /\ \A m : m \in 1..accepted <=> \/ m \in ToSet(send) \/ m \in ToSet(out) \/ m \in discarded
                                    \/ \E w \in Writers : m \in ToSet(hold[w])

\* Of the first write pump.
Batch == hold[<<"writer", 1>>]

Rising ==
    /\ \A i, j \in DOMAIN out : i < j => out[i] < out[j]
    /\ \A i, j \in DOMAIN Batch : i < j => Batch[i] < Batch[j]
    /\ \A i, j \in DOMAIN send : i < j => send[i] < send[j]
    /\ \A i \in DOMAIN out, j \in DOMAIN Batch : out[i] < Batch[j]
    /\ \A i \in DOMAIN out, j \in DOMAIN send : out[i] < send[j]
    /\ \A i \in DOMAIN Batch, j \in DOMAIN send : Batch[i] < send[j]

\* Nothing is missing from the line of messages.
Complete ==
    /\ \A i \in DOMAIN out : out[i] = i
    /\ \A i \in DOMAIN Batch : Batch[i] = Len(out) + i
    /\ \A i \in DOMAIN send : send[i] = Len(out) + Len(Batch) + i
    /\ accepted = Len(out) + Len(Batch) + Len(send)

InOrder == Starts = 1 => Rising /\ (~Departing => Complete)

Inv == Flags /\ Types /\ Steps /\ SetsInTurn /\ Leaving /\ Held /\ Placed /\ InOrder

(***************************************************************************)
(* Sequences.                                                              *)
(***************************************************************************)

LEMMA AppendSet ==
    ASSUME NEW s \in Seq(Nat), NEW e \in Nat
    PROVE  /\ ToSet(Append(s, e)) = ToSet(s) \cup {e}
           /\ IsInjective(s) /\ e \notin ToSet(s) => IsInjective(Append(s, e))
<1>1. DOMAIN Append(s, e) = 1..(Len(s) + 1) /\ Append(s, e)[Len(s) + 1] = e
  OBVIOUS
<1>2. DOMAIN s = 1..Len(s) /\ \A i \in 1..Len(s) : Append(s, e)[i] = s[i]
  OBVIOUS
<1>3. QED
  BY <1>1, <1>2 DEF ToSet, IsInjective

LEMMA TailSet ==
    ASSUME NEW s \in Seq(Nat), s # <<>>
    PROVE  /\ Head(s) \in Nat /\ ToSet(s) = ToSet(Tail(s)) \cup {Head(s)}
           /\ IsInjective(s) => IsInjective(Tail(s)) /\ Head(s) \notin ToSet(Tail(s))
<1>1. /\ DOMAIN s = 1..Len(s) /\ Len(s) \in Nat \ {0}
      /\ DOMAIN Tail(s) = 1..(Len(s) - 1)
      /\ Head(s) = s[1] /\ \A i \in 1..(Len(s) - 1) : Tail(s)[i] = s[i + 1]
  BY HeadTailProperties
<1>2. ToSet(s) = ToSet(Tail(s)) \cup {Head(s)}
  <2>1. \A i \in DOMAIN s : i = 1 \/ (i - 1 \in DOMAIN Tail(s) /\ s[i] = Tail(s)[i - 1])
    BY <1>1
  <2>2. \A i \in DOMAIN Tail(s) : i + 1 \in DOMAIN s /\ Tail(s)[i] = s[i + 1]
    BY <1>1
  <2>3. ToSet(s) \subseteq ToSet(Tail(s)) \cup {Head(s)}
    <3>1. SUFFICES ASSUME NEW i \in DOMAIN s PROVE s[i] \in ToSet(Tail(s)) \cup {Head(s)}
      BY DEF ToSet
    <3>2. i = 1 \/ (i - 1 \in DOMAIN Tail(s) /\ s[i] = Tail(s)[i - 1])
      BY <2>1
    <3>3. QED
      BY <1>1, <3>2 DEF ToSet
  <2>4. ToSet(Tail(s)) \subseteq ToSet(s)
    BY <2>2 DEF ToSet
  <2>5. Head(s) \in ToSet(s)
    BY <1>1 DEF ToSet
  <2>6. QED
    BY <2>3, <2>4, <2>5
<1>3. ASSUME IsInjective(s)
      PROVE  IsInjective(Tail(s)) /\ Head(s) \notin ToSet(Tail(s))
  <2>1. \A i \in DOMAIN Tail(s) : i + 1 \in DOMAIN s /\ 1 \in DOMAIN s /\ i + 1 # 1
    BY <1>1
  <2>2. Head(s) \notin ToSet(Tail(s))
    BY <1>1, <1>3, <2>1 DEF ToSet, IsInjective
  <2>3. \A i, j \in DOMAIN Tail(s) : i \in Int /\ j \in Int /\ (i + 1 = j + 1 => i = j)
    BY <1>1
  <2>4. IsInjective(Tail(s))
    BY <1>1, <1>3, <2>1, <2>3 DEF IsInjective
  <2>5. QED
    BY <2>2, <2>4
<1>4. QED
  BY <1>2, <1>3, HeadTailProperties

LEMMA ConcatSet ==
    ASSUME NEW s \in Seq(Nat), NEW t \in Seq(Nat)
    PROVE  /\ ToSet(s \o t) = ToSet(s) \cup ToSet(t)
           /\ IsInjective(s) /\ IsInjective(t) /\ ToSet(s) \cap ToSet(t) = {}
                => IsInjective(s \o t)
<1>1. /\ DOMAIN s = 1..Len(s) /\ DOMAIN t = 1..Len(t) /\ Len(s) \in Nat /\ Len(t) \in Nat
      /\ DOMAIN (s \o t) = 1..(Len(s) + Len(t))
      /\ \A i \in 1..(Len(s) + Len(t)) :
             (s \o t)[i] = IF i <= Len(s) THEN s[i] ELSE t[i - Len(s)]
  BY ConcatProperties
<1>2. \A i \in DOMAIN (s \o t) :
          \/ i \in DOMAIN s /\ (s \o t)[i] = s[i]
          \/ i - Len(s) \in DOMAIN t /\ (s \o t)[i] = t[i - Len(s)]
  BY <1>1
<1>3. \A i \in DOMAIN s : i \in DOMAIN (s \o t) /\ (s \o t)[i] = s[i]
  BY <1>1
<1>4. \A i \in DOMAIN t : Len(s) + i \in DOMAIN (s \o t) /\ (s \o t)[Len(s) + i] = t[i]
  <2>1. SUFFICES ASSUME NEW i \in DOMAIN t
                 PROVE  Len(s) + i \in DOMAIN (s \o t) /\ (s \o t)[Len(s) + i] = t[i]
    OBVIOUS
  <2>2. i \in Nat /\ i > 0 /\ i <= Len(t)
    BY <1>1
  <2>3. Len(s) + i \in 1..(Len(s) + Len(t)) /\ ~(Len(s) + i <= Len(s)) /\ Len(s) + i - Len(s) = i
    BY <1>1, <2>2
  <2>4. QED
    BY <1>1, <2>3
<1>5. ToSet(s \o t) = ToSet(s) \cup ToSet(t)
  <2>1. ToSet(s \o t) \subseteq ToSet(s) \cup ToSet(t)
    BY <1>2 DEF ToSet
  <2>2. ToSet(s) \subseteq ToSet(s \o t)
    BY <1>3 DEF ToSet
  <2>3. ToSet(t) \subseteq ToSet(s \o t)
    BY <1>4 DEF ToSet
  <2>4. QED
    BY <2>1, <2>2, <2>3
<1>6. ASSUME IsInjective(s), IsInjective(t), ToSet(s) \cap ToSet(t) = {}
      PROVE  IsInjective(s \o t)
  <2>1. \A i \in DOMAIN s, j \in DOMAIN t : s[i] # t[j]
    BY <1>6 DEF ToSet
  <2>2. SUFFICES ASSUME NEW i \in DOMAIN (s \o t), NEW j \in DOMAIN (s \o t),
                        (s \o t)[i] = (s \o t)[j]
                 PROVE  i = j
    BY DEF IsInjective
  <2>3. CASE i \in DOMAIN s /\ j \in DOMAIN s
    BY <1>3, <1>6, <2>2, <2>3 DEF IsInjective
  <2>4. CASE i - Len(s) \in DOMAIN t /\ j - Len(s) \in DOMAIN t
            /\ (s \o t)[i] = t[i - Len(s)] /\ (s \o t)[j] = t[j - Len(s)]
    <3>1. i - Len(s) = j - Len(s)
      BY <1>6, <2>2, <2>4 DEF IsInjective
    <3>2. i \in Int /\ j \in Int /\ Len(s) \in Int
      BY <1>1
    <3>3. QED
      BY <3>1, <3>2
  <2>5. QED
    BY <1>2, <2>1, <2>2, <2>3, <2>4
<1>7. QED
  BY <1>5, <1>6

LEMMA EmptySet == ToSet(<<>>) = {} /\ IsInjective(<<>>)
BY DEF ToSet, IsInjective

(***************************************************************************)
(* Goroutines.                                                             *)
(***************************************************************************)

LEMMA Kinds4 ==
    /\ \A t \in Writers : t \in Threads /\ t[1] = "writer" /\ t[2] \in Sets
    /\ \A t \in Readers : t \in Threads /\ t[1] = "reader" /\ t[2] \in Sets
    /\ \A t \in Pumps : t \in Threads /\ t[1] = "pump" /\ t[2] \in Sets
    /\ Closer \in Threads /\ Closer[1] = "closer" /\ Closer[2] = 0
    /\ \A t \in Threads : t \in Writers \/ t \in Readers \/ t \in Pumps \/ t = Closer
BY DEF Writers, Readers, Pumps, Closer, Threads

LEMMA Firsts ==
    /\ 1 \in Sets /\ \A n \in Sets : <<"writer", n>> \in Writers /\ <<"writer", n>>[2] = n
    /\ \A w \in Writers : w = <<"writer", w[2]>>
BY BoundAssumption DEF Sets, Writers

(* The sets that have begun are as many as their write pumps.               *)
LEMMA StartsCount ==
    ASSUME NEW at, NEW n \in Sets, \A w \in Writers : at[w] # "idle" <=> w[2] <= n
    PROVE  Cardinality({t \in Threads : at[t] # "idle"} \cap Writers) = n
<1>1. {t \in Threads : at[t] # "idle"} \cap Writers = {"writer"} \X (1..n)
  <2>1. n \in Nat /\ MaxStarts \in Nat /\ n <= MaxStarts
    BY BoundAssumption DEF Sets
  <2>2. {t \in Threads : at[t] # "idle"} \cap Writers = {w \in Writers : w[2] <= n}
    BY Kinds4
  <2>3. \A w \in {"writer"} \X (1..n) : w \in Writers /\ w[2] <= n
    BY <2>1 DEF Writers, Sets
  <2>4. \A w \in Writers : w[2] <= n => w \in {"writer"} \X (1..n)
    BY <2>1 DEF Writers, Sets
  <2>5. QED
    BY <2>2, <2>3, <2>4
<1>2. n \in Nat /\ IsFiniteSet(1..n) /\ Cardinality(1..n) = n
  BY FS_Interval, BoundAssumption DEF Sets
<1>3. IsFiniteSet({"writer"}) /\ Cardinality({"writer"}) = 1
  BY FS_Singleton
<1>4. Cardinality({"writer"} \X (1..n)) = 1 * n
  BY <1>2, <1>3, FS_Product
<1>5. 1 * n = n
  BY <1>2
<1>6. QED
  BY <1>1, <1>4, <1>5

\* The first n sets of pumps have begun, and no other.
FirstSets(n) == \A t \in Threads \ {Closer} : task[t] # "idle" <=> t[2] <= n

\* One goroutine goes on.
Hop(t) ==
    /\ task' = [task EXCEPT ![t] = task'[t]]
    /\ \/ /\ t \in Writers /\ task[t] \in {"loop", "writing"}
          /\ task'[t] \in {"loop", "writing", "unregister"}
       \/ /\ t \in Readers /\ task[t] \in {"loop", "read"}
          /\ task'[t] \in {"loop", "read", "unregister"}
       \/ /\ t \in Pumps /\ task[t] \in {"loop", "leave", "reply"}
          /\ task'[t] \in {"loop", "join", "leave", "reply", "done"}
       \/ /\ t = Closer /\ task[t] \in {"idle", "cancel"} /\ ~active'
          /\ task'[t] \in {"cancel", "unregister"}
       \/ /\ t \in Threads \ Pumps /\ task[t] \in Cleaning
          /\ task'[t] \in Cleaning \cup {"done"}

\* A join has launched a set of pumps, unless all there may be have begun.
Launch(p, n) ==
    /\ n \in Sets /\ FirstSets(n) /\ task[p] = "join"
    /\ task' = [t \in Threads |-> IF t = p THEN "reply"
                                  ELSE IF t[2] = n + 1 THEN "loop" ELSE task[t]]

LEMMA CleanupHops ==
    ASSUME Steps, NEW t \in Threads, Cleanup(t)
    PROVE  UNCHANGED task \/ Hop(t)
<1>1. task \in [Threads -> Stages] /\ (task[t] \in Cleaning => t \notin Pumps)
  BY DEF Steps, Cleaning
<1>2. CASE ClosePanics(t)
  BY <1>2 DEF ClosePanics, Panic
<1>3. CASE Unregister(t) \/ CloseSend(t) \/ TestReceive(t) \/ CloseReceive(t) \/ CloseConn(t)
  <2>1. task[t] \in Cleaning
        /\ \E step \in Cleaning \cup {"done"} : task' = [task EXCEPT ![t] = step]
    BY <1>3 DEF Unregister, CloseSend, TestReceive, CloseReceive, CloseConn, At, Go, Cleaning
  <2>2. QED
    BY <1>1, <2>1 DEF Hop
<1>4. QED
  BY <1>2, <1>3 DEF Cleanup

LEMMA WriterHops ==
    ASSUME Steps, NEW w \in Writers, Writer(w)
    PROVE  UNCHANGED task \/ Hop(w)
<1>1. task \in [Threads -> Stages] /\ w \in Threads
  BY Kinds4 DEF Steps
<1>2. CASE WriterPanics(w) \/ WriterBatch(w)
  BY <1>2 DEF WriterPanics, WriterBatch, Panic
<1>3. CASE WriterTake(w) \/ WriterFlush(w) \/ WriterEnds(w)
  <2>1. task[w] \in {"loop", "writing"}
        /\ \E step \in {"loop", "writing", "unregister"} : task' = [task EXCEPT ![w] = step]
    BY <1>3 DEF WriterTake, WriterFlush, WriterEnds, At, Go
  <2>2. QED
    BY <1>1, <2>1 DEF Hop
<1>4. QED
  BY <1>2, <1>3 DEF Writer

LEMMA ReaderHops ==
    ASSUME Steps, NEW r \in Readers,
           ReaderLoop(r) \/ ReaderPanics(r) \/ ReaderFails(r) \/ \E k \in Kinds : ReaderGets(r, k)
    PROVE  UNCHANGED task \/ Hop(r)
<1>1. task \in [Threads -> Stages] /\ r \in Threads
  BY Kinds4 DEF Steps
<1>2. CASE ReaderPanics(r)
  BY <1>2 DEF ReaderPanics, Panic
<1>3. CASE ReaderLoop(r) \/ ReaderFails(r) \/ \E k \in Kinds : ReaderGets(r, k)
  <2>1. task[r] \in {"loop", "read"}
        /\ \E step \in {"loop", "read", "unregister"} : task' = [task EXCEPT ![r] = step]
    BY <1>3 DEF ReaderLoop, ReaderFails, ReaderGets, At, Go
  <2>2. QED
    BY <1>1, <2>1 DEF Hop
<1>4. QED
  BY <1>2, <1>3

LEMMA PumpHops ==
    ASSUME Types, Steps, NEW p \in Pumps, Pump(p), ~PumpJoin(p)
    PROVE  UNCHANGED task \/ Hop(p)
<1>1. task \in [Threads -> Stages] /\ p \in Threads
  BY Kinds4 DEF Steps
<1>2. CASE PumpPanics(p) \/ PumpReplyPanics(p)
  BY <1>2 DEF PumpPanics, PumpReplyPanics, Panic
<1>3. CASE PumpTake(p)
  <2>1. Head(receive) \in {"join", "leave", "ping", "typing"}
    BY <1>3, KindsAssumption, HeadTailProperties DEF PumpTake, Types
  <2>2. task[p] = "loop" /\ \E step \in {"loop", "join", "leave", "reply"} :
                                 task' = [task EXCEPT ![p] = step]
    BY <1>3, <2>1 DEF PumpTake, At, Go
  <2>3. QED
    BY <1>1, <2>2 DEF Hop
<1>4. CASE PumpEnds(p) \/ PumpLeave(p) \/ PumpReply(p)
  <2>1. task[p] \in {"loop", "leave", "reply"}
        /\ \E step \in {"loop", "reply", "done"} : task' = [task EXCEPT ![p] = step]
    BY <1>4 DEF PumpEnds, PumpLeave, PumpReply, At, Go
  <2>2. QED
    BY <1>1, <2>1 DEF Hop
<1>5. QED
  BY <1>2, <1>3, <1>4 DEF Pump

LEMMA CloserHops ==
    ASSUME Steps, Leaving, Close \/ Cancel
    PROVE  Hop(Closer)
<1>1. task \in [Threads -> Stages] /\ Closer \in Threads
  BY Kinds4 DEF Steps
<1>2. ~active'
  <2>1. CASE Close
    BY <2>1 DEF Close
  <2>2. CASE Cancel
    <3>1. ~active /\ active' = active
      BY <2>2 DEF Cancel, At, Leaving
    <3>2. QED
      BY <3>1
  <2>3. QED
    BY <2>1, <2>2
<1>3. task[Closer] \in {"idle", "cancel"}
      /\ \E step \in {"cancel", "unregister"} : task' = [task EXCEPT ![Closer] = step]
  BY DEF Close, Cancel, At, Go
<1>4. QED
  BY <1>1, <1>2, <1>3 DEF Hop

LEMMA TaskSteps ==
    ASSUME Types, Steps, SetsInTurn, Leaving, [Next]_vars
    PROVE  \/ UNCHANGED task
           \/ \E t \in Threads : Hop(t)
           \/ \E p \in Pumps, n \in Sets : Launch(p, n)
<1>1. CASE UNCHANGED vars
  BY <1>1 DEF vars
<1>2. CASE \E b \in Broadcasts : Broadcast(b) \/ Deliver(b) \/ DeliverPanics(b)
  BY <1>2 DEF Broadcast, Deliver, DeliverPanics, Panic
<1>3. CASE Break \/ CloseAgain
  BY <1>3 DEF Break, CloseAgain
<1>4. CASE Close \/ Cancel
  BY <1>4, CloserHops, Kinds4
<1>5. CASE \E t \in Threads : Cleanup(t)
  BY <1>5, CleanupHops
<1>6. CASE \E w \in Writers : Writer(w)
  BY <1>6, WriterHops, Kinds4
<1>7. CASE \/ \E r \in Readers : ReaderLoop(r) \/ ReaderPanics(r) \/ ReaderFails(r)
          \/ \E r \in Readers, k \in Kinds : ReaderGets(r, k)
  BY <1>7, ReaderHops, Kinds4
<1>8. CASE \E p \in Pumps : Pump(p)
  <2>1. PICK p \in Pumps : Pump(p)
    BY <1>8
  <2>2. CASE PumpJoin(p)
    <3>1. PICK n \in Sets : FirstSets(n)
      BY DEF SetsInTurn, FirstSets
    <3>2. Starts = n
      BY <3>1, Kinds4, StartsCount DEF FirstSets, Starts, Begun
    <3>3. Launch(p, n)
      BY <2>2, <3>1, <3>2 DEF PumpJoin, Launch, At
    <3>4. QED
      BY <3>3
  <2>3. QED
    BY <2>1, <2>2, PumpHops, Kinds4
<1>9. QED
  BY <1>1, <1>2, <1>3, <1>4, <1>5, <1>6, <1>7, <1>8 DEF Next

LEMMA HopFacts ==
    ASSUME Steps, NEW t \in Threads, Hop(t)
    PROVE  /\ \A s \in Threads \ {t} : task'[s] = task[s]
           /\ t # Closer => task[t] # "idle" /\ task'[t] # "idle"
           /\ t \in Writers \cup Readers =>
                 (task[t] \in Cleaning \cup {"done"} => task'[t] \in Cleaning \cup {"done"})
           /\ Steps'
<1>1. t \in Pumps => t \notin Writers /\ t \notin Readers /\ t # Closer
  BY Kinds4
<1>2. t \in Writers => t \notin Readers /\ t # Closer
  BY Kinds4
<1>3. t \in Readers => t # Closer
  BY Kinds4
<1>4. t # Closer => task[t] # "idle" /\ task'[t] # "idle"
  BY <1>1, <1>2, <1>3 DEF Hop, Cleaning
<1>5. t \in Writers \cup Readers =>
        (task[t] \in Cleaning \cup {"done"} => task'[t] \in Cleaning \cup {"done"})
  BY <1>1, <1>2, <1>3 DEF Hop, Cleaning
<1>6. \A s \in Threads \ {t} : task'[s] = task[s]
  BY DEF Hop, Steps
<1>7. Steps'
  <2>1. task'[t] \in Stages
    BY DEF Hop, Stages, Cleaning
  <2>2. task' \in [Threads -> Stages]
    BY <2>1 DEF Steps, Hop
  <2>3. \A w \in Writers : task'[w] \in Cleaning \cup {"idle", "loop", "writing", "done"}
    BY <1>1, <1>2, <1>3, <1>6, Kinds4 DEF Steps, Hop, Cleaning
  <2>4. \A r \in Readers : task'[r] \in Cleaning \cup {"idle", "loop", "read", "done"}
    BY <1>1, <1>2, <1>3, <1>6, Kinds4 DEF Steps, Hop, Cleaning
  <2>5. \A p \in Pumps : task'[p] \in {"idle", "loop", "join", "leave", "reply", "done"}
    BY <1>1, <1>2, <1>3, <1>6, Kinds4 DEF Steps, Hop, Cleaning
  <2>6. task'[Closer] \in Cleaning \cup {"idle", "cancel", "done"}
    BY <1>1, <1>2, <1>3, <1>6, Kinds4 DEF Steps, Hop, Cleaning
  <2>7. QED
    BY <2>2, <2>3, <2>4, <2>5, <2>6 DEF Steps, Stages, Cleaning
<1>8. QED
  BY <1>4, <1>5, <1>6, <1>7

(* A set that a join launches was idle.                                     *)
LEMMA LaunchFacts ==
    ASSUME Steps, NEW p \in Pumps, NEW n, Launch(p, n)
    PROVE  /\ \A t \in Threads : task'[t] = IF t = p THEN "reply"
                                            ELSE IF t[2] = n + 1 THEN "loop" ELSE task[t]
           /\ n \in Nat /\ p[2] <= n
           /\ \A t \in Threads : t[2] = n + 1 => t # Closer /\ t # p /\ task[t] = "idle"
           /\ \A t \in Threads \ {Closer} : task'[t] # "idle" <=> t[2] <= n \/ t[2] = n + 1
           /\ task'[Closer] = task[Closer]
<1>1. \A t \in Threads : task'[t] = IF t = p THEN "reply"
                                    ELSE IF t[2] = n + 1 THEN "loop" ELSE task[t]
  BY DEF Launch
<1>2. n \in Nat
  BY BoundAssumption DEF Launch, Sets
<1>3. p \in Threads /\ Closer \in Threads /\ p # Closer /\ Closer[2] = 0
  BY Kinds4
<1>4. p[2] <= n
  BY <1>3 DEF Launch, FirstSets
<1>5. \A t \in Threads : t[2] = n + 1 => t # Closer /\ t # p /\ task[t] = "idle"
  BY <1>2, <1>3, <1>4 DEF Launch, FirstSets
<1>6. \A t \in Threads \ {Closer} : task'[t] # "idle" <=> t[2] <= n \/ t[2] = n + 1
  BY <1>1, <1>4, <1>5 DEF Launch, FirstSets
<1>7. task'[Closer] = task[Closer]
  BY <1>1, <1>2, <1>3
<1>8. QED
  BY <1>1, <1>2, <1>4, <1>5, <1>6, <1>7

LEMMA StepsStep ==
    ASSUME Types, Steps, SetsInTurn, Leaving, [Next]_vars
    PROVE  Steps'
<1>1. CASE UNCHANGED task
  BY <1>1 DEF Steps, Stages, Cleaning
<1>2. ASSUME NEW t \in Threads, Hop(t)
      PROVE  Steps'
  BY <1>2, HopFacts
<1>3. ASSUME NEW p \in Pumps, NEW n \in Sets, Launch(p, n)
      PROVE  Steps'
  <2>1. \A t \in Threads : task'[t] \in {task[t], "reply", "loop"} /\ (task'[t] = "reply" => task[t] = "reply" \/ t = p)
    BY <1>3, LaunchFacts
  <2>2. task' \in [Threads -> Stages]
    BY <1>3, <2>1 DEF Launch, Steps, Stages
  <2>3. task'[Closer] = task[Closer]
    BY <1>3, LaunchFacts
  <2>4. \A w \in Writers : task'[w] \in Cleaning \cup {"idle", "loop", "writing", "done"}
    BY <2>1, Kinds4 DEF Steps, Cleaning
  <2>5. \A r \in Readers : task'[r] \in Cleaning \cup {"idle", "loop", "read", "done"}
    BY <2>1, Kinds4 DEF Steps, Cleaning
  <2>6. \A q \in Pumps : task'[q] \in {"idle", "loop", "join", "leave", "reply", "done"}
    BY <2>1, Kinds4 DEF Steps, Cleaning
  <2>7. QED
    BY <2>2, <2>3, <2>4, <2>5, <2>6 DEF Steps, Stages, Cleaning
<1>4. QED
  BY <1>1, <1>2, <1>3, TaskSteps

(* Sets of pumps begin one by one and stay begun.                           *)
LEMMA SetsStep ==
    ASSUME Types, Steps, SetsInTurn, Leaving, [Next]_vars
    PROVE  /\ SetsInTurn'
           /\ \E n \in Sets : FirstSets(n) /\ Starts = n
           /\ Starts' >= Starts
<1>1. PICK n \in Sets : FirstSets(n)
  BY DEF SetsInTurn, FirstSets
<1>2. \A m \in Sets : FirstSets(m) => Starts = m
  <2>1. \A m \in Sets : (\A w \in Writers : task[w] # "idle" <=> w[2] <= m) => Starts = m
    BY StartsCount DEF Starts, Begun
  <2>2. QED
    BY <2>1, Kinds4 DEF FirstSets
<1>3. \A m \in Sets : FirstSets(m)' => Starts' = m
  <2>1. \A m \in Sets : (\A w \in Writers : task'[w] # "idle" <=> w[2] <= m) => Starts' = m
    BY StartsCount DEF Starts, Begun
  <2>2. QED
    BY <2>1, Kinds4 DEF FirstSets
<1>4. n \in Int /\ MaxStarts \in Int /\ 1 <= n /\ n <= MaxStarts
  BY BoundAssumption DEF Sets
<1>5. CASE UNCHANGED task
  <2>1. FirstSets(n)'
    BY <1>1, <1>5 DEF FirstSets
  <2>2. QED
    BY <1>1, <1>2, <1>3, <1>4, <2>1 DEF SetsInTurn, FirstSets
<1>6. ASSUME NEW t \in Threads, Hop(t)
      PROVE  /\ SetsInTurn'
             /\ \E m \in Sets : FirstSets(m) /\ Starts = m
             /\ Starts' >= Starts
  <2>1. FirstSets(n)'
    BY <1>1, <1>6, HopFacts DEF FirstSets
  <2>2. QED
    BY <1>1, <1>2, <1>3, <1>4, <2>1 DEF SetsInTurn, FirstSets
<1>7. ASSUME NEW p \in Pumps, NEW m \in Sets, Launch(p, m)
      PROVE  /\ SetsInTurn'
             /\ \E l \in Sets : FirstSets(l) /\ Starts = l
             /\ Starts' >= Starts
  <2>1. FirstSets(m) /\ Starts = m
    BY <1>2, <1>7 DEF Launch
  <2>2. /\ \A t \in Threads \ {Closer} : task'[t] # "idle" <=> t[2] <= m \/ t[2] = m + 1
        /\ m \in Int /\ 1 <= m /\ m <= MaxStarts
    BY <1>4, <1>7, LaunchFacts DEF Sets
  <2>3. \A t \in Threads \ {Closer} : t[2] \in Int /\ t[2] <= MaxStarts
    BY <1>4, Kinds4 DEF Sets
  <2>4. CASE m = MaxStarts
    <3>1. FirstSets(m)'
      BY <1>4, <2>2, <2>3, <2>4 DEF FirstSets
    <3>2. QED
      BY <1>3, <2>1, <2>2, <3>1 DEF SetsInTurn, FirstSets
  <2>5. CASE m # MaxStarts
    <3>1. FirstSets(m + 1)' /\ m + 1 \in Sets
      BY <1>4, <2>2, <2>3, <2>5 DEF FirstSets, Sets
    <3>2. QED
      BY <1>3, <2>1, <2>2, <3>1 DEF SetsInTurn, FirstSets
  <2>6. QED
    BY <2>4, <2>5
<1>8. QED
  BY <1>5, <1>6, <1>7, TaskSteps

(***************************************************************************)
(* Leaving.                                                                *)
(***************************************************************************)

\* Who closes what.
Closings ==
    /\ active' = active \/ ~active'
    /\ \/ UNCHANGED <<sendClosed, receiveClosed>> /\ (conn' = "closed" => conn = "closed")
       \/ \E t \in Threads : task[t] \in Cleaning
    /\ ctxDone' = ctxDone \/ task[Closer] = "cancel"

LEMMA FlagSteps ==
    ASSUME Flags, [Next]_vars
    PROVE  Flags' /\ Closings
<1> USE DEF channels, state, senders, history, Flags, Closings
<1>1. CASE UNCHANGED vars
  BY <1>1 DEF vars
<1>2. CASE \E b \in Broadcasts : Broadcast(b) \/ DeliverPanics(b)
  BY <1>2 DEF Broadcast, DeliverPanics, Panic
<1>3. CASE \E b \in Broadcasts : Deliver(b)
  <2>1. slow' \in BOOLEAN
    BY <1>3 DEF Deliver, Offer
  <2>2. QED
    BY <1>3, <2>1 DEF Deliver
<1>4. CASE Break \/ Close \/ CloseAgain \/ Cancel
  BY <1>4 DEF Break, Close, CloseAgain, Cancel, At
<1>5. ASSUME NEW t \in Threads, Cleanup(t)
      PROVE  Flags' /\ Closings
  BY <1>5 DEF Cleanup, Unregister, CloseSend, TestReceive, CloseReceive, ClosePanics,
              CloseConn, Panic, At, Cleaning
<1>6. ASSUME NEW w \in Writers, Writer(w)
      PROVE  Flags' /\ Closings
  BY <1>6 DEF Writer, WriterTake, WriterBatch, WriterFlush, WriterPanics, WriterEnds, Panic
<1>7. CASE \/ \E r \in Readers : ReaderLoop(r) \/ ReaderPanics(r) \/ ReaderFails(r)
          \/ \E r \in Readers, k \in Kinds : ReaderGets(r, k)
  BY <1>7 DEF ReaderLoop, ReaderPanics, ReaderFails, ReaderGets, Panic
<1>8. ASSUME NEW p \in Pumps, Pump(p)
      PROVE  Flags' /\ Closings
  <2>1. CASE PumpReply(p)
    <3>1. slow' \in BOOLEAN
      BY <2>1 DEF PumpReply, Offer
    <3>2. QED
      BY <2>1, <3>1 DEF PumpReply
  <2>2. CASE ~PumpReply(p)
    BY <1>8, <2>2 DEF Pump, PumpTake, PumpPanics, PumpEnds, PumpJoin, PumpLeave,
                      PumpReplyPanics, Panic
  <2>3. QED
    BY <2>1, <2>2
<1>9. QED
  BY <1>1, <1>2, <1>3, <1>4, <1>5, <1>6, <1>7, <1>8 DEF Next

(* A client that has begun to leave goes on leaving.                        *)
LEMMA DepartingStays ==
    ASSUME Flags, Types, Steps, SetsInTurn, Leaving, Departing, [Next]_vars
    PROVE  Departing'
<1>1. CASE ~active
  BY <1>1, FlagSteps DEF Closings, Departing
<1>2. ASSUME NEW t \in Writers \cup Readers, task[t] \in Cleaning \cup {"done"}
      PROVE  Departing'
  <2>1. t \in Threads /\ t # Closer /\ t \notin Pumps
    BY Kinds4
  <2>2. task'[t] \in Cleaning \cup {"done"}
    <3>1. CASE UNCHANGED task
      BY <1>2, <3>1
    <3>2. ASSUME NEW s \in Threads, Hop(s)
          PROVE  task'[t] \in Cleaning \cup {"done"}
      BY <1>2, <2>1, <3>2, HopFacts
    <3>3. ASSUME NEW p \in Pumps, NEW n \in Sets, Launch(p, n)
          PROVE  task'[t] \in Cleaning \cup {"done"}
      BY <1>2, <2>1, <3>3, LaunchFacts DEF Cleaning
    <3>4. QED
      BY <3>1, <3>2, <3>3, TaskSteps
  <2>3. QED
    BY <2>2 DEF Departing, Cleaning
<1>3. QED
  BY <1>1, <1>2 DEF Departing

(* A clean-up is the work of a pump that returned, or of Close.             *)
LEMMA CleaningDeparts ==
    ASSUME Steps, Leaving, NEW t \in Threads, task[t] \in Cleaning
    PROVE  Departing
<1>1. t \notin Pumps
  BY DEF Steps, Cleaning
<1>2. CASE t = Closer
  BY <1>2 DEF Leaving, Departing, Cleaning
<1>3. CASE t \in Writers \cup Readers
  BY <1>3 DEF Departing
<1>4. QED
  BY <1>1, <1>2, <1>3, Kinds4

(* Two write pumps are of two sets.                                         *)
LEMMA TwoWriters ==
    ASSUME Types, Steps, SetsInTurn, Leaving, [Next]_vars,
           NEW v \in Writers, NEW w \in Writers, v # w,
           task[v] # "idle", task[w] # "idle"
    PROVE  Starts > 1
<1>1. PICK n \in Sets : FirstSets(n) /\ Starts = n
  BY SetsStep
<1>2. v[2] # w[2]
  BY Firsts
<1>3. v[2] <= n /\ w[2] <= n /\ v[2] \in Sets /\ w[2] \in Sets
  BY <1>1, Kinds4 DEF FirstSets
<1>4. QED
  BY <1>1, <1>2, <1>3, BoundAssumption DEF Sets

\* Which goroutines can panic, and when.
Blamed ==
    \/ crashed' = crashed
    \/ /\ UNCHANGED task
       /\ \/ sendClosed \/ receiveClosed \/ \E t \in Threads : task[t] \in Cleaning
          \/ \E v, w \in Writers : v # w /\ task[v] # "idle" /\ task[w] # "idle"

LEMMA CrashSteps ==
    ASSUME [Next]_vars
    PROVE  Blamed
<1>1. CASE UNCHANGED vars
  BY <1>1 DEF vars, Blamed
<1>2. CASE \E b \in Broadcasts : Broadcast(b) \/ Deliver(b)
  BY <1>2 DEF Broadcast, Deliver, Blamed
<1>3. CASE \E b \in Broadcasts : DeliverPanics(b)
  BY <1>3 DEF DeliverPanics, Panic, Blamed
<1>4. CASE Break \/ Close \/ CloseAgain \/ Cancel
  BY <1>4 DEF Break, Close, CloseAgain, Cancel, Blamed
<1>5. ASSUME NEW t \in Threads, Cleanup(t)
      PROVE  Blamed
  <2>1. CASE ClosePanics(t)
    BY <2>1 DEF ClosePanics, Panic, At, Cleaning, Blamed
  <2>2. CASE ~ClosePanics(t)
    BY <1>5, <2>2 DEF Cleanup, Unregister, CloseSend, TestReceive, CloseReceive, CloseConn,
                      Blamed
  <2>3. QED
    BY <2>1, <2>2
<1>6. ASSUME NEW w \in Writers, Writer(w)
      PROVE  Blamed
  <2>1. CASE WriterPanics(w)
    BY <2>1 DEF WriterPanics, Panic, At, Blamed
  <2>2. CASE ~WriterPanics(w)
    BY <1>6, <2>2 DEF Writer, WriterTake, WriterBatch, WriterFlush, WriterEnds, Blamed
  <2>3. QED
    BY <2>1, <2>2
<1>7. CASE \/ \E r \in Readers : ReaderLoop(r) \/ ReaderPanics(r) \/ ReaderFails(r)
          \/ \E r \in Readers, k \in Kinds : ReaderGets(r, k)
  BY <1>7 DEF ReaderLoop, ReaderPanics, ReaderFails, ReaderGets, Panic, Blamed
<1>8. ASSUME NEW p \in Pumps, Pump(p)
      PROVE  Blamed
  BY <1>8 DEF Pump, PumpTake, PumpPanics, PumpEnds, PumpJoin, PumpLeave, PumpReply,
              PumpReplyPanics, Panic, Blamed
<1>9. QED
  BY <1>1, <1>2, <1>3, <1>4, <1>5, <1>6, <1>7, <1>8 DEF Next

LEMMA CloserStep ==
    ASSUME Flags, Types, Steps, SetsInTurn, Leaving, [Next]_vars
    PROVE  task'[Closer] # "idle" => ~active'
<1>1. task[Closer] # "idle" => ~active'
  BY FlagSteps DEF Leaving, Closings
<1>2. CASE UNCHANGED task
  BY <1>1, <1>2
<1>3. ASSUME NEW t \in Threads, Hop(t), task[Closer] = "idle"
      PROVE  task'[Closer] # "idle" => ~active'
  <2>1. CASE t # Closer
    BY <1>3, <2>1, HopFacts, Kinds4
  <2>2. CASE t = Closer
    BY <1>3, <2>2, Kinds4 DEF Hop, Cleaning
  <2>3. QED
    BY <2>1, <2>2
<1>4. ASSUME NEW p \in Pumps, NEW n \in Sets, Launch(p, n)
      PROVE  task'[Closer] # "idle" => ~active'
  BY <1>1, <1>4, LaunchFacts
<1>5. QED
  BY <1>1, <1>2, <1>3, <1>4, TaskSteps

LEMMA LeavingStep ==
    ASSUME Flags, Types, Steps, SetsInTurn, Leaving, [Next]_vars
    PROVE  Leaving'
<1>1. task'[Closer] # "idle" => ~active'
  BY CloserStep
<1>2. Departing => Departing'
  BY DepartingStays
<1>3. (\E t \in Threads : task[t] \in Cleaning) => Departing
  BY CleaningDeparts
<1>4. task[Closer] = "cancel" => Departing
  BY DEF Leaving, Departing
<1>5. sendClosed' \/ receiveClosed' \/ ctxDone' \/ conn' = "closed" => Departing'
  BY <1>2, <1>3, <1>4, FlagSteps DEF Closings, Leaving
<1>6. crashed' # "no" => Departing' \/ Starts' > 1
  <2>1. Starts' >= Starts /\ Starts \in Int /\ (UNCHANGED task => Starts' = Starts)
    BY SetsStep, BoundAssumption DEF Sets, Starts, Begun
  <2>2. Starts' \in Int
    <3>1. PICK n \in Sets : FirstSets(n)'
      BY SetsStep DEF SetsInTurn, FirstSets
    <3>2. (\A w \in Writers : task'[w] # "idle" <=> w[2] <= n) => Starts' = n
      BY StartsCount DEF Starts, Begun
    <3>3. QED
      BY <3>1, <3>2, Kinds4, BoundAssumption DEF FirstSets, Sets
  <2>3. CASE crashed' = crashed
    BY <1>2, <2>1, <2>2, <2>3 DEF Leaving
  <2>4. CASE sendClosed \/ receiveClosed \/ \E t \in Threads : task[t] \in Cleaning
    BY <1>2, <1>3, <2>4 DEF Leaving
  <2>5. CASE \E v, w \in Writers : v # w /\ task[v] # "idle" /\ task[w] # "idle"
    BY <2>1, <2>2, <2>5, TwoWriters
  <2>6. QED
    BY <2>3, <2>4, <2>5, CrashSteps DEF Blamed
<1>7. QED
  BY <1>1, <1>5, <1>6 DEF Leaving

(***************************************************************************)
(* What a step does to the messages.                                       *)
(***************************************************************************)

\* No message moves.
Quiet == UNCHANGED <<send, hold, out, accepted, discarded>>

\* Send takes the next message.
Accepts ==
    /\ Len(send) < SendCap /\ send' = Append(send, accepted + 1) /\ accepted' = accepted + 1
    /\ UNCHANGED <<hold, out, discarded>>

\* A clean-up throws the oldest message away.
Discards ==
    /\ send # <<>> /\ send' = Tail(send) /\ discarded' = discarded \cup {Head(send)}
    /\ Departing /\ UNCHANGED <<hold, out, accepted>>

\* A write pump takes the oldest message, writes all it holds, or fails to.
Moves(w) ==
    /\ send # <<>> /\ send' = Tail(send)
    /\ hold' = [hold EXCEPT ![w] = Append(hold[w], Head(send))]
    /\ UNCHANGED <<out, accepted, discarded>>
Flushes(w) ==
    /\ out' = out \o hold[w] /\ hold' = [hold EXCEPT ![w] = <<>>]
    /\ UNCHANGED <<send, accepted, discarded>>
Fails(w) ==
    /\ discarded' = discarded \cup ToSet(hold[w]) /\ hold' = [hold EXCEPT ![w] = <<>>]
    /\ Departing' /\ UNCHANGED <<send, out, accepted>>

LEMMA OfferOutcome ==
    ASSUME NEW byCtx, NEW closes, Offer(byCtx, closes), UNCHANGED <<hold, out, discarded>>
    PROVE  Quiet \/ Accepts
BY DEF Offer, Quiet, Accepts

LEMMA WriterOutcome ==
    ASSUME Types, Steps, Held, NEW w \in Writers, Writer(w)
    PROVE  Quiet \/ (task[w] # "idle" /\ (Moves(w) \/ Flushes(w) \/ Fails(w)))
<1> USE DEF history, channels
<1>1. CASE WriterTake(w)
  <2>1. hold[w] = <<>> /\ send # <<>> /\ task[w] # "idle"
    BY <1>1 DEF WriterTake, At, Held
  <2>2. <<Head(send)>> = Append(hold[w], Head(send))
    BY <2>1
  <2>3. QED
    BY <1>1, <2>1, <2>2 DEF WriterTake, Moves
<1>2. CASE WriterBatch(w)
  BY <1>2 DEF WriterBatch, At, Moves
<1>3. CASE WriterFlush(w)
  <2>1. CASE Go(w, "unregister")
    <3>1. w \in Threads /\ task'[w] = "unregister"
      BY <2>1, Kinds4 DEF Go, Steps
    <3>2. Departing'
      BY <3>1 DEF Departing, Cleaning
    <3>3. QED
      BY <1>3, <3>2 DEF WriterFlush, At, Flushes, Fails
  <2>2. CASE ~Go(w, "unregister")
    BY <1>3, <2>2 DEF WriterFlush, At, Flushes
  <2>3. QED
    BY <2>1, <2>2
<1>4. CASE WriterPanics(w) \/ WriterEnds(w)
  BY <1>4 DEF WriterPanics, WriterEnds, Panic, writing, Quiet
<1>5. QED
  BY <1>1, <1>2, <1>3, <1>4 DEF Writer

LEMMA Outcomes ==
    ASSUME Types, Steps, Leaving, Held, [Next]_vars
    PROVE  \/ Quiet \/ Accepts \/ Discards
           \/ \E w \in Writers : task[w] # "idle" /\ (Moves(w) \/ Flushes(w) \/ Fails(w))
<1> USE DEF history, channels, writing
<1>1. CASE UNCHANGED vars
  BY <1>1 DEF vars, Quiet
<1>2. CASE \E b \in Broadcasts : Broadcast(b) \/ DeliverPanics(b)
  BY <1>2 DEF Broadcast, DeliverPanics, Panic, Quiet
<1>3. CASE \E b \in Broadcasts : Deliver(b)
  BY <1>3, OfferOutcome DEF Deliver
<1>4. CASE Break \/ Close \/ CloseAgain \/ Cancel
  BY <1>4 DEF Break, Close, CloseAgain, Cancel, Quiet
<1>5. ASSUME NEW t \in Threads, Cleanup(t)
      PROVE  Quiet \/ Discards
  <2>1. CASE Unregister(t)
    <3>1. Departing
      BY <2>1, CleaningDeparts DEF Unregister, At, Cleaning
    <3>2. QED
      BY <2>1, <3>1 DEF Unregister, Quiet, Discards
  <2>2. CASE ~Unregister(t)
    BY <1>5, <2>2 DEF Cleanup, CloseSend, TestReceive, CloseReceive, ClosePanics, CloseConn,
                      Panic, Quiet
  <2>3. QED
    BY <2>1, <2>2
<1>6. CASE \E w \in Writers : Writer(w)
  BY <1>6, WriterOutcome
<1>7. CASE \/ \E r \in Readers : ReaderLoop(r) \/ ReaderPanics(r) \/ ReaderFails(r)
          \/ \E r \in Readers, k \in Kinds : ReaderGets(r, k)
  BY <1>7 DEF ReaderLoop, ReaderPanics, ReaderFails, ReaderGets, Panic, Quiet
<1>8. ASSUME NEW p \in Pumps, Pump(p)
      PROVE  Quiet \/ Accepts
  <2>1. CASE PumpReply(p)
    BY <2>1, OfferOutcome DEF PumpReply
  <2>2. CASE ~PumpReply(p)
    BY <1>8, <2>2 DEF Pump, PumpTake, PumpPanics, PumpEnds, PumpJoin, PumpLeave,
                      PumpReplyPanics, Panic, Quiet
  <2>3. QED
    BY <2>1, <2>2
<1>9. QED
  BY <1>1, <1>2, <1>3, <1>4, <1>5, <1>6, <1>7, <1>8 DEF Next

LEMMA HeldStep ==
    ASSUME Types, Steps, SetsInTurn, Leaving, Held, [Next]_vars
    PROVE  Held'
<1> USE DEF history, channels, writing
<1>1. ASSUME hold' = hold, \A w \in Writers : task'[w] = "writing" <=> task[w] = "writing"
      PROVE  Held'
  BY <1>1 DEF Held
<1>2. ASSUME hold' = hold, NEW t \in Threads \ Writers, UNCHANGED task \/ Hop(t)
      PROVE  Held'
  <2>1. \A w \in Writers : task'[w] = task[w]
    BY <1>2, HopFacts, Kinds4
  <2>2. QED
    BY <1>1, <1>2, <2>1
<1>3. CASE UNCHANGED vars
  BY <1>1, <1>3 DEF vars
<1>4. CASE \E b \in Broadcasts : Broadcast(b) \/ Deliver(b) \/ DeliverPanics(b)
  BY <1>1, <1>4 DEF Broadcast, Deliver, DeliverPanics, Panic
<1>5. CASE Break \/ CloseAgain
  BY <1>1, <1>5 DEF Break, CloseAgain
<1>6. CASE Close \/ Cancel
  BY <1>2, <1>6, CloserHops, Kinds4 DEF Close, Cancel
<1>7. ASSUME NEW t \in Threads, Cleanup(t)
      PROVE  Held'
  <2>1. hold' = hold
    BY <1>7 DEF Cleanup, Unregister, CloseSend, TestReceive, CloseReceive, ClosePanics,
                CloseConn, Panic
  <2>2. CASE Hop(t) /\ t \in Writers
    <3>1. task[t] \in Cleaning /\ task'[t] # "writing"
      BY <1>7, <2>2, Kinds4 DEF Hop, Cleaning, Cleanup, Unregister, CloseSend, TestReceive,
             CloseReceive, ClosePanics, CloseConn, At
    <3>2. \A w \in Writers : task'[w] = "writing" <=> task[w] = "writing"
      BY <2>2, <3>1, HopFacts, Kinds4 DEF Cleaning
    <3>3. QED
      BY <1>1, <2>1, <3>2
  <2>3. QED
    BY <1>1, <1>2, <1>7, <2>1, <2>2, CleanupHops
<1>8. ASSUME NEW w \in Writers, Writer(w)
      PROVE  Held'
  <2>1. \A v \in Writers \ {w} : task'[v] = task[v] /\ hold'[v] = hold[v]
    <3>1. \A v \in Writers \ {w} : task'[v] = task[v]
      BY <1>8, WriterHops, HopFacts, Kinds4
    <3>2. \A v \in Writers \ {w} : hold'[v] = hold[v]
      BY <1>8, WriterOutcome DEF Quiet, Moves, Flushes, Fails, Types
    <3>3. QED
      BY <3>1, <3>2
  <2>2. w \in Threads /\ hold \in [Writers -> Seq(Nat)] /\ task \in [Threads -> Stages]
    BY Kinds4 DEF Types, Steps
  <2>3. hold'[w] # <<>> <=> task'[w] = "writing"
    <3>1. CASE WriterTake(w)
      BY <2>2, <3>1 DEF WriterTake, Go
    <3>2. CASE WriterBatch(w)
      <4>1. hold'[w] = Append(hold[w], Head(send)) /\ task' = task /\ task[w] = "writing"
        BY <2>2, <3>2 DEF WriterBatch, At
      <4>2. hold[w] \in Seq(Nat) /\ Head(send) \in Nat
        BY <2>2, <3>2, TailSet DEF WriterBatch, Types
      <4>3. Append(hold[w], Head(send)) # <<>>
        BY <4>2, AppendProperties
      <4>4. QED
        BY <4>1, <4>3
    <3>3. CASE WriterFlush(w)
      BY <2>2, <3>3 DEF WriterFlush, Go
    <3>4. CASE WriterPanics(w) \/ WriterEnds(w)
      BY <2>2, <3>4 DEF WriterPanics, WriterEnds, Panic, Go, At, Held
    <3>5. QED
      BY <1>8, <3>1, <3>2, <3>3, <3>4 DEF Writer
  <2>4. QED
    BY <2>1, <2>3 DEF Held
<1>9. ASSUME NEW r \in Readers,
             ReaderLoop(r) \/ ReaderPanics(r) \/ ReaderFails(r) \/ \E k \in Kinds : ReaderGets(r, k)
      PROVE  Held'
  <2>1. hold' = hold
    BY <1>9 DEF ReaderLoop, ReaderPanics, ReaderFails, ReaderGets, Panic
  <2>2. QED
    BY <1>2, <1>9, <2>1, ReaderHops, Kinds4
<1>10. ASSUME NEW p \in Pumps, Pump(p)
       PROVE  Held'
  <2>1. hold' = hold
    BY <1>10 DEF Pump, PumpTake, PumpPanics, PumpEnds, PumpJoin, PumpLeave, PumpReply,
                 PumpReplyPanics, Panic
  <2>2. CASE PumpJoin(p)
    <3>1. PICK n \in Sets : FirstSets(n) /\ Starts = n
      BY SetsStep
    <3>2. Launch(p, n)
      BY <2>2, <3>1 DEF PumpJoin, Launch, At
    <3>3. \A w \in Writers : task'[w] = "writing" <=> task[w] = "writing"
      BY <3>2, LaunchFacts, Kinds4
    <3>4. QED
      BY <1>1, <2>1, <3>3
  <2>3. CASE ~PumpJoin(p)
    BY <1>2, <1>10, <2>1, <2>3, PumpHops, Kinds4
  <2>4. QED
    BY <2>2, <2>3
<1>11. QED
  BY <1>3, <1>4, <1>5, <1>6, <1>7, <1>8, <1>9, <1>10 DEF Next

\* The part of Types that the messages make up.
Contents ==
    /\ send \in Seq(Nat) /\ Len(send) <= SendCap
    /\ hold \in [Writers -> Seq(Nat)]
    /\ accepted \in Nat /\ out \in Seq(Nat)

LEMMA ContentsStep ==
    ASSUME Types, Steps, Leaving, Held, [Next]_vars
    PROVE  Contents'
<1>1. Contents /\ SendCap \in Nat
  BY CapAssumption DEF Types, Contents
<1>2. send # <<>> => Head(send) \in Nat /\ Tail(send) \in Seq(Nat) /\ Len(Tail(send)) <= SendCap
  <2>1. ASSUME send # <<>>
        PROVE  /\ Head(send) \in Nat /\ Tail(send) \in Seq(Nat)
               /\ Len(Tail(send)) = Len(send) - 1 /\ Len(send) \in Nat
    BY <1>1, <2>1, HeadTailProperties, LenProperties DEF Contents
  <2>2. QED
    BY <1>1, <2>1 DEF Contents
<1>3. CASE Quiet
  BY <1>1, <1>3 DEF Quiet, Contents
<1>4. CASE Accepts
  <2>1. accepted + 1 \in Nat /\ Len(send) \in Nat
    BY <1>1, LenProperties DEF Contents
  <2>2. Append(send, accepted + 1) \in Seq(Nat) /\ Len(Append(send, accepted + 1)) = Len(send) + 1
    BY <1>1, <2>1, AppendProperties DEF Contents
  <2>3. QED
    BY <1>1, <1>4, <2>1, <2>2 DEF Accepts, Contents
<1>5. CASE Discards
  BY <1>1, <1>2, <1>5 DEF Discards, Contents
<1>6. ASSUME NEW w \in Writers, Moves(w)
      PROVE  Contents'
  <2>1. hold[w] \in Seq(Nat) /\ Head(send) \in Nat
    BY <1>1, <1>2, <1>6 DEF Moves, Contents
  <2>2. Append(hold[w], Head(send)) \in Seq(Nat)
    BY <2>1, AppendProperties
  <2>3. QED
    BY <1>1, <1>2, <1>6, <2>2 DEF Moves, Contents
<1>7. ASSUME NEW w \in Writers, Flushes(w) \/ Fails(w)
      PROVE  Contents'
  <2>1. hold[w] \in Seq(Nat) /\ <<>> \in Seq(Nat)
    BY <1>1 DEF Contents
  <2>2. out \o hold[w] \in Seq(Nat)
    BY <1>1, <2>1, ConcatProperties DEF Contents
  <2>3. QED
    BY <1>1, <1>7, <2>1, <2>2 DEF Flushes, Fails, Contents
<1>8. QED
  BY <1>3, <1>4, <1>5, <1>6, <1>7, Outcomes

\* The rest of it.
Setting ==
    /\ receive \in Seq(Kinds) /\ Len(receive) <= ReceiveCap
    /\ conn \in {"open", "broken", "closed"}
    /\ left \in [Writers -> 0..(SendCap - 1)]
    /\ events \in 0..MaxEvents /\ snapshot \in [Broadcasts -> 0..events]
    /\ crashed \in {"no", "send on closed channel", "close of closed channel",
                    "nil message", "concurrent write"}

LEMMA TypesSplit == Types <=> Contents /\ Setting
BY DEF Types, Contents, Setting

LEMMA SettingStep ==
    ASSUME Types, [Next]_vars
    PROVE  Setting'
<1> USE DEF history, channels, writing, state, senders
<1>1. Setting /\ SendCap \in Nat \ {0} /\ ReceiveCap \in Nat \ {0} /\ MaxEvents \in Nat
  BY TypesSplit, CapAssumption, BoundAssumption
<1>2. Len(receive) \in Nat
      /\ (receive # <<>> => Tail(receive) \in Seq(Kinds) /\ Len(Tail(receive)) = Len(receive) - 1)
  BY <1>1, HeadTailProperties, LenProperties DEF Setting
<1>3. receive # <<>> => Tail(receive) \in Seq(Kinds) /\ Len(Tail(receive)) <= ReceiveCap
  <2>1. Len(receive) <= ReceiveCap
    BY <1>1 DEF Setting
  <2>2. QED
    BY <1>1, <1>2, <2>1
<1>4. CASE UNCHANGED vars
  BY <1>1, <1>4 DEF vars, Setting
<1>5. ASSUME NEW why \in {"send on closed channel", "close of closed channel",
                          "nil message", "concurrent write"}, Panic(why)
      PROVE  Setting'
  BY <1>1, <1>5 DEF Panic, Setting
<1>6. ASSUME NEW b \in Broadcasts, Broadcast(b) \/ Deliver(b) \/ DeliverPanics(b)
      PROVE  Setting'
  <2>1. CASE Broadcast(b)
    <3>1. snapshot[b] \in 0..events /\ events \in 0..MaxEvents /\ events < MaxEvents
      BY <1>1, <2>1 DEF Setting, Broadcast
    <3>2. snapshot[b] + 1 \in 0..(events + 1) /\ events + 1 \in 0..MaxEvents
      BY <1>1, <3>1
    <3>3. snapshot \in [Broadcasts -> 0..(events + 1)]
      <4>1. \A n \in 0..events : n \in 0..(events + 1)
        BY <3>1
      <4>2. QED
        BY <1>1, <4>1 DEF Setting
    <3>4. snapshot' = [snapshot EXCEPT ![b] = snapshot[b] + 1] /\ events' = events + 1
      BY <2>1 DEF Broadcast
    <3>5. snapshot' \in [Broadcasts -> 0..events']
      BY <3>2, <3>3, <3>4
    <3>6. QED
      BY <1>1, <2>1, <3>2, <3>4, <3>5 DEF Setting, Broadcast
  <2>2. CASE Deliver(b)
    <3>1. snapshot[b] \in 0..events /\ snapshot[b] > 0 /\ events \in 0..MaxEvents
      BY <1>1, <2>2 DEF Setting, Deliver
    <3>2. snapshot[b] - 1 \in 0..events
      BY <1>1, <3>1
    <3>3. snapshot' = [snapshot EXCEPT ![b] = snapshot[b] - 1]
      BY <2>2 DEF Deliver
    <3>4. snapshot' \in [Broadcasts -> 0..events]
      BY <1>1, <3>2, <3>3 DEF Setting
    <3>5. QED
      BY <1>1, <2>2, <3>4 DEF Setting, Deliver
  <2>3. CASE DeliverPanics(b)
    BY <1>5, <2>3 DEF DeliverPanics
  <2>4. QED
    BY <1>6, <2>1, <2>2, <2>3
<1>7. CASE Break \/ Close \/ CloseAgain \/ Cancel
  BY <1>1, <1>7 DEF Break, Close, CloseAgain, Cancel, Setting
<1>8. ASSUME NEW t \in Threads, Cleanup(t)
      PROVE  Setting'
  <2>1. CASE ClosePanics(t)
    BY <1>5, <2>1 DEF ClosePanics
  <2>2. CASE Unregister(t) \/ CloseSend(t) \/ CloseReceive(t) \/ CloseConn(t)
    BY <1>1, <2>2 DEF Unregister, CloseSend, CloseReceive, CloseConn, Setting
  <2>3. CASE TestReceive(t)
    BY <1>1, <1>3, <2>3 DEF TestReceive, Setting
  <2>4. QED
    BY <1>8, <2>1, <2>2, <2>3 DEF Cleanup
<1>9. ASSUME NEW w \in Writers, Writer(w)
      PROVE  Setting'
  <2>1. left \in [Writers -> 0..(SendCap - 1)]
    BY <1>1 DEF Setting
  <2>2. CASE WriterTake(w)
    <3>1. send # <<>> /\ Len(send) \in Nat \ {0} /\ Len(send) <= SendCap
      BY <2>2, EmptySeq DEF WriterTake, Types
    <3>2. Len(send) - 1 \in 0..(SendCap - 1)
      BY <1>1, <3>1
    <3>3. left' \in [Writers -> 0..(SendCap - 1)]
      BY <2>1, <2>2, <3>2 DEF WriterTake
    <3>4. QED
      BY <1>1, <2>2, <3>3 DEF WriterTake, Setting
  <2>3. CASE WriterBatch(w)
    <3>1. left[w] \in 0..(SendCap - 1) /\ left[w] > 0
      BY <2>1, <2>3 DEF WriterBatch
    <3>2. left[w] - 1 \in 0..(SendCap - 1)
      BY <1>1, <3>1
    <3>3. left' = [left EXCEPT ![w] = left[w] - 1]
      BY <2>3 DEF WriterBatch
    <3>4. left' \in [Writers -> 0..(SendCap - 1)]
      BY <2>1, <3>2, <3>3
    <3>5. QED
      BY <1>1, <2>3, <3>4 DEF WriterBatch, Setting
  <2>4. CASE WriterFlush(w)
    <3>1. 0 \in 0..(SendCap - 1) /\ left' = [left EXCEPT ![w] = 0]
      BY <1>1, <2>4 DEF WriterFlush
    <3>2. left' \in [Writers -> 0..(SendCap - 1)]
      BY <2>1, <3>1
    <3>3. QED
      BY <1>1, <2>4, <3>2 DEF WriterFlush, Setting
  <2>5. CASE WriterPanics(w)
    BY <1>5, <2>5 DEF WriterPanics
  <2>6. CASE WriterEnds(w)
    BY <1>1, <2>6 DEF WriterEnds, Setting
  <2>7. QED
    BY <1>9, <2>2, <2>3, <2>4, <2>5, <2>6 DEF Writer
<1>10. ASSUME NEW r \in Readers, ReaderLoop(r) \/ ReaderPanics(r) \/ ReaderFails(r)
       PROVE  Setting'
  <2>1. CASE ReaderPanics(r)
    BY <1>5, <2>1 DEF ReaderPanics
  <2>2. CASE ReaderLoop(r) \/ ReaderFails(r)
    BY <1>1, <2>2 DEF ReaderLoop, ReaderFails, Setting
  <2>3. QED
    BY <1>10, <2>1, <2>2
<1>11. ASSUME NEW r \in Readers, NEW k \in Kinds, ReaderGets(r, k)
       PROVE  Setting'
  <2>1. receive' \in Seq(Kinds) /\ Len(receive') <= ReceiveCap
    <3>1. Append(receive, k) \in Seq(Kinds) /\ Len(Append(receive, k)) = Len(receive) + 1
      BY <1>1, AppendProperties DEF Setting
    <3>2. receive' = IF Len(receive) < ReceiveCap THEN Append(receive, k) ELSE receive
      BY <1>11 DEF ReaderGets
    <3>3. receive \in Seq(Kinds) /\ Len(receive) <= ReceiveCap /\ Len(receive) \in Nat
      BY <1>1, <1>2 DEF Setting
    <3>4. CASE Len(receive) < ReceiveCap
      BY <1>1, <3>1, <3>2, <3>3, <3>4
    <3>5. CASE ~(Len(receive) < ReceiveCap)
      BY <3>2, <3>3, <3>5
    <3>6. QED
      BY <3>4, <3>5
  <2>2. events' \in 0..MaxEvents
    <3>1. events \in 0..MaxEvents /\ events < MaxEvents /\ events' = events + 1
      BY <1>1, <1>11 DEF ReaderGets, Setting
    <3>2. QED
      BY <1>1, <3>1
  <2>3. snapshot' \in [Broadcasts -> 0..events']
    <3>1. events \in 0..MaxEvents
      BY <1>1 DEF Setting
    <3>2. \A n \in 0..events : n \in 0..(events + 1)
      BY <1>1, <3>1
    <3>3. snapshot \in [Broadcasts -> 0..(events + 1)]
      BY <1>1, <3>2 DEF Setting
    <3>4. events' = events + 1 /\ snapshot' = snapshot
      BY <1>11 DEF ReaderGets
    <3>5. QED
      BY <3>3, <3>4
  <2>4. QED
    BY <1>1, <1>11, <2>1, <2>2, <2>3 DEF ReaderGets, Setting
<1>12. ASSUME NEW p \in Pumps, Pump(p)
       PROVE  Setting'
  <2>1. CASE PumpTake(p)
    BY <1>1, <1>3, <2>1 DEF PumpTake, Setting
  <2>2. CASE PumpPanics(p) \/ PumpReplyPanics(p)
    BY <1>5, <2>2 DEF PumpPanics, PumpReplyPanics
  <2>3. CASE PumpEnds(p) \/ PumpJoin(p) \/ PumpLeave(p) \/ PumpReply(p)
    BY <1>1, <2>3 DEF PumpEnds, PumpJoin, PumpLeave, PumpReply, Setting
  <2>4. QED
    BY <1>12, <2>1, <2>2, <2>3 DEF Pump
<1>13. QED
  BY <1>4, <1>6, <1>7, <1>8, <1>9, <1>10, <1>11, <1>12 DEF Next

(***************************************************************************)
(* Every message is in one place.                                          *)
(***************************************************************************)

LEMMA PlacedAccepts ==
    ASSUME Contents, Placed, Accepts
    PROVE  Placed'
<1>1. accepted + 1 \in Nat /\ accepted + 1 \notin 1..accepted
      /\ \A m : m \in 1..(accepted + 1) <=> m \in 1..accepted \/ m = accepted + 1
  BY DEF Contents
<1>2. /\ accepted + 1 \notin ToSet(send) /\ accepted + 1 \notin ToSet(out)
      /\ accepted + 1 \notin discarded /\ \A w \in Writers : accepted + 1 \notin ToSet(hold[w])
  BY <1>1 DEF Placed
<1>3. ToSet(send') = ToSet(send) \cup {accepted + 1} /\ IsInjective(send')
  BY <1>1, <1>2, AppendSet DEF Contents, Accepts, Placed
<1>4. hold' = hold /\ out' = out /\ discarded' = discarded /\ accepted' = accepted + 1
  BY DEF Accepts
<1>5. /\ ToSet(send') \cap ToSet(out') = {}
      /\ discarded' \cap (ToSet(send') \cup ToSet(out')) = {}
      /\ \A w \in Writers : ToSet(hold'[w]) \cap (ToSet(send') \cup ToSet(out') \cup discarded') = {}
  BY <1>2, <1>3, <1>4 DEF Placed
<1>6. \A m : m \in 1..accepted' <=> \/ m \in ToSet(send') \/ m \in ToSet(out') \/ m \in discarded'
                                    \/ \E w \in Writers : m \in ToSet(hold'[w])
  BY <1>1, <1>3, <1>4 DEF Placed
<1>7. QED
  BY <1>3, <1>4, <1>5, <1>6 DEF Placed

LEMMA PlacedDiscards ==
    ASSUME Contents, Placed, Discards
    PROVE  Placed'
<1> DEFINE h == Head(send)
<1>1. ToSet(send) = ToSet(send') \cup {h} /\ h \notin ToSet(send') /\ IsInjective(send')
  BY TailSet DEF Contents, Discards, Placed
<1>2. hold' = hold /\ out' = out /\ discarded' = discarded \cup {h} /\ accepted' = accepted
  BY DEF Discards
<1> HIDE DEF h
<1>3. /\ ToSet(send') \cap ToSet(out') = {}
      /\ discarded' \cap (ToSet(send') \cup ToSet(out')) = {}
      /\ \A w \in Writers : ToSet(hold'[w]) \cap (ToSet(send') \cup ToSet(out') \cup discarded') = {}
  BY <1>1, <1>2 DEF Placed
<1>4. \A m : m \in 1..accepted' <=> \/ m \in ToSet(send') \/ m \in ToSet(out') \/ m \in discarded'
                                    \/ \E w \in Writers : m \in ToSet(hold'[w])
  BY <1>1, <1>2 DEF Placed
<1>5. QED
  BY <1>1, <1>2, <1>3, <1>4 DEF Placed

LEMMA PlacedMoves ==
    ASSUME Contents, Placed, NEW w \in Writers, Moves(w)
    PROVE  Placed'
<1> DEFINE h == Head(send)
<1>1. ToSet(send) = ToSet(send') \cup {h} /\ h \notin ToSet(send') /\ IsInjective(send') /\ h \in Nat
  BY TailSet DEF Contents, Moves, Placed
<1>2. out' = out /\ discarded' = discarded /\ accepted' = accepted
      /\ hold'[w] = Append(hold[w], h) /\ \A v \in Writers \ {w} : hold'[v] = hold[v]
  BY DEF Moves, Contents
<1> HIDE DEF h
<1>3. h \notin ToSet(hold[w]) /\ IsInjective(hold[w]) /\ hold[w] \in Seq(Nat)
  BY <1>1 DEF Placed, Contents
<1>4. ToSet(hold'[w]) = ToSet(hold[w]) \cup {h} /\ IsInjective(hold'[w])
  BY <1>1, <1>2, <1>3, AppendSet
<1>5. \A v \in Writers : IsInjective(hold'[v])
  BY <1>2, <1>4 DEF Placed
<1>6. /\ ToSet(send') \cap ToSet(out') = {}
      /\ discarded' \cap (ToSet(send') \cup ToSet(out')) = {}
  BY <1>1, <1>2 DEF Placed
<1>7. ASSUME NEW v \in Writers
      PROVE  ToSet(hold'[v]) \cap (ToSet(send') \cup ToSet(out') \cup discarded') = {}
  <2>1. /\ ToSet(hold[v]) \cap (ToSet(send) \cup ToSet(out) \cup discarded) = {}
        /\ ToSet(send) \cap ToSet(out) = {} /\ discarded \cap ToSet(send) = {}
    BY DEF Placed
  <2>2. CASE v = w
    BY <1>1, <1>2, <1>4, <2>1, <2>2
  <2>3. CASE v # w
    BY <1>1, <1>2, <2>1, <2>3
  <2>4. QED
    BY <2>2, <2>3
<1>8. \A u \in Writers : \A v \in Writers \ {u} : ToSet(hold'[u]) \cap ToSet(hold'[v]) = {}
  BY <1>1, <1>2, <1>4 DEF Placed
<1>9. \A m : m \in 1..accepted' <=> \/ m \in ToSet(send') \/ m \in ToSet(out') \/ m \in discarded'
                                    \/ \E v \in Writers : m \in ToSet(hold'[v])
  BY <1>1, <1>2, <1>4 DEF Placed
<1>10. QED
  BY <1>1, <1>2, <1>5, <1>6, <1>7, <1>8, <1>9 DEF Placed

LEMMA PlacedWrites ==
    ASSUME Contents, Placed, NEW w \in Writers, Flushes(w) \/ Fails(w)
    PROVE  Placed'
<1>1. send' = send /\ accepted' = accepted
      /\ hold'[w] = <<>> /\ \A v \in Writers \ {w} : hold'[v] = hold[v]
  BY DEF Flushes, Fails, Contents
<1>2. ToSet(hold'[w]) = {} /\ IsInjective(hold'[w])
  BY <1>1, EmptySet
<1>3. /\ \/ ToSet(out') = ToSet(out) \cup ToSet(hold[w]) /\ discarded' = discarded
         \/ out' = out /\ discarded' = discarded \cup ToSet(hold[w])
      /\ IsInjective(out')
  <2>1. CASE Fails(w)
    BY <2>1 DEF Fails, Placed
  <2>2. CASE Flushes(w)
    <3>1. out \in Seq(Nat) /\ hold[w] \in Seq(Nat) /\ IsInjective(out) /\ IsInjective(hold[w])
          /\ ToSet(out) \cap ToSet(hold[w]) = {}
      BY DEF Contents, Placed
    <3>2. QED
      BY <2>2, <3>1, ConcatSet DEF Flushes
  <2>3. QED
    BY <2>1, <2>2
<1>4. \A v \in Writers : IsInjective(hold'[v])
  BY <1>1, <1>2 DEF Placed
<1>5. /\ ToSet(send') \cap ToSet(out') = {}
      /\ discarded' \cap (ToSet(send') \cup ToSet(out')) = {}
  BY <1>1, <1>3 DEF Placed
<1>6. \A v \in Writers : ToSet(hold'[v]) \cap (ToSet(send') \cup ToSet(out') \cup discarded') = {}
  BY <1>1, <1>2, <1>3 DEF Placed
<1>7. \A u \in Writers : \A v \in Writers \ {u} : ToSet(hold'[u]) \cap ToSet(hold'[v]) = {}
  BY <1>1, <1>2 DEF Placed
<1>8. \A m : m \in 1..accepted' <=> \/ m \in ToSet(send') \/ m \in ToSet(out') \/ m \in discarded'
                                    \/ \E v \in Writers : m \in ToSet(hold'[v])
  BY <1>1, <1>2, <1>3 DEF Placed
<1>9. QED
  BY <1>1, <1>3, <1>4, <1>5, <1>6, <1>7, <1>8 DEF Placed

LEMMA PlacedStep ==
    ASSUME Types, Steps, Leaving, Held, Placed, [Next]_vars
    PROVE  Placed'
<1>1. Contents
  BY TypesSplit
<1>2. CASE Quiet
  BY <1>2 DEF Quiet, Placed
<1>3. QED
  BY <1>1, <1>2, Outcomes, PlacedAccepts, PlacedDiscards, PlacedMoves, PlacedWrites

(***************************************************************************)
(* Messages in order.                                                      *)
(***************************************************************************)

LEMMA BatchType == Contents => Batch \in Seq(Nat)
BY Firsts DEF Contents, Batch

LEMMA OrderAccepts ==
    ASSUME Contents, Placed, Rising, Accepts
    PROVE  Rising' /\ (Complete => Complete')
<1>1. accepted \in Nat /\ Batch' = Batch /\ out' = out /\ accepted' = accepted + 1
  BY DEF Accepts, Contents, Batch
<1>2. /\ \A i \in DOMAIN send : send[i] \in 1..accepted
      /\ \A i \in DOMAIN out : out[i] \in 1..accepted
      /\ \A i \in DOMAIN Batch : Batch[i] \in 1..accepted
  BY Firsts DEF Placed, ToSet, Batch
<1>3. /\ DOMAIN send = 1..Len(send) /\ Len(send) \in Nat /\ Len(send') = Len(send) + 1
      /\ DOMAIN send' = 1..(Len(send) + 1) /\ send'[Len(send) + 1] = accepted + 1
      /\ \A i \in DOMAIN send : send'[i] = send[i]
  BY <1>1, AppendProperties, LenProperties DEF Contents, Accepts
<1>4. \A i \in DOMAIN send' : i \in DOMAIN send \/ i = Len(send) + 1
  BY <1>3
<1>5. \A i, j \in DOMAIN send' : i < j => send'[i] < send'[j]
  <2>1. SUFFICES ASSUME NEW i \in DOMAIN send', NEW j \in DOMAIN send', i < j
                 PROVE  send'[i] < send'[j]
    OBVIOUS
  <2>2. i \in DOMAIN send
    BY <1>3, <2>1
  <2>3. CASE j \in DOMAIN send
    BY <1>3, <2>1, <2>2, <2>3 DEF Rising
  <2>4. CASE j = Len(send) + 1
    BY <1>1, <1>2, <1>3, <2>2, <2>4
  <2>5. QED
    BY <1>4, <2>3, <2>4
<1>6. \A i \in DOMAIN out, j \in DOMAIN send' : out[i] < send'[j]
  BY <1>1, <1>2, <1>3, <1>4 DEF Rising
<1>7. \A i \in DOMAIN Batch, j \in DOMAIN send' : Batch[i] < send'[j]
  BY <1>1, <1>2, <1>3, <1>4 DEF Rising
<1>8. Rising'
  BY <1>1, <1>5, <1>6, <1>7 DEF Rising
<1>9. ASSUME Complete PROVE Complete'
  <2>1. Len(out) \in Nat /\ Len(Batch) \in Nat
    BY BatchType, LenProperties DEF Contents
  <2>2. \A i \in DOMAIN send' : send'[i] = Len(out) + Len(Batch) + i
    BY <1>1, <1>3, <1>4, <1>9, <2>1 DEF Complete
  <2>3. accepted' = Len(out) + Len(Batch) + Len(send')
    BY <1>1, <1>3, <1>9, <2>1 DEF Complete
  <2>4. QED
    BY <1>1, <1>9, <2>2, <2>3 DEF Complete
<1>10. QED
  BY <1>8, <1>9

\* What is left of a channel that gave its oldest message.
LEMMA TailFacts ==
    ASSUME NEW s \in Seq(Nat), s # <<>>
    PROVE  /\ DOMAIN s = 1..Len(s) /\ Len(s) \in Nat \ {0} /\ 1 \in DOMAIN s /\ Head(s) = s[1]
           /\ Len(Tail(s)) = Len(s) - 1 /\ DOMAIN Tail(s) = 1..(Len(s) - 1)
           /\ \A i \in DOMAIN Tail(s) : i \in Int /\ i + 1 \in DOMAIN s /\ Tail(s)[i] = s[i + 1]
<1>1. DOMAIN s = 1..Len(s) /\ Len(s) \in Nat \ {0}
  BY EmptySeq, LenProperties
<1>2. /\ Len(Tail(s)) = Len(s) - 1 /\ DOMAIN Tail(s) = 1..(Len(s) - 1)
      /\ \A i \in 1..(Len(s) - 1) : Tail(s)[i] = s[i + 1]
  BY <1>1, HeadTailProperties
<1>3. QED
  BY <1>1, <1>2

LEMMA OrderDiscards ==
    ASSUME Contents, Rising, Discards
    PROVE  Rising'
<1>1. Batch' = Batch /\ out' = out /\ send' = Tail(send) /\ send \in Seq(Nat) /\ send # <<>>
  BY DEF Discards, Batch, Contents
<1>2. \A i \in DOMAIN send' : i \in Int /\ i + 1 \in DOMAIN send /\ send'[i] = send[i + 1]
  BY <1>1, TailFacts
<1>3. QED
  BY <1>1, <1>2 DEF Rising

LEMMA OrderMoves ==
    ASSUME Contents, Rising, Moves(<<"writer", 1>>)
    PROVE  Rising' /\ (Complete => Complete')
<1> DEFINE h == Head(send)
<1>1. /\ out' = out /\ send' = Tail(send) /\ send \in Seq(Nat) /\ send # <<>>
      /\ Batch' = Append(Batch, h) /\ accepted' = accepted
  BY Firsts DEF Moves, Batch, Contents
<1>2. /\ DOMAIN send = 1..Len(send) /\ Len(send) \in Nat \ {0} /\ 1 \in DOMAIN send /\ h = send[1]
      /\ Len(send') = Len(send) - 1
      /\ \A i \in DOMAIN send' : i \in Int /\ i + 1 \in DOMAIN send /\ send'[i] = send[i + 1] /\ 1 < i + 1
  <2>1. \A i \in DOMAIN Tail(send) : 1 < i + 1
    BY <1>1, TailFacts
  <2>2. QED
    BY <1>1, <2>1, TailFacts
<1>3. h \in Nat /\ Batch \in Seq(Nat) /\ Len(out) \in Nat
  BY <1>1, BatchType, TailSet, LenProperties DEF Contents
<1> HIDE DEF h
<1>4. /\ DOMAIN Batch = 1..Len(Batch) /\ Len(Batch) \in Nat /\ Len(Batch') = Len(Batch) + 1
      /\ DOMAIN Batch' = 1..(Len(Batch) + 1) /\ Batch'[Len(Batch) + 1] = h
      /\ \A i \in DOMAIN Batch : Batch'[i] = Batch[i]
  BY <1>1, <1>3, AppendProperties, LenProperties
<1>5. \A i \in DOMAIN Batch' : i \in DOMAIN Batch \/ i = Len(Batch) + 1
  BY <1>4
<1>6. \A i \in DOMAIN Batch : Batch[i] < h
  BY <1>2 DEF Rising
<1>7. \A i, j \in DOMAIN Batch' : i < j => Batch'[i] < Batch'[j]
  <2>1. SUFFICES ASSUME NEW i \in DOMAIN Batch', NEW j \in DOMAIN Batch', i < j
                 PROVE  Batch'[i] < Batch'[j]
    OBVIOUS
  <2>2. i \in DOMAIN Batch
    BY <1>4, <2>1
  <2>3. CASE j \in DOMAIN Batch
    BY <1>4, <2>1, <2>2, <2>3 DEF Rising
  <2>4. CASE j = Len(Batch) + 1
    BY <1>4, <1>6, <2>2, <2>4
  <2>5. QED
    BY <1>5, <2>3, <2>4
<1>8. \A i, j \in DOMAIN send' : i < j => send'[i] < send'[j]
  BY <1>2 DEF Rising
<1>9. \A i \in DOMAIN out, j \in DOMAIN Batch' : out[i] < Batch'[j]
  BY <1>2, <1>4, <1>5 DEF Rising
<1>10. \A i \in DOMAIN out, j \in DOMAIN send' : out[i] < send'[j]
  BY <1>2 DEF Rising
<1>11. \A i \in DOMAIN Batch', j \in DOMAIN send' : Batch'[i] < send'[j]
  BY <1>2, <1>4, <1>5 DEF Rising
<1>12. Rising'
  BY <1>1, <1>7, <1>8, <1>9, <1>10, <1>11 DEF Rising
<1>13. ASSUME Complete PROVE Complete'
  <2>1. h = Len(out) + Len(Batch) + 1
    BY <1>2, <1>9, <1>13 DEF Complete
  <2>2. \A i \in DOMAIN Batch' : Batch'[i] = Len(out) + i
    <3>1. \A i \in DOMAIN Batch : Batch'[i] = Len(out) + i
      BY <1>4, <1>13 DEF Complete
    <3>2. Batch'[Len(Batch) + 1] = Len(out) + (Len(Batch) + 1)
      BY <1>3, <1>4, <2>1
    <3>3. QED
      BY <1>5, <3>1, <3>2
  <2>3. \A i \in DOMAIN send' : send'[i] = Len(out) + Len(Batch') + i
    BY <1>2, <1>3, <1>4, <1>13 DEF Complete
  <2>4. accepted' = Len(out) + Len(Batch') + Len(send')
    BY <1>1, <1>2, <1>3, <1>4, <1>13 DEF Complete
  <2>5. QED
    BY <1>1, <1>13, <2>2, <2>3, <2>4 DEF Complete
<1>14. QED
  BY <1>12, <1>13

LEMMA OrderFlushes ==
    ASSUME Contents, Rising, Flushes(<<"writer", 1>>)
    PROVE  Rising' /\ (Complete => Complete')
<1>1. /\ out' = out \o Batch /\ send' = send /\ Batch' = <<>> /\ accepted' = accepted
      /\ out \in Seq(Nat) /\ Batch \in Seq(Nat) /\ send \in Seq(Nat)
  BY Firsts DEF Flushes, Batch, Contents
<1>2. /\ DOMAIN out = 1..Len(out) /\ Len(out) \in Nat
      /\ DOMAIN Batch = 1..Len(Batch) /\ Len(Batch) \in Nat
      /\ Len(out') = Len(out) + Len(Batch) /\ DOMAIN out' = 1..(Len(out) + Len(Batch))
      /\ \A i \in 1..(Len(out) + Len(Batch)) :
             out'[i] = IF i <= Len(out) THEN out[i] ELSE Batch[i - Len(out)]
  BY <1>1, ConcatProperties, LenProperties
<1>3. \A i \in DOMAIN out' : \/ i \in DOMAIN out /\ out'[i] = out[i]
                             \/ /\ i \in Int /\ Len(out) < i /\ i - Len(out) \in DOMAIN Batch
                                /\ out'[i] = Batch[i - Len(out)]
  BY <1>2
<1>4. DOMAIN Batch' = {} /\ Len(Batch') = 0
  BY <1>1
<1>5. \A i, j \in DOMAIN out' : i < j => out'[i] < out'[j]
  <2>1. SUFFICES ASSUME NEW i \in DOMAIN out', NEW j \in DOMAIN out', i < j
                 PROVE  out'[i] < out'[j]
    OBVIOUS
  <2>2. CASE i \in DOMAIN out /\ out'[i] = out[i]
    <3>1. CASE j \in DOMAIN out /\ out'[j] = out[j]
      BY <2>1, <2>2, <3>1 DEF Rising
    <3>2. CASE j - Len(out) \in DOMAIN Batch /\ out'[j] = Batch[j - Len(out)]
      BY <2>2, <3>2 DEF Rising
    <3>3. QED
      BY <1>3, <3>1, <3>2
  <2>3. CASE /\ i \in Int /\ Len(out) < i /\ i - Len(out) \in DOMAIN Batch
             /\ out'[i] = Batch[i - Len(out)]
    <3>1. j \in Int /\ Len(out) < j /\ j - Len(out) \in DOMAIN Batch
          /\ out'[j] = Batch[j - Len(out)] /\ i - Len(out) < j - Len(out)
      BY <1>2, <2>1, <2>3
    <3>2. QED
      BY <2>3, <3>1 DEF Rising
  <2>4. QED
    BY <1>3, <2>2, <2>3
<1>6. \A i \in DOMAIN out', j \in DOMAIN send : out'[i] < send[j]
  BY <1>3 DEF Rising
<1>7. Rising'
  BY <1>1, <1>4, <1>5, <1>6 DEF Rising
<1>8. ASSUME Complete PROVE Complete'
  <2>1. \A i \in DOMAIN out' : out'[i] = i
    BY <1>2, <1>3, <1>8 DEF Complete
  <2>2. \A i \in DOMAIN send : send[i] = Len(out') + Len(Batch') + i
    BY <1>2, <1>4, <1>8 DEF Complete
  <2>3. accepted' = Len(out') + Len(Batch') + Len(send)
    BY <1>1, <1>2, <1>4, <1>8 DEF Complete
  <2>4. QED
    BY <1>1, <1>4, <2>1, <2>2, <2>3 DEF Complete
<1>9. QED
  BY <1>7, <1>8

LEMMA OrderFails ==
    ASSUME Contents, Rising, Fails(<<"writer", 1>>)
    PROVE  Rising'
<1>1. out' = out /\ send' = send /\ Batch' = <<>>
  BY Firsts DEF Fails, Batch, Contents
<1>2. DOMAIN Batch' = {}
  BY <1>1
<1>3. QED
  BY <1>1, <1>2 DEF Rising

(* With one set of pumps only its write pump has begun.                     *)
LEMMA OneWriter ==
    ASSUME Types, Steps, SetsInTurn, Leaving, [Next]_vars, Starts = 1,
           NEW w \in Writers, task[w] # "idle"
    PROVE  w = <<"writer", 1>>
<1>1. FirstSets(1)
  BY SetsStep
<1>2. w[2] <= 1 /\ w[2] \in Sets
  BY <1>1, Kinds4 DEF FirstSets
<1>3. w[2] = 1
  BY <1>2, BoundAssumption DEF Sets
<1>4. QED
  BY <1>3, Firsts

LEMMA InOrderStep ==
    ASSUME Inv, [Next]_vars
    PROVE  InOrder'
<1>1. Flags /\ Types /\ Steps /\ SetsInTurn /\ Leaving /\ Held /\ Placed /\ InOrder /\ Contents
  BY TypesSplit DEF Inv
<1>2. SUFFICES ASSUME Starts' = 1
               PROVE  Rising' /\ (~Departing' => Complete')
  BY DEF InOrder
<1>3. PICK n \in Sets : FirstSets(n) /\ Starts = n /\ Starts' >= n
  BY <1>1, SetsStep
<1>4. n = 1 /\ Starts = 1
  BY <1>2, <1>3, BoundAssumption DEF Sets
<1>5. Rising /\ (~Departing => Complete)
  BY <1>1, <1>4 DEF InOrder
<1>6. Departing => Departing'
  BY <1>1, DepartingStays
<1>7. \A w \in Writers : task[w] # "idle" => w = <<"writer", 1>>
  BY <1>1, <1>4, OneWriter
<1>8. CASE Quiet
  BY <1>5, <1>6, <1>8 DEF Quiet, Rising, Complete, Batch
<1>9. CASE Accepts
  BY <1>1, <1>5, <1>6, <1>9, OrderAccepts
<1>10. CASE Discards
  BY <1>1, <1>5, <1>6, <1>10, OrderDiscards DEF Discards
<1>11. ASSUME NEW w \in Writers, task[w] # "idle", Moves(w) \/ Flushes(w) \/ Fails(w)
       PROVE  Rising' /\ (~Departing' => Complete')
  <2>1. CASE Moves(w)
    BY <1>1, <1>5, <1>6, <1>7, <1>11, <2>1, OrderMoves
  <2>2. CASE Flushes(w)
    BY <1>1, <1>5, <1>6, <1>7, <1>11, <2>2, OrderFlushes
  <2>3. CASE Fails(w)
    <3>1. Departing'
      BY <2>3 DEF Fails
    <3>2. QED
      BY <1>1, <1>5, <1>7, <1>11, <2>3, <3>1, OrderFails
  <2>4. QED
    BY <1>11, <2>1, <2>2, <2>3
<1>12. QED
  BY <1>1, <1>8, <1>9, <1>10, <1>11, Outcomes

(***************************************************************************)
(* The theorems.                                                           *)
(***************************************************************************)

LEMMA InitInv == Init => Inv
<1> SUFFICES ASSUME Init PROVE Inv
  OBVIOUS
<1>1. \A t \in Threads : task[t] = IF t[2] = 1 THEN "loop" ELSE "idle"
  BY DEF Init
<1>2. FirstSets(1)
  <2>1. \A t \in Threads \ {Closer} : t[2] \in Sets
    BY Kinds4
  <2>2. \A k \in Sets : k = 1 <=> k <= 1
    BY BoundAssumption DEF Sets
  <2>3. QED
    BY <1>1, <2>1, <2>2 DEF FirstSets
<1>3. Starts = 1
  BY <1>2, Firsts, Kinds4, StartsCount DEF FirstSets, Starts, Begun
<1>4. Flags
  BY DEF Init, Flags
<1>5. Types
  <2>1. <<>> \in Seq(Nat) /\ <<>> \in Seq(Kinds) /\ Len(<<>>) = 0
    OBVIOUS
  <2>2. 0 \in 0..(SendCap - 1) /\ 0 \in 0..MaxEvents /\ 0 \in 0..0 /\ SendCap >= 0 /\ ReceiveCap >= 0
    BY CapAssumption, BoundAssumption
  <2>3. QED
    BY <2>1, <2>2 DEF Init, Types
<1>6. task[Closer] = "idle"
  BY <1>1, Kinds4
<1>7. Steps
  <2>1. task \in [Threads -> Stages]
    BY DEF Init, Stages
  <2>2. QED
    BY <1>1, <1>6, <2>1, Kinds4 DEF Steps
<1>8. SetsInTurn
  BY <1>2, Firsts DEF SetsInTurn, FirstSets
<1>9. Leaving
  BY <1>6 DEF Init, Leaving
<1>10. Held
  BY <1>1, Kinds4 DEF Init, Held
<1>11. Placed
  <2>1. ToSet(send) = {} /\ ToSet(out) = {} /\ discarded = {} /\ 1..accepted = {}
        /\ \A w \in Writers : hold[w] = <<>>
    BY EmptySet DEF Init
  <2>2. IsInjective(send) /\ IsInjective(out)
    BY EmptySet DEF Init
  <2>3. \A w \in Writers : ToSet(hold[w]) = {} /\ IsInjective(hold[w])
    BY <2>1, EmptySet
  <2>4. QED
    BY <2>1, <2>2, <2>3 DEF Placed
<1>12. InOrder
  <2>1. Batch = <<>> /\ out = <<>> /\ send = <<>> /\ accepted = 0
    BY Firsts DEF Init, Batch
  <2>2. DOMAIN Batch = {} /\ DOMAIN out = {} /\ DOMAIN send = {}
        /\ Len(Batch) = 0 /\ Len(out) = 0 /\ Len(send) = 0
    BY <2>1
  <2>3. QED
    BY <2>1, <2>2 DEF InOrder, Rising, Complete
<1>13. QED
  BY <1>4, <1>5, <1>7, <1>8, <1>9, <1>10, <1>11, <1>12 DEF Inv

LEMMA NextInv == Inv /\ [Next]_vars => Inv'
<1> SUFFICES ASSUME Inv, [Next]_vars PROVE Inv'
  OBVIOUS
<1>1. Flags /\ Types /\ Steps /\ SetsInTurn /\ Leaving /\ Held /\ Placed
  BY DEF Inv
<1>2. Flags'
  BY <1>1, FlagSteps
<1>3. Types'
  <2>1. Contents' /\ Setting'
    BY <1>1, ContentsStep, SettingStep
  <2>2. QED
    BY <2>1 DEF Types, Contents, Setting
<1>4. Steps' /\ SetsInTurn' /\ Leaving' /\ Held' /\ Placed'
  BY <1>1, StepsStep, SetsStep, LeavingStep, HeldStep, PlacedStep
<1>5. InOrder'
  BY InOrderStep
<1>6. QED
  BY <1>2, <1>3, <1>4, <1>5 DEF Inv

LEMMA InvAlways == Spec => []Inv
BY InitInv, NextInv, PTL DEF Spec

LEMMA SeqOfSet ==
    ASSUME NEW s \in Seq(Nat), NEW S, ToSet(s) \subseteq S
    PROVE  s \in Seq(S)
<1>1. \A i \in 1..Len(s) : s[i] \in S
  BY LenProperties DEF ToSet
<1>2. QED
  BY <1>1

LEMMA InvTypeOK == Inv => TypeOK
<1> SUFFICES ASSUME Inv PROVE TypeOK
  OBVIOUS
<1>1. Flags /\ Types /\ Steps /\ Held /\ Placed
  BY DEF Inv
<1>2. send \in Seq(1..accepted) /\ out \in Seq(1..accepted) /\ discarded \subseteq 1..accepted
  <2>1. send \in Seq(Nat) /\ out \in Seq(Nat)
    BY <1>1 DEF Types
  <2>2. ToSet(send) \subseteq 1..accepted /\ ToSet(out) \subseteq 1..accepted
        /\ discarded \subseteq 1..accepted
    BY <1>1 DEF Placed
  <2>3. QED
    BY <2>1, <2>2, SeqOfSet
<1>3. {sendClosed, receiveClosed, active, ctxDone, registered, slow} \subseteq BOOLEAN
  BY <1>1, Zenon DEF Flags
<1>4. \A t \in Threads : task[t] \in Cleaning \cup
            {"idle", "loop", "writing", "read", "cancel", "join", "leave", "reply", "done"}
  BY <1>1 DEF Steps, Stages
<1>5. snapshot \in [Broadcasts -> 0..MaxEvents]
  <2>1. events \in 0..MaxEvents /\ MaxEvents \in Nat
    BY <1>1, BoundAssumption DEF Types
  <2>2. \A n \in 0..events : n \in 0..MaxEvents
    BY <2>1
  <2>3. QED
    BY <1>1, <2>2 DEF Types
<1>6. QED
  BY <1>1, <1>2, <1>3, <1>4, <1>5 DEF TypeOK, Types, Held

(* Messages are written in the order Send accepted them while the client    *)
(* has one set of pumps, and none is missing until it begins to leave       *)
(* (client.go:105-141).                                                     *)
THEOREM MessagesInOrder == Spec => []WrittenInOrder
<1>1. Inv => WrittenInOrder
  <2> SUFFICES ASSUME Inv, Starts = 1 PROVE
          /\ \A i, j \in DOMAIN out : i < j => out[i] < out[j]
          /\ ~Departing => out \o Batch \o send = [i \in 1..accepted |-> i]
    BY DEF WrittenInOrder, Batch
  <2>1. Rising /\ (~Departing => Complete)
    BY DEF Inv, InOrder
  <2>2. ASSUME ~Departing
        PROVE  out \o Batch \o send = [i \in 1..accepted |-> i]
    <3>1. Complete /\ Contents
      BY <2>1, <2>2, TypesSplit DEF Inv
    <3>2. out \in Seq(Nat) /\ Batch \in Seq(Nat) /\ send \in Seq(Nat)
      BY <3>1, BatchType DEF Contents
    <3>3. /\ Len(out) \in Nat /\ DOMAIN out = 1..Len(out)
          /\ Len(Batch) \in Nat /\ DOMAIN Batch = 1..Len(Batch)
          /\ Len(send) \in Nat /\ DOMAIN send = 1..Len(send)
      BY <3>2, LenProperties
    <3> DEFINE s == out \o Batch
    <3>4. /\ s \in Seq(Nat) /\ Len(s) = Len(out) + Len(Batch)
          /\ \A i \in 1..Len(s) : s[i] = i
      <4>1. /\ s \in Seq(Nat) /\ Len(s) = Len(out) + Len(Batch)
            /\ \A i \in 1..(Len(out) + Len(Batch)) :
                   s[i] = IF i <= Len(out) THEN out[i] ELSE Batch[i - Len(out)]
        BY <3>2, ConcatProperties
      <4>2. ASSUME NEW i \in 1..Len(s) PROVE s[i] = i
        <5>1. CASE i <= Len(out)
          <6>1. i \in DOMAIN out /\ s[i] = out[i]
            BY <3>3, <4>1, <4>2, <5>1
          <6>2. QED
            BY <3>1, <6>1 DEF Complete
        <5>2. CASE ~(i <= Len(out))
          <6>1. i - Len(out) \in DOMAIN Batch /\ s[i] = Batch[i - Len(out)]
            BY <3>3, <4>1, <4>2, <5>2
          <6>2. Batch[i - Len(out)] = Len(out) + (i - Len(out))
            BY <3>1, <6>1 DEF Complete
          <6>3. i \in Int
            BY <3>3, <4>1
          <6>4. QED
            BY <3>3, <6>1, <6>2, <6>3
        <5>3. QED
          BY <5>1, <5>2
      <4>3. QED
        BY <4>1, <4>2
    <3> HIDE DEF s
    <3> DEFINE u == s \o send
    <3>5. /\ u \in Seq(Nat) /\ Len(u) = Len(s) + Len(send)
          /\ \A i \in 1..(Len(s) + Len(send)) :
                 u[i] = IF i <= Len(s) THEN s[i] ELSE send[i - Len(s)]
      BY <3>2, <3>4, ConcatProperties
    <3>6. accepted = Len(u)
      BY <3>1, <3>4, <3>5 DEF Complete
    <3> HIDE DEF u
    <3>7. ASSUME NEW i \in 1..Len(u) PROVE u[i] = i
      <4>1. CASE i <= Len(s)
        BY <3>3, <3>4, <3>5, <3>7, <4>1
      <4>2. CASE ~(i <= Len(s))
        <5>1. i - Len(s) \in DOMAIN send /\ u[i] = send[i - Len(s)]
          BY <3>3, <3>4, <3>5, <3>7, <4>2
        <5>2. send[i - Len(s)] = Len(out) + Len(Batch) + (i - Len(s))
          BY <3>1, <5>1 DEF Complete
        <5>3. i \in Int
          BY <3>3, <3>4, <3>5
        <5>4. QED
          BY <3>3, <3>4, <5>1, <5>2, <5>3
      <4>3. QED
        BY <4>1, <4>2
    <3>8. u \in [1..accepted -> Nat]
      BY <3>5, <3>6, LenProperties
    <3>9. u = [i \in 1..accepted |-> i]
      BY <3>6, <3>7, <3>8
    <3>10. QED
      BY <3>9 DEF s, u
  <2>3. QED
    BY <2>1, <2>2 DEF Rising
<1>2. QED
  BY <1>1, InvAlways, PTL

(* Each accepted message is waiting, being written, written once, or        *)
(* discarded, and the state has its types, however many sets of pumps and   *)
(* clean-ups there are (client.go:105-141, 343-368).                        *)
THEOREM MessagesInOnePlace == Spec => []AcceptedOnce
<1>1. Inv => AcceptedOnce
  <2> SUFFICES ASSUME Inv, NEW m \in 1..accepted
               PROVE  Cardinality({<<"send", i>> : i \in {i \in DOMAIN send : send[i] = m}}
                          \cup {<<"out", i>> : i \in {i \in DOMAIN out : out[i] = m}}
                          \cup {w \in Writers : m \in ToSet(hold[w])}
                          \cup (IF m \in discarded THEN {"discarded"} ELSE {})) = 1
    BY InvTypeOK DEF AcceptedOnce
  <2> DEFINE waiting == {<<"send", i>> : i \in {i \in DOMAIN send : send[i] = m}}
             done    == {<<"out", i>> : i \in {i \in DOMAIN out : out[i] = m}}
             held    == {w \in Writers : m \in ToSet(hold[w])}
             lost    == IF m \in discarded THEN {"discarded"} ELSE {}
  <2>1. Placed
    BY DEF Inv
  <2>2. (m \notin ToSet(send) => waiting = {}) /\ (m \notin ToSet(out) => done = {})
    BY DEF ToSet
  <2>3. m \in ToSet(send) => \E x : waiting = {x}
    <3>1. SUFFICES ASSUME NEW i \in DOMAIN send, send[i] = m PROVE waiting = {<<"send", i>>}
      BY DEF ToSet
    <3>2. {j \in DOMAIN send : send[j] = m} = {i}
      BY <2>1, <3>1 DEF Placed, IsInjective
    <3>3. QED
      BY <3>2
  <2>4. m \in ToSet(out) => \E x : done = {x}
    <3>1. SUFFICES ASSUME NEW i \in DOMAIN out, out[i] = m PROVE done = {<<"out", i>>}
      BY DEF ToSet
    <3>2. {j \in DOMAIN out : out[j] = m} = {i}
      BY <2>1, <3>1 DEF Placed, IsInjective
    <3>3. QED
      BY <3>2
  <2>5. (\E w \in Writers : m \in ToSet(hold[w])) => \E x : held = {x}
    <3>1. SUFFICES ASSUME NEW w \in Writers, m \in ToSet(hold[w]) PROVE held = {w}
      OBVIOUS
    <3>2. \A v \in Writers \ {w} : m \notin ToSet(hold[v])
      BY <2>1, <3>1 DEF Placed
    <3>3. QED
      BY <3>1, <3>2
  <2>6. \E x : waiting \cup done \cup held \cup lost = {x}
    <3>1. CASE m \in ToSet(send)
      <4>1. m \notin ToSet(out) /\ held = {} /\ lost = {}
        BY <2>1, <3>1 DEF Placed
      <4>2. QED
        BY <2>2, <2>3, <3>1, <4>1
    <3>2. CASE m \in ToSet(out)
      <4>1. m \notin ToSet(send) /\ held = {} /\ lost = {}
        BY <2>1, <3>2 DEF Placed
      <4>2. QED
        BY <2>2, <2>4, <3>2, <4>1
    <3>3. CASE m \in discarded
      <4>1. m \notin ToSet(send) /\ m \notin ToSet(out) /\ held = {} /\ lost = {"discarded"}
        BY <2>1, <3>3 DEF Placed
      <4>2. QED
        BY <2>2, <4>1
    <3>4. CASE \E w \in Writers : m \in ToSet(hold[w])
      <4>1. m \notin ToSet(send) /\ m \notin ToSet(out) /\ lost = {}
        BY <2>1, <3>4 DEF Placed
      <4>2. QED
        BY <2>2, <2>5, <3>4, <4>1
    <3>5. QED
      BY <2>1, <3>1, <3>2, <3>3, <3>4 DEF Placed
  <2> HIDE DEF waiting, done, held, lost
  <2>7. Cardinality(waiting \cup done \cup held \cup lost) = 1
    BY <2>6, FS_Singleton
  <2>8. QED
    BY <2>7 DEF waiting, done, held, lost
<1>2. QED
  BY <1>1, InvAlways, PTL

(* No goroutine of a client with one set of pumps panics before the client  *)
(* begins to leave (client.go:105-141, 322-324, 343-368).                   *)
THEOREM NoPanicBeforeLeaving == Spec => []NoPanicWhileConnected
<1>1. Inv => NoPanicWhileConnected
  BY DEF Inv, Leaving, NoPanicWhileConnected
<1>2. QED
  BY <1>1, InvAlways, PTL

(***************************************************************************)
(* The outbox.                                                             *)
(***************************************************************************)

Pending == ToSet(send) \cup UNION {ToSet(hold[w]) : w \in Writers}

LEMMA InitBox == Init => Box!Init
<1> SUFFICES ASSUME Init PROVE Box!Init
  OBVIOUS
<1>1. Starts = 1
  <2>1. \A w \in Writers : task[w] # "idle" <=> w[2] <= 1
    <3>1. \A w \in Writers : w \in Threads /\ w[2] \in Sets
      BY Kinds4
    <3>2. \A k \in Sets : k = 1 <=> k <= 1
      BY BoundAssumption DEF Sets
    <3>3. QED
      BY <3>1, <3>2 DEF Init
  <2>2. QED
    BY <2>1, Firsts, StartsCount DEF Starts, Begun
<1>2. ~Departing
  <2>1. \A t \in Writers \cup Readers : task[t] \in {"loop", "idle"}
    BY Kinds4 DEF Init
  <2>2. QED
    BY <2>1 DEF Init, Departing, Cleaning
<1>3. ToSet(send) = {} /\ ToSet(out) = {}
  BY EmptySet DEF Init
<1>4. \A w \in Writers : ToSet(hold[w]) = {}
  <2>1. \A w \in Writers : hold[w] = <<>>
    BY DEF Init
  <2>2. QED
    BY <2>1, EmptySet
<1>5. accepted = 0 /\ discarded = {}
  BY DEF Init
<1>6. QED
  BY <1>1, <1>2, <1>3, <1>4, <1>5 DEF Box!Init

(* The effect of a step on the messages is a step of the outbox.            *)
LEMMA BoxMessages ==
    ASSUME Inv, Departing => Departing', [Next]_vars
    PROVE  \/ Box!Accept
           \/ \E some \in SUBSET Pending : Box!Write(some) \/ Box!Lose(some)
           \/ UNCHANGED Box!messages
<1>1. Types /\ Steps /\ SetsInTurn /\ Leaving /\ Held /\ Placed /\ InOrder /\ Contents
  BY TypesSplit DEF Inv
<1>2. CASE Quiet
  BY <1>2 DEF Quiet, Box!messages
<1>3. CASE Accepts
  <2>1. ToSet(send') = ToSet(send) \cup {accepted + 1}
    BY <1>1, <1>3, AppendSet DEF Accepts, Contents
  <2>2. hold' = hold /\ out' = out /\ discarded' = discarded /\ accepted' = accepted + 1
    BY <1>3 DEF Accepts
  <2>3. QED
    BY <2>1, <2>2 DEF Box!Accept
<1>4. CASE Discards
  <2> DEFINE h == Head(send)
  <2>1. ToSet(send) = ToSet(send') \cup {h} /\ h \notin ToSet(send')
    BY <1>1, <1>4, TailSet DEF Contents, Discards, Placed
  <2>2. hold' = hold /\ out' = out /\ discarded' = discarded \cup {h} /\ accepted' = accepted
        /\ Departing'
    BY <1>4 DEF Discards
  <2> HIDE DEF h
  <2>3. \A w \in Writers : h \notin ToSet(hold[w])
    BY <1>1, <2>1 DEF Placed
  <2>4. {h} \in SUBSET Pending
    BY <2>1 DEF Pending
  <2>5. Pending' = Pending \ {h}
    BY <2>1, <2>2, <2>3 DEF Pending
  <2>6. Box!Lose({h})
    BY <2>2, <2>5 DEF Box!Lose, Pending
  <2>7. QED
    BY <2>4, <2>6
<1>5. ASSUME NEW w \in Writers, Moves(w)
      PROVE  UNCHANGED Box!messages
  <2> DEFINE h == Head(send)
  <2>1. ToSet(send) = ToSet(send') \cup {h} /\ h \in Nat
    BY <1>1, <1>5, TailSet DEF Contents, Moves
  <2>2. out' = out /\ discarded' = discarded /\ accepted' = accepted
        /\ hold'[w] = Append(hold[w], h) /\ \A v \in Writers \ {w} : hold'[v] = hold[v]
    BY <1>1, <1>5 DEF Moves, Contents
  <2> HIDE DEF h
  <2>3. ToSet(hold'[w]) = ToSet(hold[w]) \cup {h}
    BY <1>1, <2>1, <2>2, AppendSet DEF Contents
  <2>4. \A m : m \in Pending' <=> m \in Pending
    <3>1. \A m : m \in Pending <=> m \in ToSet(send) \/ \E v \in Writers : m \in ToSet(hold[v])
      BY DEF Pending
    <3>2. \A m : m \in Pending' <=> m \in ToSet(send') \/ \E v \in Writers : m \in ToSet(hold'[v])
      BY DEF Pending
    <3>3. QED
      BY <2>1, <2>2, <2>3, <3>1, <3>2
  <2>5. Pending' = Pending
    BY <2>4
  <2>6. QED
    BY <2>2, <2>5 DEF Box!messages, Pending
<1>6. ASSUME NEW w \in Writers, task[w] # "idle", Flushes(w) \/ Fails(w)
      PROVE  \E some \in SUBSET Pending : Box!Write(some) \/ Box!Lose(some)
  <2> DEFINE some == ToSet(hold[w])
  <2>1. send' = send /\ accepted' = accepted
        /\ hold'[w] = <<>> /\ \A v \in Writers \ {w} : hold'[v] = hold[v]
    BY <1>1, <1>6 DEF Flushes, Fails, Contents
  <2>2. ToSet(hold'[w]) = {}
    BY <2>1, EmptySet
  <2>3. some \cap ToSet(send) = {} /\ \A v \in Writers \ {w} : some \cap ToSet(hold[v]) = {}
    BY <1>1 DEF Placed
  <2>4. some \in SUBSET Pending
    BY DEF Pending
  <2>5. Pending' = Pending \ some
    <3>1. \A m : m \in Pending <=> m \in ToSet(send) \/ \E v \in Writers : m \in ToSet(hold[v])
      BY DEF Pending
    <3>2. \A m : m \in Pending' <=> m \in ToSet(send') \/ \E v \in Writers : m \in ToSet(hold'[v])
      BY DEF Pending
    <3> HIDE DEF some
    <3>3. \A m : m \in Pending' => m \in Pending /\ m \notin some
      BY <2>1, <2>2, <2>3, <3>1, <3>2
    <3>4. \A m : m \in Pending /\ m \notin some => m \in Pending'
      BY <2>1, <3>1, <3>2 DEF some
    <3>5. QED
      BY <3>3, <3>4
  <2>6. CASE Flushes(w)
    <3>1. ToSet(out') = ToSet(out) \cup some /\ discarded' = discarded
      BY <1>1, <2>6, ConcatSet DEF Flushes, Contents
    <3>2. ASSUME Starts = 1, NEW m \in some, NEW k \in Pending \ some
          PROVE  m < k
      <4>1. w = <<"writer", 1>>
        BY <1>1, <1>6, <3>2, OneWriter
      <4>2. \A v \in Writers \ {w} : ToSet(hold[v]) = {}
        <5>1. \A v \in Writers \ {w} : task[v] = "idle"
          BY <1>1, <3>2, <4>1, OneWriter
        <5>2. \A v \in Writers \ {w} : hold[v] = <<>>
          BY <1>1, <5>1 DEF Held
        <5>3. QED
          BY <5>2, EmptySet
      <4>3. k \in ToSet(send)
        BY <3>2, <4>2 DEF Pending
      <4>4. Rising
        BY <1>1, <3>2 DEF InOrder
      <4>5. QED
        BY <3>2, <4>1, <4>3, <4>4 DEF Rising, Batch, ToSet
    <3> HIDE DEF some
    <3>3. Box!Write(some)
      BY <2>1, <2>5, <3>1, <3>2 DEF Box!Write, Pending
    <3>4. QED
      BY <2>4, <3>3
  <2>7. CASE Fails(w)
    <3>1. out' = out /\ discarded' = discarded \cup some /\ Departing'
      BY <2>7 DEF Fails
    <3> HIDE DEF some
    <3>2. Box!Lose(some)
      BY <2>1, <2>5, <3>1 DEF Box!Lose, Pending
    <3>3. QED
      BY <2>4, <3>2
  <2>8. QED
    BY <1>6, <2>6, <2>7
<1>7. QED
  BY <1>1, <1>2, <1>3, <1>4, <1>5, <1>6, Outcomes

LEMMA NextBox == Inv /\ [Next]_vars => [Box!Next]_Box!boxVars
<1> SUFFICES ASSUME Inv, [Next]_vars PROVE Box!Next
  OBVIOUS
<1>1. Departing => Departing'
  BY DepartingStays DEF Inv
<1>2. (Starts = 1)' => Starts = 1
  <2>1. PICK n \in Sets : Starts = n /\ Starts' >= n
    BY SetsStep DEF Inv
  <2>2. QED
    BY <2>1, BoundAssumption DEF Sets
<1>3. QED
  BY <1>1, <1>2, BoxMessages DEF Box!Next, Pending

(* The pumps, clean-ups and senders of a client implement Outbox: nothing   *)
(* accepted is lost before the client leaves, and a single write pump sends *)
(* the oldest first (client.go:91-146, 343-368).                            *)
THEOREM PumpsImplementOutbox == Spec => ImplementsOutbox
<1>1. QED
  BY InitBox, NextBox, InvAlways, PTL DEF Spec, Box!Spec, ImplementsOutbox

(* What was written or lost stays that, and nothing is lost before the      *)
(* client leaves: a fact about the outbox, which the pumps inherit          *)
(* (client.go:105-141, 343-368).                                            *)
THEOREM MessagesSettleForGood == Spec => Box!SettledForGood
<1>1. [Box!Next]_Box!boxVars => [Box!Settled]_Box!boxVars
  BY DEF Box!Next, Box!boxVars, Box!messages, Box!Accept, Box!Write, Box!Lose, Box!Settled
<1>2. QED
  BY <1>1, PumpsImplementOutbox, PTL DEF ImplementsOutbox, Box!Spec, Box!SettledForGood
=============================================================================
