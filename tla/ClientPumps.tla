---------------------------- MODULE ClientPumps ----------------------------
(***************************************************************************)
(* One websocket client: its Send and Receive channels, the goroutines     *)
(* that Start launches (write pump, read pump, message pump), Close, and   *)
(* the senders of the hub, which put messages on Send from goroutines of   *)
(* their own.  Every Register calls Start, so a join adds a second set of  *)
(* pumps; MaxStarts bounds the sets.                                       *)
(*                                                                         *)
(* A panic in any of these goroutines ends the process, because nothing    *)
(* recovers it: crashed then says why and nothing happens any more.  Go's  *)
(* select takes any case that is ready.  A message is the number it got    *)
(* when Send accepted it.  What gorilla/websocket does with two writers at *)
(* work at once is left open: it writes, fails, or panics.  The registry   *)
(* is reduced to "a broadcast to its room finds the client"; Hub has the   *)
(* rest.                                                                   *)
(***************************************************************************)
EXTENDS Integers, Sequences, FiniteSets, SequencesExt

CONSTANTS
    SendCap, ReceiveCap,   \* channelBuffer
    Kinds,                 \* the types of messages the peer sends
    Broadcasts,            \* the loops of the hub that send to it
    MaxStarts,             \* bound on the sets of pumps
    MaxEvents              \* bound on the messages to and from the peer

ASSUME CapAssumption   == SendCap \in Nat \ {0} /\ ReceiveCap \in Nat \ {0}
ASSUME KindsAssumption == Kinds \subseteq {"join", "leave", "ping", "typing"}
\* broadcastToRoomInternal, BroadcastToUser, broadcaseToRoomExceptUser.
ASSUME BroadcastsAssumption == Broadcasts \subseteq {"room", "user", "status"}
ASSUME BoundAssumption == MaxStarts \in Nat \ {0} /\ MaxEvents \in Nat

VARIABLES
    send, sendClosed,         \* Send
    receive, receiveClosed,   \* Receive
    active,                   \* IsActive
    ctxDone,                  \* ctx
    conn,                     \* Conn: "open", "broken" by the peer, "closed"
    registered,               \* a room of the hub has the client
    task,                     \* where each goroutine is
    hold, left,               \* write pump: messages being written, and n
    snapshot,                 \* senders that have found the client, by kind
    slow,                     \* a "go c.Close()" has not run yet
    crashed,                  \* "no", or the panic that ended the process
    events,                   \* messages to and from the peer so far
    accepted,                 \* history: messages that Send accepted
    out,                      \* history: messages written, in order
    discarded                 \* history: accepted and never to be written

channels == <<send, sendClosed, receive, receiveClosed>>
state    == <<active, ctxDone, conn, registered>>
writing  == <<hold, left>>
senders  == <<snapshot, slow>>
history  == <<accepted, out, discarded>>
vars == <<channels, state, task, writing, senders, crashed, events, history>>

Sets    == 1..MaxStarts
Writers == {"writer"} \X Sets
Readers == {"reader"} \X Sets
Pumps   == {"pump"} \X Sets
Closer  == <<"closer", 0>>
Threads == Writers \cup Readers \cup Pumps \cup {Closer}

\* After the first Register.
Init ==
    /\ send = <<>> /\ sendClosed = FALSE
    /\ receive = <<>> /\ receiveClosed = FALSE
    /\ active = TRUE /\ ctxDone = FALSE /\ conn = "open" /\ registered = TRUE
    /\ task = [t \in Threads |-> IF t[2] = 1 THEN "loop" ELSE "idle"]
    /\ hold = [w \in Writers |-> <<>>] /\ left = [w \in Writers |-> 0]
    /\ snapshot = [b \in Broadcasts |-> 0] /\ slow = FALSE
    /\ crashed = "no"
    /\ events = 0
    /\ accepted = 0 /\ out = <<>> /\ discarded = {}

-----------------------------------------------------------------------------
Running == crashed = "no"
Go(t, step) == task' = [task EXCEPT ![t] = step]
At(t, step) == Running /\ task[t] = step

\* The process dies; what the other variables say no longer matters.
Panic(why) ==
    /\ crashed' = why
    /\ UNCHANGED <<channels, state, task, writing, senders, events, history>>

Begun    == {t \in Threads : task[t] # "idle"}
Starts   == Cardinality(Begun \cap Writers)
Cleaning == {"unregister", "closeSend", "testReceive", "closeReceive", "closeConn"}

-----------------------------------------------------------------------------
(* The hub and the network.                                                 *)

\* A sender takes its snapshot of clients and finds this one.  BroadcastToUser
\* goes by the user's list, which Unregister never shortens.
Broadcast(b) ==
    /\ Running /\ events < MaxEvents
    /\ active /\ (b = "user" \/ registered)
    /\ snapshot' = [snapshot EXCEPT ![b] = @ + 1]
    /\ events' = events + 1
    /\ UNCHANGED <<channels, state, task, writing, slow, crashed, history>>

\* Mutant of Offer: it makes room for the newest message by evicting the
\* oldest.
OfferEvicting(byCtx, closes) ==
    /\ ~sendClosed
    /\ send' = Append(IF Len(send) = SendCap THEN Tail(send) ELSE send, accepted + 1)
    /\ accepted' = accepted + 1
    /\ UNCHANGED slow

\* select: accepted, given up because the context is done, or dropped, and
\* then whoever closes slow consumers starts a Close.
Offer(byCtx, closes) ==
    \/ /\ ~sendClosed /\ Len(send) < SendCap
       /\ send' = Append(send, accepted + 1)
       /\ accepted' = accepted + 1
       /\ UNCHANGED slow
    \/ /\ byCtx /\ ctxDone
       /\ UNCHANGED <<send, accepted, slow>>
    \/ /\ ~sendClosed /\ Len(send) = SendCap
       /\ ~(byCtx /\ ctxDone)
       /\ slow' = (slow \/ closes)
       /\ UNCHANGED <<send, accepted>>

\* The send itself, some time after the snapshot.
Deliver(b) ==
    /\ Running /\ snapshot[b] > 0
    /\ Offer(b # "status", b = "room")
    /\ snapshot' = [snapshot EXCEPT ![b] = @ - 1]
    /\ UNCHANGED <<sendClosed, receive, receiveClosed, state, task, writing,
                   crashed, events, out, discarded>>
DeliverPanics(b) ==
    /\ Running /\ snapshot[b] > 0
    /\ sendClosed
    /\ Panic("send on closed channel")

\* The peer goes away; neither end has noticed yet.
Break ==
    /\ Running /\ conn = "open"
    /\ conn' = "broken"
    /\ UNCHANGED <<channels, active, ctxDone, registered, task, writing, senders,
                   crashed, events, history>>

-----------------------------------------------------------------------------
(* Close: by the hub's cleanup, an administrator, or for a slow consumer.   *)
(* It returns early when IsActive is unset.                                 *)

\* Of its own accord, or the one that slow announces.
Close ==
    /\ At(Closer, "idle") /\ active
    /\ active' = FALSE /\ slow' \in {slow, FALSE}
    /\ Go(Closer, "cancel")
    /\ UNCHANGED <<channels, ctxDone, conn, registered, writing, snapshot,
                   crashed, events, history>>
CloseAgain ==
    /\ Running /\ slow /\ ~active
    /\ slow' = FALSE
    /\ UNCHANGED <<channels, state, task, writing, snapshot, crashed, events, history>>
Cancel ==
    /\ At(Closer, "cancel")
    /\ ctxDone' = TRUE
    /\ Go(Closer, "unregister")
    /\ UNCHANGED <<channels, active, conn, registered, writing, senders, crashed,
                   events, history>>

-----------------------------------------------------------------------------
(* cleanup, by a read pump, a write pump or Close.                          *)

\* Unregister, then the first select: a message is thrown away, or the
\* channel was found empty and open.
Unregister(t) ==
    /\ At(t, "unregister")
    /\ registered' = FALSE
    /\ IF send # <<>>
         THEN /\ send' = Tail(send)
              /\ discarded' = discarded \cup {Head(send)}
              /\ Go(t, "testReceive")
         ELSE /\ Go(t, IF sendClosed THEN "testReceive" ELSE "closeSend")
              /\ UNCHANGED <<send, discarded>>
    /\ UNCHANGED <<sendClosed, receive, receiveClosed, active, ctxDone, conn, writing,
                   senders, crashed, events, accepted, out>>

CloseSend(t) ==
    /\ At(t, "closeSend") /\ ~sendClosed
    /\ sendClosed' = TRUE
    /\ Go(t, "testReceive")
    /\ UNCHANGED <<send, receive, receiveClosed, state, writing, senders, crashed,
                   events, history>>

TestReceive(t) ==
    /\ At(t, "testReceive")
    /\ IF receive # <<>>
         THEN receive' = Tail(receive) /\ Go(t, "closeConn")
         ELSE /\ Go(t, IF receiveClosed THEN "closeConn" ELSE "closeReceive")
              /\ UNCHANGED receive
    /\ UNCHANGED <<send, sendClosed, receiveClosed, state, writing, senders, crashed,
                   events, history>>

CloseReceive(t) ==
    /\ At(t, "closeReceive") /\ ~receiveClosed
    /\ receiveClosed' = TRUE
    /\ Go(t, "closeConn")
    /\ UNCHANGED <<send, sendClosed, receive, state, writing, senders, crashed,
                   events, history>>

\* Another cleanup closed the channel since the select.
ClosePanics(t) ==
    /\ \/ At(t, "closeSend") /\ sendClosed
       \/ At(t, "closeReceive") /\ receiveClosed
    /\ Panic("close of closed channel")

CloseConn(t) ==
    /\ At(t, "closeConn")
    /\ conn' = "closed"
    /\ Go(t, "done")
    /\ UNCHANGED <<channels, active, ctxDone, registered, writing, senders, crashed,
                   events, history>>

Cleanup(t) == \/ Unregister(t) \/ CloseSend(t) \/ TestReceive(t)
              \/ CloseReceive(t) \/ ClosePanics(t) \/ CloseConn(t)

-----------------------------------------------------------------------------
(* The write pump.                                                          *)

\* Mutant: only a full channel is worth a frame.
WriterTakeFull(w) ==
    /\ At(w, "loop") /\ Len(send) = SendCap
    /\ hold' = [hold EXCEPT ![w] = <<Head(send)>>]
    /\ left' = [left EXCEPT ![w] = Len(send) - 1]
    /\ send' = Tail(send)
    /\ Go(w, "writing")
    /\ UNCHANGED <<sendClosed, receive, receiveClosed, state, senders, crashed, events, history>>

WriterTake(w) ==
    /\ At(w, "loop") /\ send # <<>>
    /\ hold' = [hold EXCEPT ![w] = <<Head(send)>>]
    /\ left' = [left EXCEPT ![w] = Len(send) - 1]
    /\ send' = Tail(send)
    /\ Go(w, "writing")
    /\ UNCHANGED <<sendClosed, receive, receiveClosed, state, senders, crashed, events, history>>

\* Mutant: the batched message replaces what is held.
WriterBatchOver(w) ==
    /\ At(w, "writing") /\ left[w] > 0 /\ send # <<>>
    /\ hold' = [hold EXCEPT ![w] = <<Head(send)>>]
    /\ left' = [left EXCEPT ![w] = @ - 1]
    /\ send' = Tail(send)
    /\ UNCHANGED <<sendClosed, receive, receiveClosed, state, task, senders, crashed,
                   events, history>>

\* At most as many more as were there when it looked.
WriterBatch(w) ==
    /\ At(w, "writing") /\ left[w] > 0 /\ send # <<>>
    /\ hold' = [hold EXCEPT ![w] = Append(@, Head(send))]
    /\ left' = [left EXCEPT ![w] = @ - 1]
    /\ send' = Tail(send)
    /\ UNCHANGED <<sendClosed, receive, receiveClosed, state, task, senders, crashed,
                   events, history>>

MayFail(w) == conn # "open" \/ \E v \in Writers \ {w} : task[v] = "writing"

\* Mutant: a failed write does not end the pump.
WriterFlushGoesOn(w) ==
    /\ At(w, "writing") /\ (left[w] = 0 \/ send = <<>>)
    /\ hold' = [hold EXCEPT ![w] = <<>>] /\ left' = [left EXCEPT ![w] = 0]
    /\ \/ conn # "closed" /\ out' = out \o hold[w] /\ UNCHANGED discarded
       \/ MayFail(w) /\ discarded' = discarded \cup ToSet(hold[w]) /\ UNCHANGED out
    /\ Go(w, "loop")
    /\ UNCHANGED <<channels, state, senders, crashed, events, accepted>>

\* The writer is closed, which sends the frame.
WriterFlush(w) ==
    /\ At(w, "writing") /\ (left[w] = 0 \/ send = <<>>)
    /\ hold' = [hold EXCEPT ![w] = <<>>] /\ left' = [left EXCEPT ![w] = 0]
    /\ \/ /\ conn # "closed"
          /\ out' = out \o hold[w]
          /\ Go(w, "loop") /\ UNCHANGED discarded
       \/ /\ MayFail(w)
          /\ discarded' = discarded \cup ToSet(hold[w])
          /\ Go(w, "unregister") /\ UNCHANGED out
    /\ UNCHANGED <<channels, state, senders, crashed, events, accepted>>
WriterPanics(w) ==
    /\ At(w, "writing")
    /\ \E v \in Writers \ {w} : task[v] = "writing"
    /\ Panic("concurrent write")

\* Mutant: no ping.
WriterEndsUnpinged(w) ==
    /\ At(w, "loop")
    /\ ctxDone \/ (sendClosed /\ send = <<>>)
    /\ Go(w, "unregister")
    /\ UNCHANGED <<channels, state, writing, senders, crashed, events, history>>

\* The context is done, Send is closed and empty, or a ping fails.
WriterEnds(w) ==
    /\ At(w, "loop")
    /\ ctxDone \/ (sendClosed /\ send = <<>>) \/ conn # "open"
    /\ Go(w, "unregister")
    /\ UNCHANGED <<channels, state, writing, senders, crashed, events, history>>

Writer(w) == WriterTake(w) \/ WriterBatch(w) \/ WriterFlush(w) \/ WriterPanics(w) \/ WriterEnds(w)

-----------------------------------------------------------------------------
(* The read pump.                                                           *)

ReaderLoop(r) ==
    /\ At(r, "loop")
    /\ Go(r, IF ctxDone THEN "unregister" ELSE "read")
    /\ UNCHANGED <<channels, state, writing, senders, crashed, events, history>>

\* A message that finds Receive full is dropped.
ReaderGets(r, k) ==
    /\ At(r, "read") /\ conn = "open" /\ ~receiveClosed
    /\ events < MaxEvents
    /\ receive' = IF Len(receive) < ReceiveCap THEN Append(receive, k) ELSE receive
    /\ events' = events + 1
    /\ Go(r, "loop")
    /\ UNCHANGED <<send, sendClosed, receiveClosed, state, writing, senders, crashed, history>>
ReaderPanics(r) ==
    /\ At(r, "read") /\ conn = "open" /\ receiveClosed
    /\ events < MaxEvents
    /\ Panic("send on closed channel")

\* The peer closed or is gone, the deadline passed, or this is no JSON.
ReaderFails(r) ==
    /\ At(r, "read")
    /\ Go(r, "unregister")
    /\ UNCHANGED <<channels, state, writing, senders, crashed, events, history>>

-----------------------------------------------------------------------------
(* The message pump.                                                        *)

\* Typing goes to others; a ping is answered; a join registers first.
PumpTake(p) ==
    /\ At(p, "loop") /\ receive # <<>>
    /\ receive' = Tail(receive)
    /\ Go(p, CASE Head(receive) = "typing" -> "loop"
               [] Head(receive) = "ping"   -> "reply"
               [] OTHER                    -> Head(receive))
    /\ UNCHANGED <<send, sendClosed, receiveClosed, state, writing, senders, crashed,
                   events, history>>

\* A closed channel yields nil, and handleIncomingMessage reads its Type.
PumpPanics(p) ==
    /\ At(p, "loop") /\ receive = <<>> /\ receiveClosed
    /\ Panic("nil message")

PumpEnds(p) ==
    /\ At(p, "loop") /\ ctxDone
    /\ Go(p, "done")
    /\ UNCHANGED <<channels, state, writing, senders, crashed, events, history>>

\* Register: the client is in the room, and Start launches another set.
PumpJoin(p) ==
    /\ At(p, "join")
    /\ registered' = TRUE
    /\ task' = [t \in Threads |-> IF t = p THEN "reply"
                                  ELSE IF t[2] = Starts + 1 THEN "loop" ELSE task[t]]
    /\ UNCHANGED <<channels, active, ctxDone, conn, writing, senders, crashed, events, history>>

\* Mutant: leaving the room closes the channel.
PumpLeaveClosing(p) ==
    /\ At(p, "leave")
    /\ registered' = FALSE /\ sendClosed' = TRUE
    /\ Go(p, "loop")
    /\ UNCHANGED <<send, receive, receiveClosed, active, ctxDone, conn, writing, senders,
                   crashed, events, history>>

PumpLeave(p) ==
    /\ At(p, "leave")
    /\ registered' = FALSE
    /\ Go(p, "reply")
    /\ UNCHANGED <<channels, active, ctxDone, conn, writing, senders, crashed, events, history>>

\* SendMessage.
PumpReply(p) ==
    /\ At(p, "reply")
    /\ Offer(TRUE, TRUE)
    /\ Go(p, "loop")
    /\ UNCHANGED <<sendClosed, receive, receiveClosed, state, writing, snapshot,
                   crashed, events, out, discarded>>
PumpReplyPanics(p) ==
    /\ At(p, "reply") /\ sendClosed
    /\ Panic("send on closed channel")

Pump(p) == \/ PumpTake(p) \/ PumpPanics(p) \/ PumpEnds(p) \/ PumpJoin(p)
           \/ PumpLeave(p) \/ PumpReply(p) \/ PumpReplyPanics(p)

-----------------------------------------------------------------------------
Next ==
    \/ \E b \in Broadcasts : Broadcast(b) \/ Deliver(b) \/ DeliverPanics(b)
    \/ Break \/ Close \/ CloseAgain \/ Cancel
    \/ \E t \in Threads : Cleanup(t)
    \/ \E w \in Writers : Writer(w)
    \/ \E r \in Readers : ReaderLoop(r) \/ ReaderPanics(r) \/ ReaderFails(r)
    \/ \E r \in Readers, k \in Kinds : ReaderGets(r, k)
    \/ \E p \in Pumps : Pump(p)

Spec == Init /\ [][Next]_vars

(* Goroutines that can run do run.  A read returns once the connection is   *)
(* gone (the pong deadline, or Conn.Close), and a ping fails then; peers    *)
(* need not send, break or close anything.                                  *)
FairSpec ==
    /\ Spec
    /\ \A b \in Broadcasts : WF_vars(Deliver(b) \/ DeliverPanics(b))
    /\ WF_vars(slow /\ (Close \/ CloseAgain)) /\ WF_vars(Cancel \/ Cleanup(Closer))
    /\ \A w \in Writers : WF_vars(Writer(w) \/ Cleanup(w))
    /\ \A r \in Readers :
           WF_vars(ReaderLoop(r) \/ (conn # "open" /\ ReaderFails(r)) \/ Cleanup(r))
    /\ \A p \in Pumps : WF_vars(Pump(p))

-----------------------------------------------------------------------------
\* The client has begun to leave: a Close, or a pump that returned.
Departing == ~active \/ \E t \in Writers \cup Readers : task[t] \in Cleaning \cup {"done"}

(* Type invariant.                                                          *)
TypeOK ==
    /\ send \in Seq(1..accepted) /\ Len(send) <= SendCap
    /\ receive \in Seq(Kinds) /\ Len(receive) <= ReceiveCap
    /\ {sendClosed, receiveClosed, active, ctxDone, registered, slow} \subseteq BOOLEAN
    /\ conn \in {"open", "broken", "closed"}
    /\ \A t \in Threads : task[t] \in Cleaning \cup
            {"idle", "loop", "writing", "read", "cancel", "join", "leave", "reply", "done"}
    /\ \A w \in Writers : (hold[w] # <<>>) <=> (task[w] = "writing")
    /\ \A w \in Writers : left[w] \in 0..(SendCap - 1)
    /\ snapshot \in [Broadcasts -> 0..MaxEvents]
    /\ crashed \in {"no", "send on closed channel", "close of closed channel",
                    "nil message", "concurrent write"}
    /\ out \in Seq(1..accepted) /\ discarded \subseteq 1..accepted

(* With one set of pumps messages are written in the order they were        *)
(* accepted, to the very end, although clean-ups throw some of them away;   *)
(* until the client begins to leave, those written, being written and       *)
(* waiting are all that Send accepted (client.go:112-131).                  *)
WrittenInOrder ==
    Starts = 1 =>
        /\ \A i, j \in DOMAIN out : i < j => out[i] < out[j]
        /\ ~Departing =>
              out \o hold[<<"writer", 1>>] \o send = [i \in 1..accepted |-> i]

(* Whatever the number of pumps and clean-ups, an accepted message is in    *)
(* one place: waiting, being written by one pump, written once, or          *)
(* discarded by a clean-up or a failed write (client.go:350-355).  TypeOK   *)
(* is checked with it.                                                      *)
AcceptedOnce ==
    LET places(m) == {<<"send", i>> : i \in {i \in DOMAIN send : send[i] = m}}
              \cup {<<"out", i>> : i \in {i \in DOMAIN out : out[i] = m}}
              \cup {w \in Writers : m \in ToSet(hold[w])}
              \cup (IF m \in discarded THEN {"discarded"} ELSE {})
    IN TypeOK /\ \A m \in 1..accepted : Cardinality(places(m)) = 1

(* No goroutine panics while the client has not begun to leave and has one  *)
(* set of pumps: every panic needs a clean-up under way, or two writers.    *)
NoPanicWhileConnected == crashed # "no" => Departing \/ Starts > 1

\* What the client promises about its messages: see Outbox.
Box == INSTANCE Outbox
          WITH pending <- ToSet(send) \cup UNION {ToSet(hold[w]) : w \in Writers},
               written <- ToSet(out),
               lost    <- discarded,
               leaving <- Departing,
               alone   <- Starts = 1

(* The pumps implement the outbox, through batches, failed writes, joins    *)
(* and clean-ups: a message leaves Send for one frame or for the log, none  *)
(* is lost before the client leaves, however many pumps it has, and a       *)
(* single write pump sends the oldest first (client.go:91-146, 343-368).    *)
ImplementsOutbox == Box!Spec

(* A client that Close cancels, or that a broadcast or a reply found full   *)
(* (hub.go:192-196, client.go:322-324), ends: every pump returns and the    *)
(* connection is closed, unless the process ended.  No pump waits for ever  *)
(* on a channel that a clean-up emptied and did not close.  When a client   *)
(* begins to leave in any other way, its read and write pumps return and    *)
(* the connection is closed; its message pump may stay.                     *)
DepartingClientEnds ==
    LET ended(pumps) == conn = "closed" /\ \A t \in pumps : task[t] = "done"
    IN /\ ctxDone \/ slow ~> ended(Begun) \/ ~Running
       /\ Departing ~> ended(Begun \cap (Readers \cup Writers)) \/ ~Running

(* A client that stays is sent everything it accepted, once senders pause   *)
(* (MaxEvents makes them): the write pump waits for no further message.     *)
AcceptedIsWritten == []<>(ToSet(out) = 1..accepted \/ Departing \/ ~Running)

-----------------------------------------------------------------------------
(* A bound for TLC: two sets of pumps are followed until the client leaves. *)
OneSetLeaves == Starts > 1 => ~Departing

(* A claim of the documentation, checked by a run of its own.               *)

(* "Concurrency-safe message handling" (README.md:12): no goroutine panics. *)
NoPanic == Running
=============================================================================
