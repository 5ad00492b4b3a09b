-------------------------- MODULE ChatStoreProofs --------------------------
(* Theorems about ChatStore, for any number of users, texts, requests,      *)
(* servers and failed calls.                                                *)
EXTENDS ChatStore, SequenceTheorems, FiniteSetTheorems, TLAPS

(***************************************************************************)
(* The inductive invariant.                                                *)
(***************************************************************************)

Room    == [members : SUBSET Users, creator : Users, looked : Nat, unread : [Users -> Nat]]
Message == [room : Nat, sender : Users, receiver : Users, text : Texts,
            texts : SUBSET Texts, replyTo : Nat, read : BOOLEAN, createdAt : Nat,
            updatedAt : {Never} \cup Nat, raced : BOOLEAN]
Line    == [msg : Nat, text : Texts, read : BOOLEAN]

SendTask  == [at : {"find", "create", "insert", "metadata"}, op : {"send"}, user : Users,
              peer : Users, text : NewTexts, room : Nat, replyTo : {0}, looked : Nat]
ReplyTask == [at : {"insert", "markReplied", "metadata", "invalidate"}, op : {"reply"},
              user : Users, peer : Users, text : NewTexts, room : Nat, replyTo : Nat]
MarkTask  == [at : {"invalidate", "markRead"}, op : {"mark"}, room : Nat, msg : Nat]
EditTask  == [at : {"stamp", "update", "invalidate"}, op : {"edit"}, room : Nat, msg : Nat,
              text : Texts, original : Message, stamp : Nat]
GetTask   == [at : {"fetch", "fill"}, op : {"get"}, room : Nat, limit : Limits,
              before : Nat, page : SUBSET Line]
Task      == SendTask \cup ReplyTask \cup MarkTask \cup EditTask \cup GetTask \cup {Idle}

Counters == now \in 0..MaxTime /\ served \in 0..MaxRequests /\ faults \in 0..MaxFaults

RoomsOK ==
    /\ rooms \in Seq(Room)
    /\ \A r \in DOMAIN rooms :
          rooms[r].creator \in rooms[r].members /\ rooms[r].looked < r
    /\ RoomReusedUnlessRaced

MsgsOK ==
    /\ msgs \in Seq(Message)
    /\ \A m \in DOMAIN msgs :
          /\ msgs[m].room \in DOMAIN rooms /\ msgs[m].text \in msgs[m].texts
          /\ msgs[m].replyTo < m /\ msgs[m].createdAt <= now /\ msgs[m].updatedAt <= now

\* A line of a page of room r that was true, as CacheNeverAhead has it.
TrueLine(r, v) ==
    /\ v.msg \in DOMAIN msgs /\ msgs[v.msg].room = r
    /\ v.text \in msgs[v.msg].texts
    /\ v.read => msgs[v.msg].read

CacheOK ==
    /\ cache \in [RoomIds -> SUBSET SUBSET Line]
    /\ \A r \in RoomIds : \A page, other \in cache[r] : page = other
    /\ \A r \in RoomIds : \A page \in cache[r] : \A v \in page : TrueLine(r, v)

\* The two users had no room among those that were looked at.
Absent(s) ==
    /\ task[s].looked <= Len(rooms)
    /\ \A r \in DOMAIN rooms : r <= task[s].looked =>
          ~({task[s].user, task[s].peer} \subseteq rooms[r].members)

\* What an edit has read is not newer than what is there, unless edits raced.
ReadBefore(s) ==
    LET read == task[s].original.updatedAt  current == msgs[task[s].msg] IN
    /\ read <= now
    /\ task[s].at = "update" => task[s].stamp <= now /\ read <= task[s].stamp
    /\ read # Never => /\ current.updatedAt # Never
                       /\ current.raced \/ read <= current.updatedAt

TaskOK(s) ==
    /\ task[s] \in SendTask =>
          /\ task[s].at \in {"insert", "metadata"} => task[s].room \in DOMAIN rooms
          /\ task[s].at = "create" => Absent(s)
    /\ task[s] \in ReplyTask => task[s].room \in DOMAIN rooms /\ task[s].replyTo \in DOMAIN msgs
    /\ task[s] \in MarkTask => task[s].room \in DOMAIN rooms /\ task[s].msg \in DOMAIN msgs
    /\ task[s] \in EditTask =>
          /\ task[s].room \in DOMAIN rooms /\ task[s].msg \in DOMAIN msgs
          /\ task[s].at \in {"stamp", "update"} => ReadBefore(s)
    /\ task[s] \in GetTask =>
          task[s].room \in DOMAIN rooms /\ \A v \in task[s].page : TrueLine(task[s].room, v)

TasksOK == task \in [Servers -> Task] /\ \A s \in Servers : TaskOK(s)

Inv == Counters /\ RoomsOK /\ MsgsOK /\ CacheOK /\ TasksOK

(***************************************************************************)
(* How the stores may change.                                              *)
(***************************************************************************)

RoomsGrow ==
    /\ DOMAIN rooms \subseteq DOMAIN rooms'
    /\ Len(rooms) <= Len(rooms')
    /\ \A r \in DOMAIN rooms : rooms'[r].members = rooms[r].members
    /\ \A r \in DOMAIN rooms' \ DOMAIN rooms : r > Len(rooms)

MessageGrows(m) ==
    /\ msgs'[m].room = msgs[m].room
    /\ msgs[m].texts \subseteq msgs'[m].texts
    /\ msgs[m].read => msgs'[m].read
    /\ msgs[m].raced => msgs'[m].raced
    /\ msgs[m].updatedAt # Never => msgs'[m].updatedAt # Never
    /\ msgs'[m].raced \/ msgs[m].updatedAt <= msgs'[m].updatedAt

MsgsGrow == DOMAIN msgs \subseteq DOMAIN msgs' /\ \A m \in DOMAIN msgs : MessageGrows(m)

Grows == RoomsGrow /\ MsgsGrow /\ now \in Nat /\ now' \in Nat /\ now <= now'

LEMMA Sizes ==
    ASSUME RoomsOK, MsgsOK
    PROVE  /\ Len(rooms) \in Nat /\ DOMAIN rooms = 1..Len(rooms)
           /\ Len(msgs) \in Nat /\ DOMAIN msgs = 1..Len(msgs)
           /\ \A r \in DOMAIN rooms : rooms[r] \in Room
           /\ \A m \in DOMAIN msgs : msgs[m] \in Message
<1>1. rooms \in Seq(Room) /\ msgs \in Seq(Message)
  BY DEF RoomsOK, MsgsOK
<1> QED
  BY <1>1, LenProperties, ElementOfSeq

(* A task has the fields of one kind of request.                            *)
LEMMA TaskFacts ==
    ASSUME NEW q \in Task
    PROVE  /\ q.at = "idle" <=> q = Idle
           /\ q.at \in {"find", "create"} => q \in SendTask
           /\ q.at \in {"insert", "metadata"} => q \in SendTask \cup ReplyTask
           /\ q.at = "markReplied" => q \in ReplyTask
           /\ q.at = "markRead" => q \in MarkTask
           /\ q.at \in {"stamp", "update"} => q \in EditTask
           /\ q.at = "invalidate" => q \in ReplyTask \cup MarkTask \cup EditTask
           /\ q.at \in {"fetch", "fill"} => q \in GetTask
BY DEF Task, SendTask, ReplyTask, MarkTask, EditTask, GetTask, Idle

(* The kinds are apart.                                                     *)
LEMMA KindFacts ==
    ASSUME NEW q
    PROVE  /\ q \in SendTask => q.op = "send" /\ q \notin ReplyTask \cup MarkTask \cup EditTask \cup GetTask \cup {Idle}
           /\ q \in ReplyTask => q.op = "reply" /\ q \notin SendTask \cup MarkTask \cup EditTask \cup GetTask \cup {Idle}
           /\ q \in MarkTask => q.op = "mark" /\ q \notin SendTask \cup ReplyTask \cup EditTask \cup GetTask \cup {Idle}
           /\ q \in EditTask => q.op = "edit" /\ q \notin SendTask \cup ReplyTask \cup MarkTask \cup GetTask \cup {Idle}
           /\ q \in GetTask => q.op = "get" /\ q \notin SendTask \cup ReplyTask \cup MarkTask \cup EditTask \cup {Idle}
           /\ q = Idle => q \notin SendTask \cup ReplyTask \cup MarkTask \cup EditTask \cup GetTask
<1>1. \A k : k \in SendTask => k.op = "send" /\ k.at # "idle"
  BY DEF SendTask
<1>2. \A k : k \in ReplyTask => k.op = "reply" /\ k.at # "idle"
  BY DEF ReplyTask
<1>3. \A k : k \in MarkTask => k.op = "mark" /\ k.at # "idle"
  BY DEF MarkTask
<1>4. \A k : k \in EditTask => k.op = "edit" /\ k.at # "idle"
  BY DEF EditTask
<1>5. \A k : k \in GetTask => k.op = "get" /\ k.at # "idle"
  BY DEF GetTask
<1>6. Idle.at = "idle"
  BY DEF Idle
<1> QED
  BY <1>1, <1>2, <1>3, <1>4, <1>5, <1>6

(* A line that was true stays true while the stores grow.                   *)
LEMMA LineKept ==
    ASSUME MsgsGrow, NEW r, NEW v, TrueLine(r, v)
    PROVE  TrueLine(r, v)'
BY DEF MsgsGrow, MessageGrows, TrueLine

(* So does what a server knows.                                             *)
LEMMA TaskKept ==
    ASSUME RoomsOK, MsgsOK, Grows, NEW s \in Servers, task \in [Servers -> Task],
           task'[s] = task[s], TaskOK(s), MsgsOK'
    PROVE  TaskOK(s)'
<1>1. /\ Len(rooms) \in Nat /\ DOMAIN rooms = 1..Len(rooms) /\ DOMAIN msgs \subseteq DOMAIN msgs'
      /\ \A m \in DOMAIN msgs : msgs[m] \in Message
  BY Sizes DEF Grows, MsgsGrow
<1>2. \A m \in DOMAIN msgs : MessageGrows(m)
  BY DEF Grows, MsgsGrow
<1>3. ASSUME task[s] \in SendTask, task[s].at = "create", Absent(s) PROVE Absent(s)'
  <2>1. task[s].looked \in Nat
    BY <1>3 DEF SendTask
  <2> QED
    BY <1>1, <1>3, <2>1 DEF Absent, Grows, RoomsGrow
<1>4. ASSUME task[s] \in EditTask, task[s].msg \in DOMAIN msgs, ReadBefore(s) PROVE ReadBefore(s)'
  <2>1. MessageGrows(task[s].msg) /\ msgs[task[s].msg] \in Message
    BY <1>1, <1>2, <1>4
  <2>2. /\ task[s].original.updatedAt \in {Never} \cup Nat /\ task[s].stamp \in Nat
        /\ msgs[task[s].msg].updatedAt \in {Never} \cup Nat
    BY <1>4, <2>1 DEF EditTask, Message
  <2>3. msgs'[task[s].msg].updatedAt \in {Never} \cup Nat
    <3>1. msgs' \in Seq(Message)
      BY DEF MsgsOK
    <3>2. DOMAIN msgs' = 1..Len(msgs') /\ task[s].msg \in DOMAIN msgs'
      BY <3>1, <1>1, <1>4, LenProperties
    <3>3. msgs'[task[s].msg] \in Message
      BY <3>1, <3>2, ElementOfSeq
    <3> QED
      BY <3>3 DEF Message
  <2> QED
    BY <1>4, <2>1, <2>2, <2>3 DEF ReadBefore, MessageGrows, Grows, Never
<1>5. ASSUME task[s] \in GetTask, NEW v \in task[s].page, TrueLine(task[s].room, v)
      PROVE  TrueLine(task[s].room, v)'
  BY <1>5 DEF TrueLine, Grows, MsgsGrow, MessageGrows
<1> QED
  BY <1>1, <1>3, <1>4, <1>5, KindFacts DEF TaskOK, Grows, RoomsGrow

(* Steps that leave the rooms alone.                                        *)
LEMMA RoomsSame ==
    ASSUME RoomsOK, UNCHANGED rooms
    PROVE  RoomsOK' /\ RoomsGrow
<1>1. Len(rooms) \in Nat
  BY LenProperties DEF RoomsOK
<1> QED
  BY <1>1 DEF RoomsOK, RoomsGrow, RoomReusedUnlessRaced

(* A room is added by a request that found none.                            *)
LEMMA RoomAdded ==
    ASSUME RoomsOK, NEW s \in Servers, task[s] \in SendTask, Absent(s),
           task[s].user # task[s].peer,
           rooms' = Append(rooms, NewRoom(task[s].user, task[s].peer, task[s].looked))
    PROVE  RoomsOK' /\ RoomsGrow /\ Len(rooms) + 1 \in DOMAIN rooms'
<1> DEFINE u == task[s].user
           p == task[s].peer
           n == Len(rooms) + 1
           new == NewRoom(u, p, task[s].looked)
<1>1. u \in Users /\ p \in Users /\ task[s].looked \in Nat
  BY DEF SendTask
<1>2. /\ new \in Room /\ new.members = {u, p} /\ new.creator = u
      /\ new.looked = task[s].looked
  BY <1>1 DEF NewRoom, Room
<1> HIDE DEF new, u, p
<1>3. rooms \in Seq(Room) /\ Len(rooms) \in Nat /\ DOMAIN rooms = 1..Len(rooms)
  BY LenProperties DEF RoomsOK
<1>4. rooms' = Append(rooms, new)
  BY DEF new, u, p
<1>5. /\ rooms' \in Seq(Room) /\ Len(rooms') = n /\ rooms'[n] = new
      /\ \A r \in DOMAIN rooms : rooms'[r] = rooms[r]
  BY <1>2, <1>3, <1>4, AppendProperties
<1>6. DOMAIN rooms' = 1..n
  BY <1>5, LenProperties
<1>7. /\ task[s].looked <= Len(rooms)
      /\ \A r \in DOMAIN rooms : r <= task[s].looked => ~({u, p} \subseteq rooms[r].members)
  BY DEF Absent, u, p
<1>8. \A r \in DOMAIN rooms' : rooms'[r].creator \in rooms'[r].members /\ rooms'[r].looked < r
  BY <1>1, <1>2, <1>3, <1>5, <1>6, <1>7 DEF RoomsOK
<1>9. RoomReusedUnlessRaced'
  <2>1. SUFFICES ASSUME NEW i \in DOMAIN rooms', NEW k \in DOMAIN rooms', i < k,
                        rooms'[i].members = rooms'[k].members
                 PROVE  rooms'[k].looked < i
    BY DEF RoomReusedUnlessRaced
  <2>2. CASE k = n
    <3>1. i \in DOMAIN rooms /\ rooms[i].members = {u, p}
      BY <1>2, <1>3, <1>5, <1>6, <2>1, <2>2
    <3>2. ~(i <= task[s].looked)
      BY <1>7, <3>1
    <3> QED
      BY <1>1, <1>2, <1>3, <1>5, <2>2, <3>1, <3>2
  <2>3. CASE k # n
    BY <1>3, <1>5, <1>6, <2>1, <2>3 DEF RoomsOK, RoomReusedUnlessRaced
  <2> QED
    BY <2>2, <2>3
<1> QED
  BY <1>3, <1>5, <1>6, <1>8, <1>9 DEF RoomsOK, RoomsGrow

(* A count goes up.                                                         *)
LEMMA RoomCounted ==
    ASSUME RoomsOK, NEW r \in DOMAIN rooms, NEW u \in Users,
           rooms' = [rooms EXCEPT ![r].unread[u] = @ + 1]
    PROVE  RoomsOK' /\ RoomsGrow
<1> DEFINE new == [rooms[r] EXCEPT !.unread[u] = @ + 1]
<1>1. rooms \in Seq(Room) /\ Len(rooms) \in Nat /\ DOMAIN rooms = 1..Len(rooms)
  BY LenProperties DEF RoomsOK
<1>2. rooms[r] \in Room
  BY <1>1, ElementOfSeq
<1>3. /\ new \in Room /\ new.members = rooms[r].members
      /\ new.creator = rooms[r].creator /\ new.looked = rooms[r].looked
  BY <1>2 DEF Room
<1>4. rooms' = [rooms EXCEPT ![r] = new]
  OBVIOUS
<1> HIDE DEF new
<1>5. /\ rooms' \in Seq(Room) /\ Len(rooms') = Len(rooms)
      /\ \A k \in DOMAIN rooms : rooms'[k] = IF k = r THEN new ELSE rooms[k]
  BY <1>1, <1>3, <1>4, ExceptSeq
<1>6. DOMAIN rooms' = DOMAIN rooms
  BY <1>1, <1>5, LenProperties
<1>7. \A k \in DOMAIN rooms : /\ rooms'[k].members = rooms[k].members
                              /\ rooms'[k].creator = rooms[k].creator
                              /\ rooms'[k].looked = rooms[k].looked
  BY <1>3, <1>5
<1> QED
  BY <1>1, <1>5, <1>6, <1>7 DEF RoomsOK, RoomsGrow, RoomReusedUnlessRaced

(* Steps that leave the messages alone.                                     *)
LEMMA MsgsSame ==
    ASSUME Counters, MsgsOK, UNCHANGED msgs, RoomsGrow, now' \in Nat, now <= now'
    PROVE  MsgsOK' /\ Grows
<1>1. /\ msgs \in Seq(Message) /\ DOMAIN msgs = 1..Len(msgs) /\ Len(msgs) \in Nat
      /\ now \in Nat
  BY LenProperties, BoundAssumption DEF MsgsOK, Counters
<1>2. \A m \in DOMAIN msgs : msgs[m] \in Message
  BY <1>1, ElementOfSeq
<1>3. \A m \in DOMAIN msgs : msgs[m].updatedAt \in {Never} \cup Nat /\ msgs[m].createdAt \in Nat
  BY <1>2 DEF Message
<1>4. MsgsOK'
  BY <1>1, <1>3 DEF MsgsOK, RoomsGrow, Never
<1>5. MsgsGrow
  BY <1>3 DEF MsgsGrow, MessageGrows, Never
<1> QED
  BY <1>1, <1>4, <1>5 DEF Grows

(* A message or a reply is inserted.                                        *)
LEMMA MessageAdded ==
    ASSUME Counters, MsgsOK, UNCHANGED <<rooms, now>>, RoomsGrow,
           NEW new \in Message, msgs' = Append(msgs, new),
           new.room \in DOMAIN rooms, new.text \in new.texts,
           new.replyTo <= Len(msgs), new.createdAt = now, new.updatedAt = Never
    PROVE  MsgsOK' /\ Grows
<1> DEFINE n == Len(msgs) + 1
<1>1. /\ msgs \in Seq(Message) /\ DOMAIN msgs = 1..Len(msgs) /\ Len(msgs) \in Nat
      /\ now \in Nat
  BY LenProperties, BoundAssumption DEF MsgsOK, Counters
<1>2. /\ msgs' \in Seq(Message) /\ Len(msgs') = n /\ msgs'[n] = new
      /\ \A m \in DOMAIN msgs : msgs'[m] = msgs[m]
  BY <1>1, AppendProperties
<1>3. DOMAIN msgs' = 1..n
  BY <1>2, LenProperties
<1>4. \A m \in DOMAIN msgs : msgs[m] \in Message
  BY <1>1, ElementOfSeq
<1>5. \A m \in DOMAIN msgs : msgs[m].updatedAt \in {Never} \cup Nat
  BY <1>4 DEF Message
<1>6. new.replyTo \in Nat
  BY DEF Message
<1>7. MsgsOK'
  BY <1>1, <1>2, <1>3, <1>6 DEF MsgsOK, Never
<1>8. MsgsGrow
  BY <1>1, <1>2, <1>3, <1>5 DEF MsgsGrow, MessageGrows, Never
<1> QED
  BY <1>1, <1>7, <1>8 DEF Grows

(* A message is changed, by what may be done to one.                        *)
LEMMA MessageChanged ==
    ASSUME Counters, MsgsOK, UNCHANGED <<rooms, now>>, RoomsGrow,
           NEW m \in DOMAIN msgs, NEW new \in Message, msgs' = [msgs EXCEPT ![m] = new],
           new.room = msgs[m].room, new.text \in new.texts, msgs[m].texts \subseteq new.texts,
           new.replyTo = msgs[m].replyTo, new.createdAt = msgs[m].createdAt,
           msgs[m].read => new.read, msgs[m].raced => new.raced,
           new.updatedAt <= now, msgs[m].updatedAt # Never => new.updatedAt # Never,
           new.raced \/ msgs[m].updatedAt <= new.updatedAt
    PROVE  MsgsOK' /\ Grows
<1>1. /\ msgs \in Seq(Message) /\ DOMAIN msgs = 1..Len(msgs) /\ Len(msgs) \in Nat
      /\ now \in Nat
  BY LenProperties, BoundAssumption DEF MsgsOK, Counters
<1>2. /\ msgs' \in Seq(Message) /\ Len(msgs') = Len(msgs)
      /\ \A k \in DOMAIN msgs : msgs'[k] = IF k = m THEN new ELSE msgs[k]
  BY <1>1, ExceptSeq
<1>3. DOMAIN msgs' = DOMAIN msgs
  BY <1>1, <1>2, LenProperties
<1>4. \A k \in DOMAIN msgs : msgs[k].updatedAt \in {Never} \cup Nat
  <2>1. \A k \in DOMAIN msgs : msgs[k] \in Message
    BY <1>1, ElementOfSeq
  <2> QED
    BY <2>1 DEF Message
<1>5. MsgsOK'
  BY <1>1, <1>2, <1>3 DEF MsgsOK
<1>6. \A k \in DOMAIN msgs : MessageGrows(k)
  <2>1. SUFFICES ASSUME NEW k \in DOMAIN msgs PROVE MessageGrows(k)
    OBVIOUS
  <2>2. CASE k = m
    BY <1>2, <2>2 DEF MessageGrows
  <2>3. CASE k # m
    BY <1>2, <1>4, <2>3 DEF MessageGrows, Never
  <2> QED
    BY <2>2, <2>3
<1> QED
  BY <1>1, <1>3, <1>5, <1>6 DEF Grows, MsgsGrow

(* What is cached stays true; a page is dropped, or replaced by a true one. *)
LEMMA CacheStep ==
    ASSUME CacheOK, MsgsGrow,
           \/ UNCHANGED cache
           \/ \E r \in Nat : cache' = [cache EXCEPT ![r] = {}]
           \/ \E r \in Nat, page \in SUBSET Line :
                 /\ cache' = [cache EXCEPT ![r] = {page}]
                 /\ \A v \in page : TrueLine(r, v)
    PROVE  CacheOK'
<1> DEFINE Kept == \A r \in RoomIds : \A page \in cache[r] : \A v \in page : TrueLine(r, v)'
<1>1. Kept
  BY LineKept DEF CacheOK
<1>2. CASE UNCHANGED cache
  BY <1>1, <1>2 DEF CacheOK
<1>3. ASSUME NEW r \in Nat, cache' = [cache EXCEPT ![r] = {}] PROVE CacheOK'
  <2>1. cache' \in [RoomIds -> SUBSET SUBSET Line]
    BY <1>3 DEF CacheOK
  <2>2. \A k \in RoomIds : cache'[k] = cache[k] \/ cache'[k] = {}
    BY <1>3 DEF CacheOK
  <2> QED
    BY <1>1, <2>1, <2>2 DEF CacheOK
<1>4. ASSUME NEW r \in Nat, NEW page \in SUBSET Line, cache' = [cache EXCEPT ![r] = {page}],
             \A v \in page : TrueLine(r, v)
      PROVE  CacheOK'
  <2>1. cache' \in [RoomIds -> SUBSET SUBSET Line]
    BY <1>4 DEF CacheOK
  <2>2. \A k \in RoomIds : cache'[k] = cache[k] \/ (k = r /\ cache'[k] = {page})
    BY <1>4 DEF CacheOK
  <2>3. \A v \in page : TrueLine(r, v)'
    BY <1>4, LineKept
  <2> QED
    BY <1>1, <2>1, <2>2, <2>3 DEF CacheOK
<1> QED
  BY <1>2, <1>3, <1>4

(* One server goes on; the others know what they knew.                      *)
LEMMA TaskStep ==
    ASSUME RoomsOK, MsgsOK, TasksOK, Grows, MsgsOK', NEW s \in Servers, NEW q \in Task,
           task' = [task EXCEPT ![s] = q], TaskOK(s)'
    PROVE  TasksOK'
<1>1. /\ task' \in [Servers -> Task]
      /\ \A t \in Servers : t # s => task'[t] = task[t]
  BY DEF TasksOK
<1>2. ASSUME NEW t \in Servers, t # s PROVE TaskOK(t)'
  BY <1>1, <1>2, TaskKept DEF TasksOK
<1> QED
  BY <1>1, <1>2 DEF TasksOK

LEMMA EndStep ==
    ASSUME RoomsOK, MsgsOK, TasksOK, Grows, MsgsOK', NEW s \in Servers, End(s)
    PROVE  TasksOK'
<1>1. Idle \in Task /\ task' = [task EXCEPT ![s] = Idle]
  BY DEF End, Task
<1>2. task'[s] = Idle
  BY <1>1 DEF TasksOK
<1>3. TaskOK(s)'
  BY <1>2, KindFacts DEF TaskOK
<1> QED
  BY <1>1, <1>3, TaskStep

(* Nothing happens to any task.                                             *)
LEMMA TasksSame ==
    ASSUME RoomsOK, MsgsOK, TasksOK, Grows, MsgsOK', UNCHANGED task
    PROVE  TasksOK'
<1>1. ASSUME NEW t \in Servers PROVE TaskOK(t)'
  BY <1>1, TaskKept DEF TasksOK
<1> QED
  BY <1>1 DEF TasksOK

(* A request goes on to a step for which it needs to know no more.          *)
LEMMA GotoStep ==
    ASSUME RoomsOK, MsgsOK, TasksOK, Grows, MsgsOK', NEW s \in Servers, NEW step,
           Goto(s, step),
           \/ task[s] \in SendTask /\ task[s].at = "insert" /\ step = "metadata"
           \/ task[s] \in ReplyTask /\ step \in {"markReplied", "metadata", "invalidate"}
           \/ task[s] \in MarkTask /\ step = "markRead"
           \/ task[s] \in EditTask /\ step = "invalidate"
    PROVE  TasksOK'
<1> DEFINE q == [task[s] EXCEPT !.at = step]
<1>1. task \in [Servers -> Task] /\ TaskOK(s)
  BY DEF TasksOK
<1>2. task' = [task EXCEPT ![s] = q] /\ task'[s] = q
  BY <1>1 DEF Goto
<1>3. DOMAIN rooms \subseteq DOMAIN rooms' /\ DOMAIN msgs \subseteq DOMAIN msgs'
  BY DEF Grows, RoomsGrow, MsgsGrow
<1>4. CASE task[s] \in SendTask /\ task[s].at = "insert" /\ step = "metadata"
  <2>1. q \in SendTask /\ q.at = "metadata" /\ q.room = task[s].room
    BY <1>4 DEF SendTask
  <2>2. q.room \in DOMAIN rooms'
    BY <1>1, <1>3, <1>4, <2>1 DEF TaskOK
  <2>3. TaskOK(s)'
    BY <1>2, <2>1, <2>2, KindFacts DEF TaskOK
  <2> QED
    BY <1>2, <2>1, <2>3, TaskStep DEF Task
<1>5. CASE task[s] \in ReplyTask /\ step \in {"markReplied", "metadata", "invalidate"}
  <2>1. q \in ReplyTask /\ q.room = task[s].room /\ q.replyTo = task[s].replyTo
    BY <1>5 DEF ReplyTask
  <2>2. q.room \in DOMAIN rooms' /\ q.replyTo \in DOMAIN msgs'
    BY <1>1, <1>3, <1>5, <2>1 DEF TaskOK
  <2>3. TaskOK(s)'
    BY <1>2, <2>1, <2>2, KindFacts DEF TaskOK
  <2> QED
    BY <1>2, <2>1, <2>3, TaskStep DEF Task
<1>6. CASE task[s] \in MarkTask /\ step = "markRead"
  <2>1. q \in MarkTask /\ q.room = task[s].room /\ q.msg = task[s].msg
    BY <1>6 DEF MarkTask
  <2>2. q.room \in DOMAIN rooms' /\ q.msg \in DOMAIN msgs'
    BY <1>1, <1>3, <1>6, <2>1 DEF TaskOK
  <2>3. TaskOK(s)'
    BY <1>2, <2>1, <2>2, KindFacts DEF TaskOK
  <2> QED
    BY <1>2, <2>1, <2>3, TaskStep DEF Task
<1>7. CASE task[s] \in EditTask /\ step = "invalidate"
  <2>1. q \in EditTask /\ q.at = "invalidate" /\ q.room = task[s].room /\ q.msg = task[s].msg
    BY <1>7 DEF EditTask
  <2>2. q.room \in DOMAIN rooms' /\ q.msg \in DOMAIN msgs'
    BY <1>1, <1>3, <1>7, <2>1 DEF TaskOK
  <2>3. TaskOK(s)'
    BY <1>2, <2>1, <2>2, KindFacts DEF TaskOK
  <2> QED
    BY <1>2, <2>1, <2>3, TaskStep DEF Task
<1> QED
  BY <1>4, <1>5, <1>6, <1>7

(* The clock and the counters of the bounds.                                *)
LEMMA CountFacts ==
    ASSUME Counters, NEW reply \in Replies, Count(reply)
    PROVE  reply \in {"ok", "refused", "lostReply"} /\ faults' \in 0..MaxFaults
BY BoundAssumption, FaultAssumption DEF Counters, Replies, Count

LEMMA NowFacts ==
    ASSUME Counters
    PROVE  now \in Nat /\ now <= now
BY BoundAssumption DEF Counters

(***************************************************************************)
(* The steps of requests.                                                  *)
(***************************************************************************)

(* A request arrives.                                                       *)
LEMMA BeginStep ==
    ASSUME Inv, NEW s \in Servers, Begin(s)
    PROVE  Inv' /\ MsgsGrow
<1>1. /\ Counters /\ RoomsOK /\ MsgsOK /\ CacheOK /\ TasksOK /\ task \in [Servers -> Task]
      /\ DOMAIN rooms = 1..Len(rooms) /\ DOMAIN msgs = 1..Len(msgs)
      /\ Len(rooms) \in Nat /\ Len(msgs) \in Nat
      /\ \A m \in DOMAIN msgs : msgs[m] \in Message
  BY Sizes DEF Inv, TasksOK
<1>2. UNCHANGED <<rooms, msgs, cache, now>>
  BY DEF Begin, StartSend, StartReply, StartMark, StartEdit, StartGet
<1>3. Counters'
  <2>1. served' = served + 1 /\ served < MaxRequests
    BY DEF Begin, StartSend, StartReply, StartMark, StartEdit, StartGet, Start
  <2>2. faults' = faults \/ (faults' = faults + 1 /\ Replies # {"ok"})
    BY DEF Begin, StartSend, StartReply, StartMark, StartEdit, StartGet
  <2> QED
    BY <1>1, <1>2, <2>1, <2>2, BoundAssumption DEF Counters, Replies
<1>4. RoomsOK' /\ RoomsGrow
  BY <1>1, <1>2, RoomsSame
<1>5. MsgsOK' /\ Grows
  BY <1>1, <1>2, <1>4, MsgsSame, NowFacts
<1>6. CacheOK'
  BY <1>1, <1>2, <1>5, CacheStep DEF Grows
<1>7. \E q \in Task : Start(s, q) /\ (task'[s] = q => TaskOK(s)')
  <2>1. ASSUME NEW u \in Users, NEW p \in Users, NEW text \in NewTexts, StartSend(s, u, p, text)
        PROVE  \E q \in Task : Start(s, q) /\ (task'[s] = q => TaskOK(s)')
    <3> DEFINE q == [at |-> "find", op |-> "send", user |-> u, peer |-> p, text |-> text,
                     room |-> 0, replyTo |-> 0, looked |-> 0]
    <3>1. q \in SendTask /\ q.at = "find" /\ Start(s, q)
      BY <2>1 DEF SendTask, StartSend
    <3>2. task'[s] = q => TaskOK(s)'
      BY <3>1, KindFacts DEF TaskOK
    <3> QED
      BY <3>1, <3>2 DEF Task
  <2>2. ASSUME NEW u \in Users, NEW p \in Users, NEW r \in DOMAIN rooms, NEW m \in DOMAIN msgs,
               NEW text \in NewTexts, StartReply(s, u, p, r, m, text)
        PROVE  \E q \in Task : Start(s, q) /\ (task'[s] = q => TaskOK(s)')
    <3> DEFINE q == [at |-> "insert", op |-> "reply", user |-> u, peer |-> p, text |-> text,
                     room |-> r, replyTo |-> m]
    <3>1. q \in ReplyTask /\ q.room = r /\ q.replyTo = m /\ Start(s, q)
      BY <1>1, <2>2 DEF ReplyTask, StartReply
    <3>2. task'[s] = q => TaskOK(s)'
      BY <1>2, <3>1, KindFacts DEF TaskOK
    <3> QED
      BY <3>1, <3>2 DEF Task
  <2>3. ASSUME NEW u \in Users, NEW m \in DOMAIN msgs, StartMark(s, u, m)
        PROVE  \E q \in Task : Start(s, q) /\ (task'[s] = q => TaskOK(s)')
    <3> DEFINE q == [at |-> "invalidate", op |-> "mark", room |-> msgs[m].room, msg |-> m]
    <3>1. msgs[m].room \in DOMAIN rooms
      BY <1>1 DEF MsgsOK
    <3>2. q \in MarkTask /\ q.room = msgs[m].room /\ q.msg = m /\ Start(s, q)
      BY <1>1, <2>3, <3>1 DEF MarkTask, StartMark
    <3>3. task'[s] = q => TaskOK(s)'
      BY <1>2, <3>1, <3>2, KindFacts DEF TaskOK
    <3> QED
      BY <3>2, <3>3 DEF Task
  <2>4. ASSUME NEW m \in DOMAIN msgs, NEW text \in Texts, StartEdit(s, m, text)
        PROVE  \E q \in Task : Start(s, q) /\ (task'[s] = q => TaskOK(s)')
    <3> DEFINE q == [at |-> "stamp", op |-> "edit", room |-> msgs[m].room, msg |-> m,
                     text |-> text, original |-> msgs[m], stamp |-> 0]
    <3>1. /\ msgs[m].room \in DOMAIN rooms /\ msgs[m] \in Message
          /\ msgs[m].updatedAt <= now /\ msgs[m].updatedAt \in {Never} \cup Nat
      BY <1>1 DEF MsgsOK, Message
    <3>2. /\ q \in EditTask /\ q.room = msgs[m].room /\ q.msg = m /\ q.at = "stamp"
          /\ q.original = msgs[m] /\ Start(s, q)
      BY <1>1, <2>4, <3>1 DEF EditTask, StartEdit
    <3> HIDE DEF q
    <3>3. ASSUME task'[s] = q PROVE ReadBefore(s)'
      BY <1>2, <3>1, <3>2, <3>3 DEF ReadBefore, Never
    <3>4. task'[s] = q => TaskOK(s)'
      BY <1>2, <3>1, <3>2, <3>3, KindFacts DEF TaskOK
    <3> QED
      BY <3>2, <3>4 DEF Task
  <2>5. ASSUME NEW r \in DOMAIN rooms, NEW limit \in Limits,
               NEW before \in DOMAIN msgs \cup {NoCursor}, StartGet(s, r, limit, before)
        PROVE  \E q \in Task : Start(s, q) /\ (task'[s] = q => TaskOK(s)')
    <3> DEFINE q == [at |-> "fetch", op |-> "get", room |-> r, limit |-> limit,
                     before |-> before, page |-> {}]
    <3>1. before \in Nat /\ r \in Nat
      BY <1>1, BoundAssumption DEF NoCursor
    <3>2. q \in GetTask /\ q.room = r /\ q.page = {} /\ Start(s, q)
      BY <2>5, <3>1 DEF GetTask, StartGet
    <3>3. task'[s] = q => TaskOK(s)'
      BY <1>2, <3>2, KindFacts DEF TaskOK
    <3> QED
      BY <3>2, <3>3 DEF Task
  <2> QED
    BY <2>1, <2>2, <2>3, <2>4, <2>5 DEF Begin
<1>8. TasksOK'
  BY <1>1, <1>5, <1>7, TaskStep DEF Start
<1> QED
  BY <1>3, <1>4, <1>5, <1>6, <1>8 DEF Inv, Grows

(* FindRoom.                                                                *)
LEMMA FindStep ==
    ASSUME Inv, NEW s \in Servers, FindRoom(s)
    PROVE  Inv' /\ MsgsGrow
<1>1. /\ Counters /\ RoomsOK /\ MsgsOK /\ CacheOK /\ TasksOK
      /\ task \in [Servers -> Task] /\ task[s] \in SendTask
      /\ Len(rooms) \in Nat /\ DOMAIN rooms = 1..Len(rooms)
  BY Sizes, TaskFacts DEF Inv, TasksOK, FindRoom
<1>2. UNCHANGED <<rooms, msgs, cache, now, served>>
  BY DEF FindRoom
<1>3. Counters'
  BY <1>1, <1>2, CountFacts DEF FindRoom, Counters
<1>4. RoomsOK' /\ RoomsGrow
  BY <1>1, <1>2, RoomsSame
<1>5. MsgsOK' /\ Grows
  BY <1>1, <1>2, <1>4, MsgsSame, NowFacts
<1>6. CacheOK'
  BY <1>1, <1>2, <1>5, CacheStep DEF Grows
<1> DEFINE found == PrivateRooms(task[s].user, task[s].peer)
<1>7. ASSUME NEW r \in found, task' = [task EXCEPT ![s].at = "insert", ![s].room = r]
      PROVE  TasksOK'
  <2> DEFINE q == [task[s] EXCEPT !.at = "insert", !.room = r]
  <2>1. r \in DOMAIN rooms
    BY DEF PrivateRooms
  <2>2. q \in SendTask /\ q.at = "insert" /\ q.room = r
    <3>1. r \in Nat
      BY <1>1, <2>1
    <3> QED
      BY <1>1, <3>1 DEF SendTask
  <2>3. task' = [task EXCEPT ![s] = q] /\ task'[s] = q
    BY <1>1, <1>7
  <2>4. TaskOK(s)'
    BY <1>2, <2>1, <2>2, <2>3, KindFacts DEF TaskOK
  <2> QED
    BY <1>1, <1>5, <2>2, <2>3, <2>4, TaskStep DEF Task
<1>8. ASSUME found = {}, task' = [task EXCEPT ![s].at = "create", ![s].looked = Len(rooms)]
      PROVE  TasksOK'
  <2> DEFINE q == [task[s] EXCEPT !.at = "create", !.looked = Len(rooms)]
  <2>1. /\ q \in SendTask /\ q.at = "create" /\ q.looked = Len(rooms)
        /\ q.user = task[s].user /\ q.peer = task[s].peer
    BY <1>1 DEF SendTask
  <2>2. task' = [task EXCEPT ![s] = q] /\ task'[s] = q
    BY <1>1, <1>8
  <2>3. \A r \in DOMAIN rooms : ~({q.user, q.peer} \subseteq rooms[r].members)
    BY <1>8, <2>1 DEF PrivateRooms
  <2> HIDE DEF q
  <2>4. Absent(s)'
    BY <1>1, <1>2, <2>1, <2>2, <2>3 DEF Absent
  <2>5. TaskOK(s)'
    BY <2>1, <2>2, <2>4, KindFacts DEF TaskOK
  <2> QED
    BY <1>1, <1>5, <2>1, <2>2, <2>5, TaskStep DEF Task
<1>9. TasksOK'
  BY <1>1, <1>5, <1>7, <1>8, EndStep DEF FindRoom
<1> QED
  BY <1>3, <1>4, <1>5, <1>6, <1>9 DEF Inv, Grows

(* CreateRoom.                                                              *)
LEMMA CreateStep ==
    ASSUME Inv, NEW s \in Servers, CreateRoom(s)
    PROVE  Inv' /\ MsgsGrow
<1>1. /\ Counters /\ RoomsOK /\ MsgsOK /\ CacheOK /\ TasksOK
      /\ task \in [Servers -> Task] /\ task[s] \in SendTask /\ TaskOK(s)
      /\ Len(rooms) \in Nat /\ DOMAIN rooms = 1..Len(rooms)
  BY Sizes, TaskFacts DEF Inv, TasksOK, CreateRoom
<1>2. UNCHANGED <<msgs, cache, now, served>> /\ task[s].at = "create" /\ Absent(s)
  BY <1>1 DEF CreateRoom, TaskOK
<1>3. PICK reply \in IF task[s].user = task[s].peer THEN {"refused"} ELSE Replies :
          /\ rooms' = IF Applied(reply)
                        THEN Append(rooms, NewRoom(task[s].user, task[s].peer, task[s].looked))
                        ELSE rooms
          /\ IF reply = "ok"
               THEN task' = [task EXCEPT ![s].at = "insert", ![s].room = Len(rooms) + 1]
               ELSE End(s)
          /\ IF task[s].user = task[s].peer THEN UNCHANGED faults ELSE Count(reply)
  BY DEF CreateRoom
<1>4. Counters'
  BY <1>1, <1>2, <1>3, CountFacts DEF Counters
<1>5. RoomsOK' /\ RoomsGrow /\ (reply = "ok" => Len(rooms) + 1 \in DOMAIN rooms')
  <2>1. CASE Applied(reply)
    <3>1. task[s].user # task[s].peer
      BY <1>3, <2>1 DEF Applied
    <3> QED
      BY <1>1, <1>2, <1>3, <2>1, <3>1, RoomAdded
  <2>2. CASE ~Applied(reply)
    BY <1>1, <1>3, <2>2, RoomsSame DEF Applied
  <2> QED
    BY <2>1, <2>2
<1>6. MsgsOK' /\ Grows
  BY <1>1, <1>2, <1>5, MsgsSame, NowFacts
<1>7. CacheOK'
  BY <1>1, <1>2, <1>6, CacheStep DEF Grows
<1>8. ASSUME reply = "ok" PROVE TasksOK'
  <2> DEFINE q == [task[s] EXCEPT !.at = "insert", !.room = Len(rooms) + 1]
  <2>1. q \in SendTask /\ q.at = "insert" /\ q.room = Len(rooms) + 1
    <3>1. Len(rooms) + 1 \in Nat
      BY <1>1
    <3> QED
      BY <1>1, <3>1 DEF SendTask
  <2>2. task' = [task EXCEPT ![s] = q] /\ task'[s] = q
    BY <1>1, <1>3, <1>8
  <2> HIDE DEF q
  <2>3. TaskOK(s)'
    BY <1>5, <1>8, <2>1, <2>2, KindFacts DEF TaskOK
  <2> QED
    BY <1>1, <1>6, <2>1, <2>2, <2>3, TaskStep DEF Task
<1>9. TasksOK'
  BY <1>1, <1>3, <1>6, <1>8, EndStep
<1> QED
  BY <1>4, <1>5, <1>6, <1>7, <1>9 DEF Inv, Grows

(* InsertMessage.                                                           *)
LEMMA InsertStep ==
    ASSUME Inv, NEW s \in Servers, InsertMessage(s)
    PROVE  Inv' /\ MsgsGrow
<1> DEFINE q == task[s]
           new == NewMessage(q.room, q.user, q.peer, q.text, q.replyTo)
<1>1. /\ Counters /\ RoomsOK /\ MsgsOK /\ CacheOK /\ TasksOK
      /\ task \in [Servers -> Task] /\ q \in SendTask \cup ReplyTask /\ TaskOK(s)
      /\ Len(rooms) \in Nat /\ DOMAIN rooms = 1..Len(rooms)
      /\ Len(msgs) \in Nat /\ DOMAIN msgs = 1..Len(msgs)
  BY Sizes, TaskFacts DEF Inv, TasksOK, InsertMessage
<1>2. UNCHANGED <<rooms, cache, now, served>> /\ q.at = "insert"
  BY DEF InsertMessage
<1>3. PICK reply \in Replies :
          /\ msgs' = IF Applied(reply) THEN Append(msgs, new) ELSE msgs
          /\ OnOk(s, reply, IF q.op = "reply" THEN "markReplied" ELSE "metadata")
          /\ Count(reply)
  BY DEF InsertMessage
<1>4. Counters'
  BY <1>1, <1>2, <1>3, CountFacts DEF Counters
<1>5. RoomsOK' /\ RoomsGrow
  BY <1>1, <1>2, RoomsSame
<1>6. /\ q.room \in DOMAIN rooms /\ q.user \in Users /\ q.peer \in Users
      /\ q.text \in Texts /\ q.replyTo \in Nat /\ q.replyTo <= Len(msgs)
  <2>1. CASE q \in SendTask
    BY <1>1, <1>2, <2>1, TextsAssumption DEF SendTask, TaskOK
  <2>2. CASE q \in ReplyTask
    <3>1. q.room \in DOMAIN rooms /\ q.replyTo \in DOMAIN msgs
      BY <1>1, <2>2 DEF TaskOK
    <3> QED
      BY <1>1, <2>2, <3>1, TextsAssumption DEF ReplyTask
  <2> QED
    BY <1>1, <2>1, <2>2
<1>7. now \in Nat
  BY <1>1, NowFacts
<1>8. /\ new \in Message /\ new.room \in DOMAIN rooms /\ new.text \in new.texts
      /\ new.replyTo <= Len(msgs) /\ new.createdAt = now /\ new.updatedAt = Never
  <2>1. q.room \in Nat
    BY <1>1, <1>6
  <2> QED
    BY <1>6, <1>7, <2>1 DEF NewMessage, Message
<1> HIDE DEF new
<1>9. MsgsOK' /\ Grows
  <2>1. CASE Applied(reply)
    BY <1>1, <1>2, <1>3, <1>5, <1>8, <2>1, MessageAdded
  <2>2. CASE ~Applied(reply)
    BY <1>1, <1>2, <1>3, <1>5, <1>7, <2>2, MsgsSame, NowFacts
  <2> QED
    BY <2>1, <2>2
<1>10. CacheOK'
  BY <1>1, <1>2, <1>9, CacheStep DEF Grows
<1>11. TasksOK'
  <2>1. CASE reply # "ok"
    BY <1>1, <1>3, <1>9, <2>1, EndStep DEF OnOk
  <2>2. CASE reply = "ok" /\ q \in SendTask
    <3>1. Goto(s, "metadata")
      BY <1>3, <2>2, KindFacts DEF OnOk
    <3> QED
      BY <1>1, <1>2, <1>9, <2>2, <3>1, GotoStep
  <2>3. CASE reply = "ok" /\ q \in ReplyTask
    <3>1. Goto(s, "markReplied")
      BY <1>3, <2>3, KindFacts DEF OnOk
    <3> QED
      BY <1>1, <1>9, <2>3, <3>1, GotoStep
  <2> QED
    BY <1>1, <2>1, <2>2, <2>3
<1> QED
  BY <1>4, <1>5, <1>9, <1>10, <1>11 DEF Inv, Grows

(* UpdateRoomMetadata.                                                      *)
LEMMA MetadataStep ==
    ASSUME Inv, NEW s \in Servers, UpdateRoomMetadata(s)
    PROVE  Inv' /\ MsgsGrow
<1> DEFINE q == task[s]
<1>1. /\ Counters /\ RoomsOK /\ MsgsOK /\ CacheOK /\ TasksOK
      /\ task \in [Servers -> Task] /\ q \in SendTask \cup ReplyTask /\ TaskOK(s)
  BY TaskFacts DEF Inv, TasksOK, UpdateRoomMetadata
<1>2. UNCHANGED <<msgs, cache, now, served>> /\ q.at = "metadata"
  BY DEF UpdateRoomMetadata
<1>3. PICK reply \in Replies :
          /\ rooms' = IF Applied(reply) /\ q.user \in rooms[q.room].members
                        THEN [rooms EXCEPT ![q.room].unread[q.user] = @ + 1] ELSE rooms
          /\ IF q.op = "reply" THEN OnOk(s, reply, "invalidate") ELSE End(s)
          /\ Count(reply)
  BY DEF UpdateRoomMetadata
<1>4. Counters'
  BY <1>1, <1>2, <1>3, CountFacts DEF Counters
<1>5. q.room \in DOMAIN rooms /\ q.user \in Users
  <2>1. CASE q \in SendTask
    BY <1>1, <1>2, <2>1 DEF SendTask, TaskOK
  <2>2. CASE q \in ReplyTask
    BY <1>1, <2>2 DEF ReplyTask, TaskOK
  <2> QED
    BY <1>1, <2>1, <2>2
<1>6. RoomsOK' /\ RoomsGrow
  <2>1. CASE rooms' = [rooms EXCEPT ![q.room].unread[q.user] = @ + 1]
    BY <1>1, <1>5, <2>1, RoomCounted
  <2>2. CASE rooms' = rooms
    BY <1>1, <2>2, RoomsSame
  <2> QED
    BY <1>3, <2>1, <2>2
<1>7. MsgsOK' /\ Grows
  BY <1>1, <1>2, <1>6, MsgsSame, NowFacts
<1>8. CacheOK'
  BY <1>1, <1>2, <1>7, CacheStep DEF Grows
<1>9. TasksOK'
  <2>1. CASE End(s)
    BY <1>1, <1>7, <2>1, EndStep
  <2>2. CASE q.op = "reply" /\ Goto(s, "invalidate")
    <3>1. q \in ReplyTask
      BY <1>1, <2>2, KindFacts
    <3> QED
      BY <1>1, <1>7, <2>2, <3>1, GotoStep
  <2> QED
    BY <1>3, <2>1, <2>2 DEF OnOk
<1> QED
  BY <1>4, <1>6, <1>7, <1>8, <1>9 DEF Inv, Grows

(* The read flag of a message is set.                                       *)
LEMMA ReadFacts ==
    ASSUME Counters, RoomsOK, MsgsOK, UNCHANGED <<rooms, now>>, NEW m \in DOMAIN msgs,
           msgs' = [msgs EXCEPT ![m].read = TRUE]
    PROVE  MsgsOK' /\ Grows
<1> DEFINE new == [msgs[m] EXCEPT !.read = TRUE]
<1>1. msgs[m] \in Message
  BY Sizes
<1>2. /\ new \in Message /\ new.room = msgs[m].room /\ new.text = msgs[m].text
      /\ new.texts = msgs[m].texts /\ new.replyTo = msgs[m].replyTo
      /\ new.createdAt = msgs[m].createdAt /\ new.updatedAt = msgs[m].updatedAt
      /\ new.raced = msgs[m].raced /\ new.read = TRUE
  BY <1>1 DEF Message
<1>3. msgs[m].text \in msgs[m].texts /\ msgs[m].updatedAt <= now /\ now \in Nat
      /\ msgs[m].updatedAt \in {Never} \cup Nat
  BY <1>1, NowFacts DEF MsgsOK, Message
<1>4. RoomsGrow
  BY RoomsSame
<1>5. msgs' = [msgs EXCEPT ![m] = new]
  OBVIOUS
<1> HIDE DEF new
<1>6. msgs[m].updatedAt <= msgs[m].updatedAt
  BY <1>3 DEF Never
<1>7. /\ new.text \in new.texts /\ msgs[m].texts \subseteq new.texts
      /\ (msgs[m].read => new.read) /\ (msgs[m].raced => new.raced)
      /\ new.updatedAt <= now /\ (msgs[m].updatedAt # Never => new.updatedAt # Never)
      /\ new.raced \/ msgs[m].updatedAt <= new.updatedAt
  BY <1>2, <1>3, <1>6
<1> QED
  BY <1>2, <1>4, <1>5, <1>7, MessageChanged

(* MarkReplied and MarkRead.                                                *)
LEMMA ReadStep ==
    ASSUME Inv, NEW s \in Servers, MarkReplied(s) \/ MarkRead(s)
    PROVE  Inv' /\ MsgsGrow
<1> DEFINE q == task[s]
           m == IF q.at = "markRead" THEN q.msg ELSE q.replyTo
<1>1. /\ Counters /\ RoomsOK /\ MsgsOK /\ CacheOK /\ TasksOK
      /\ task \in [Servers -> Task] /\ TaskOK(s)
      /\ q.at = "markReplied" => q \in ReplyTask
      /\ q.at = "markRead" => q \in MarkTask
  BY TaskFacts DEF Inv, TasksOK
<1>2. /\ UNCHANGED <<rooms, cache, now, served>> /\ q.at \in {"markReplied", "markRead"}
      /\ q.at = "markReplied" => MarkReplied(s)
      /\ q.at = "markRead" => MarkRead(s)
  BY DEF MarkReplied, MarkRead
<1>3. PICK reply \in Replies :
          /\ msgs' = IF Applied(reply) THEN [msgs EXCEPT ![m].read = TRUE] ELSE msgs
          /\ Count(reply)
          /\ End(s) \/ (q.at = "markReplied" /\ Goto(s, "metadata"))
  BY <1>2 DEF MarkReplied, MarkRead, OnOk
<1>4. m \in DOMAIN msgs
  BY <1>1, <1>2 DEF TaskOK
<1> HIDE DEF m
<1>5. Counters'
  BY <1>1, <1>2, <1>3, CountFacts DEF Counters
<1>6. RoomsOK' /\ RoomsGrow
  BY <1>1, <1>2, RoomsSame
<1>7. MsgsOK' /\ Grows
  <2>1. CASE msgs' = [msgs EXCEPT ![m].read = TRUE]
    BY <1>1, <1>2, <1>4, <2>1, ReadFacts
  <2>2. CASE msgs' = msgs
    BY <1>1, <1>2, <1>6, <2>2, MsgsSame, NowFacts
  <2> QED
    BY <1>3, <2>1, <2>2
<1>8. CacheOK'
  BY <1>1, <1>2, <1>7, CacheStep DEF Grows
<1>9. TasksOK'
  <2>1. CASE End(s)
    BY <1>1, <1>7, <2>1, EndStep
  <2>2. CASE q.at = "markReplied" /\ Goto(s, "metadata")
    BY <1>1, <1>7, <2>2, GotoStep
  <2> QED
    BY <1>3, <2>1, <2>2
<1> QED
  BY <1>5, <1>6, <1>7, <1>8, <1>9 DEF Inv, Grows

(* Invalidate.                                                              *)
LEMMA InvalidateStep ==
    ASSUME Inv, NEW s \in Servers, Invalidate(s)
    PROVE  Inv' /\ MsgsGrow
<1> DEFINE q == task[s]
<1>1. /\ Counters /\ RoomsOK /\ MsgsOK /\ CacheOK /\ TasksOK
      /\ task \in [Servers -> Task] /\ q \in ReplyTask \cup MarkTask \cup EditTask
  BY TaskFacts DEF Inv, TasksOK, Invalidate
<1>2. UNCHANGED <<rooms, msgs, now, served>>
  BY DEF Invalidate
<1>3. PICK reply \in Replies :
          /\ cache' = IF Applied(reply) THEN [cache EXCEPT ![q.room] = {}] ELSE cache
          /\ IF q.op = "mark" THEN Goto(s, "markRead") ELSE End(s)
          /\ Count(reply)
  BY DEF Invalidate
<1>4. Counters'
  BY <1>1, <1>2, <1>3, CountFacts DEF Counters
<1>5. RoomsOK' /\ RoomsGrow
  BY <1>1, <1>2, RoomsSame
<1>6. MsgsOK' /\ Grows
  BY <1>1, <1>2, <1>5, MsgsSame, NowFacts
<1>7. q.room \in Nat
  BY <1>1 DEF ReplyTask, MarkTask, EditTask
<1>8. CacheOK'
  BY <1>1, <1>3, <1>6, <1>7, CacheStep DEF Grows
<1>9. TasksOK'
  <2>1. CASE q.op = "mark"
    <3>1. q \in MarkTask /\ Goto(s, "markRead")
      BY <1>1, <1>3, <2>1, KindFacts
    <3> QED
      BY <1>1, <1>6, <3>1, GotoStep
  <2>2. CASE q.op # "mark"
    BY <1>1, <1>3, <1>6, <2>2, EndStep
  <2> QED
    BY <2>1, <2>2
<1> QED
  BY <1>4, <1>5, <1>6, <1>8, <1>9 DEF Inv, Grows

(* Stamp.                                                                   *)
LEMMA StampStep ==
    ASSUME Inv, NEW s \in Servers, Stamp(s)
    PROVE  Inv' /\ MsgsGrow
<1>1. /\ Counters /\ RoomsOK /\ MsgsOK /\ CacheOK /\ TasksOK /\ now \in Nat
      /\ task \in [Servers -> Task] /\ task[s] \in EditTask /\ TaskOK(s)
  BY TaskFacts, NowFacts DEF Inv, TasksOK, Stamp
<1>2. UNCHANGED <<rooms, msgs, cache, now, served, faults>> /\ task[s].at = "stamp"
  BY DEF Stamp
<1>3. Counters'
  BY <1>1, <1>2 DEF Counters
<1>4. RoomsOK' /\ RoomsGrow
  BY <1>1, <1>2, RoomsSame
<1>5. MsgsOK' /\ Grows
  BY <1>1, <1>2, <1>4, MsgsSame, NowFacts
<1>6. CacheOK'
  BY <1>1, <1>2, <1>5, CacheStep DEF Grows
<1> DEFINE q == [task[s] EXCEPT !.at = "update", !.stamp = now]
<1>7. /\ q \in EditTask /\ q.at = "update" /\ q.stamp = now /\ q.room = task[s].room
      /\ q.msg = task[s].msg /\ q.original = task[s].original
  BY <1>1 DEF EditTask
<1>8. task' = [task EXCEPT ![s] = q] /\ task'[s] = q
  BY <1>1 DEF Stamp
<1> HIDE DEF q
<1>9. ReadBefore(s) /\ q.room \in DOMAIN rooms /\ q.msg \in DOMAIN msgs
  BY <1>1, <1>2, <1>7 DEF TaskOK
<1>10. ReadBefore(s)'
  BY <1>1, <1>2, <1>7, <1>8, <1>9 DEF ReadBefore
<1>11. TaskOK(s)'
  BY <1>2, <1>7, <1>8, <1>9, <1>10, KindFacts DEF TaskOK
<1>12. TasksOK'
  BY <1>1, <1>5, <1>7, <1>8, <1>11, TaskStep DEF Task
<1> QED
  BY <1>3, <1>4, <1>5, <1>6, <1>12 DEF Inv, Grows

(* UpdateMessage.                                                           *)
LEMMA UpdateStep ==
    ASSUME Inv, NEW s \in Servers, UpdateMessage(s)
    PROVE  Inv' /\ MsgsGrow
<1> DEFINE q == task[s]
           m == q.msg
           new == Edited(q.original, msgs[m], q.text, q.stamp)
<1>1. /\ Counters /\ RoomsOK /\ MsgsOK /\ CacheOK /\ TasksOK /\ now \in Nat
      /\ task \in [Servers -> Task] /\ q \in EditTask /\ TaskOK(s)
  BY TaskFacts, NowFacts DEF Inv, TasksOK, UpdateMessage
<1>2. UNCHANGED <<rooms, cache, now, served>> /\ q.at = "update"
  BY DEF UpdateMessage
<1>3. m \in DOMAIN msgs /\ ReadBefore(s)
  BY <1>1, <1>2 DEF TaskOK
<1>4. PICK reply \in Replies :
          /\ IF Applied(reply) /\ Unchanged(q.original, msgs[m])
               THEN msgs' = [msgs EXCEPT ![m] = Edited(q.original, @, q.text, q.stamp)]
               ELSE UNCHANGED msgs
          /\ End(s) \/ Goto(s, "invalidate")
          /\ Count(reply)
  BY DEF UpdateMessage, OnOk
<1>5. Counters'
  BY <1>1, <1>2, <1>4, CountFacts DEF Counters
<1>6. RoomsOK' /\ RoomsGrow
  BY <1>1, <1>2, RoomsSame
<1>7. MsgsOK' /\ Grows
  <2>1. CASE Applied(reply) /\ Unchanged(q.original, msgs[m])
    <3>1. msgs[m] \in Message /\ msgs[m].updatedAt \in {Never} \cup Nat
      BY <1>1, <1>3, Sizes DEF Message
    <3>2. q.stamp \in Nat /\ q.text \in Texts /\ q.original.updatedAt \in {Never} \cup Nat
      BY <1>1 DEF EditTask, Message
    <3>3. msgs' = [msgs EXCEPT ![m] = new]
      BY <1>4, <2>1
    <3>4. /\ new \in Message /\ new.room = msgs[m].room /\ new.text = q.text
          /\ new.texts = msgs[m].texts \cup {q.text} /\ new.replyTo = msgs[m].replyTo
          /\ new.createdAt = msgs[m].createdAt /\ new.read = msgs[m].read
          /\ new.updatedAt = q.stamp
      BY <3>1, <3>2 DEF Edited, Message
    <3>5. /\ msgs[m].raced => new.raced
          /\ q.original.updatedAt = Never /\ msgs[m].updatedAt # Never => new.raced
      BY <3>1 DEF Edited, Message
    <3> HIDE DEF new
    <3>6. /\ q.stamp <= now /\ q.original.updatedAt <= q.stamp
      BY <1>2, <1>3 DEF ReadBefore
    <3>7. new.raced \/ msgs[m].updatedAt <= new.updatedAt
      BY <2>1, <3>1, <3>2, <3>4, <3>5, <3>6 DEF Unchanged, Never
    <3>8. new.updatedAt # Never /\ new.updatedAt <= now
      BY <3>2, <3>4, <3>6 DEF Never
    <3>9. new.text \in new.texts /\ msgs[m].texts \subseteq new.texts
      BY <3>4
    <3> HIDE DEF m
    <3> QED
      BY <1>1, <1>2, <1>3, <1>6, <3>3, <3>4, <3>5, <3>7, <3>8, <3>9, MessageChanged
  <2>2. CASE ~(Applied(reply) /\ Unchanged(q.original, msgs[m]))
    BY <1>1, <1>2, <1>4, <1>6, <2>2, MsgsSame, NowFacts
  <2> QED
    BY <2>1, <2>2
<1>8. CacheOK'
  BY <1>1, <1>2, <1>7, CacheStep DEF Grows
<1>9. TasksOK'
  BY <1>1, <1>4, <1>7, EndStep, GotoStep
<1> QED
  BY <1>5, <1>6, <1>7, <1>8, <1>9 DEF Inv, Grows

(* Fetch.                                                                   *)
LEMMA FetchStep ==
    ASSUME Inv, NEW s \in Servers, Fetch(s)
    PROVE  Inv' /\ MsgsGrow
<1>1. /\ Counters /\ RoomsOK /\ MsgsOK /\ CacheOK /\ TasksOK
      /\ task \in [Servers -> Task] /\ task[s] \in GetTask /\ TaskOK(s)
      /\ Len(msgs) \in Nat /\ DOMAIN msgs = 1..Len(msgs)
      /\ \A m \in DOMAIN msgs : msgs[m] \in Message
  BY Sizes, TaskFacts DEF Inv, TasksOK, Fetch
<1>2. UNCHANGED <<rooms, msgs, cache, now, served>>
  BY DEF Fetch
<1>3. Counters'
  BY <1>1, <1>2, CountFacts DEF Fetch, Counters
<1>4. RoomsOK' /\ RoomsGrow
  BY <1>1, <1>2, RoomsSame
<1>5. MsgsOK' /\ Grows
  BY <1>1, <1>2, <1>4, MsgsSame, NowFacts
<1>6. CacheOK'
  BY <1>1, <1>2, <1>5, CacheStep DEF Grows
<1> DEFINE page == Page(task[s].room, task[s].limit, task[s].before)
           q == [task[s] EXCEPT !.at = "fill", !.page = page]
<1>7. \A v \in page : \E m \in DOMAIN msgs : msgs[m].room = task[s].room /\ v = View(m)
  BY DEF Page
<1>8. \A m \in DOMAIN msgs : View(m) \in Line /\ TrueLine(msgs[m].room, View(m))
  <2>1. SUFFICES ASSUME NEW m \in DOMAIN msgs
                 PROVE  View(m) \in Line /\ TrueLine(msgs[m].room, View(m))
    OBVIOUS
  <2>2. /\ m \in Nat /\ msgs[m].text \in Texts /\ msgs[m].read \in BOOLEAN
        /\ msgs[m].text \in msgs[m].texts
    BY <1>1 DEF MsgsOK, Message
  <2> QED
    BY <2>2 DEF View, Line, TrueLine
<1>9. page \in SUBSET Line /\ \A v \in page : TrueLine(task[s].room, v)
  BY <1>7, <1>8
<1> HIDE DEF page
<1>10. ASSUME task' = [task EXCEPT ![s].at = "fill", ![s].page = page]
       PROVE  TasksOK'
  <2>1. q \in GetTask /\ q.room = task[s].room /\ q.page = page
    BY <1>1, <1>9 DEF GetTask
  <2>2. task' = [task EXCEPT ![s] = q] /\ task'[s] = q
    BY <1>1, <1>10
  <2>3. q.room \in DOMAIN rooms
    BY <1>1, <2>1 DEF TaskOK
  <2> HIDE DEF q
  <2>4. \A v \in q.page : /\ v.msg \in DOMAIN msgs' /\ msgs'[v.msg].room = q.room
                          /\ v.text \in msgs'[v.msg].texts
                          /\ v.read => msgs'[v.msg].read
    BY <1>2, <1>9, <2>1 DEF TrueLine
  <2>5. TaskOK(s)'
    BY <1>2, <2>1, <2>2, <2>3, <2>4, KindFacts DEF TaskOK, TrueLine
  <2> QED
    BY <1>1, <1>5, <2>1, <2>2, <2>5, TaskStep DEF Task
<1>11. TasksOK'
  BY <1>1, <1>5, <1>10, EndStep DEF Fetch, page
<1> QED
  BY <1>3, <1>4, <1>5, <1>6, <1>11 DEF Inv, Grows

(* FillCache.                                                               *)
LEMMA FillStep ==
    ASSUME Inv, NEW s \in Servers, FillCache(s)
    PROVE  Inv' /\ MsgsGrow
<1> DEFINE q == task[s]
<1>1. /\ Counters /\ RoomsOK /\ MsgsOK /\ CacheOK /\ TasksOK
      /\ task \in [Servers -> Task] /\ q \in GetTask /\ TaskOK(s)
  BY TaskFacts DEF Inv, TasksOK, FillCache
<1>2. UNCHANGED <<rooms, msgs, now, served>> /\ End(s)
  BY DEF FillCache
<1>3. PICK reply \in Replies :
          /\ cache' = IF Applied(reply) THEN [cache EXCEPT ![q.room] = {q.page}] ELSE cache
          /\ Count(reply)
  BY DEF FillCache
<1>4. Counters'
  BY <1>1, <1>2, <1>3, CountFacts DEF Counters
<1>5. RoomsOK' /\ RoomsGrow
  BY <1>1, <1>2, RoomsSame
<1>6. MsgsOK' /\ Grows
  BY <1>1, <1>2, <1>5, MsgsSame, NowFacts
<1>7. q.room \in Nat /\ q.page \in SUBSET Line /\ \A v \in q.page : TrueLine(q.room, v)
  BY <1>1 DEF GetTask, TaskOK
<1>8. CacheOK'
  BY <1>1, <1>3, <1>6, <1>7, CacheStep DEF Grows
<1>9. TasksOK'
  BY <1>1, <1>2, <1>6, EndStep
<1> QED
  BY <1>4, <1>5, <1>6, <1>8, <1>9 DEF Inv, Grows

(***************************************************************************)
(* The invariant.                                                          *)
(***************************************************************************)

LEMMA InitInv == Init => Inv
<1>1. SUFFICES ASSUME Init PROVE Inv
  OBVIOUS
<1>2. Counters
  BY <1>1, BoundAssumption DEF Init, Counters
<1>3. CacheOK
  <2>1. cache = [r \in RoomIds |-> {}]
    BY <1>1 DEF Init
  <2> QED
    BY <2>1 DEF CacheOK
<1>4. TasksOK
  <2>1. Idle \in Task
    BY DEF Task
  <2>2. task = [s \in Servers |-> Idle]
    BY <1>1 DEF Init
  <2>3. ASSUME NEW s \in Servers PROVE TaskOK(s)
    BY <2>2, KindFacts DEF TaskOK
  <2> QED
    BY <2>1, <2>2, <2>3 DEF TasksOK
<1>5. CASE rooms = <<>> /\ msgs = <<>>
  <2>1. RoomsOK /\ MsgsOK
    BY <1>5, EmptySeq DEF RoomsOK, MsgsOK, RoomReusedUnlessRaced
  <2> QED
    BY <1>2, <1>3, <1>4, <2>1 DEF Inv
<1>6. ASSUME NEW u \in Users, NEW p \in Users, NEW text \in NewTexts, u # p,
             rooms = <<[NewRoom(u, p, 0) EXCEPT !.unread[u] = 1]>>,
             msgs = <<NewMessage(1, u, p, text, 0)>>
      PROVE  Inv
  <2> DEFINE room == [NewRoom(u, p, 0) EXCEPT !.unread[u] = 1]
             first == NewMessage(1, u, p, text, 0)
  <2>1. room \in Room /\ room.creator = u /\ room.members = {u, p} /\ room.looked = 0
    BY DEF NewRoom, Room
  <2>2. now = 0 /\ text \in Texts
    BY <1>1, TextsAssumption DEF Init
  <2>3. /\ first \in Message /\ first.room = 1 /\ first.text \in first.texts
        /\ first.replyTo = 0 /\ first.createdAt = 0 /\ first.updatedAt = Never
    BY <2>2 DEF NewMessage, Message
  <2>4. rooms = <<room>> /\ msgs = <<first>>
    BY <1>6
  <2> HIDE DEF room, first
  <2>5. /\ rooms \in Seq(Room) /\ DOMAIN rooms = {1} /\ rooms[1] = room
        /\ msgs \in Seq(Message) /\ DOMAIN msgs = {1} /\ msgs[1] = first
    BY <2>1, <2>3, <2>4
  <2>6. RoomsOK
    BY <2>1, <2>5 DEF RoomsOK, RoomReusedUnlessRaced
  <2>7. MsgsOK
    BY <2>2, <2>3, <2>5 DEF MsgsOK, Never
  <2> QED
    BY <1>2, <1>3, <1>4, <2>6, <2>7 DEF Inv
<1> QED
  BY <1>1, <1>5, <1>6 DEF Init

(* The clock, and a page that expires.                                      *)
LEMMA TimeStep ==
    ASSUME Inv, Tick \/ UNCHANGED vars \/ \E r \in RoomIds : Expire(r)
    PROVE  Inv' /\ MsgsGrow
<1>1. Counters /\ RoomsOK /\ MsgsOK /\ CacheOK /\ TasksOK /\ now \in Nat
  BY NowFacts DEF Inv
<1>2. UNCHANGED <<rooms, msgs, task, served, faults>>
  BY DEF Tick, Expire, vars
<1>3. Counters' /\ now' \in Nat /\ now <= now'
  BY <1>1, <1>2, BoundAssumption DEF Tick, Expire, vars, Counters
<1>4. RoomsOK' /\ RoomsGrow
  BY <1>1, <1>2, RoomsSame
<1>5. MsgsOK' /\ Grows
  BY <1>1, <1>2, <1>3, <1>4, MsgsSame
<1>6. CacheOK'
  <2>1. UNCHANGED cache \/ \E r \in Nat : cache' = [cache EXCEPT ![r] = {}]
    <3>1. RoomIds \subseteq Nat
      BY BoundAssumption DEF RoomIds
    <3> QED
      BY <3>1 DEF Tick, Expire, vars
  <2> QED
    BY <1>1, <1>5, <2>1, CacheStep DEF Grows
<1>7. TasksOK'
  BY <1>1, <1>2, <1>5, TasksSame
<1> QED
  BY <1>3, <1>4, <1>5, <1>6, <1>7 DEF Inv, Grows

LEMMA NextInv == Inv /\ [Next]_vars => Inv' /\ MsgsGrow
<1> SUFFICES ASSUME Inv, [Next]_vars PROVE Inv' /\ MsgsGrow
  OBVIOUS
<1>1. ASSUME NEW s \in Servers, Continue(s) PROVE Inv' /\ MsgsGrow
  BY <1>1, FindStep, CreateStep, InsertStep, MetadataStep, ReadStep, InvalidateStep,
     StampStep, UpdateStep, FetchStep, FillStep DEF Continue
<1> QED
  BY <1>1, BeginStep, TimeStep DEF Next

LEMMA InvAlways == Spec => []Inv
BY InitInv, NextInv, PTL DEF Spec

(* TypeOK: rooms, messages, pages and requests are well formed, a message   *)
(* belongs to a room that exists and answers an earlier one, and nothing is *)
(* stamped in the future (chat-repo.go).                                    *)
LEMMA InvTypeOK ==
    ASSUME Inv
    PROVE  TypeOK
<1>1. /\ Counters /\ RoomsOK /\ MsgsOK /\ CacheOK /\ TasksOK /\ now \in Nat
      /\ \A r \in DOMAIN rooms : rooms[r] \in Room /\ r \in Nat
      /\ \A m \in DOMAIN msgs : msgs[m] \in Message /\ m \in Nat
  BY Sizes, NowFacts DEF Inv
<1>2. ASSUME NEW r \in DOMAIN rooms
      PROVE  /\ rooms[r].members \subseteq Users /\ rooms[r].creator \in rooms[r].members
             /\ rooms[r].looked \in 0..(r - 1)
             /\ rooms[r].unread \in [Users -> Nat]
  <2>1. rooms[r].creator \in rooms[r].members /\ rooms[r].looked < r
    BY <1>1 DEF RoomsOK
  <2>2. rooms[r] \in Room /\ r \in Nat
    BY <1>1
  <2> QED
    BY <2>1, <2>2 DEF Room
<1>3. ASSUME NEW m \in DOMAIN msgs
      PROVE  /\ msgs[m].room \in DOMAIN rooms
             /\ {msgs[m].sender, msgs[m].receiver} \subseteq Users
             /\ msgs[m].text \in msgs[m].texts /\ msgs[m].texts \subseteq Texts
             /\ msgs[m].replyTo \in 0..(m - 1)
             /\ msgs[m].createdAt \in 0..now /\ msgs[m].updatedAt \in {Never} \cup 0..now
             /\ {msgs[m].read, msgs[m].raced} \subseteq BOOLEAN
  <2>1. /\ msgs[m].room \in DOMAIN rooms /\ msgs[m].text \in msgs[m].texts
        /\ msgs[m].replyTo < m /\ msgs[m].createdAt <= now /\ msgs[m].updatedAt <= now
    BY <1>1 DEF MsgsOK
  <2>2. msgs[m] \in Message /\ m \in Nat
    BY <1>1
  <2> QED
    BY <1>1, <2>1, <2>2 DEF Message
<1>4. ASSUME NEW r \in RoomIds PROVE Cardinality(cache[r]) <= 1
  <2>1. cache[r] = {} \/ \E page \in cache[r] : cache[r] = {page}
    BY <1>1 DEF CacheOK
  <2>2. cache[r] = {} => Cardinality(cache[r]) = 0
    BY FS_EmptySet
  <2>3. ASSUME NEW page, cache[r] = {page} PROVE Cardinality(cache[r]) = 1
    BY <2>3, FS_Singleton
  <2> QED
    BY <2>1, <2>2, <2>3
<1>5. ASSUME NEW s \in Servers, task[s] # Idle
      PROVE  task[s].room \in DOMAIN rooms \/ task[s].at \in {"find", "create"}
  <2>1. TaskOK(s) /\ task[s] \in Task
    BY <1>1 DEF TasksOK
  <2>2. task[s] \in SendTask => task[s].at \in {"find", "create", "insert", "metadata"}
    BY DEF SendTask
  <2> QED
    BY <1>5, <2>1, <2>2 DEF TaskOK, Task
<1> QED
  BY <1>1, <1>2, <1>3, <1>4, <1>5 DEF TypeOK, Counters

(***************************************************************************)
(* The theorems.                                                           *)
(***************************************************************************)

(* RoomReusedUnlessRaced: however many requests and failures, two users get *)
(* a second room only from a lookup that was over before the first room was *)
(* there (chat-repo.go:33-56).                                              *)
THEOREM RoomsReused == Spec => []RoomReusedUnlessRaced
<1>1. Inv => RoomReusedUnlessRaced
  BY DEF Inv, RoomsOK
<1> QED
  BY <1>1, InvAlways, PTL

(* CacheNeverAhead: whatever is cached when, every line of a page was true  *)
(* (chat-service.go:79-142), and every variable has its type.               *)
THEOREM PagesWereTrue == Spec => []CacheNeverAhead
<1>1. Inv => CacheNeverAhead
  BY InvTypeOK DEF Inv, CacheOK, TrueLine, CacheNeverAhead
<1> QED
  BY <1>1, InvAlways, PTL

(* ReadStays: no edit, reply or read mark makes a message unread again      *)
(* (chat-repo.go:273-300).                                                  *)
THEOREM ReadIsForEver == Spec => ReadStays
<1>1. Inv /\ [Next]_vars => [\A m \in DOMAIN msgs : msgs[m].read => msgs'[m].read]_vars
  BY NextInv DEF MsgsGrow, MessageGrows
<1> QED
  BY <1>1, InvAlways, PTL DEF Spec, ReadStays

(* A step is of one server.                                                 *)
LEMMA OneServer ==
    ASSUME task \in [Servers -> Task], NEW s \in Servers, NEW t \in Servers, t # s,
           Begin(t) \/ Continue(t)
    PROVE  task'[s] = task[s]
<1>1. CASE Begin(t)
  <2>1. \E q : task' = [task EXCEPT ![t] = q]
    BY <1>1 DEF Begin, StartSend, StartReply, StartMark, StartEdit, StartGet, Start
  <2> QED
    BY <2>1
<1>2. CASE FindRoom(t) \/ CreateRoom(t)
  BY <1>2 DEF FindRoom, CreateRoom, End
<1>3. CASE InsertMessage(t) \/ UpdateRoomMetadata(t) \/ MarkReplied(t)
  BY <1>3 DEF InsertMessage, UpdateRoomMetadata, MarkReplied, OnOk, Goto, End
<1>4. CASE Invalidate(t) \/ MarkRead(t) \/ Stamp(t) \/ UpdateMessage(t)
  BY <1>4 DEF Invalidate, MarkRead, Stamp, UpdateMessage, OnOk, Goto, End
<1>5. CASE Fetch(t) \/ FillCache(t)
  BY <1>5 DEF Fetch, FillCache, End
<1> QED
  BY <1>1, <1>2, <1>3, <1>4, <1>5 DEF Continue

(* Only UpdateMessage takes a server on from "update".                      *)
LEMMA OnlyUpdate ==
    ASSUME task \in [Servers -> Task], NEW s \in Servers, [Next]_vars,
           task[s].at = "update", task'[s] # task[s]
    PROVE  UpdateMessage(s)
<1>1. ~(Tick \/ UNCHANGED vars \/ \E r \in RoomIds : Expire(r))
  BY DEF Tick, Expire, vars
<1>2. Begin(s) \/ Continue(s)
  BY <1>1, OneServer DEF Next
<1>3. task[s] # Idle
  BY DEF Idle
<1>4. ~Begin(s)
  BY <1>3 DEF Begin, StartSend, StartReply, StartMark, StartEdit, StartGet, Start
<1> QED
  BY <1>2, <1>4 DEF Continue, FindRoom, CreateRoom, InsertMessage, UpdateRoomMetadata,
     MarkReplied, Invalidate, MarkRead, Stamp, Fetch, FillCache

(* LockedAfterFirstEdit: for any number of editors and whatever fails, an   *)
(* edit of a message that was edited before, and not by two first edits at  *)
(* once, overwrites unseen only an edit of the same stamp                   *)
(* (chat-repo.go:276-279).                                                  *)
THEOREM LaterEditsLocked == Spec => LockedAfterFirstEdit
<1>1. ASSUME Inv, [Next]_vars, NEW s \in Servers, NEW m \in DOMAIN msgs, Overwrites(s, m),
             task[s].original.updatedAt # Never, ~msgs[m].raced
      PROVE  msgs[m].updatedAt = task[s].original.updatedAt
  <2>1. /\ RoomsOK /\ MsgsOK /\ task \in [Servers -> Task] /\ TaskOK(s)
        /\ task[s].at = "update" /\ task[s].msg = m /\ task'[s] # task[s] /\ msgs' # msgs
    BY <1>1 DEF Inv, TasksOK, Overwrites
  <2>2. UpdateMessage(s)
    BY <1>1, <2>1, OnlyUpdate
  <2>3. Unchanged(task[s].original, msgs[m])
    BY <2>1, <2>2 DEF UpdateMessage
  <2>4. task[s] \in EditTask
    BY <2>1, TaskFacts
  <2>5. ReadBefore(s)
    BY <2>1, <2>4 DEF TaskOK
  <2>6. /\ msgs[m].updatedAt \in {Never} \cup Nat
        /\ task[s].original.updatedAt \in {Never} \cup Nat
    <3>1. msgs[m] \in Message
      BY <2>1, Sizes
    <3> QED
      BY <2>4, <3>1 DEF EditTask, Message
  <2> QED
    BY <1>1, <2>1, <2>3, <2>5, <2>6 DEF Unchanged, ReadBefore, Never
<1>2. Inv /\ [Next]_vars =>
        [\A s \in Servers, m \in DOMAIN msgs :
            Overwrites(s, m) /\ task[s].original.updatedAt # Never /\ ~msgs[m].raced
                => msgs[m].updatedAt = task[s].original.updatedAt]_vars
  BY <1>1
<1> QED
  BY <1>2, InvAlways, PTL DEF Spec, LockedAfterFirstEdit

(***************************************************************************)
(* The rooms: each is added for two users and keeps them.                  *)
(***************************************************************************)

LEMMA AppendFacts ==
    ASSUME NEW S, NEW t \in Seq(S), NEW e \in S
    PROVE  /\ DOMAIN Append(t, e) = 1..(Len(t) + 1)
           /\ Append(t, e) = [i \in 1..(Len(t) + 1) |-> IF i = Len(t) + 1 THEN e ELSE t[i]]
<1>1. /\ Append(t, e) \in Seq(S) /\ Len(Append(t, e)) = Len(t) + 1 /\ Len(t) \in Nat
      /\ \A i \in 1..Len(t) : Append(t, e)[i] = t[i]
      /\ Append(t, e)[Len(t) + 1] = e
  BY AppendProperties, LenProperties
<1>2. /\ DOMAIN Append(t, e) = 1..(Len(t) + 1)
      /\ Append(t, e) = [i \in 1..(Len(t) + 1) |-> Append(t, e)[i]]
  BY <1>1, LenProperties
<1>3. \A i \in 1..(Len(t) + 1) : i = Len(t) + 1 \/ i \in 1..Len(t)
  BY <1>1
<1>4. \A i \in 1..(Len(t) + 1) : Append(t, e)[i] = IF i = Len(t) + 1 THEN e ELSE t[i]
  BY <1>1, <1>3
<1> QED
  BY <1>2, <1>4

(* How the rooms change: by CreateRoom, or in their counts.                 *)
LEMMA RoomsChange ==
    ASSUME Inv, [Next]_vars
    PROVE  \/ \E s \in Servers : CreateRoom(s)
           \/ /\ DOMAIN rooms' = DOMAIN rooms
              /\ \A r \in DOMAIN rooms : rooms'[r].members = rooms[r].members
<1>1. \A r \in DOMAIN rooms : rooms[r] \in Room
  BY Sizes DEF Inv
<1>2. ASSUME NEW s \in Servers, UpdateRoomMetadata(s)
      PROVE  /\ DOMAIN rooms' = DOMAIN rooms
             /\ \A r \in DOMAIN rooms : rooms'[r].members = rooms[r].members
  <2>1. CASE rooms' = rooms
    BY <2>1
  <2>2. CASE rooms' = [rooms EXCEPT ![task[s].room].unread[task[s].user] = @ + 1]
    BY <1>1, <2>2 DEF Room
  <2> QED
    BY <1>2, <2>1, <2>2 DEF UpdateRoomMetadata
<1>3. ASSUME NEW s \in Servers, Begin(s) PROVE UNCHANGED rooms
  BY <1>3 DEF Begin, StartSend, StartReply, StartMark, StartEdit, StartGet
<1>4. ASSUME NEW s \in Servers, Continue(s), ~CreateRoom(s), ~UpdateRoomMetadata(s)
      PROVE  UNCHANGED rooms
  BY <1>4 DEF Continue, FindRoom, InsertMessage, MarkReplied, Invalidate, MarkRead,
              Stamp, UpdateMessage, Fetch, FillCache
<1>5. Tick \/ (\E r \in RoomIds : Expire(r)) \/ UNCHANGED vars => UNCHANGED rooms
  BY DEF Tick, Expire, vars
<1> QED
  BY <1>2, <1>3, <1>4, <1>5 DEF Next

(* A room that is created, by a request that looked for it.                 *)
LEMMA CreateFacts ==
    ASSUME Inv, NEW s \in Servers, CreateRoom(s)
    PROVE  /\ task[s] \in SendTask /\ task \in [Servers -> Task]
           /\ \/ UNCHANGED rooms /\ End(s)
              \/ /\ task[s].user # task[s].peer
                 /\ rooms' = Append(rooms, NewRoom(task[s].user, task[s].peer, task[s].looked))
                 /\ \/ End(s)
                    \/ task' = [task EXCEPT ![s].at = "insert", ![s].room = Len(rooms) + 1]
<1>1. task[s] \in SendTask /\ task \in [Servers -> Task]
  BY TaskFacts DEF Inv, TasksOK, CreateRoom
<1> QED
  BY <1>1 DEF CreateRoom, Applied

LEMMA RoomsStay ==
    ASSUME Inv, [Next]_vars
    PROVE  /\ DOMAIN rooms \subseteq DOMAIN rooms'
           /\ \A r \in DOMAIN rooms : rooms'[r].members = rooms[r].members
<1>1. ASSUME NEW s \in Servers, CreateRoom(s)
      PROVE  /\ DOMAIN rooms \subseteq DOMAIN rooms'
             /\ \A r \in DOMAIN rooms : rooms'[r] = rooms[r]
  <2> DEFINE new == NewRoom(task[s].user, task[s].peer, task[s].looked)
  <2>1. /\ rooms \in Seq(Room \cup {new}) /\ Len(rooms) \in Nat /\ DOMAIN rooms = 1..Len(rooms)
    BY Sizes DEF Inv, RoomsOK
  <2> HIDE DEF new
  <2>2. \A r \in 1..Len(rooms) : r # Len(rooms) + 1 /\ r \in 1..(Len(rooms) + 1)
    BY <2>1
  <2>3. CASE rooms' = Append(rooms, new)
    <3>1. /\ DOMAIN rooms' = 1..(Len(rooms) + 1)
          /\ rooms' = [r \in 1..(Len(rooms) + 1) |-> IF r = Len(rooms) + 1 THEN new ELSE rooms[r]]
      BY <2>1, <2>3, AppendFacts
    <3> QED
      BY <2>1, <2>2, <3>1
  <2> QED
    BY <1>1, <2>3, CreateFacts DEF new
<1> QED
  BY <1>1, RoomsChange

PairsOK == \A r \in DOMAIN rooms : \E u, p \in Users : u # p /\ rooms[r].members = {u, p}

LEMMA PairsStep == Inv /\ PairsOK /\ [Next]_vars => PairsOK'
<1> SUFFICES ASSUME Inv, PairsOK, [Next]_vars PROVE PairsOK'
  OBVIOUS
<1>1. ASSUME NEW r \in DOMAIN rooms PROVE \E u, p \in Users : u # p /\ rooms'[r].members = {u, p}
  BY <1>1, RoomsStay DEF PairsOK
<1>2. CASE DOMAIN rooms' = DOMAIN rooms
  BY <1>1, <1>2 DEF PairsOK
<1>3. ASSUME NEW s \in Servers, CreateRoom(s) PROVE PairsOK'
  <2> DEFINE new == NewRoom(task[s].user, task[s].peer, task[s].looked)
  <2>1. CASE UNCHANGED rooms
    BY <1>2, <2>1
  <2>2. CASE task[s].user # task[s].peer /\ rooms' = Append(rooms, new)
    <3>1. task[s].user \in Users /\ task[s].peer \in Users
      BY <1>3, CreateFacts DEF SendTask
    <3>2. /\ new.members = {task[s].user, task[s].peer}
          /\ rooms \in Seq(Room \cup {new}) /\ Len(rooms) \in Nat /\ DOMAIN rooms = 1..Len(rooms)
      BY Sizes DEF Inv, RoomsOK, NewRoom
    <3> HIDE DEF new
    <3>3. /\ DOMAIN rooms' = 1..(Len(rooms) + 1)
          /\ rooms' = [r \in 1..(Len(rooms) + 1) |-> IF r = Len(rooms) + 1 THEN new ELSE rooms[r]]
      BY <2>2, <3>2, AppendFacts
    <3>4. rooms'[Len(rooms) + 1].members = {task[s].user, task[s].peer}
      BY <3>2, <3>3
    <3>5. \A r \in DOMAIN rooms' : r = Len(rooms) + 1 \/ r \in DOMAIN rooms
      BY <3>2, <3>3
    <3> QED
      BY <1>1, <2>2, <3>1, <3>4, <3>5 DEF PairsOK
  <2> QED
    BY <1>3, <2>1, <2>2, CreateFacts
<1> QED
  BY <1>2, <1>3, RoomsChange

LEMMA PairsAlways == Spec => []PairsOK
<1>1. Init => PairsOK
  <2>1. ASSUME NEW u \in Users, NEW p \in Users, u # p,
               rooms = <<[NewRoom(u, p, 0) EXCEPT !.unread[u] = 1]>>
        PROVE  PairsOK
    <3>1. DOMAIN rooms = {1} /\ rooms[1].members = {u, p}
      BY <2>1 DEF NewRoom
    <3> QED
      BY <2>1, <3>1 DEF PairsOK
  <2>2. CASE rooms = <<>>
    BY <2>2 DEF PairsOK
  <2> QED
    BY <2>1, <2>2 DEF Init
<1> QED
  BY <1>1, PairsStep, InvAlways, PTL DEF Spec

(***************************************************************************)
(* Counts: a step changes the messages written by a member of a room and   *)
(* the sum of its count and its requests between the two writes by as much,*)
(* or the sum by less and a call has failed.                               *)
(***************************************************************************)

Counting == {"markReplied", "metadata"}

\* As the code has it, it is the count of the sender that a message raises.
WrittenBy(r, u) == {m \in DOMAIN msgs : msgs[m].room = r /\ msgs[m].sender = u}
UncountedOf(r, u) ==
    {s \in Servers : task[s].at \in Counting /\ task[s].room = r /\ task[s].user = u}
Balanced ==
    \A r \in DOMAIN rooms : \A u \in rooms[r].members :
        LET n == rooms[r].unread[u] + Cardinality(UncountedOf(r, u))
        IN  /\ n <= Cardinality(WrittenBy(r, u))
            /\ faults = 0 => n = Cardinality(WrittenBy(r, u))

\* The step writes no message and no count.
Uncharged ==
    /\ DOMAIN rooms \subseteq DOMAIN rooms'
    /\ \A r \in DOMAIN rooms : /\ rooms'[r].unread = rooms[r].unread
                               /\ rooms'[r].members = rooms[r].members
    /\ \A r \in DOMAIN rooms' \ DOMAIN rooms : rooms'[r].unread = [x \in Users |-> 0]
    /\ DOMAIN msgs' = DOMAIN msgs
    /\ \A m \in DOMAIN msgs : msgs'[m].room = msgs[m].room /\ msgs'[m].sender = msgs[m].sender

LEMMA SetsFinite ==
    ASSUME Inv, NEW r, NEW u
    PROVE  /\ IsFiniteSet(WrittenBy(r, u)) /\ Cardinality(WrittenBy(r, u)) \in Nat
           /\ IsFiniteSet(UncountedOf(r, u)) /\ Cardinality(UncountedOf(r, u)) \in Nat
<1>1. DOMAIN msgs = 1..Len(msgs) /\ Len(msgs) \in Nat
  BY Sizes DEF Inv
<1>2. IsFiniteSet(1..Len(msgs))
  BY <1>1, FS_Interval
<1>3. WrittenBy(r, u) \subseteq 1..Len(msgs) /\ UncountedOf(r, u) \subseteq Servers
  BY <1>1 DEF WrittenBy, UncountedOf
<1> QED
  BY <1>2, <1>3, ServersAssumption, FS_Subset, FS_CardinalityType

(* Nothing counted, nothing uncounted outside the rooms.                    *)
LEMMA OutsideRooms ==
    ASSUME Inv, NEW r, r \notin DOMAIN rooms, NEW u
    PROVE  WrittenBy(r, u) = {} /\ UncountedOf(r, u) = {}
<1>1. WrittenBy(r, u) = {}
  BY DEF Inv, MsgsOK, WrittenBy
<1>2. ASSUME NEW s \in Servers, task[s].at \in Counting PROVE task[s].room \in DOMAIN rooms
  <2>1. task[s] \in Task /\ TaskOK(s)
    BY DEF Inv, TasksOK
  <2>2. task[s] \in SendTask \cup ReplyTask
    BY <1>2, <2>1, TaskFacts DEF Counting
  <2>3. task[s] \in SendTask => task[s].at = "metadata"
    BY <1>2 DEF SendTask, Counting
  <2> QED
    BY <2>1, <2>2, <2>3 DEF TaskOK
<1> QED
  BY <1>1, <1>2 DEF UncountedOf, Counting

(* A step that charges nothing, or gives up what was to be counted.         *)
LEMMA UnchargedStep ==
    ASSUME Inv, Inv', Balanced, Uncharged, faults <= faults',
           \A r, u : \/ UncountedOf(r, u)' = UncountedOf(r, u)
                     \/ UncountedOf(r, u)' \subseteq UncountedOf(r, u) /\ faults' > 0
    PROVE  Balanced'
<1>1. \A r, u : WrittenBy(r, u)' = WrittenBy(r, u)
  BY DEF Uncharged, WrittenBy
<1>2. faults \in Nat /\ faults' \in Nat
  BY BoundAssumption DEF Inv, Counters
<1> DEFINE Balance(r, u) ==
             LET n == rooms[r].unread[u] + Cardinality(UncountedOf(r, u))
             IN  /\ n <= Cardinality(WrittenBy(r, u))
                 /\ faults = 0 => n = Cardinality(WrittenBy(r, u))
<1>3. SUFFICES ASSUME NEW r \in DOMAIN rooms', NEW u \in rooms'[r].members
               PROVE  Balance(r, u)'
  BY DEF Balanced
<1>4. /\ Cardinality(UncountedOf(r, u)) \in Nat /\ Cardinality(WrittenBy(r, u)) \in Nat
      /\ IsFiniteSet(UncountedOf(r, u))
  BY SetsFinite
<1>5. CASE r \in DOMAIN rooms
  <2>1. rooms'[r].unread = rooms[r].unread /\ rooms'[r].members = rooms[r].members
    BY <1>5 DEF Uncharged
  <2>2. Balance(r, u)
    BY <1>3, <1>5, <2>1 DEF Balanced
  <2>3. rooms[r].unread[u] \in Nat
    <3>1. rooms[r] \in Room
      BY <1>5, Sizes DEF Inv
    <3> QED
      BY <1>3, <2>1, <3>1 DEF Room
  <2>4. CASE UncountedOf(r, u)' = UncountedOf(r, u)
    BY <1>1, <1>2, <1>4, <2>1, <2>2, <2>3, <2>4
  <2>5. CASE UncountedOf(r, u)' \subseteq UncountedOf(r, u) /\ faults' > 0
    <3>1. /\ Cardinality(UncountedOf(r, u)') \in Nat
          /\ Cardinality(UncountedOf(r, u)') <= Cardinality(UncountedOf(r, u))
      BY <1>4, <2>5, FS_Subset, FS_CardinalityType
    <3> QED
      BY <1>1, <1>2, <1>4, <2>1, <2>2, <2>3, <2>5, <3>1
  <2> QED
    BY <2>4, <2>5
<1>6. CASE r \notin DOMAIN rooms
  <2>1. WrittenBy(r, u)' = {} /\ UncountedOf(r, u)' = {}
    BY <1>1, <1>6, OutsideRooms
  <2>2. rooms'[r].unread[u] = 0
    <3>1. rooms' \in Seq(Room) /\ rooms'[r] \in Room
      BY <1>3, LenProperties, ElementOfSeq DEF Inv, RoomsOK
    <3>2. u \in Users
      BY <1>3, <3>1 DEF Room
    <3> QED
      BY <1>3, <1>6, <3>2 DEF Uncharged
  <2> QED
    BY <2>1, <2>2, FS_EmptySet
<1> QED
  BY <1>5, <1>6

(* What a step of one server does to the requests between the two writes.   *)
LEMMA UncountedKept ==
    ASSUME task \in [Servers -> Task], NEW s \in Servers, NEW q, task' = [task EXCEPT ![s] = q],
           \/ task[s].at \notin Counting /\ q.at \notin Counting
           \/ /\ task[s].at \in Counting /\ q.at \in Counting
              /\ q.room = task[s].room /\ q.user = task[s].user,
           NEW r, NEW u
    PROVE  UncountedOf(r, u)' = UncountedOf(r, u)
<1>1. \A t \in Servers : task'[t] = IF t = s THEN q ELSE task[t]
  OBVIOUS
<1> QED
  BY <1>1 DEF UncountedOf, Counting

LEMMA UncountedLeft ==
    ASSUME task \in [Servers -> Task], NEW s \in Servers, NEW q, task' = [task EXCEPT ![s] = q],
           q.at \notin Counting, NEW r, NEW u
    PROVE  UncountedOf(r, u)' = UncountedOf(r, u) \ {s}
<1>1. \A t \in Servers : task'[t] = IF t = s THEN q ELSE task[t]
  OBVIOUS
<1> QED
  BY <1>1 DEF UncountedOf, Counting

LEMMA IdleFacts == Idle.at = "idle" /\ Idle.at \notin Counting
BY DEF Idle, Counting

(* A call that fails is counted, if only as a fault.                        *)
LEMMA FaultFacts ==
    ASSUME Inv, NEW reply, Count(reply)
    PROVE  faults \in Nat /\ faults <= faults' /\ (reply # "ok" => faults' > 0)
BY BoundAssumption DEF Inv, Counters, Count

(* The steps of requests that have nothing to count.                        *)
LEMMA QuietStep ==
    ASSUME Inv, Inv', Balanced, NEW s \in Servers,
           \/ Begin(s) \/ FindRoom(s) \/ CreateRoom(s) \/ Invalidate(s) \/ MarkRead(s)
           \/ Stamp(s) \/ UpdateMessage(s) \/ Fetch(s) \/ FillCache(s)
    PROVE  Balanced'
<1>1. task \in [Servers -> Task] /\ faults \in Nat
  BY BoundAssumption DEF Inv, TasksOK, Counters
<1>2. PICK q : task' = [task EXCEPT ![s] = q] /\ task[s].at \notin Counting /\ q.at \notin Counting
  <2> DEFINE Goal == \E q : task' = [task EXCEPT ![s] = q] /\ task[s].at \notin Counting /\ q.at \notin Counting
  <2>1. CASE Begin(s)
    <3>1. task[s].at \notin Counting
      BY <2>1, IdleFacts DEF Begin, StartSend, StartReply, StartMark, StartEdit, StartGet, Start
    <3>2. \E q : Start(s, q) /\ q.at \notin Counting
      <4>1. ASSUME NEW u, NEW p, NEW text, StartSend(s, u, p, text)
            PROVE  \E q : Start(s, q) /\ q.at \notin Counting
        BY <4>1 DEF StartSend, Counting
      <4>2. ASSUME NEW u, NEW p, NEW r, NEW m, NEW text, StartReply(s, u, p, r, m, text)
            PROVE  \E q : Start(s, q) /\ q.at \notin Counting
        BY <4>2 DEF StartReply, Counting
      <4>3. ASSUME NEW u, NEW m, StartMark(s, u, m)
            PROVE  \E q : Start(s, q) /\ q.at \notin Counting
        BY <4>3 DEF StartMark, Counting
      <4>4. ASSUME NEW m, NEW text, StartEdit(s, m, text)
            PROVE  \E q : Start(s, q) /\ q.at \notin Counting
        BY <4>4 DEF StartEdit, Counting
      <4>5. ASSUME NEW r, NEW limit, NEW before, StartGet(s, r, limit, before)
            PROVE  \E q : Start(s, q) /\ q.at \notin Counting
        BY <4>5 DEF StartGet, Counting
      <4> QED
        BY <2>1, <4>1, <4>2, <4>3, <4>4, <4>5 DEF Begin
    <3>3. \E q : task' = [task EXCEPT ![s] = q] /\ q.at \notin Counting
      BY <3>2 DEF Start
    <3> QED
      BY <3>1, <3>3
  <2> DEFINE Leads(step) == Goto(s, step) \/ End(s)
  <2>2. ASSUME NEW step \in {"invalidate", "markRead"}, Leads(step), task[s].at \notin Counting
        PROVE  Goal
    <3>1. CASE Goto(s, step)
      <4> DEFINE q == [task[s] EXCEPT !.at = step]
      <4>1. task' = [task EXCEPT ![s] = q]
        BY <3>1 DEF Goto
      <4>2. q.at = step
        BY <1>1 DEF Task, SendTask, ReplyTask, MarkTask, EditTask, GetTask, Idle
      <4> QED
        BY <2>2, <4>1, <4>2 DEF Counting
    <3>2. CASE End(s)
      BY <2>2, <3>2, IdleFacts DEF End
    <3> QED
      BY <2>2, <3>1, <3>2
  <2>3. CASE Invalidate(s) \/ MarkRead(s) \/ UpdateMessage(s)
    <3>1. task[s].at \notin Counting /\ (Leads("invalidate") \/ Leads("markRead"))
      BY <2>3 DEF Invalidate, MarkRead, UpdateMessage, OnOk, Counting
    <3> QED
      BY <2>2, <3>1
  <2>4. CASE FindRoom(s) \/ CreateRoom(s) \/ Stamp(s) \/ Fetch(s) \/ FillCache(s)
    <3>1. task[s].at \notin Counting
      BY <2>4 DEF FindRoom, CreateRoom, Stamp, Fetch, FillCache, Counting
    <3>2. CASE End(s)
      BY <3>1, <3>2, IdleFacts DEF End
    <3>3. CASE ~End(s)
      <4>1. \E step \in {"insert", "create", "update", "fill"} : \E q :
               task' = [task EXCEPT ![s] = q] /\ q.at = step
        <5>1. CASE FindRoom(s)
          <6>1. task[s] \in SendTask
            BY <1>1, <5>1, TaskFacts DEF FindRoom
          <6>2. CASE \E r \in DOMAIN rooms :
                        task' = [task EXCEPT ![s].at = "insert", ![s].room = r]
            <7>1. PICK r \in DOMAIN rooms :
                        task' = [task EXCEPT ![s].at = "insert", ![s].room = r]
              BY <6>2
            <7> DEFINE q == [task[s] EXCEPT !.at = "insert", !.room = r]
            <7>2. task' = [task EXCEPT ![s] = q] /\ q.at = "insert"
              BY <6>1, <7>1 DEF SendTask
            <7> QED
              BY <7>2
          <6>3. CASE task' = [task EXCEPT ![s].at = "create", ![s].looked = Len(rooms)]
            <7> DEFINE q == [task[s] EXCEPT !.at = "create", !.looked = Len(rooms)]
            <7>1. task' = [task EXCEPT ![s] = q] /\ q.at = "create"
              BY <6>1, <6>3 DEF SendTask
            <7> QED
              BY <7>1
          <6> QED
            BY <3>3, <5>1, <6>2, <6>3 DEF FindRoom, PrivateRooms
        <5>2. CASE CreateRoom(s)
          <6> DEFINE q == [task[s] EXCEPT !.at = "insert", !.room = Len(rooms) + 1]
          <6>1. task[s] \in SendTask
            BY <1>1, <5>2, TaskFacts DEF CreateRoom
          <6>2. task' = [task EXCEPT ![s].at = "insert", ![s].room = Len(rooms) + 1]
            BY <3>3, <5>2 DEF CreateRoom
          <6>3. task' = [task EXCEPT ![s] = q] /\ q.at = "insert"
            BY <6>1, <6>2 DEF SendTask
          <6> QED
            BY <6>3
        <5>3. CASE Stamp(s)
          <6> DEFINE q == [task[s] EXCEPT !.at = "update", !.stamp = now]
          <6>1. task[s] \in EditTask
            BY <1>1, <5>3, TaskFacts DEF Stamp
          <6>2. task' = [task EXCEPT ![s].at = "update", ![s].stamp = now]
            BY <5>3 DEF Stamp
          <6>3. task' = [task EXCEPT ![s] = q] /\ q.at = "update"
            BY <6>1, <6>2 DEF EditTask
          <6> QED
            BY <6>3
        <5>4. CASE Fetch(s)
          <6> DEFINE page == Page(task[s].room, task[s].limit, task[s].before)
                     q == [task[s] EXCEPT !.at = "fill", !.page = page]
          <6>1. task[s] \in GetTask
            BY <1>1, <5>4, TaskFacts DEF Fetch
          <6>2. task' = [task EXCEPT ![s].at = "fill", ![s].page = page]
            BY <3>3, <5>4 DEF Fetch
          <6> HIDE DEF page
          <6>3. task' = [task EXCEPT ![s] = q] /\ q.at = "fill"
            BY <6>1, <6>2 DEF GetTask
          <6> QED
            BY <6>3
        <5>5. CASE FillCache(s)
          BY <3>3, <5>5 DEF FillCache
        <5> QED
          BY <2>4, <5>1, <5>2, <5>3, <5>4, <5>5
      <4> QED
        BY <3>1, <4>1 DEF Counting
    <3> QED
      BY <3>2, <3>3
  <2> QED
    BY <2>1, <2>3, <2>4
<1>3. \A r, u : UncountedOf(r, u)' = UncountedOf(r, u)
  BY <1>1, <1>2, UncountedKept
<1>4. faults <= faults'
  <2>1. CASE Begin(s)
    <3>1. faults' = faults \/ faults' = faults + 1
      BY <2>1 DEF Begin, StartSend, StartReply, StartMark, StartEdit, StartGet
    <3> QED
      BY <1>1, <3>1
  <2>2. CASE faults' = faults
    BY <1>1, <2>2
  <2>3. ASSUME NEW reply, Count(reply) PROVE faults <= faults'
    BY <2>3, FaultFacts
  <2> QED
    BY <2>1, <2>2, <2>3
       DEF FindRoom, CreateRoom, Invalidate, MarkRead, Stamp, UpdateMessage, Fetch, FillCache
<1>5. /\ DOMAIN rooms = 1..Len(rooms) /\ Len(rooms) \in Nat
      /\ \A m \in DOMAIN msgs : msgs[m] \in Message
  BY Sizes DEF Inv
<1>6. Uncharged
  <2>1. CASE UNCHANGED <<rooms, msgs>>
    BY <2>1 DEF Uncharged
  <2>2. CASE CreateRoom(s)
    <3>1. UNCHANGED msgs
      BY <2>2 DEF CreateRoom
    <3>2. CASE rooms' = rooms
      BY <2>1, <3>1, <3>2
    <3>3. CASE rooms' # rooms
      <4> DEFINE new == NewRoom(task[s].user, task[s].peer, task[s].looked)
      <4>1. rooms' = Append(rooms, new)
        BY <2>2, <3>3 DEF CreateRoom
      <4>2. task[s] \in SendTask
        BY <1>1, <2>2, TaskFacts DEF CreateRoom
      <4>3. new \in Room /\ new.unread = [x \in Users |-> 0]
        BY <4>2 DEF SendTask, NewRoom, Room
      <4> HIDE DEF new
      <4>4. rooms \in Seq(Room) /\ rooms' \in Seq(Room)
        BY DEF Inv, RoomsOK
      <4>5. /\ Len(rooms') = Len(rooms) + 1 /\ rooms'[Len(rooms) + 1] = new
            /\ \A r \in 1..Len(rooms) : rooms'[r] = rooms[r]
        BY <4>1, <4>3, <4>4, AppendProperties
      <4>6. DOMAIN rooms' = 1..(Len(rooms) + 1)
        BY <4>4, <4>5, LenProperties
      <4> QED
        BY <1>5, <3>1, <4>3, <4>5, <4>6 DEF Uncharged
    <3> QED
      BY <3>2, <3>3
  <2>3. CASE MarkRead(s) \/ UpdateMessage(s)
    <3>1. UNCHANGED rooms
      BY <2>3 DEF MarkRead, UpdateMessage
    <3>2. CASE msgs' = msgs
      BY <2>1, <3>1, <3>2
    <3>3. CASE msgs' # msgs
      <4>1. PICK k, new : /\ msgs' = [msgs EXCEPT ![k] = new]
                          /\ k \in DOMAIN msgs =>
                                new.room = msgs[k].room /\ new.sender = msgs[k].sender
        <5>1. CASE MarkRead(s)
          <6> DEFINE k == task[s].msg
                     new == [msgs[k] EXCEPT !.read = TRUE]
          <6>1. msgs' = [msgs EXCEPT ![k] = new]
            BY <3>3, <5>1 DEF MarkRead
          <6>2. k \in DOMAIN msgs => new.room = msgs[k].room /\ new.sender = msgs[k].sender
            BY <1>5 DEF Message
          <6> QED
            BY <6>1, <6>2
        <5>2. CASE UpdateMessage(s)
          <6> DEFINE k == task[s].msg
                     new == Edited(task[s].original, msgs[k], task[s].text, task[s].stamp)
          <6>1. msgs' = [msgs EXCEPT ![k] = new]
            BY <3>3, <5>2 DEF UpdateMessage
          <6>2. k \in DOMAIN msgs => new.room = msgs[k].room /\ new.sender = msgs[k].sender
            BY <1>5 DEF Message, Edited
          <6> QED
            BY <6>1, <6>2
        <5> QED
          BY <2>3, <5>1, <5>2
      <4> QED
        BY <3>1, <4>1 DEF Uncharged
    <3> QED
      BY <3>2, <3>3
  <2> QED
    BY <2>1, <2>2, <2>3
       DEF Begin, StartSend, StartReply, StartMark, StartEdit, StartGet, FindRoom,
           Invalidate, Stamp, Fetch, FillCache
<1> QED
  BY <1>3, <1>4, <1>6, UnchargedStep

(* The two sides of the balance change by as much, or the left by less.     *)
LEMMA Recounted ==
    ASSUME Inv, Inv', Balanced, faults <= faults', DOMAIN rooms' = DOMAIN rooms,
           \A r \in DOMAIN rooms : rooms'[r].members = rooms[r].members,
           \A r \in DOMAIN rooms : \A u \in rooms[r].members :
               \E w, d, e \in {-1, 0, 1} :
                   /\ Cardinality(WrittenBy(r, u)') = Cardinality(WrittenBy(r, u)) + w
                   /\ Cardinality(UncountedOf(r, u)') = Cardinality(UncountedOf(r, u)) + d
                   /\ rooms'[r].unread[u] = rooms[r].unread[u] + e
                   /\ d + e <= w /\ (faults' = 0 => d + e = w)
    PROVE  Balanced'
<1> DEFINE Balance(r, u) ==
             LET n == rooms[r].unread[u] + Cardinality(UncountedOf(r, u))
             IN  /\ n <= Cardinality(WrittenBy(r, u))
                 /\ faults = 0 => n = Cardinality(WrittenBy(r, u))
<1>1. SUFFICES ASSUME NEW r \in DOMAIN rooms', NEW u \in rooms'[r].members
               PROVE  Balance(r, u)'
  BY DEF Balanced
<1>2. r \in DOMAIN rooms /\ u \in rooms[r].members /\ Balance(r, u)
  BY <1>1 DEF Balanced
<1>3. Cardinality(UncountedOf(r, u)) \in Nat /\ Cardinality(WrittenBy(r, u)) \in Nat
  BY SetsFinite
<1>4. rooms[r].unread[u] \in Nat
  <2>1. rooms[r] \in Room
    BY <1>2, Sizes DEF Inv
  <2> QED
    BY <1>2, <2>1 DEF Room
<1>5. faults \in Nat /\ faults' \in Nat
  BY BoundAssumption DEF Inv, Counters
<1>6. PICK w \in {-1, 0, 1}, d \in {-1, 0, 1}, e \in {-1, 0, 1} :
                   /\ Cardinality(WrittenBy(r, u)') = Cardinality(WrittenBy(r, u)) + w
                   /\ Cardinality(UncountedOf(r, u)') = Cardinality(UncountedOf(r, u)) + d
                   /\ rooms'[r].unread[u] = rooms[r].unread[u] + e
                   /\ d + e <= w /\ (faults' = 0 => d + e = w)
  BY <1>2
<1> QED
  BY <1>2, <1>3, <1>4, <1>5, <1>6

(* InsertMessage: the message is written before it is counted.              *)
LEMMA InsertCounts ==
    ASSUME Inv, Inv', Balanced, NEW s \in Servers, InsertMessage(s)
    PROVE  Balanced'
<1> DEFINE q == task[s]
           n == Len(msgs) + 1
           new == NewMessage(q.room, q.user, q.peer, q.text, q.replyTo)
<1>1. /\ task \in [Servers -> Task] /\ q \in SendTask \cup ReplyTask /\ q.at = "insert"
      /\ msgs \in Seq(Message) /\ msgs' \in Seq(Message)
      /\ Len(msgs) \in Nat /\ DOMAIN msgs = 1..Len(msgs) /\ UNCHANGED rooms
  BY Sizes, TaskFacts DEF Inv, TasksOK, MsgsOK, InsertMessage
<1>2. PICK reply \in Replies :
          /\ msgs' = IF Applied(reply) THEN Append(msgs, new) ELSE msgs
          /\ OnOk(s, reply, IF q.op = "reply" THEN "markReplied" ELSE "metadata")
          /\ Count(reply)
  BY DEF InsertMessage
<1>3. /\ faults \in Nat /\ faults <= faults' /\ (reply # "ok" => faults' > 0)
      /\ reply \in {"ok", "refused", "lostReply"}
  BY <1>2, FaultFacts, CountFacts DEF Inv
<1>4. q.at \notin Counting
  BY <1>1 DEF Counting
<1>5. \A r, u : UncountedOf(r, u)' =
        IF reply = "ok" /\ q.room = r /\ q.user = u THEN UncountedOf(r, u) \cup {s}
                                                    ELSE UncountedOf(r, u)
  <2>1. CASE reply # "ok"
    <3>1. task' = [task EXCEPT ![s] = Idle]
      BY <1>2, <2>1 DEF OnOk, End
    <3> QED
      BY <1>1, <1>4, <2>1, <3>1, UncountedKept, IdleFacts
  <2>2. CASE reply = "ok"
    <3> DEFINE step == IF q.op = "reply" THEN "markReplied" ELSE "metadata"
               next == [q EXCEPT !.at = step]
    <3>1. task' = [task EXCEPT ![s] = next]
      BY <1>2, <2>2 DEF OnOk, Goto
    <3>2. next.at \in Counting /\ next.room = q.room /\ next.user = q.user
      BY <1>1 DEF SendTask, ReplyTask, Counting
    <3> HIDE DEF next
    <3>3. \A t \in Servers : task'[t] = IF t = s THEN next ELSE task[t]
      BY <1>1, <3>1
    <3>4. \A r, u : UncountedOf(r, u)' =
             IF q.room = r /\ q.user = u THEN UncountedOf(r, u) \cup {s} ELSE UncountedOf(r, u)
      BY <1>4, <3>2, <3>3 DEF UncountedOf, Counting
    <3> QED
      BY <2>2, <3>4
  <2> QED
    BY <2>1, <2>2
<1>6. CASE ~Applied(reply)
  <2>1. reply # "ok" /\ UNCHANGED msgs
    BY <1>2, <1>6 DEF Applied
  <2> QED
    BY <1>1, <1>3, <1>5, <2>1, UnchargedStep DEF Uncharged
<1>7. CASE Applied(reply)
  <2>1. q.room \in Nat /\ new.room = q.room /\ new.sender = q.user /\ new \in Message
    <3>1. /\ q.user \in Users /\ q.peer \in Users /\ q.text \in Texts /\ q.replyTo \in Nat
          /\ q.room \in Nat
      BY <1>1, TextsAssumption DEF SendTask, ReplyTask
    <3>2. now \in Nat
      BY NowFacts DEF Inv
    <3> QED
      BY <3>1, <3>2 DEF NewMessage, Message
  <2> HIDE DEF new
  <2>2. /\ Len(msgs') = n /\ msgs'[n] = new /\ DOMAIN msgs' = 1..n
        /\ \A m \in 1..Len(msgs) : msgs'[m] = msgs[m]
    BY <1>1, <1>2, <1>7, <2>1, AppendProperties, LenProperties
  <2>3. \A r, u : /\ n \notin WrittenBy(r, u)
                  /\ WrittenBy(r, u)' = IF q.room = r /\ q.user = u THEN WrittenBy(r, u) \cup {n}
                                                                 ELSE WrittenBy(r, u)
    BY <1>1, <2>1, <2>2 DEF WrittenBy
  <2>4. \A r, u : s \notin UncountedOf(r, u)
    BY <1>4 DEF UncountedOf, Counting
  <2>5. ASSUME NEW r \in DOMAIN rooms, NEW u \in rooms[r].members
        PROVE  \E w, d, e \in {-1, 0, 1} :
                   /\ Cardinality(WrittenBy(r, u)') = Cardinality(WrittenBy(r, u)) + w
                   /\ Cardinality(UncountedOf(r, u)') = Cardinality(UncountedOf(r, u)) + d
                   /\ rooms'[r].unread[u] = rooms[r].unread[u] + e
                   /\ d + e <= w /\ (faults' = 0 => d + e = w)
    <3>1. /\ IsFiniteSet(WrittenBy(r, u)) /\ Cardinality(WrittenBy(r, u)) \in Nat
          /\ IsFiniteSet(UncountedOf(r, u)) /\ Cardinality(UncountedOf(r, u)) \in Nat
      BY SetsFinite
    <3>2. /\ Cardinality(WrittenBy(r, u) \cup {n}) = Cardinality(WrittenBy(r, u)) + 1
          /\ Cardinality(UncountedOf(r, u) \cup {s}) = Cardinality(UncountedOf(r, u)) + 1
      BY <2>3, <2>4, <3>1, FS_AddElement
    <3>3. rooms'[r].unread[u] = rooms[r].unread[u] + 0
      <4>1. rooms[r].unread[u] \in Nat
        <5>1. rooms[r] \in Room
          BY Sizes DEF Inv
        <5> QED
          BY <5>1 DEF Room
      <4> QED
        BY <1>1, <4>1
    <3>4. CASE ~(q.room = r /\ q.user = u)
      <4>1. /\ Cardinality(WrittenBy(r, u)') = Cardinality(WrittenBy(r, u)) + 0
            /\ Cardinality(UncountedOf(r, u)') = Cardinality(UncountedOf(r, u)) + 0
        BY <1>5, <2>3, <3>1, <3>4
      <4> QED
        BY <3>3, <4>1
    <3>5. CASE q.room = r /\ q.user = u /\ reply = "ok"
      <4>1. /\ Cardinality(WrittenBy(r, u)') = Cardinality(WrittenBy(r, u)) + 1
            /\ Cardinality(UncountedOf(r, u)') = Cardinality(UncountedOf(r, u)) + 1
        BY <1>5, <2>3, <3>2, <3>5
      <4> QED
        BY <3>3, <4>1
    <3>6. CASE q.room = r /\ q.user = u /\ reply # "ok"
      <4>1. /\ Cardinality(WrittenBy(r, u)') = Cardinality(WrittenBy(r, u)) + 1
            /\ Cardinality(UncountedOf(r, u)') = Cardinality(UncountedOf(r, u)) + 0
        <5>1. UncountedOf(r, u)' = UncountedOf(r, u) /\ WrittenBy(r, u)' = WrittenBy(r, u) \cup {n}
          BY <1>5, <2>3, <3>6
        <5> QED
          BY <3>1, <3>2, <5>1
      <4>2. faults' # 0
        BY <1>3, <3>6, BoundAssumption DEF Inv, Counters
      <4> QED
        BY <3>3, <4>1, <4>2
    <3> QED
      BY <3>4, <3>5, <3>6
  <2> QED
    BY <1>1, <1>3, <2>5, Recounted
<1> QED
  BY <1>6, <1>7

(* MarkReplied: the reply is still to be counted, or its request has failed. *)
LEMMA MarkRepliedCounts ==
    ASSUME Inv, Inv', Balanced, NEW s \in Servers, MarkReplied(s)
    PROVE  Balanced'
<1>1. /\ task \in [Servers -> Task] /\ task[s] \in ReplyTask /\ task[s].at = "markReplied"
      /\ UNCHANGED rooms
  BY TaskFacts DEF Inv, TasksOK, MarkReplied
<1>2. PICK reply \in Replies :
          /\ msgs' = IF Applied(reply)
                       THEN [msgs EXCEPT ![task[s].replyTo].read = TRUE] ELSE msgs
          /\ OnOk(s, reply, "metadata")
          /\ Count(reply)
  BY DEF MarkReplied
<1>3. faults \in Nat /\ faults <= faults' /\ (reply # "ok" => faults' > 0)
  BY <1>2, FaultFacts
<1>4. Uncharged
  <2>1. \A m \in DOMAIN msgs : msgs[m] \in Message
    BY Sizes DEF Inv
  <2>2. CASE msgs' = msgs
    BY <1>1, <2>2 DEF Uncharged
  <2>3. CASE msgs' = [msgs EXCEPT ![task[s].replyTo].read = TRUE]
    BY <1>1, <2>1, <2>3 DEF Uncharged, Message
  <2> QED
    BY <1>2, <2>2, <2>3
<1>5. CASE reply = "ok"
  <2> DEFINE next == [task[s] EXCEPT !.at = "metadata"]
  <2>1. task' = [task EXCEPT ![s] = next]
    BY <1>2, <1>5 DEF OnOk, Goto
  <2>2. next.at \in Counting /\ next.room = task[s].room /\ next.user = task[s].user
    BY <1>1 DEF ReplyTask, Counting
  <2> HIDE DEF next
  <2>3. \A t \in Servers : task'[t] = IF t = s THEN next ELSE task[t]
    BY <1>1, <2>1
  <2>4. \A r, u : UncountedOf(r, u)' = UncountedOf(r, u)
    BY <1>1, <2>2, <2>3 DEF UncountedOf, Counting
  <2> QED
    BY <1>3, <1>4, <2>4, UnchargedStep
<1>6. CASE reply # "ok"
  <2>1. task' = [task EXCEPT ![s] = Idle]
    BY <1>2, <1>6 DEF OnOk, End
  <2>2. \A r, u : UncountedOf(r, u)' = UncountedOf(r, u) \ {s}
    BY <1>1, <2>1, UncountedLeft, IdleFacts
  <2>3. \A r, u : UncountedOf(r, u)' \subseteq UncountedOf(r, u)
    BY <2>2
  <2> QED
    BY <1>3, <1>4, <1>6, <2>3, UnchargedStep
<1> QED
  BY <1>5, <1>6

(* UpdateRoomMetadata: a message that was to be counted is, or a call has    *)
(* failed.                                                                  *)
LEMMA MetadataCounts ==
    ASSUME Inv, Inv', Balanced, NEW s \in Servers, UpdateRoomMetadata(s)
    PROVE  Balanced'
<1> DEFINE q == task[s]
<1>1. /\ task \in [Servers -> Task] /\ q \in SendTask \cup ReplyTask /\ q.at = "metadata"
      /\ q.room \in DOMAIN rooms /\ UNCHANGED msgs
  <2>1. /\ task \in [Servers -> Task] /\ TaskOK(s) /\ q.at = "metadata" /\ UNCHANGED msgs
    BY DEF Inv, TasksOK, UpdateRoomMetadata
  <2>2. q \in SendTask \cup ReplyTask
    BY <2>1, TaskFacts
  <2> QED
    BY <2>1, <2>2 DEF TaskOK
<1>2. PICK reply \in Replies :
          /\ rooms' = IF Applied(reply) /\ q.user \in rooms[q.room].members
                        THEN [rooms EXCEPT ![q.room].unread[q.user] = @ + 1] ELSE rooms
          /\ IF q.op = "reply" THEN OnOk(s, reply, "invalidate") ELSE End(s)
          /\ Count(reply)
  BY DEF UpdateRoomMetadata
<1>3. faults \in Nat /\ faults <= faults' /\ (reply # "ok" => faults' > 0)
  BY <1>2, FaultFacts
<1>4. \A r, u : UncountedOf(r, u)' = UncountedOf(r, u) \ {s}
  <2>1. CASE End(s)
    <3>1. task' = [task EXCEPT ![s] = Idle]
      BY <2>1 DEF End
    <3> QED
      BY <1>1, <3>1, UncountedLeft, IdleFacts
  <2>2. CASE Goto(s, "invalidate")
    <3> DEFINE next == [q EXCEPT !.at = "invalidate"]
    <3>1. task' = [task EXCEPT ![s] = next]
      BY <2>2 DEF Goto
    <3>2. next.at \notin Counting
      BY <1>1 DEF SendTask, ReplyTask, Counting
    <3> HIDE DEF next
    <3>3. \A t \in Servers : task'[t] = IF t = s THEN next ELSE task[t]
      BY <1>1, <3>1
    <3> QED
      BY <3>2, <3>3 DEF UncountedOf, Counting
  <2> QED
    BY <1>2, <2>1, <2>2 DEF OnOk
<1>5. \A r, u : s \in UncountedOf(r, u) <=> q.room = r /\ q.user = u
  BY <1>1 DEF UncountedOf, Counting
<1>6. \A r, u : WrittenBy(r, u)' = WrittenBy(r, u)
  BY <1>1 DEF WrittenBy
<1>7. \A r \in DOMAIN rooms : rooms[r] \in Room
  BY Sizes DEF Inv
<1>8. /\ DOMAIN rooms' = DOMAIN rooms
      /\ \A r \in DOMAIN rooms : rooms'[r].members = rooms[r].members
  <2>1. CASE rooms' = rooms
    BY <2>1
  <2>2. CASE rooms' = [rooms EXCEPT ![q.room].unread[q.user] = @ + 1]
    BY <1>7, <2>2 DEF Room
  <2> QED
    BY <1>2, <2>1, <2>2
<1>9. ASSUME NEW r \in DOMAIN rooms, NEW u \in rooms[r].members
      PROVE  \E w, d, e \in {-1, 0, 1} :
                 /\ Cardinality(WrittenBy(r, u)') = Cardinality(WrittenBy(r, u)) + w
                 /\ Cardinality(UncountedOf(r, u)') = Cardinality(UncountedOf(r, u)) + d
                 /\ rooms'[r].unread[u] = rooms[r].unread[u] + e
                 /\ d + e <= w /\ (faults' = 0 => d + e = w)
  <2>1. /\ IsFiniteSet(WrittenBy(r, u)) /\ Cardinality(WrittenBy(r, u)) \in Nat
        /\ IsFiniteSet(UncountedOf(r, u)) /\ Cardinality(UncountedOf(r, u)) \in Nat
    BY SetsFinite
  <2>2. Cardinality(WrittenBy(r, u)') = Cardinality(WrittenBy(r, u)) + 0
    <3>1. WrittenBy(r, u)' = WrittenBy(r, u)
      BY <1>6
    <3> QED
      BY <2>1, <3>1
  <2>3. rooms[r].unread \in [Users -> Nat] /\ u \in Users /\ rooms[r].unread[u] \in Nat
    BY <1>7, <1>9 DEF Room
  <2>4. CASE ~(q.room = r /\ q.user = u)
    <3>1. Cardinality(UncountedOf(r, u)') = Cardinality(UncountedOf(r, u)) + 0
      <4>1. UncountedOf(r, u)' = UncountedOf(r, u)
        BY <1>4, <1>5, <2>4
      <4> QED
        BY <2>1, <4>1
    <3>2. rooms'[r].unread[u] = rooms[r].unread[u] + 0
      <4>1. CASE rooms' = rooms
        BY <2>3, <4>1
      <4>2. CASE rooms' = [rooms EXCEPT ![q.room].unread[q.user] = @ + 1]
        BY <1>1, <1>7, <2>3, <2>4, <4>2 DEF Room
      <4> QED
        BY <1>2, <4>1, <4>2
    <3> QED
      BY <2>2, <3>1, <3>2
  <2>5. CASE q.room = r /\ q.user = u
    <3>1. Cardinality(UncountedOf(r, u)') = Cardinality(UncountedOf(r, u)) + (-1)
      <4>1. UncountedOf(r, u)' = UncountedOf(r, u) \ {s} /\ s \in UncountedOf(r, u)
        BY <1>4, <1>5, <2>5
      <4>2. Cardinality(UncountedOf(r, u) \ {s}) = Cardinality(UncountedOf(r, u)) - 1
        BY <2>1, <4>1, FS_RemoveElement
      <4> QED
        BY <2>1, <4>1, <4>2
    <3>2. CASE Applied(reply)
      <4>1. rooms' = [rooms EXCEPT ![q.room].unread[q.user] = @ + 1]
        BY <1>2, <1>9, <2>5, <3>2
      <4>2. rooms'[r].unread[u] = rooms[r].unread[u] + 1
        BY <1>7, <2>3, <2>5, <4>1 DEF Room
      <4> QED
        BY <2>2, <3>1, <4>2
    <3>3. CASE ~Applied(reply)
      <4>1. rooms'[r].unread[u] = rooms[r].unread[u] + 0
        BY <1>2, <2>3, <3>3
      <4>2. faults' # 0
        <5>1. reply # "ok"
          BY <3>3 DEF Applied
        <5> QED
          BY <1>3, <5>1, BoundAssumption DEF Inv, Counters
      <4> QED
        BY <2>2, <3>1, <4>1, <4>2
    <3> QED
      BY <3>2, <3>3
  <2> QED
    BY <2>4, <2>5
<1> QED
  BY <1>3, <1>8, <1>9, Recounted

(* Time moves no count.                                                     *)
LEMMA TimeCounts ==
    ASSUME Inv, Inv', Balanced,
           Tick \/ (\E r \in RoomIds : Expire(r)) \/ UNCHANGED vars
    PROVE  Balanced'
<1>1. UNCHANGED <<rooms, msgs, task, faults>>
  BY DEF Tick, Expire, vars
<1>2. faults <= faults'
  BY <1>1, BoundAssumption DEF Inv, Counters
<1>3. Uncharged /\ \A r, u : UncountedOf(r, u)' = UncountedOf(r, u)
  BY <1>1 DEF Uncharged, UncountedOf
<1> QED
  BY <1>2, <1>3, UnchargedStep

(* The first message of an earlier process is counted.                      *)
LEMMA InitCounts == Init => Balanced
<1> SUFFICES ASSUME Init PROVE Balanced
  OBVIOUS
<1>1. \A r, u : UncountedOf(r, u) = {}
  BY DEF Init, UncountedOf, Counting, Idle
<1>2. \A r, u : Cardinality(UncountedOf(r, u)) = 0
  BY <1>1, FS_EmptySet
<1>3. CASE rooms = <<>>
  <2>1. DOMAIN rooms = {}
    BY <1>3
  <2> QED
    BY <2>1 DEF Balanced
<1>4. ASSUME NEW u \in Users, NEW p \in Users, NEW text \in NewTexts, u # p,
             rooms = <<[NewRoom(u, p, 0) EXCEPT !.unread[u] = 1]>>,
             msgs = <<NewMessage(1, u, p, text, 0)>>
      PROVE  Balanced
  <2>1. /\ DOMAIN rooms = {1} /\ rooms[1].members = {u, p}
        /\ rooms[1].unread = [[x \in Users |-> 0] EXCEPT ![u] = 1]
    BY <1>4 DEF NewRoom
  <2>2. rooms[1].unread[u] = 1 /\ rooms[1].unread[p] = 0
    BY <1>4, <2>1
  <2>3. DOMAIN msgs = {1} /\ msgs[1].room = 1 /\ msgs[1].sender = u
    BY <1>4 DEF NewMessage
  <2>4. WrittenBy(1, u) = {1} /\ WrittenBy(1, p) = {}
    BY <1>4, <2>3 DEF WrittenBy
  <2>5. Cardinality(WrittenBy(1, u)) = 1 /\ Cardinality(WrittenBy(1, p)) = 0
    BY <2>4, FS_EmptySet, FS_Singleton
  <2> QED
    BY <1>2, <2>1, <2>2, <2>5 DEF Balanced
<1> QED
  BY <1>3, <1>4 DEF Init

LEMMA BalancedAlways == Spec => []Balanced
<1>1. ASSUME Inv, Balanced, [Next]_vars PROVE Balanced'
  <2>1. Inv'
    BY <1>1, NextInv
  <2>2. ASSUME NEW s \in Servers, Begin(s) \/ Continue(s) PROVE Balanced'
    BY <1>1, <2>1, <2>2, QuietStep, InsertCounts, MarkRepliedCounts, MetadataCounts DEF Continue
  <2> QED
    BY <1>1, <2>1, <2>2, TimeCounts DEF Next
<1> QED
  BY <1>1, InitCounts, InvAlways, PTL DEF Spec

(* The two members together.                                                *)
LEMMA BothMembers ==
    ASSUME Inv, NEW r, NEW u, NEW p, u # p, rooms[r].members = {u, p}
    PROVE  /\ Cardinality(Written(r)) = Cardinality(WrittenBy(r, u)) + Cardinality(WrittenBy(r, p))
           /\ Cardinality(Uncounted(r))
                = Cardinality(UncountedOf(r, u)) + Cardinality(UncountedOf(r, p))
<1>1. /\ Written(r) = WrittenBy(r, u) \cup WrittenBy(r, p)
      /\ WrittenBy(r, u) \cap WrittenBy(r, p) = {}
  BY DEF Written, WrittenBy
<1>2. /\ Uncounted(r) = UncountedOf(r, u) \cup UncountedOf(r, p)
      /\ UncountedOf(r, u) \cap UncountedOf(r, p) = {}
  BY DEF Uncounted, UncountedOf, Counting
<1>3. ASSUME NEW S, NEW T, IsFiniteSet(S), IsFiniteSet(T), S \cap T = {}
      PROVE  Cardinality(S \cup T) = Cardinality(S) + Cardinality(T)
  <2>1. /\ Cardinality(S) \in Nat /\ Cardinality(T) \in Nat
        /\ S \cap T = {} /\ Cardinality({}) = 0
    BY <1>3, FS_CardinalityType, FS_EmptySet
  <2>2. Cardinality(S \cup T) = Cardinality(S) + Cardinality(T) - Cardinality(S \cap T)
    BY <1>3, FS_Union
  <2>3. Cardinality(S \cap T) = 0
    BY <2>1
  <2> QED
    BY <2>1, <2>2, <2>3
<1> QED
  BY <1>1, <1>2, <1>3, SetsFinite

(* UnreadFollowsMessages: the unread counts of a room, which its messages   *)
(* and replies raise in PostgreSQL after their insert in MongoDB            *)
(* (chat-service.go:57-64, chat-repo.go:233-252), never run ahead of the    *)
(* messages its members have written, and while no call has failed they     *)
(* lag behind only by the requests between the two writes.                  *)
THEOREM UnreadCountsMessages == Spec => []UnreadFollowsMessages
<1>1. ASSUME Inv, PairsOK, Balanced PROVE UnreadFollowsMessages
  <2>1. SUFFICES ASSUME NEW r \in DOMAIN rooms, NEW u \in rooms[r].members,
                        NEW p \in rooms[r].members, u # p
                 PROVE  LET n == rooms[r].unread[u] + rooms[r].unread[p] + Cardinality(Uncounted(r))
                        IN  /\ n <= Cardinality(Written(r))
                            /\ faults = 0 => n = Cardinality(Written(r))
    BY DEF UnreadFollowsMessages
  <2>2. rooms[r].members = {u, p} /\ u \in Users /\ p \in Users
    BY <1>1, <2>1 DEF PairsOK
  <2>3. rooms[r].unread[u] \in Nat /\ rooms[r].unread[p] \in Nat
    BY <1>1, <2>1, <2>2, Sizes DEF Inv, Room
  <2>4. /\ Cardinality(WrittenBy(r, u)) \in Nat /\ Cardinality(UncountedOf(r, u)) \in Nat
        /\ Cardinality(WrittenBy(r, p)) \in Nat /\ Cardinality(UncountedOf(r, p)) \in Nat
    BY <1>1, SetsFinite
  <2>5. LET n(x) == rooms[r].unread[x] + Cardinality(UncountedOf(r, x))
        IN  \A x \in {u, p} : /\ n(x) <= Cardinality(WrittenBy(r, x))
                              /\ faults = 0 => n(x) = Cardinality(WrittenBy(r, x))
    BY <1>1, <2>1 DEF Balanced
  <2> QED
    BY <1>1, <2>1, <2>2, <2>3, <2>4, <2>5, BothMembers
<1> QED
  BY <1>1, BalancedAlways, PairsAlways, InvAlways, PTL


(***************************************************************************)
(* ChatStore implements Conversation.                                      *)
(***************************************************************************)

\* A message about to be inserted is between members of its room, or answers
\* a message of its room.
Addressed(s) ==
    /\ task[s] \in SendTask /\ task[s].at = "insert" =>
          {task[s].user, task[s].peer} \subseteq rooms[task[s].room].members
    /\ task[s] \in ReplyTask /\ task[s].at = "insert" =>
          msgs[task[s].replyTo].room = task[s].room

AllAddressed == \A s \in Servers : Addressed(s)

(* What a server waits to insert was checked in its room.                   *)
LEMMA AddressedStep ==
    ASSUME Inv, AllAddressed, [Next]_vars, NEW s \in Servers
    PROVE  Addressed(s)'
<1>1. /\ task \in [Servers -> Task] /\ MsgsGrow /\ Inv' /\ TaskOK(s)
      /\ \A r \in DOMAIN rooms : rooms'[r].members = rooms[r].members
      /\ Len(rooms) \in Nat
  BY NextInv, RoomsStay, Sizes DEF Inv, TasksOK
<1>2. CASE task'[s] = task[s]
  <2>1. ASSUME task[s] \in SendTask, task[s].at = "insert" PROVE Addressed(s)'
    <3>1. task[s].room \in DOMAIN rooms
      BY <1>1, <2>1 DEF TaskOK
    <3> QED
      BY <1>1, <1>2, <2>1, <3>1, KindFacts DEF AllAddressed, Addressed
  <2>2. ASSUME task[s] \in ReplyTask, task[s].at = "insert" PROVE Addressed(s)'
    <3>1. task[s].room \in DOMAIN rooms /\ task[s].replyTo \in DOMAIN msgs
      BY <1>1, <2>2 DEF TaskOK
    <3>2. msgs'[task[s].replyTo].room = msgs[task[s].replyTo].room
      BY <1>1, <3>1 DEF MsgsGrow, MessageGrows
    <3> QED
      BY <1>1, <1>2, <2>2, <3>1, <3>2, KindFacts DEF AllAddressed, Addressed
  <2> QED
    BY <1>2, <2>1, <2>2 DEF Addressed
<1>3. ASSUME task'[s].at # "insert" PROVE Addressed(s)'
  BY <1>3 DEF Addressed
<1>4. ASSUME End(s) PROVE Addressed(s)'
  <2>1. task'[s] = Idle
    BY <1>1, <1>4 DEF End
  <2> QED
    BY <1>3, <2>1 DEF Idle
<1>5. ASSUME NEW step \in {"markReplied", "metadata", "invalidate", "markRead"}, Goto(s, step)
      PROVE  Addressed(s)'
  <2>1. task'[s] = [task[s] EXCEPT !.at = step]
    BY <1>1, <1>5 DEF Goto
  <2>2. task'[s].at = step
    BY <1>1, <2>1 DEF Task, SendTask, ReplyTask, MarkTask, EditTask, GetTask, Idle
  <2> QED
    BY <1>3, <2>2
<1>6. CASE Begin(s)
  <2>1. ASSUME NEW u \in Users, NEW p \in Users, NEW r \in DOMAIN rooms, NEW m \in DOMAIN msgs,
               NEW text \in NewTexts, StartReply(s, u, p, r, m, text)
        PROVE  Addressed(s)'
    <3>1. /\ task'[s] = [at |-> "insert", op |-> "reply", user |-> u, peer |-> p, text |-> text,
                         room |-> r, replyTo |-> m]
          /\ UNCHANGED <<rooms, msgs>>
          /\ msgs[m].room = r
      BY <1>1, <2>1 DEF StartReply, Start
    <3>2. task'[s] \notin SendTask
      BY <3>1 DEF SendTask
    <3> QED
      BY <3>1, <3>2 DEF Addressed
  <2>2. ASSUME NEW u, NEW p, NEW text, StartSend(s, u, p, text) PROVE Addressed(s)'
    BY <1>1, <1>3, <2>2 DEF StartSend, Start
  <2>3. ASSUME NEW u, NEW m, StartMark(s, u, m) PROVE Addressed(s)'
    BY <1>1, <1>3, <2>3 DEF StartMark, Start
  <2>4. ASSUME NEW m, NEW text, StartEdit(s, m, text) PROVE Addressed(s)'
    BY <1>1, <1>3, <2>4 DEF StartEdit, Start
  <2>5. ASSUME NEW r, NEW limit, NEW before, StartGet(s, r, limit, before) PROVE Addressed(s)'
    BY <1>1, <1>3, <2>5 DEF StartGet, Start
  <2> QED
    BY <1>6, <2>1, <2>2, <2>3, <2>4, <2>5 DEF Begin
<1>7. CASE FindRoom(s)
  <2>1. task[s] \in SendTask /\ UNCHANGED rooms
    BY <1>1, <1>7, TaskFacts DEF FindRoom
  <2>2. ASSUME NEW r \in PrivateRooms(task[s].user, task[s].peer),
               task' = [task EXCEPT ![s].at = "insert", ![s].room = r]
        PROVE  Addressed(s)'
    <3>1. task'[s] = [task[s] EXCEPT !.at = "insert", !.room = r]
      BY <1>1, <2>2
    <3>2. /\ task'[s].user = task[s].user /\ task'[s].peer = task[s].peer
          /\ task'[s].room = r /\ task'[s].op = "send"
      BY <2>1, <3>1 DEF SendTask
    <3>3. task'[s] \notin ReplyTask
      BY <3>2 DEF ReplyTask
    <3> QED
      BY <2>1, <3>2, <3>3 DEF Addressed, PrivateRooms
  <2>3. ASSUME task' = [task EXCEPT ![s].at = "create", ![s].looked = Len(rooms)]
        PROVE  Addressed(s)'
    <3>1. task'[s] = [task[s] EXCEPT !.at = "create", !.looked = Len(rooms)]
      BY <1>1, <2>3
    <3>2. task'[s].at = "create"
      BY <2>1, <3>1 DEF SendTask
    <3> QED
      BY <1>3, <3>2
  <2> QED
    BY <1>4, <1>7, <2>2, <2>3 DEF FindRoom
<1>8. CASE CreateRoom(s)
  <2>1. ASSUME rooms' = Append(rooms, NewRoom(task[s].user, task[s].peer, task[s].looked)),
               task' = [task EXCEPT ![s].at = "insert", ![s].room = Len(rooms) + 1]
        PROVE  Addressed(s)'
    <3> DEFINE new == NewRoom(task[s].user, task[s].peer, task[s].looked)
    <3>1. task[s] \in SendTask /\ task'[s] = [task[s] EXCEPT !.at = "insert", !.room = Len(rooms) + 1]
      BY <1>1, <1>8, <2>1, CreateFacts
    <3>2. /\ task'[s].user = task[s].user /\ task'[s].peer = task[s].peer
          /\ task'[s].room = Len(rooms) + 1 /\ task'[s].op = "send"
      BY <3>1 DEF SendTask
    <3>3. task'[s] \notin ReplyTask
      BY <3>2 DEF ReplyTask
    <3>4. rooms \in Seq(Room \cup {new}) /\ new.members = {task[s].user, task[s].peer}
      BY DEF Inv, RoomsOK, NewRoom
    <3> HIDE DEF new
    <3>5. rooms' = Append(rooms, new)
      BY <2>1 DEF new
    <3>6. rooms'[Len(rooms) + 1] = new
      BY <3>4, <3>5, AppendProperties
    <3> QED
      BY <3>2, <3>3, <3>4, <3>6 DEF Addressed
  <2> QED
    BY <1>4, <1>8, <2>1, CreateFacts DEF CreateRoom
<1>9. CASE Stamp(s) \/ Fetch(s) \/ FillCache(s)
  <2>1. ASSUME Stamp(s) PROVE Addressed(s)'
    <3>1. /\ task[s] \in EditTask
          /\ task'[s] = [task[s] EXCEPT !.at = "update", !.stamp = now]
      BY <1>1, <2>1, TaskFacts DEF Stamp
    <3>2. task'[s].at = "update"
      BY <3>1 DEF EditTask
    <3> QED
      BY <1>3, <3>2
  <2>2. ASSUME Fetch(s), ~End(s) PROVE Addressed(s)'
    <3>1. task[s] \in GetTask
      BY <1>1, <2>2, TaskFacts DEF Fetch
    <3>2. PICK page : task'[s] = [task[s] EXCEPT !.at = "fill", !.page = page]
      BY <1>1, <2>2 DEF Fetch
    <3>3. task'[s].at = "fill"
      BY <3>1, <3>2 DEF GetTask
    <3> QED
      BY <1>3, <3>3
  <2> QED
    BY <1>4, <1>9, <2>1, <2>2 DEF FillCache
<1>10. CASE \/ InsertMessage(s) \/ UpdateRoomMetadata(s) \/ MarkReplied(s) \/ Invalidate(s)
            \/ MarkRead(s) \/ UpdateMessage(s)
  BY <1>4, <1>5, <1>10
     DEF InsertMessage, UpdateRoomMetadata, MarkReplied, Invalidate, MarkRead, UpdateMessage, OnOk
<1>11. CASE task'[s] # task[s]
  <2>1. ~(Tick \/ UNCHANGED vars \/ \E r \in RoomIds : Expire(r))
    BY <1>11 DEF Tick, Expire, vars
  <2>2. Begin(s) \/ Continue(s)
    BY <1>1, <1>11, <2>1, OneServer DEF Next
  <2> QED
    BY <1>6, <1>7, <1>8, <1>9, <1>10, <2>2 DEF Continue
<1> QED
  BY <1>2, <1>11


LetterType ==
    [room : Nat, from : Users, to : Users, text : Texts, answers : Nat, read : BOOLEAN]

(* The rooms and messages that Conversation sees.                           *)
LEMMA MappedFacts ==
    ASSUME Inv
    PROVE  /\ Members \in Seq(SUBSET Users) /\ Len(Members) = Len(rooms)
           /\ DOMAIN Members = DOMAIN rooms
           /\ \A r \in DOMAIN rooms : Members[r] = rooms[r].members
           /\ Letters \in Seq(LetterType) /\ Len(Letters) = Len(msgs)
           /\ DOMAIN Letters = DOMAIN msgs
           /\ \A m \in DOMAIN msgs : Letters[m] = LetterOf(msgs[m])
<1>1. /\ Len(rooms) \in Nat /\ DOMAIN rooms = 1..Len(rooms)
      /\ Len(msgs) \in Nat /\ DOMAIN msgs = 1..Len(msgs)
      /\ \A r \in DOMAIN rooms : rooms[r] \in Room
      /\ \A m \in DOMAIN msgs : msgs[m] \in Message
  BY Sizes DEF Inv
<1>2. \A r \in DOMAIN rooms : rooms[r].members \in SUBSET Users
  BY <1>1 DEF Room
<1>3. \A m \in DOMAIN msgs : LetterOf(msgs[m]) \in LetterType
  BY <1>1 DEF Message, LetterOf, LetterType
<1>4. Members \in Seq(SUBSET Users) /\ Len(Members) = Len(rooms) /\ DOMAIN Members = DOMAIN rooms
  <2>1. Members = [r \in 1..Len(rooms) |-> rooms[r].members]
    BY <1>1 DEF Members
  <2> QED
    BY <1>1, <1>2, <2>1
<1>5. Letters \in Seq(LetterType) /\ Len(Letters) = Len(msgs) /\ DOMAIN Letters = DOMAIN msgs
  <2>1. Letters = [m \in 1..Len(msgs) |-> LetterOf(msgs[m])]
    BY <1>1 DEF Letters
  <2> QED
    BY <1>1, <1>3, <2>1
<1> QED
  BY <1>4, <1>5 DEF Members, Letters

(* A room is created at once with its members: Open.                        *)
LEMMA CreateMaps ==
    ASSUME Inv, NEW s \in Servers, CreateRoom(s)
    PROVE  [Chat!Next]_Chat!chatVars
<1> DEFINE u == task[s].user
           p == task[s].peer
           n == Len(rooms) + 1
           new == NewRoom(u, p, task[s].looked)
<1>1. Letters' = Letters
  BY DEF CreateRoom, Letters
<1>2. CASE UNCHANGED rooms
  BY <1>1, <1>2 DEF Members, Chat!chatVars
<1>3. CASE u # p /\ rooms' = Append(rooms, new)
  <2>1. u \in Users /\ p \in Users /\ new.members = {u, p}
    BY CreateFacts DEF SendTask, NewRoom
  <2> HIDE DEF new, u, p
  <2>2. /\ rooms \in Seq(Room \cup {new}) /\ Len(rooms) \in Nat /\ DOMAIN rooms = 1..Len(rooms)
    BY Sizes DEF Inv, RoomsOK
  <2>3. /\ DOMAIN rooms' = 1..n
        /\ rooms' = [r \in 1..n |-> IF r = n THEN new ELSE rooms[r]]
    BY <1>3, <2>2, AppendFacts
  <2>4. Members \in Seq(SUBSET Users) /\ Len(Members) = Len(rooms) /\ {u, p} \in SUBSET Users
    BY <2>1, MappedFacts
  <2>5. Append(Members, {u, p}) = [r \in 1..n |-> IF r = n THEN {u, p} ELSE Members[r]]
    BY <2>4, AppendFacts
  <2>6. \A r \in 1..n : r # n => r \in DOMAIN rooms
    BY <2>2
  <2>7. Members' = [r \in 1..n |-> rooms'[r].members]
    BY <2>3 DEF Members
  <2>8. \A r \in 1..n : rooms'[r].members = IF r = n THEN {u, p} ELSE Members[r]
    BY <2>1, <2>3, <2>6, MappedFacts
  <2>9. Members' = Append(Members, {u, p})
    BY <2>5, <2>7, <2>8
  <2>10. Chat!Open(u, p)
    BY <1>1, <1>3, <2>9 DEF Chat!Open
  <2> QED
    BY <2>1, <2>10 DEF Chat!Next
<1> QED
  BY <1>2, <1>3, CreateFacts

(* A message is inserted: Post, or Answer.                                  *)
LEMMA InsertMaps ==
    ASSUME Inv, AllAddressed, NEW s \in Servers, InsertMessage(s)
    PROVE  [Chat!Next]_Chat!chatVars
<1> DEFINE q == task[s]
           n == Len(msgs) + 1
           new == NewMessage(q.room, q.user, q.peer, q.text, q.replyTo)
           letter == Chat!Letter(q.room, q.user, q.peer, q.text, q.replyTo)
<1>1. /\ TaskOK(s) /\ q \in SendTask \cup ReplyTask /\ q.at = "insert" /\ Addressed(s)
      /\ msgs \in Seq(Message) /\ Len(msgs) \in Nat /\ DOMAIN msgs = 1..Len(msgs)
      /\ Members' = Members
  BY Sizes, TaskFacts DEF Inv, TasksOK, MsgsOK, InsertMessage, Members, AllAddressed
<1>2. CASE msgs' = msgs
  BY <1>1, <1>2 DEF Letters, Chat!chatVars
<1>3. CASE msgs' = Append(msgs, new)
  <2>1. /\ q.user \in Users /\ q.peer \in Users /\ q.text \in Texts
        /\ q.room \in Nat /\ q.replyTo \in Nat
    BY <1>1, TextsAssumption DEF SendTask, ReplyTask
  <2>2. LetterOf(new) = letter /\ letter \in LetterType
    BY <2>1 DEF NewMessage, LetterOf, Chat!Letter, LetterType
  <2> HIDE DEF new, letter
  <2>3. msgs \in Seq(Message \cup {new})
    BY <1>1
  <2>4. /\ DOMAIN msgs' = 1..n
        /\ msgs' = [m \in 1..n |-> IF m = n THEN new ELSE msgs[m]]
    BY <1>3, <2>3, AppendFacts
  <2>5. Letters \in Seq(LetterType) /\ Len(Letters) = Len(msgs)
    BY MappedFacts
  <2>6. Append(Letters, letter) = [m \in 1..n |-> IF m = n THEN letter ELSE Letters[m]]
    BY <2>2, <2>5, AppendFacts
  <2>7. \A m \in 1..n : m # n => m \in DOMAIN msgs
    BY <1>1
  <2>8. Letters' = [m \in 1..n |-> LetterOf(msgs'[m])]
    BY <2>4 DEF Letters
  <2>9. \A m \in 1..n : LetterOf(msgs'[m]) = IF m = n THEN letter ELSE Letters[m]
    BY <2>2, <2>4, <2>7, MappedFacts
  <2>10. Letters' = Append(Letters, letter)
    BY <2>6, <2>8, <2>9
  <2>11. CASE q \in SendTask
    <3>1. q.room \in DOMAIN rooms /\ q.replyTo = 0
      BY <1>1, <2>11 DEF TaskOK, SendTask
    <3>2. Chat!Post(q.room, q.user, q.peer, q.text)
      BY <1>1, <2>10, <2>11, <3>1, MappedFacts DEF Addressed, Chat!Post, letter
    <3> QED
      BY <2>1, <3>1, <3>2, MappedFacts DEF Chat!Next
  <2>12. CASE q \in ReplyTask
    <3>1. q.room \in DOMAIN rooms /\ q.replyTo \in DOMAIN msgs
      BY <1>1, <2>12 DEF TaskOK
    <3>2. Letters[q.replyTo].room = q.room
      BY <1>1, <2>12, <3>1, MappedFacts DEF Addressed, LetterOf
    <3>3. Chat!Answer(q.replyTo, q.user, q.peer, q.text)
      BY <1>1, <2>10, <2>12, <3>1, <3>2, MappedFacts DEF Addressed, Chat!Answer, letter
    <3> QED
      BY <2>1, <3>1, <3>3, MappedFacts DEF Chat!Next
  <2> QED
    BY <1>1, <2>11, <2>12
<1> QED
  BY <1>2, <1>3 DEF InsertMessage

LEMMA LetterRead ==
    ASSUME NEW old, NEW new, NEW yes, new.room = old.room, new.sender = old.sender,
           new.receiver = old.receiver, new.text = old.text, new.replyTo = old.replyTo,
           new.read = yes
    PROVE  LetterOf(new) = [LetterOf(old) EXCEPT !.read = yes]
BY DEF LetterOf

(* A message is marked as read, by an answer or for itself: Read.           *)
LEMMA ReadMaps ==
    ASSUME Inv, UNCHANGED rooms, NEW m \in DOMAIN msgs,
           msgs' = [msgs EXCEPT ![m].read = TRUE]
    PROVE  [Chat!Next]_Chat!chatVars
<1>1. msgs[m] \in Message
  BY Sizes DEF Inv
<1>2. DOMAIN msgs' = DOMAIN msgs
  OBVIOUS
<1>3. LetterOf(msgs'[m]) = [LetterOf(msgs[m]) EXCEPT !.read = TRUE]
  <2> DEFINE new == [msgs[m] EXCEPT !.read = TRUE]
  <2>1. msgs'[m] = new
    OBVIOUS
  <2>2. /\ new.room = msgs[m].room /\ new.sender = msgs[m].sender
        /\ new.receiver = msgs[m].receiver /\ new.text = msgs[m].text
        /\ new.replyTo = msgs[m].replyTo /\ new.read = TRUE
    BY <1>1 DEF Message
  <2> DEFINE yes == TRUE
  <2>3. new.read = yes
    BY <2>2
  <2> HIDE DEF new, yes
  <2>4. LetterOf(new) = [LetterOf(msgs[m]) EXCEPT !.read = yes]
    BY <2>2, <2>3, LetterRead
  <2> QED
    BY <2>1, <2>4 DEF yes
<1>4. Letters' = [Letters EXCEPT ![m].read = TRUE]
  BY <1>2, <1>3 DEF Letters
<1>5. Chat!Read(m)
  BY <1>4 DEF Chat!Read, Members
<1> QED
  BY <1>5, MappedFacts DEF Chat!Next

(* A message gets another text, and nothing else of it changes: Edit.       *)
LEMMA EditMaps ==
    ASSUME Inv, NEW s \in Servers, UpdateMessage(s)
    PROVE  [Chat!Next]_Chat!chatVars
<1> DEFINE q == task[s]
           new == Edited(q.original, msgs[q.msg], q.text, q.stamp)
<1>1. q \in EditTask /\ q.msg \in DOMAIN msgs /\ q.text \in Texts /\ Members' = Members
  <2>1. TaskOK(s) /\ q \in EditTask
    BY TaskFacts DEF Inv, TasksOK, UpdateMessage
  <2> QED
    BY <2>1 DEF TaskOK, EditTask, UpdateMessage, Members
<1>2. CASE msgs' = msgs
  BY <1>1, <1>2 DEF Letters, Chat!chatVars
<1>3. CASE msgs' = [msgs EXCEPT ![q.msg] = new]
  <2>1. msgs[q.msg] \in Message
    BY <1>1, Sizes DEF Inv
  <2>2. LetterOf(new) = [LetterOf(msgs[q.msg]) EXCEPT !.text = q.text]
    BY <2>1 DEF LetterOf, Message, Edited
  <2> HIDE DEF new
  <2>3. DOMAIN msgs' = DOMAIN msgs
    BY <1>3
  <2>4. Letters' = [Letters EXCEPT ![q.msg].text = q.text]
    BY <1>1, <1>3, <2>2, <2>3 DEF Letters
  <2>5. Chat!Edit(q.msg, q.text)
    BY <1>1, <2>4 DEF Chat!Edit
  <2> QED
    BY <1>1, <2>5, MappedFacts DEF Chat!Next
<1> QED
  BY <1>2, <1>3 DEF UpdateMessage

(* Every step maps to a step of a conversation or to none.                  *)
LEMMA NextMaps == Inv /\ AllAddressed /\ [Next]_vars => [Chat!Next]_Chat!chatVars
<1> SUFFICES ASSUME Inv, AllAddressed, [Next]_vars PROVE [Chat!Next]_Chat!chatVars
  OBVIOUS
<1>1. CASE /\ DOMAIN rooms' = DOMAIN rooms /\ UNCHANGED msgs
           /\ \A r \in DOMAIN rooms : rooms'[r].members = rooms[r].members
  BY <1>1 DEF Members, Letters, Chat!chatVars
<1>2. ASSUME NEW s \in Servers, MarkReplied(s) \/ MarkRead(s)
      PROVE  [Chat!Next]_Chat!chatVars
  <2>1. UNCHANGED rooms
    BY <1>2 DEF MarkReplied, MarkRead
  <2>2. CASE msgs' = msgs
    BY <1>1, <2>1, <2>2
  <2>3. CASE MarkReplied(s) /\ msgs' = [msgs EXCEPT ![task[s].replyTo].read = TRUE]
    <3>1. task[s] \in ReplyTask /\ TaskOK(s)
      BY <2>3, TaskFacts DEF Inv, TasksOK, MarkReplied
    <3> QED
      BY <2>1, <2>3, <3>1, ReadMaps DEF TaskOK
  <2>4. CASE MarkRead(s) /\ msgs' = [msgs EXCEPT ![task[s].msg].read = TRUE]
    <3>1. task[s] \in MarkTask /\ TaskOK(s)
      BY <2>4, TaskFacts DEF Inv, TasksOK, MarkRead
    <3> QED
      BY <2>1, <2>4, <3>1, ReadMaps DEF TaskOK
  <2> QED
    BY <1>2, <2>2, <2>3, <2>4 DEF MarkReplied, MarkRead
<1>3. ASSUME NEW s \in Servers, Begin(s) \/ Continue(s),
             ~(CreateRoom(s) \/ InsertMessage(s) \/ MarkReplied(s) \/ MarkRead(s) \/ UpdateMessage(s))
      PROVE  UNCHANGED msgs
  BY <1>3 DEF Begin, StartSend, StartReply, StartMark, StartEdit, StartGet, Continue, FindRoom,
              UpdateRoomMetadata, Invalidate, Stamp, Fetch, FillCache
<1>4. Tick \/ (\E r \in RoomIds : Expire(r)) \/ UNCHANGED vars => UNCHANGED msgs
  BY DEF Tick, Expire, vars
<1>5. CASE \E s \in Servers : CreateRoom(s)
  BY <1>5, CreateMaps
<1>6. CASE ~\E s \in Servers : CreateRoom(s)
  BY <1>1, <1>2, <1>3, <1>4, <1>6, RoomsChange, InsertMaps, EditMaps DEF Next, Continue
<1> QED
  BY <1>5, <1>6


LEMMA AddressedAlways == Spec => [](Inv /\ AllAddressed)
<1>1. Init => AllAddressed
  <2>1. Idle.at # "insert"
    BY DEF Idle
  <2> QED
    BY <2>1 DEF Init, AllAddressed, Addressed
<1>2. Inv /\ AllAddressed /\ [Next]_vars => Inv' /\ AllAddressed'
  BY NextInv, AddressedStep DEF AllAddressed
<1> QED
  BY <1>1, <1>2, InitInv, PTL DEF Spec

(* An earlier process has opened the room of a first message and posted it. *)
LEMMA InitMaps == Init => Chat!Init
<1>1. SUFFICES ASSUME Init PROVE Chat!Init
  OBVIOUS
<1>2. CASE rooms = <<>> /\ msgs = <<>>
  <2>1. DOMAIN rooms = {} /\ DOMAIN msgs = {}
    BY <1>2
  <2>2. Members = <<>> /\ Letters = <<>>
    BY <2>1 DEF Members, Letters
  <2> QED
    BY <2>2 DEF Chat!Init
<1>3. ASSUME NEW u \in Users, NEW p \in Users, NEW text \in NewTexts, u # p,
             rooms = <<[NewRoom(u, p, 0) EXCEPT !.unread[u] = 1]>>,
             msgs = <<NewMessage(1, u, p, text, 0)>>
      PROVE  Chat!Init
  <2>1. DOMAIN rooms = 1..1 /\ DOMAIN msgs = 1..1 /\ text \in Texts
    BY <1>3, TextsAssumption
  <2>2. rooms[1].members = {u, p}
    BY <1>3 DEF NewRoom
  <2>3. LetterOf(msgs[1]) = Chat!Letter(1, u, p, text, 0)
    BY <1>3 DEF NewMessage, LetterOf, Chat!Letter
  <2>4. Members = [r \in 1..1 |-> {u, p}]
    BY <2>1, <2>2 DEF Members
  <2>5. Letters = [m \in 1..1 |-> Chat!Letter(1, u, p, text, 0)]
    BY <2>1, <2>3 DEF Letters
  <2>6. Members = <<{u, p}>> /\ Letters = <<Chat!Letter(1, u, p, text, 0)>>
    BY <2>4, <2>5
  <2> QED
    BY <1>3, <2>1, <2>6 DEF Chat!Init
<1> QED
  BY <1>1, <1>2, <1>3 DEF Init

(* The requests implement Conversation: what a request found out about a    *)
(* room or a message still holds when it writes, however long ago that was, *)
(* and each of its writes is one step of the conversation                   *)
(* (chat-service.go:40-365, chat-repo.go:224-300).                          *)
THEOREM RequestsImplementConversation == Spec => ImplementsConversation
BY InitMaps, NextMaps, AddressedAlways, PTL DEF Spec, Chat!Spec, ImplementsConversation

(* In Conversation an answer stays in the room of what it answers and comes *)
(* after it, and a message that answers none is between two members of its  *)
(* room: with ImplementsConversation the stored messages are threaded so    *)
(* (chat-service.go:147-183).                                               *)
THEOREM ConversationsAreThreaded == Spec => []Chat!Threaded
<1>1. Chat!Init => Chat!Threaded
  <2>1. ASSUME NEW u, NEW p, NEW text, Members = <<{u, p}>>,
               Letters = <<Chat!Letter(1, u, p, text, 0)>>
        PROVE  Chat!Threaded
    BY <2>1 DEF Chat!Letter, Chat!Threaded
  <2> QED
    BY <2>1 DEF Chat!Init, Chat!Threaded
<1>2. Inv /\ AllAddressed /\ Chat!Threaded /\ [Next]_vars => Chat!Threaded'
  <2>1. SUFFICES ASSUME Inv, AllAddressed, Chat!Threaded, [Next]_vars PROVE Chat!Threaded'
    OBVIOUS
  <2> DEFINE n == Len(Letters)
  <2>2. /\ [Chat!Next]_Chat!chatVars
        /\ n \in Nat /\ DOMAIN Letters = 1..n /\ Letters \in Seq(LetterType)
        /\ \A m \in 1..n : Letters[m] \in LetterType
    BY <2>1, NextMaps, MappedFacts, LenProperties, ElementOfSeq
  <2>3. \A m \in 1..n : Letters[m].answers \in Nat
    BY <2>2 DEF LetterType
  <2>4. \A m \in 1..n : Letters[m].room \in DOMAIN Members
    <3>1. \A m \in DOMAIN msgs : msgs[m].room \in DOMAIN rooms
      BY <2>1 DEF Inv, MsgsOK
    <3>2. \A m \in DOMAIN msgs : Letters[m].room = msgs[m].room
      BY <2>1, MappedFacts DEF LetterOf
    <3>3. DOMAIN Letters = DOMAIN msgs /\ DOMAIN Members = DOMAIN rooms
      BY <2>1, MappedFacts
    <3> QED
      BY <2>2, <3>1, <3>2, <3>3
  <2>5. \A r \in DOMAIN Members : r \in DOMAIN Members' /\ Members'[r] = Members[r]
    BY <2>1, MappedFacts, RoomsStay DEF Members
  <2>6. ASSUME DOMAIN Letters' = 1..n,
               \A m \in 1..n : /\ Letters'[m].room = Letters[m].room
                               /\ Letters'[m].from = Letters[m].from
                               /\ Letters'[m].to = Letters[m].to
                               /\ Letters'[m].answers = Letters[m].answers
        PROVE  Chat!Threaded'
    BY <2>1, <2>2, <2>3, <2>4, <2>5, <2>6 DEF Chat!Threaded
  <2>7. ASSUME NEW letter \in LetterType, Letters' = Append(Letters, letter),
               IF letter.answers = 0
                 THEN {letter.from, letter.to} \subseteq Members'[letter.room]
                 ELSE letter.answers \in 1..n /\ Letters[letter.answers].room = letter.room
        PROVE  Chat!Threaded'
    <3>1. /\ DOMAIN Letters' = 1..(n + 1)
          /\ Letters' = [m \in 1..(n + 1) |-> IF m = n + 1 THEN letter ELSE Letters[m]]
      BY <2>2, <2>7, AppendFacts
    <3>2. Letters'[n + 1] = letter /\ \A m \in 1..n : Letters'[m] = Letters[m]
      BY <2>2, <3>1
    <3>3. \A m \in 1..(n + 1) : m = n + 1 \/ m \in 1..n
      BY <2>2
    <3> HIDE DEF n
    <3>4. ASSUME NEW m \in 1..n
          PROVE  IF Letters'[m].answers = 0
                   THEN {Letters'[m].from, Letters'[m].to} \subseteq Members'[Letters'[m].room]
                   ELSE /\ Letters'[m].answers < m
                        /\ Letters'[Letters'[m].answers].room = Letters'[m].room
      <4>1. Letters'[m] = Letters[m] /\ Letters[m].answers \in Nat /\ n \in Nat
        BY <2>2, <2>3, <3>2
      <4>2. CASE Letters[m].answers = 0
        BY <2>1, <2>2, <2>4, <2>5, <4>1, <4>2 DEF Chat!Threaded
      <4>3. CASE Letters[m].answers # 0
        <5>1. /\ Letters[m].answers < m
              /\ Letters[Letters[m].answers].room = Letters[m].room
          BY <2>1, <2>2, <4>3 DEF Chat!Threaded
        <5>2. Letters[m].answers \in 1..n
          BY <4>1, <4>3, <5>1
        <5> QED
          BY <3>2, <4>1, <4>3, <5>1, <5>2
      <4> QED
        BY <4>2, <4>3
    <3>5. IF letter.answers = 0
            THEN {letter.from, letter.to} \subseteq Members'[letter.room]
            ELSE /\ letter.answers < n + 1
                 /\ Letters'[letter.answers].room = letter.room
      BY <2>2, <2>7, <3>2
    <3> QED
      BY <3>1, <3>2, <3>3, <3>4, <3>5 DEF Chat!Threaded
  <2>8. CASE UNCHANGED Chat!chatVars
    BY <2>2, <2>6, <2>8 DEF Chat!chatVars
  <2>9. ASSUME NEW u, NEW p, Chat!Open(u, p) PROVE Chat!Threaded'
    BY <2>2, <2>6, <2>9 DEF Chat!Open
  <2>10. ASSUME NEW r \in DOMAIN Members, NEW u \in Users, NEW p \in Users, NEW text \in Texts,
                Chat!Post(r, u, p, text)
         PROVE  Chat!Threaded'
    <3> DEFINE letter == Chat!Letter(r, u, p, text, 0)
    <3>1. r \in Nat
      BY <2>1, MappedFacts, Sizes DEF Inv
    <3>2. /\ letter \in LetterType /\ letter.answers = 0 /\ letter.from = u /\ letter.to = p
          /\ letter.room = r
      BY <3>1 DEF Chat!Letter, LetterType
    <3>3. Letters' = Append(Letters, letter) /\ {u, p} \subseteq Members'[r]
      BY <2>5, <2>10 DEF Chat!Post
    <3> HIDE DEF letter
    <3> QED
      BY <2>7, <3>2, <3>3
  <2>11. ASSUME NEW m \in DOMAIN Letters, NEW u \in Users, NEW p \in Users, NEW text \in Texts,
                Chat!Answer(m, u, p, text)
         PROVE  Chat!Threaded'
    <3> DEFINE letter == Chat!Letter(Letters[m].room, u, p, text, m)
    <3>1. Letters[m].room \in Nat /\ m \in Nat /\ m # 0 /\ m \in 1..n
      BY <2>2 DEF LetterType
    <3>2. letter \in LetterType /\ letter.answers = m /\ letter.room = Letters[m].room
      BY <3>1 DEF Chat!Letter, LetterType
    <3>3. Letters' = Append(Letters, letter)
      BY <2>11 DEF Chat!Answer
    <3> HIDE DEF letter, n
    <3> QED
      BY <2>7, <3>1, <3>2, <3>3
  <2>12. ASSUME NEW m \in DOMAIN Letters, Chat!Read(m) \/ \E text \in Texts : Chat!Edit(m, text)
         PROVE  Chat!Threaded'
    <3>1. /\ DOMAIN Letters' = DOMAIN Letters
          /\ \A k \in 1..n : k # m => Letters'[k] = Letters[k]
      BY <2>2, <2>12 DEF Chat!Read, Chat!Edit
    <3>2. /\ Letters'[m].room = Letters[m].room /\ Letters'[m].from = Letters[m].from
          /\ Letters'[m].to = Letters[m].to /\ Letters'[m].answers = Letters[m].answers
      BY <2>2, <2>12 DEF Chat!Read, Chat!Edit, LetterType
    <3> QED
      BY <2>2, <2>6, <3>1, <3>2
  <2> QED
    BY <2>2, <2>8, <2>9, <2>10, <2>11, <2>12 DEF Chat!Next
<1> QED
  BY <1>1, <1>2, InitMaps, AddressedAlways, PTL DEF Spec
=============================================================================
