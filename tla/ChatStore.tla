------------------------------ MODULE ChatStore ------------------------------
(***************************************************************************)
(* Private messages (chat-service.go over chat-repo.go): the requests that *)
(* send, fetch, answer, mark as read and edit messages, each a goroutine   *)
(* of the HTTP server that makes one call after the other to PostgreSQL    *)
(* (rooms and their members), MongoDB (messages) and Redis (a cached page  *)
(* per room).  No transaction spans two calls, except the one that creates *)
(* a room with its members, so the requests interleave between the calls.  *)
(*                                                                         *)
(* Rooms and messages are numbered in the order of their creation; a room  *)
(* never changes but for its unread counts and nothing is ever deleted.    *)
(* Reads of what cannot change are part of the step that follows them.     *)
(* The clock is the one that stamps messages, with the milliseconds that   *)
(* MongoDB keeps.  The schema is the one the entities describe (the        *)
(* column last_message_at exists).                                         *)
(***************************************************************************)
EXTENDS Integers, Sequences, FiniteSets

CONSTANTS
    Users,
    Texts, NewTexts,    \* contents of messages, and those of new ones
    Limits,         \* page sizes that are asked for
    Servers,        \* the goroutines that serve requests
    EditWindow,     \* 15 minutes
    MaxTime,        \* bound on the clock
    MaxRequests,    \* bound on the requests served
    MaxFaults,      \* bound on the calls that fail
    Faults          \* as in WorkerPool, without "crash"

ASSUME ServersAssumption == IsFiniteSet(Servers)
ASSUME TextsAssumption  == NewTexts \subseteq Texts
ASSUME LimitsAssumption == Limits \subseteq Nat \ {0}
ASSUME BoundAssumption  == {EditWindow, MaxTime, MaxRequests, MaxFaults} \subseteq Nat
ASSUME FaultAssumption  == Faults \subseteq {"refused", "lostReply"}

VARIABLES
    rooms,      \* rooms and room_members: members, unread_count of each
    msgs,       \* the collection "messages"
    cache,      \* "chat:<room>": the page that is cached, if any
    task,       \* what each server goroutine is doing, and its locals
    now,        \* the clock
    served,     \* how many requests were started
    faults      \* how many calls failed

vars == <<rooms, msgs, cache, task, now, served, faults>>

Never    == -1
RoomIds  == 1..(MaxRequests + 1)    \* a request creates at most one room
NoCursor == MaxRequests + 2         \* and one message

Idle == [at |-> "idle"]

\* looked, texts and raced are history: how many rooms there were when the
\* lookup found none, the contents a message has had, and whether two edits
\* were each made as its first.
NewRoom(u, p, looked) ==
    [members |-> {u, p}, creator |-> u, looked |-> looked, unread |-> [x \in Users |-> 0]]
NewMessage(r, u, p, text, replyTo) ==
    [room |-> r, sender |-> u, receiver |-> p, text |-> text, texts |-> {text},
     replyTo |-> replyTo, read |-> FALSE, createdAt |-> now, updatedAt |-> Never,
     raced |-> FALSE]

\* The stores are empty, or an earlier process has served a first message.
Init ==
    /\ now = 0 /\ served = 0 /\ faults = 0
    /\ \/ rooms = <<>> /\ msgs = <<>>
       \/ \E u, p \in Users, text \in NewTexts :
             /\ u # p
             /\ rooms = <<[NewRoom(u, p, 0) EXCEPT !.unread[u] = 1]>>
             /\ msgs = <<NewMessage(1, u, p, text, 0)>>
    /\ cache = [r \in RoomIds |-> {}]
    /\ task = [s \in Servers |-> Idle]

-----------------------------------------------------------------------------
(* A call of a store: its reply, and whether it took effect.  A request     *)
(* whose client has gone makes refused calls.                               *)

Replies == {"ok"} \cup (IF faults < MaxFaults THEN Faults ELSE {})
Applied(reply) == reply \in {"ok", "lostReply"}
Count(reply) == faults' = IF reply = "ok" THEN faults ELSE faults + 1

Goto(s, step) == task' = [task EXCEPT ![s].at = step]
End(s)        == task' = [task EXCEPT ![s] = Idle]
\* On with the request if the call was answered, or end it with an error.
OnOk(s, reply, step) == IF reply = "ok" THEN Goto(s, step) ELSE End(s)

Start(s, request) ==
    /\ task[s] = Idle /\ served < MaxRequests
    /\ served' = served + 1
    /\ task' = [task EXCEPT ![s] = request]

-----------------------------------------------------------------------------
(* SendPrivateMessage.                                                      *)

StartSend(s, u, p, text) ==
    /\ Start(s, [at |-> "find", op |-> "send", user |-> u, peer |-> p, text |-> text,
                 room |-> 0, replyTo |-> 0, looked |-> 0])
    /\ UNCHANGED <<rooms, msgs, cache, now, faults>>

PrivateRoomsOfCreator(u, p) ==
    {r \in DOMAIN rooms : {u, p} \subseteq rooms[r].members /\ rooms[r].creator = u}
\* findPrivateRoom.
PrivateRooms(u, p) == {r \in DOMAIN rooms : {u, p} \subseteq rooms[r].members}

\* FindOrCreateRoom: the lookup; the first of the rooms found, by their uuid.
FindRoom(s) ==
    LET found == PrivateRooms(task[s].user, task[s].peer) IN
    /\ task[s].at = "find"
    /\ \/ /\ \E r \in found :
                task' = [task EXCEPT ![s].at = "insert", ![s].room = r]
          /\ UNCHANGED faults
       \/ /\ found = {}
          /\ task' = [task EXCEPT ![s].at = "create", ![s].looked = Len(rooms)]
          /\ UNCHANGED faults
       \/ \E reply \in Replies \ {"ok"} : End(s) /\ Count(reply)
    /\ UNCHANGED <<rooms, msgs, cache, now, served>>

(* The transaction of createPrivateRoom.  A user may be a member of a room  *)
(* once, so a room with oneself is refused.                                 *)
CreateRoom(s) ==
    LET u == task[s].user  p == task[s].peer IN
    /\ task[s].at = "create"
    /\ \E reply \in IF u = p THEN {"refused"} ELSE Replies :
          /\ rooms' = IF Applied(reply)
                        THEN Append(rooms, NewRoom(u, p, task[s].looked)) ELSE rooms
          /\ IF reply = "ok"
               THEN task' = [task EXCEPT ![s].at = "insert", ![s].room = Len(rooms) + 1]
               ELSE End(s)
          /\ IF u = p THEN UNCHANGED faults ELSE Count(reply)
    /\ UNCHANGED <<msgs, cache, now, served>>

InsertMessageUnchecked(s) ==
    LET q == task[s]  new == NewMessage(q.room, q.user, q.peer, q.text, q.replyTo) IN
    /\ q.at = "insert"
    /\ \E reply \in Replies :
          /\ msgs' = IF Applied(reply) THEN Append(msgs, new) ELSE msgs
          /\ Goto(s, IF q.op = "reply" THEN "markReplied" ELSE "metadata")
          /\ Count(reply)
    /\ UNCHANGED <<rooms, cache, now, served>>
\* CreateMessage, for a message or a reply.
InsertMessage(s) ==
    LET q == task[s]  new == NewMessage(q.room, q.user, q.peer, q.text, q.replyTo) IN
    /\ q.at = "insert"
    /\ \E reply \in Replies :
          /\ msgs' = IF Applied(reply) THEN Append(msgs, new) ELSE msgs
          /\ OnOk(s, reply, IF q.op = "reply" THEN "markReplied" ELSE "metadata")
          /\ Count(reply)
    /\ UNCHANGED <<rooms, cache, now, served>>

(* UpdateRoomMetadata: the row of the sender, whose own count goes up.      *)
(* Nothing happens when the sender has no row.                              *)
UpdateRoomMetadata(s) ==
    LET r == task[s].room  u == task[s].user IN
    /\ task[s].at = "metadata"
    /\ \E reply \in Replies :
          /\ rooms' = IF Applied(reply) /\ u \in rooms[r].members
                        THEN [rooms EXCEPT ![r].unread[u] = @ + 1] ELSE rooms
          /\ IF task[s].op = "reply" THEN OnOk(s, reply, "invalidate") ELSE End(s)
          /\ Count(reply)
    /\ UNCHANGED <<msgs, cache, now, served>>

-----------------------------------------------------------------------------
(* ReplyPrivateMessage.                                                     *)

StartReplyAnywhere(s, u, p, r, m, text) ==
    /\ {u, p} \cap rooms[r].members # {}
    /\ Start(s, [at |-> "insert", op |-> "reply", user |-> u, peer |-> p, text |-> text,
                 room |-> r, replyTo |-> m])
    /\ UNCHANGED <<rooms, msgs, cache, now, faults>>
\* The checks: the sender or the named receiver is a member, and the
\* message answered is in the room.
StartReply(s, u, p, r, m, text) ==
    /\ {u, p} \cap rooms[r].members # {}
    /\ msgs[m].room = r
    /\ Start(s, [at |-> "insert", op |-> "reply", user |-> u, peer |-> p, text |-> text,
                 room |-> r, replyTo |-> m])
    /\ UNCHANGED <<rooms, msgs, cache, now, faults>>

\* ReplyMessage sets is_read of the message that is answered.
MarkReplied(s) ==
    /\ task[s].at = "markReplied"
    /\ \E reply \in Replies :
          /\ msgs' = IF Applied(reply)
                       THEN [msgs EXCEPT ![task[s].replyTo].read = TRUE] ELSE msgs
          /\ OnOk(s, reply, "metadata")
          /\ Count(reply)
    /\ UNCHANGED <<rooms, cache, now, served>>

\* DeleteCacheData, of a reply, a read mark or an edit; its error is ignored.
Invalidate(s) ==
    /\ task[s].at = "invalidate"
    /\ \E reply \in Replies :
          /\ cache' = IF Applied(reply)
                        THEN [cache EXCEPT ![task[s].room] = {}] ELSE cache
          /\ IF task[s].op = "mark" THEN Goto(s, "markRead") ELSE End(s)
          /\ Count(reply)
    /\ UNCHANGED <<rooms, msgs, now, served>>

-----------------------------------------------------------------------------
(* MarkPrivateMessageAsRead: the cache is invalidated before the write.     *)

StartMark(s, u, m) ==
    /\ u \in rooms[msgs[m].room].members /\ u # msgs[m].sender
    /\ ~msgs[m].read
    /\ Start(s, [at |-> "invalidate", op |-> "mark", room |-> msgs[m].room, msg |-> m])
    /\ UNCHANGED <<rooms, msgs, cache, now, faults>>

MarkRead(s) ==
    /\ task[s].at = "markRead"
    /\ \E reply \in Replies :
          /\ msgs' = IF Applied(reply)
                       THEN [msgs EXCEPT ![task[s].msg].read = TRUE] ELSE msgs
          /\ Count(reply)
    /\ End(s)
    /\ UNCHANGED <<rooms, cache, now, served>>

-----------------------------------------------------------------------------
(* UpdatePrivateMessage.                                                    *)

\* The original is read, and the checks are made on it.
StartEdit(s, m, text) ==
    /\ msgs[m].sender \in rooms[msgs[m].room].members
    /\ now - msgs[m].createdAt <= EditWindow
    /\ text # msgs[m].text
    /\ Start(s, [at |-> "stamp", op |-> "edit", room |-> msgs[m].room, msg |-> m,
                 text |-> text, original |-> msgs[m], stamp |-> 0])
    /\ UNCHANGED <<rooms, msgs, cache, now, faults>>

\* time.Now(), before the update is sent.
Stamp(s) ==
    /\ task[s].at = "stamp"
    /\ task' = [task EXCEPT ![s].at = "update", ![s].stamp = now]
    /\ UNCHANGED <<rooms, msgs, cache, now, served, faults>>

\* The filter: a message that was never edited when it was read has no lock.
UnchangedUnlocked(original, current) == TRUE
Unchanged(original, current) ==
    \/ original.updatedAt = Never
    \/ current.updatedAt <= original.updatedAt

EditedReplaced(original, current, text, stamp) ==
    [original EXCEPT !.text = text, !.texts = current.texts \cup {text}, !.updatedAt = stamp]
\* The $set; message_edit_history is left out.
Edited(original, current, text, stamp) ==
    [current EXCEPT !.text = text, !.texts = @ \cup {text}, !.updatedAt = stamp,
        !.raced = @ \/ (original.updatedAt = Never /\ current.updatedAt # Never)]

UpdateMessage(s) ==
    LET q == task[s] IN
    /\ q.at = "update"
    /\ \E reply \in Replies :
          /\ IF Applied(reply) /\ Unchanged(q.original, msgs[q.msg])
               THEN msgs' = [msgs EXCEPT ![q.msg] = Edited(q.original, @, q.text, q.stamp)]
               ELSE UNCHANGED msgs
          /\ IF Unchanged(q.original, msgs[q.msg]) THEN OnOk(s, reply, "invalidate")
                                                   ELSE End(s)
          /\ Count(reply)
    /\ UNCHANGED <<rooms, cache, now, served>>

-----------------------------------------------------------------------------
(* GetPrivateMessage: a hit ends the request, whatever page was asked for;  *)
(* an error of the cache is a miss.                                         *)

StartGet(s, r, limit, before) ==
    /\ cache[r] = {} \/ Replies # {"ok"}
    /\ Start(s, [at |-> "fetch", op |-> "get", room |-> r, limit |-> limit,
                 before |-> before, page |-> {}])
    /\ faults' = IF cache[r] = {} THEN faults ELSE faults + 1
    /\ UNCHANGED <<rooms, msgs, cache, now>>

View(m) == [msg |-> m, text |-> msgs[m].text, read |-> msgs[m].read]
PageOfAnyRoom(r, limit, before) == {View(m) : m \in {k \in DOMAIN msgs : k < before}}
\* The latest limit messages of the room before a message.
Page(r, limit, before) ==
    {View(m) : m \in {k \in DOMAIN msgs :
        /\ msgs[k].room = r /\ k < before
        /\ Cardinality({l \in DOMAIN msgs : msgs[l].room = r /\ k < l /\ l < before}) < limit}}

Fetch(s) ==
    LET q == task[s] IN
    /\ q.at = "fetch"
    /\ \/ /\ task' = [task EXCEPT ![s].at = "fill", ![s].page = Page(q.room, q.limit, q.before)]
          /\ UNCHANGED faults
       \/ \E reply \in Replies \ {"ok"} : End(s) /\ Count(reply)
    /\ UNCHANGED <<rooms, msgs, cache, now, served>>

\* SetCacheData; its error is ignored.
FillCache(s) ==
    /\ task[s].at = "fill"
    /\ \E reply \in Replies :
          /\ cache' = IF Applied(reply)
                        THEN [cache EXCEPT ![task[s].room] = {task[s].page}] ELSE cache
          /\ Count(reply)
    /\ End(s)
    /\ UNCHANGED <<rooms, msgs, now, served>>

-----------------------------------------------------------------------------
(* The clock, and the expiry of a cached page after 5 minutes.              *)

Tick ==
    /\ now < MaxTime
    /\ now' = now + 1
    /\ UNCHANGED <<rooms, msgs, cache, task, served, faults>>

Expire(r) ==
    /\ cache[r] # {}
    /\ cache' = [cache EXCEPT ![r] = {}]
    /\ UNCHANGED <<rooms, msgs, task, now, served, faults>>

Begin(s) ==
    \/ \E u, p \in Users, text \in NewTexts : StartSend(s, u, p, text)
    \/ \E u, p \in Users, r \in DOMAIN rooms, m \in DOMAIN msgs, text \in NewTexts :
          StartReply(s, u, p, r, m, text)
    \/ \E u \in Users, m \in DOMAIN msgs : StartMark(s, u, m)
    \/ \E m \in DOMAIN msgs, text \in Texts : StartEdit(s, m, text)
    \/ \E r \in DOMAIN rooms, limit \in Limits, before \in DOMAIN msgs \cup {NoCursor} :
          StartGet(s, r, limit, before)

Continue(s) ==
    \/ FindRoom(s) \/ CreateRoom(s) \/ InsertMessage(s) \/ UpdateRoomMetadata(s)
    \/ MarkReplied(s) \/ Invalidate(s) \/ MarkRead(s)
    \/ Stamp(s) \/ UpdateMessage(s) \/ Fetch(s) \/ FillCache(s)

Next ==
    \/ Tick
    \/ \E r \in RoomIds : Expire(r)
    \/ \E s \in Servers : Begin(s) \/ Continue(s)

Spec == Init /\ [][Next]_vars
-----------------------------------------------------------------------------
(* Type invariant.                                                          *)
TypeOK ==
    /\ \A r \in DOMAIN rooms :
          /\ rooms[r].members \subseteq Users /\ rooms[r].creator \in rooms[r].members
          /\ rooms[r].looked \in 0..(r - 1)
          /\ rooms[r].unread \in [Users -> Nat]
    /\ \A m \in DOMAIN msgs :
          /\ msgs[m].room \in DOMAIN rooms /\ {msgs[m].sender, msgs[m].receiver} \subseteq Users
          /\ msgs[m].text \in msgs[m].texts /\ msgs[m].texts \subseteq Texts
          /\ msgs[m].replyTo \in 0..(m - 1)
          /\ msgs[m].createdAt \in 0..now /\ msgs[m].updatedAt \in {Never} \cup 0..now
          /\ {msgs[m].read, msgs[m].raced} \subseteq BOOLEAN
    /\ \A r \in RoomIds : Cardinality(cache[r]) <= 1
    /\ \A s \in Servers : task[s] # Idle =>
          task[s].room \in DOMAIN rooms \/ task[s].at \in {"find", "create"}
    /\ now \in 0..MaxTime /\ served \in 0..MaxRequests /\ faults \in 0..MaxFaults

(* A first message makes a second room for the same two users only when its *)
(* lookup was over before the first room was there (chat-repo.go:33-56):    *)
(* whoever of the two writes, and however often calls fail, the room is     *)
(* reused.                                                                  *)
RoomReusedUnlessRaced ==
    \A i, k \in DOMAIN rooms :
        i < k /\ rooms[i].members = rooms[k].members => rooms[k].looked < i

(* The unread counts in PostgreSQL follow the messages in MongoDB: each     *)
(* message a member writes raises one of the two counts of the room, and    *)
(* once.  Their sum never runs ahead of the messages, however often calls   *)
(* fail, and while none has failed it lags behind only by the requests      *)
(* between the two writes (chat-repo.go:143-156, 233-249).  Whose count it  *)
(* should be is left open.                                                  *)
Written(r) == {m \in DOMAIN msgs : msgs[m].room = r /\ msgs[m].sender \in rooms[r].members}
Uncounted(r) ==
    {s \in Servers : /\ task[s].at \in {"markReplied", "metadata"}
                     /\ task[s].room = r /\ task[s].user \in rooms[r].members}
UnreadFollowsMessages ==
    \A r \in DOMAIN rooms : \A u, p \in rooms[r].members :
        LET n == rooms[r].unread[u] + rooms[r].unread[p] + Cardinality(Uncounted(r))
        IN  u # p => /\ n <= Cardinality(Written(r))
                     /\ faults = 0 => n = Cardinality(Written(r))

(* A message once read stays read, although an edit, a reply and a read     *)
(* mark of the same message write it from what they read before.            *)
ReadStays ==
    [][\A m \in DOMAIN msgs : msgs[m].read => msgs'[m].read]_vars

(* What is cached may be stale, but every line of it was true: a message of *)
(* that room, with a content it has had, and read only if it is.  TypeOK is *)
(* checked with it.                                                         *)
CacheNeverAhead ==
    TypeOK /\ \A r \in RoomIds : \A page \in cache[r] : \A v \in page :
        /\ v.msg \in DOMAIN msgs /\ msgs[v.msg].room = r
        /\ v.text \in msgs[v.msg].texts
        /\ v.read => msgs[v.msg].read

\* Server s writes its edit of message m over a content its author did not see.
Overwrites(s, m) ==
    /\ task[s].at = "update" /\ task[s].msg = m
    /\ task[s].original.text # msgs[m].text
    /\ msgs'[m].text = task[s].text /\ task'[s] # task[s] /\ msgs' # msgs

(* The optimistic lock (chat-repo.go:276-279), as far as it goes: once a    *)
(* message has been edited, and not by two first edits at once, an edit is  *)
(* overwritten unseen only by one that was stamped after an edit of the     *)
(* same millisecond.                                                        *)
LockedAfterFirstEdit ==
    [][\A s \in Servers, m \in DOMAIN msgs :
          Overwrites(s, m) /\ task[s].original.updatedAt # Never /\ ~msgs[m].raced
              => msgs[m].updatedAt = task[s].original.updatedAt]_vars

Members == [r \in DOMAIN rooms |-> rooms[r].members]
LetterOf(msg) ==
    [room |-> msg.room, from |-> msg.sender, to |-> msg.receiver, text |-> msg.text,
     answers |-> msg.replyTo, read |-> msg.read]
Letters == [m \in DOMAIN msgs |-> LetterOf(msgs[m])]

Chat == INSTANCE Conversation WITH members <- Members, letters <- Letters

(* The requests implement Conversation: however their calls interleave and  *)
(* fail, a message is posted for the members that were looked up and in the *)
(* room of the message it answers, and each later write reads or edits one  *)
(* message and leaves the rest of it alone (chat-service.go:40-365,         *)
(* chat-repo.go:224-300).                                                   *)
ImplementsConversation == Chat!Spec
=============================================================================
