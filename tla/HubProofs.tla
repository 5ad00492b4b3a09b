----------------------------- MODULE HubProofs -----------------------------
(* Theorems about Hub, for any number of clients, users and rooms, and for  *)
(* any number of connections and messages.                                  *)
EXTENDS Hub, TLAPS

(***************************************************************************)
(* The inductive invariant.                                                *)
(***************************************************************************)

Names == {"connect", "reader", "closer", "pump", "pump2"}
At(c, name)  == task[<<c, name>>].at
AnyRoom == Rooms \cup {NoRoom}
TaskType == [at : {"idle", "done", "rename", "cleanup", "addRoom", "addUser", "start",
                   "online", "delRoom", "delUser", "check", "offline"},
             room : AnyRoom, join : AnyRoom]
Registering   == {"addRoom", "addUser", "start", "online"}
Unregistering == {"delRoom", "delUser", "check", "offline"}
Left          == {"delUser", "check", "offline"}

Types ==
    /\ TypeOK
    /\ userClients \in [Users -> SUBSET Clients]
    /\ task \in [Threads -> TaskType]
    /\ joins \in [Clients -> Nat] /\ overlapped \subseteq Clients

\* The client is in its user's list.
Tracked(c) == c \in userClients[UserOf[c]]

\* What each goroutine of a client can be doing, and since when.
Order(c) ==
    /\ At(c, "connect") \in {"idle", "done"} \cup Registering
    /\ task[<<c, "connect">>].join = NoRoom
    /\ At(c, "connect") \in {"idle", "addRoom"} =>
           RoomsOf(c) = {} /\ ~Tracked(c) /\ At(c, "closer") = "idle"
    /\ At(c, "connect") \in {"idle", "addRoom", "addUser", "start"} => pumps[c] = 0
    /\ At(c, "connect") # "idle" => roomOf[c] \in Rooms
    /\ At(c, "connect") = "addRoom" => task[<<c, "connect">>].room = roomOf[c]
    /\ pumps[c] = 0 => \A name \in {"reader", "pump", "pump2"} : At(c, name) = "idle"
    /\ \A name \in {"reader", "closer"} :
           /\ At(c, name) \in {"idle", "done", "cleanup"} \cup Unregistering
           /\ task[<<c, name>>].join = NoRoom
    /\ active[c] => At(c, "closer") = "idle"
    /\ \A p \in Pumps : At(c, p) \notin {"done", "cleanup"} /\ (At(c, p) = "rename" => task[<<c, p>>].join \in Rooms)

\* A client that sent no message is in its room until its cleanup has taken it
\* out, and in none from then on.
Unmoved(c) ==
    joins[c] = 0 =>
        /\ roomOf[c] # Empty
        /\ \A p \in Pumps : At(c, p) = "idle"
        /\ RoomsOf(c) \subseteq {roomOf[c]}
        /\ \A name \in {"reader", "closer"} :
               /\ At(c, name) = "delRoom" => task[<<c, name>>].room = roomOf[c]
               /\ At(c, name) \in Left \cup {"done"} => RoomsOf(c) = {}

\* One message at a time: apart from the room with the empty name, the room the
\* client is in is the one its pump left behind, until it is taken out of that
\* one and entered in the next.
InRoomOf(c) == RoomsOf(c) \subseteq {roomOf[c], Empty}
Serial(c) ==
    c \notin overlapped /\ active[c] /\ At(c, "reader") = "idle" =>
        /\ At(c, "pump") = "idle" \/ At(c, "pump2") = "idle"
        /\ (\A p \in Pumps : At(c, p) = "idle") => InRoomOf(c)
        /\ \A p \in Pumps :
               /\ At(c, p) = "rename" => task[<<c, p>>].room = roomOf[c] /\ InRoomOf(c)
               /\ At(c, p) = "delRoom" => RoomsOf(c) \subseteq {task[<<c, p>>].room, Empty}
               /\ At(c, p) \in Left => RoomsOf(c) \subseteq {Empty}
               /\ At(c, p) \in Unregistering => task[<<c, p>>].join \in {NoRoom, roomOf[c]}
               /\ At(c, p) = "addRoom" => task[<<c, p>>].room = roomOf[c]
               /\ At(c, p) \in Registering => InRoomOf(c)

ClientInv(c) == Order(c) /\ Unmoved(c) /\ Serial(c)

\* An announcement that is owed has someone to make it, or need not be made.
OwedInv ==
    \A r \in Rooms, u \in Users : <<r, u>> \in owed =>
        \/ MembersOf(r, u) # {}
        \/ \E t \in Threads : UserOf[t[1]] = u /\ task[t].at \in Left /\ task[t].room = r

HubInv == Types /\ (\A c \in Clients : ClientInv(c)) /\ OwedInv

(***************************************************************************)
(* What a step changes.                                                    *)
(***************************************************************************)

\* Nothing that concerns the client.
Same(d) ==
    /\ \A r \in Rooms : d \in rooms'[r] <=> d \in rooms[r]
    /\ Tracked(d)' <=> Tracked(d)
    /\ roomOf'[d] = roomOf[d] /\ active'[d] = active[d]
    /\ pumps'[d] = pumps[d] /\ joins'[d] = joins[d]
    /\ d \in closed' <=> d \in closed
    /\ d \in overlapped' <=> d \in overlapped
    /\ \A name \in Names : task'[<<d, name>>] = task[<<d, name>>]

\* The task of a goroutine becomes new, the others stay.
NewTask(t, new) ==
    /\ task' \in [Threads -> TaskType]
    /\ task'[t] = new
    /\ \A s \in Threads : s # t => task'[s] = task[s]

(* The goroutines of the clients, by name.                                  *)
LEMMA ThreadFacts ==
    /\ Threads = Clients \X Names
    /\ \A c \in Clients, name \in Names : <<c, name>> \in Threads
    /\ Pumps \subseteq Names
BY DEF Threads, Names, Pumps

(* A goroutine goes on to its next step, in the same room.                  *)
LEMMA GoFacts ==
    ASSUME Types, NEW t \in Threads, NEW step, Go(t, step),
           step \in {"done", "addUser", "start", "online"} \cup Unregistering
    PROVE  NewTask(t, [at |-> step, room |-> task[t].room, join |-> task[t].join])
<1>1. task \in [Threads -> TaskType] /\ task' = [task EXCEPT ![t].at = step]
  BY DEF Types, Go
<1>2. [task[t] EXCEPT !.at = step] = [at |-> step, room |-> task[t].room, join |-> task[t].join]
  BY <1>1 DEF TaskType
<1>3. [at |-> step, room |-> task[t].room, join |-> task[t].join] \in TaskType
  BY <1>1 DEF TaskType, Unregistering
<1>4. QED
  BY <1>1, <1>2, <1>3 DEF NewTask

(* A goroutine begins to register, to unregister or to change rooms.        *)
LEMMA BeginFacts ==
    ASSUME Types, NEW t \in Threads, NEW step \in {"rename", "cleanup", "addRoom", "delRoom"},
           NEW room \in AnyRoom, NEW join \in AnyRoom, Begin(t, step, room, join)
    PROVE  NewTask(t, [at |-> step, room |-> room, join |-> join])
<1>1. task \in [Threads -> TaskType]
  BY DEF Types
<1>2. [at |-> step, room |-> room, join |-> join] \in TaskType
  BY DEF TaskType
<1>3. QED
  BY <1>1, <1>2 DEF NewTask, Begin

(* A goroutine is done, or back in its loop.                                *)
LEMMA FinishFacts ==
    ASSUME Types, NEW t \in Threads, Finish(t)
    PROVE  NewTask(t, [at |-> IF t[2] \in Pumps THEN "idle" ELSE "done",
                       room |-> NoRoom, join |-> NoRoom])
<1>1. task \in [Threads -> TaskType]
  BY DEF Types
<1>2. [at |-> IF t[2] \in Pumps THEN "idle" ELSE "done", room |-> NoRoom, join |-> NoRoom]
          \in TaskType
  BY DEF TaskType, AnyRoom
<1>3. QED
  BY <1>1, <1>2 DEF NewTask, Finish, Idle

(* A step of one client does not concern the others.                        *)
LEMMA SameClient ==
    ASSUME NEW d \in Clients, ClientInv(d), Same(d)
    PROVE  ClientInv(d)'
<1>1. RoomsOf(d)' = RoomsOf(d)
  BY DEF Same, Tracked, RoomsOf
<1>2. \A name \in Names : At(d, name)' = At(d, name)
  BY DEF Same, Tracked, At
<1>3. Pumps \subseteq Names /\ {"connect", "reader", "closer", "pump", "pump2"} = Names
  BY DEF Pumps, Names
<1>4. Order(d)'
  BY <1>1, <1>2, <1>3 DEF ClientInv, Order, Tracked, Same, Tracked
<1>5. Unmoved(d)'
  BY <1>1, <1>2, <1>3 DEF ClientInv, Unmoved, Same, Tracked
<1>6. Serial(d)'
  BY <1>1, <1>2, <1>3 DEF ClientInv, Serial, InRoomOf, Same, Tracked
<1>7. QED
  BY <1>4, <1>5, <1>6 DEF ClientInv

(* So the invariant is kept once it is for the client that moved.           *)
LEMMA StepOfOne ==
    ASSUME HubInv, NEW c \in Clients, Types', ClientInv(c)', OwedInv',
           \A d \in Clients \ {c} : Same(d)
    PROVE  HubInv'
BY SameClient DEF HubInv

(* Announcements stay taken care of as long as nobody leaves a room.        *)
LEMMA OwedFrame ==
    ASSUME OwedInv, owed' \subseteq owed, NEW t \in Threads,
           \A r \in Rooms : rooms[r] \subseteq rooms'[r],
           \A s \in Threads : s # t => task'[s] = task[s],
           task[t].at \in Left => task'[t].at \in Left /\ task'[t].room = task[t].room
    PROVE  OwedInv'
<1>1. SUFFICES ASSUME NEW r \in Rooms, NEW u \in Users, <<r, u>> \in owed
               PROVE  \/ MembersOf(r, u)' # {}
                      \/ \E s \in Threads : UserOf[s[1]] = u /\ task'[s].at \in Left
                                             /\ task'[s].room = r
  BY DEF OwedInv, Threads, Pumps
<1>2. MembersOf(r, u) \subseteq MembersOf(r, u)'
  BY DEF MembersOf
<1>3. QED
  BY <1>1, <1>2 DEF OwedInv

(***************************************************************************)
(* Connections and messages.                                               *)
(***************************************************************************)

(* A new connection: nothing of the client is anywhere yet.                 *)
LEMMA ConnectStep ==
    ASSUME HubInv, NEW c \in Clients, NEW r \in Rooms, Connect(c, r)
    PROVE  HubInv'
<1> DEFINE t == <<c, "connect">>
<1>1. Types /\ ClientInv(c) /\ OwedInv /\ t \in Threads
  BY ThreadFacts DEF HubInv, Names
<1>2. /\ UNCHANGED <<rooms, userClients, active, pumps, closed, joins, overlapped, owed>>
      /\ task[t].at = "idle" /\ roomOf' = [roomOf EXCEPT ![c] = r] /\ r # Empty
      /\ Begin(t, "addRoom", r, NoRoom)
  BY DEF Connect, history
<1>3. NewTask(t, [at |-> "addRoom", room |-> r, join |-> NoRoom])
  BY <1>1, <1>2, BeginFacts DEF AnyRoom
<1>4. /\ task' \in [Threads -> TaskType]
      /\ At(c, "connect")' = "addRoom" /\ task'[t].room = r /\ task'[t].join = NoRoom
      /\ \A s \in Threads : s # t => task'[s] = task[s]
  BY <1>3 DEF NewTask, At
<1>5. roomOf' \in [Clients -> AnyRoom] /\ roomOf'[c] = r
      /\ \A d \in Clients : d # c => roomOf'[d] = roomOf[d]
  BY <1>1, <1>2 DEF Types, TypeOK, AnyRoom
<1>6. Types'
  <2>1. \A s \in Threads : Busy(s)' => task'[s].room \in Rooms
    BY <1>1, <1>4 DEF Types, TypeOK, Busy
  <2>2. \A d \in Clients : pumps'[d] > 0 => roomOf'[d] \in Rooms
    BY <1>1, <1>2, <1>5 DEF Types, TypeOK
  <2>3. \A q \in Rooms : \A d \in rooms'[q] :
           \/ d \in userClients'[UserOf[d]]
           \/ \E s \in Threads : s[1] = d /\ task'[s].at = "addUser"
    BY <1>1, <1>2, <1>4 DEF Types, TypeOK
  <2>4. QED
    BY <1>1, <1>2, <1>4, <1>5, <2>1, <2>2, <2>3 DEF Types, TypeOK, AnyRoom
<1>7. \A name \in Names \ {"connect"} : At(c, name)' = At(c, name) /\ task'[<<c, name>>] = task[<<c, name>>]
  BY <1>4, ThreadFacts DEF At
<1>8. RoomsOf(c)' = RoomsOf(c) /\ RoomsOf(c) = {} /\ pumps[c] = 0
  BY <1>1, <1>2 DEF RoomsOf, ClientInv, Order, Tracked, At
<1>9. Order(c)'
  BY <1>1, <1>2, <1>4, <1>5, <1>7, <1>8
     DEF ClientInv, Order, Tracked, At, Names, Registering, Pumps
<1>10. Unmoved(c)' /\ Serial(c)'
  <2>1. At(c, "reader") = "idle" /\ At(c, "closer") = "idle" /\ \A p \in Pumps : At(c, p) = "idle"
    BY <1>1, <1>2, <1>8 DEF ClientInv, Order, Tracked, At, Pumps
  <2>2. QED
    BY <1>2, <1>5, <1>7, <1>8, <2>1 DEF Unmoved, Serial, InRoomOf, Names, Pumps, Left, Unregistering, Registering
<1>11. \A d \in Clients \ {c} : Same(d)
  BY <1>2, <1>4, <1>5, ThreadFacts DEF Same, Tracked
<1>12. OwedInv'
  BY <1>1, <1>2, <1>4, OwedFrame DEF Left
<1>13. QED
  BY <1>6, <1>9, <1>10, <1>11, <1>12, StepOfOne DEF ClientInv

(* A pump takes a message.                                                  *)
LEMMA ReceiveStep ==
    ASSUME HubInv, NEW c \in Clients, NEW p \in Pumps,
           Leave(<<c, p>>) \/ \E r \in Rooms : Join(<<c, p>>, r)
    PROVE  HubInv'
<1> DEFINE t == <<c, p>>
<1>1. Types /\ ClientInv(c) /\ OwedInv /\ t \in Threads /\ p \in Names
  BY ThreadFacts DEF HubInv
<1>2. /\ UNCHANGED <<rooms, userClients, roomOf, active, pumps, closed, owed>>
      /\ task[t].at = "idle" /\ Nth(p) <= pumps[c]
      /\ joins' = [joins EXCEPT ![c] = @ + 1]
      /\ overlapped' = IF \E q \in Pumps \ {p} : Busy(<<c, q>>)
                         THEN overlapped \cup {c} ELSE overlapped
      /\ \/ Begin(t, "delRoom", roomOf[c], NoRoom)
         \/ \E r \in Rooms : Begin(t, "rename", roomOf[c], r)
  BY DEF Leave, Join, Receive, clientVars
<1>3. pumps[c] > 0 /\ roomOf[c] \in Rooms
  BY <1>1, <1>2 DEF Nth, Types, TypeOK
<1>4. \/ NewTask(t, [at |-> "delRoom", room |-> roomOf[c], join |-> NoRoom])
      \/ \E r \in Rooms : NewTask(t, [at |-> "rename", room |-> roomOf[c], join |-> r])
  BY <1>1, <1>2, <1>3, BeginFacts DEF AnyRoom
<1>5. /\ task' \in [Threads -> TaskType]
      /\ \/ At(c, p)' = "delRoom" /\ task'[t].join = NoRoom
         \/ At(c, p)' = "rename" /\ task'[t].join \in Rooms
      /\ task'[t].room = roomOf[c]
      /\ \A s \in Threads : s # t => task'[s] = task[s]
  <2>1. CASE NewTask(t, [at |-> "delRoom", room |-> roomOf[c], join |-> NoRoom])
    BY <2>1 DEF NewTask, At
  <2>2. ASSUME NEW r \in Rooms, NewTask(t, [at |-> "rename", room |-> roomOf[c], join |-> r])
        PROVE  /\ task' \in [Threads -> TaskType]
               /\ At(c, p)' = "rename" /\ task'[t].join = r /\ task'[t].room = roomOf[c]
               /\ \A s \in Threads : s # t => task'[s] = task[s]
    BY <2>2 DEF NewTask, At
  <2>3. QED
    BY <1>4, <2>1, <2>2
<1>6. Types'
  <2>1. \A s \in Threads : Busy(s)' => task'[s].room \in Rooms
    BY <1>1, <1>3, <1>5 DEF Types, TypeOK, Busy
  <2>2. \A q \in Rooms : \A d \in rooms'[q] :
           \/ d \in userClients'[UserOf[d]]
           \/ \E s \in Threads : s[1] = d /\ task'[s].at = "addUser"
    BY <1>1, <1>2, <1>5 DEF Types, TypeOK
  <2>3. joins' \in [Clients -> Nat] /\ overlapped' \subseteq Clients
    BY <1>1, <1>2 DEF Types
  <2>4. QED
    BY <1>1, <1>2, <1>5, <2>1, <2>2, <2>3 DEF Types, TypeOK
<1>7. \A name \in Names \ {p} : At(c, name)' = At(c, name) /\ task'[<<c, name>>] = task[<<c, name>>]
  BY <1>5, ThreadFacts DEF At
<1>8. RoomsOf(c)' = RoomsOf(c)
  BY <1>2 DEF RoomsOf
<1>9. Order(c)'
  BY <1>1, <1>2, <1>3, <1>5, <1>7, <1>8
     DEF ClientInv, Order, Tracked, At, Names, Registering, Pumps
<1>10. Unmoved(c)'
  BY <1>1, <1>2 DEF Unmoved, Types
<1>11. Serial(c)'
  <2>1. SUFFICES ASSUME c \notin overlapped', active'[c], At(c, "reader")' = "idle"
                 PROVE  Serial(c)'
    BY DEF Serial, InRoomOf
  <2>2. c \notin overlapped /\ \A q \in Pumps \ {p} : At(c, q) = "idle"
    BY <1>1, <1>2, <2>1 DEF Busy, At, ClientInv, Order, Tracked
  <2>3. active[c] /\ At(c, "reader") = "idle" /\ At(c, p) = "idle"
    BY <1>2, <1>5, <1>7, <2>1 DEF Names, At, Pumps
  <2>4. InRoomOf(c)
    BY <1>1, <2>2, <2>3 DEF ClientInv, Serial, InRoomOf
  <2>5. QED
    BY <1>2, <1>5, <1>7, <1>8, <2>2, <2>4
       DEF Serial, InRoomOf, Pumps, Names, Left, Unregistering, Registering
<1>12. \A d \in Clients \ {c} : Same(d)
  BY <1>1, <1>2, <1>5, ThreadFacts DEF Same, Tracked, Types
<1>13. OwedInv'
  BY <1>1, <1>2, <1>5, OwedFrame DEF Left
<1>14. QED
  BY <1>6, <1>9, <1>10, <1>11, <1>12, <1>13, StepOfOne DEF ClientInv

(* A cleanup begins, of the read pump or by Close; from then on nothing     *)
(* relies on the client's messages being handled one by one.  Only a client *)
(* that took a message can have an empty RoomID.                            *)
LEMMA CleanupStep ==
    ASSUME HubInv, NEW c \in Clients, Disconnect(c) \/ Close(c)
    PROVE  HubInv'
<1>1. Types /\ ClientInv(c) /\ OwedInv
  BY DEF HubInv
<1>2. PICK name \in {"reader", "closer"} :
          /\ name = "reader" => Disconnect(c)
          /\ name = "closer" => Close(c)
  OBVIOUS
<1> DEFINE t == <<c, name>>
<1>3. /\ UNCHANGED <<rooms, userClients, roomOf, pumps, joins, overlapped, owed>>
      /\ task[t].at = "idle" /\ StartCleanup(t)
      /\ IF name = "reader" THEN active' = active /\ pumps[c] > 0
                            ELSE /\ active' = [active EXCEPT ![c] = FALSE]
                                 /\ RoomsOf(c) # {} \/ c \in userClients[UserOf[c]]
  BY <1>2 DEF Disconnect, Close, history
<1>4. At(c, "connect") \notin {"idle", "addRoom"} /\ roomOf[c] \in Rooms
  BY <1>1, <1>3 DEF ClientInv, Order, Tracked, Types, TypeOK
<1>5. t \in Threads /\ name \in Names /\ name \notin Pumps
  BY ThreadFacts DEF Names, Pumps
<1>6. /\ \/ /\ roomOf[c] # Empty
            /\ NewTask(t, [at |-> "cleanup", room |-> roomOf[c], join |-> NoRoom])
         \/ /\ roomOf[c] = Empty
            /\ NewTask(t, [at |-> "done", room |-> NoRoom, join |-> NoRoom])
      /\ closed' \in {closed, closed \cup {c}}
  <2>1. CASE roomOf[c] # Empty
    <3>1. Begin(t, "cleanup", roomOf[c], NoRoom) /\ closed' = closed
      BY <1>3, <2>1 DEF StartCleanup
    <3>2. QED
      BY <1>1, <1>4, <1>5, <2>1, <3>1, BeginFacts DEF AnyRoom
  <2>2. CASE roomOf[c] = Empty
    <3>1. Finish(t) /\ CloseReceive(c)
      BY <1>3, <2>2 DEF StartCleanup
    <3>2. QED
      BY <1>1, <1>5, <2>2, <3>1, FinishFacts DEF CloseReceive
  <2>3. QED
    BY <2>1, <2>2
<1>7. /\ task' \in [Threads -> TaskType]
      /\ \/ roomOf[c] # Empty /\ At(c, name)' = "cleanup" /\ task'[t].room = roomOf[c]
         \/ roomOf[c] = Empty /\ At(c, name)' = "done"
      /\ task'[t].join = NoRoom
      /\ \A s \in Threads : s # t => task'[s] = task[s]
  BY <1>6 DEF NewTask, At
<1>8. active' \in [Clients -> BOOLEAN] /\ (name = "closer" => ~active'[c])
      /\ (active'[c] => active[c]) /\ \A d \in Clients : d # c => active'[d] = active[d]
  BY <1>1, <1>3 DEF Types, TypeOK
<1>9. Types'
  <2>1. \A s \in Threads : Busy(s)' => task'[s].room \in Rooms
    BY <1>1, <1>4, <1>7 DEF Types, TypeOK, Busy, At
  <2>2. \A q \in Rooms : \A d \in rooms'[q] :
           \/ d \in userClients'[UserOf[d]]
           \/ \E s \in Threads : s[1] = d /\ task'[s].at = "addUser"
    BY <1>1, <1>3, <1>7 DEF Types, TypeOK
  <2>3. QED
    BY <1>1, <1>3, <1>6, <1>7, <1>8, <2>1, <2>2 DEF Types, TypeOK
<1>10. \A other \in Names \ {name} :
           At(c, other)' = At(c, other) /\ task'[<<c, other>>] = task[<<c, other>>]
  BY <1>7, ThreadFacts DEF At
<1>11. RoomsOf(c)' = RoomsOf(c)
  BY <1>3 DEF RoomsOf
<1>12. Order(c)'
  BY <1>1, <1>3, <1>4, <1>7, <1>8, <1>10, <1>11
     DEF ClientInv, Order, Tracked, At, Names, Registering, Unregistering, Pumps
<1>13. Unmoved(c)'
  BY <1>1, <1>3, <1>7, <1>10, <1>11 DEF ClientInv, Unmoved, Names, Pumps, Left
<1>14. Serial(c)'
  BY <1>7, <1>8 DEF Serial
<1>15. \A d \in Clients \ {c} : Same(d)
  BY <1>3, <1>6, <1>7, <1>8, ThreadFacts DEF Same, Tracked
<1>16. OwedInv'
  BY <1>1, <1>3, <1>5, <1>7, OwedFrame DEF Left
<1>17. QED
  BY <1>9, <1>12, <1>13, <1>14, <1>15, <1>16, StepOfOne DEF ClientInv

(* The cleanup reads the room to leave.                                     *)
LEMMA UnregisterSelfStep ==
    ASSUME HubInv, NEW c \in Clients, NEW p \in Names, UnregisterSelf(<<c, p>>)
    PROVE  HubInv'
<1> DEFINE t == <<c, p>>
<1>1. Types /\ ClientInv(c) /\ OwedInv /\ t \in Threads
  BY ThreadFacts DEF HubInv
<1>2. /\ UNCHANGED <<rooms, userClients, roomOf, active, pumps, closed, joins, overlapped, owed>>
      /\ task[t].at = "cleanup" /\ Begin(t, "delRoom", roomOf[c], NoRoom)
  BY DEF UnregisterSelf, clientVars, history
<1>3. p \in {"reader", "closer"} /\ p \notin Pumps
  BY <1>1, <1>2 DEF ClientInv, Order, Tracked, At, Names, Pumps, Registering
<1>4. /\ At(c, "connect") \notin {"idle", "addRoom"} /\ roomOf[c] \in Rooms
      /\ p = "reader" => pumps[c] # 0
      /\ p = "closer" => ~active[c]
  BY <1>1, <1>2, <1>3 DEF ClientInv, Order, Tracked, At
<1>5. NewTask(t, [at |-> "delRoom", room |-> roomOf[c], join |-> NoRoom])
  BY <1>1, <1>2, <1>4, BeginFacts DEF AnyRoom
<1>6. /\ task' \in [Threads -> TaskType]
      /\ At(c, p)' = "delRoom" /\ task'[t].room = roomOf[c] /\ task'[t].join = NoRoom
      /\ \A s \in Threads : s # t => task'[s] = task[s]
  BY <1>5 DEF NewTask, At
<1>7. Types'
  <2>1. \A s \in Threads : Busy(s)' => task'[s].room \in Rooms
    BY <1>1, <1>4, <1>6 DEF Types, TypeOK, Busy
  <2>2. \A q \in Rooms : \A d \in rooms'[q] :
           \/ d \in userClients'[UserOf[d]]
           \/ \E s \in Threads : s[1] = d /\ task'[s].at = "addUser"
    BY <1>1, <1>2, <1>6 DEF Types, TypeOK
  <2>3. QED
    BY <1>1, <1>2, <1>6, <2>1, <2>2 DEF Types, TypeOK
<1>8. \A name \in Names \ {p} : At(c, name)' = At(c, name) /\ task'[<<c, name>>] = task[<<c, name>>]
  BY <1>6, ThreadFacts DEF At
<1>9. RoomsOf(c)' = RoomsOf(c)
  BY <1>2 DEF RoomsOf
<1>10. Order(c)'
  BY <1>1, <1>2, <1>3, <1>4, <1>6, <1>8, <1>9
     DEF ClientInv, Order, Tracked, At, Names, Registering, Unregistering, Pumps
<1>11. Unmoved(c)'
  BY <1>1, <1>2, <1>3, <1>6, <1>8, <1>9 DEF ClientInv, Unmoved, Names, Pumps, Left
<1>12. Serial(c)'
  BY <1>2, <1>3, <1>4, <1>6 DEF Serial
<1>13. \A d \in Clients \ {c} : Same(d)
  BY <1>2, <1>6, ThreadFacts DEF Same, Tracked
<1>14. OwedInv'
  BY <1>1, <1>2, <1>6, OwedFrame DEF Left
<1>15. QED
  BY <1>7, <1>10, <1>11, <1>12, <1>13, <1>14, StepOfOne DEF ClientInv

(* A pump that takes a join message names the new room, and then leaves the *)
(* old one if it is another.                                                *)
LEMMA RenameStep ==
    ASSUME HubInv, NEW c \in Clients, NEW p \in Names, Rename(<<c, p>>)
    PROVE  HubInv'
<1> DEFINE t == <<c, p>>  r == task[t].join
<1>1. Types /\ ClientInv(c) /\ OwedInv /\ t \in Threads
  BY ThreadFacts DEF HubInv
<1>2. /\ UNCHANGED <<rooms, userClients, active, pumps, closed, joins, overlapped, owed>>
      /\ task[t].at = "rename" /\ roomOf' = [roomOf EXCEPT ![c] = r]
      /\ IF task[t].room \notin {Empty, r} THEN Go(t, "delRoom")
                                          ELSE Begin(t, "addRoom", r, NoRoom)
  BY DEF Rename, history
<1>3. p \in Pumps
  BY <1>1, <1>2 DEF ClientInv, Order, Tracked, At, Names, Pumps, Registering, Unregistering
<1>4. r \in Rooms /\ task[t].room \in AnyRoom /\ NoRoom \in AnyRoom
  BY <1>1, <1>2, <1>3 DEF ClientInv, Order, Tracked, At, Types, TaskType, AnyRoom
<1>5. /\ task' \in [Threads -> TaskType]
      /\ \/ At(c, p)' = "delRoom" /\ task'[t].join = r /\ task'[t].room = task[t].room
         \/ /\ At(c, p)' = "addRoom" /\ task'[t].room = r /\ task[t].room \in {Empty, r}
            /\ task'[t].join = NoRoom
      /\ \A s \in Threads : s # t => task'[s] = task[s]
  <2>1. CASE task[t].room \notin {Empty, r}
    <3>1. NewTask(t, [at |-> "delRoom", room |-> task[t].room, join |-> r])
      BY <1>1, <1>2, <2>1, GoFacts DEF Unregistering
    <3>2. QED
      BY <3>1 DEF NewTask, At
  <2>2. CASE task[t].room \in {Empty, r}
    <3>1. NewTask(t, [at |-> "addRoom", room |-> r, join |-> NoRoom])
      BY <1>1, <1>2, <1>4, <2>2, BeginFacts DEF AnyRoom
    <3>2. QED
      BY <2>2, <3>1 DEF NewTask, At
  <2>3. QED
    BY <2>1, <2>2
<1>6. roomOf' \in [Clients -> AnyRoom] /\ roomOf'[c] = r
      /\ \A d \in Clients : d # c => roomOf'[d] = roomOf[d]
  BY <1>1, <1>2, <1>4 DEF Types, TypeOK, AnyRoom
<1>7. pumps[c] # 0 /\ joins[c] # 0 /\ task[t].room \in Rooms
  BY <1>1, <1>2, <1>3 DEF ClientInv, Order, Tracked, Unmoved, At, Pumps, Types, TypeOK, Busy
<1>8. Types'
  <2>1. \A s \in Threads : Busy(s)' => task'[s].room \in Rooms
    BY <1>1, <1>4, <1>5, <1>7 DEF Types, TypeOK, Busy
  <2>2. \A d \in Clients : pumps'[d] > 0 => roomOf'[d] \in Rooms
    BY <1>1, <1>2, <1>4, <1>6 DEF Types, TypeOK
  <2>3. \A q \in Rooms : \A d \in rooms'[q] :
           \/ d \in userClients'[UserOf[d]]
           \/ \E s \in Threads : s[1] = d /\ task'[s].at = "addUser"
    BY <1>1, <1>2, <1>5 DEF Types, TypeOK
  <2>4. QED
    BY <1>1, <1>2, <1>5, <1>6, <2>1, <2>2, <2>3 DEF Types, TypeOK, AnyRoom
<1>9. \A name \in Names \ {p} : At(c, name)' = At(c, name) /\ task'[<<c, name>>] = task[<<c, name>>]
  BY <1>5, ThreadFacts DEF At
<1>10. RoomsOf(c)' = RoomsOf(c)
  BY <1>2 DEF RoomsOf
<1>11. At(c, "connect") \notin {"idle", "addRoom"}
  BY <1>1, <1>7 DEF ClientInv, Order, Tracked
<1>12. Order(c)'
  BY <1>1, <1>2, <1>3, <1>4, <1>5, <1>6, <1>7, <1>9, <1>10, <1>11
     DEF ClientInv, Order, Tracked, At, Names, Pumps
<1>13. Unmoved(c)'
  BY <1>2, <1>7 DEF Unmoved
<1>14. Serial(c)'
  <2>1. SUFFICES ASSUME c \notin overlapped', active'[c], At(c, "reader")' = "idle"
                 PROVE  Serial(c)'
    BY DEF Serial, InRoomOf
  <2>2. c \notin overlapped /\ active[c] /\ At(c, "reader") = "idle"
    BY <1>2, <1>3, <1>9, <2>1 DEF Names, Pumps
  <2>3. /\ \A q \in Pumps \ {p} : At(c, q) = "idle"
        /\ task[t].room = roomOf[c] /\ InRoomOf(c)
    BY <1>1, <1>2, <1>3, <2>2 DEF ClientInv, Serial, InRoomOf, At, Pumps
  <2>4. QED
    BY <1>3, <1>5, <1>6, <1>9, <1>10, <2>3
       DEF Serial, InRoomOf, At, Pumps, Names, Left, Unregistering, Registering
<1>15. \A d \in Clients \ {c} : Same(d)
  BY <1>2, <1>5, <1>6, ThreadFacts DEF Same, Tracked
<1>16. OwedInv'
  BY <1>1, <1>2, <1>5, OwedFrame DEF Left
<1>17. QED
  BY <1>8, <1>12, <1>13, <1>14, <1>15, <1>16, StepOfOne DEF ClientInv

(***************************************************************************)
(* The steps of Register.                                                  *)
(***************************************************************************)

(* The client is entered in the room, and not yet in its user's list.       *)
LEMMA AddToRoomStep ==
    ASSUME HubInv, NEW c \in Clients, NEW p \in Names, AddToRoom(<<c, p>>)
    PROVE  HubInv'
<1> DEFINE t == <<c, p>>  r == task[t].room
<1>1. Types /\ ClientInv(c) /\ OwedInv /\ t \in Threads
  BY ThreadFacts DEF HubInv
<1>2. /\ UNCHANGED <<userClients, roomOf, active, pumps, closed, joins, overlapped, owed>>
      /\ task[t].at = "addRoom" /\ rooms' = [rooms EXCEPT ![r] = @ \cup {c}] /\ Go(t, "addUser")
  BY DEF AddToRoom, clientVars, history
<1>3. p \in {"connect"} \cup Pumps
  BY <1>1, <1>2 DEF ClientInv, Order, Tracked, At, Names, Pumps, Unregistering
<1>4. r \in Rooms
  BY <1>1, <1>2 DEF Types, TypeOK, Busy
<1>5. NewTask(t, [at |-> "addUser", room |-> r, join |-> task[t].join])
  BY <1>1, <1>2, GoFacts
<1>6. /\ task' \in [Threads -> TaskType]
      /\ At(c, p)' = "addUser" /\ task'[t].room = r /\ task'[t].join = task[t].join
      /\ \A s \in Threads : s # t => task'[s] = task[s]
  BY <1>5 DEF NewTask, At
<1>7. rooms' \in [Rooms -> SUBSET Clients] /\ rooms'[r] = rooms[r] \cup {c}
      /\ \A q \in Rooms : q # r => rooms'[q] = rooms[q]
  BY <1>1, <1>2, <1>4 DEF Types, TypeOK
<1>8. Types'
  <2>1. \A s \in Threads : Busy(s)' => task'[s].room \in Rooms
    BY <1>1, <1>4, <1>6 DEF Types, TypeOK, Busy
  <2>2. ASSUME NEW q \in Rooms, NEW d \in rooms'[q]
        PROVE  \/ d \in userClients'[UserOf[d]]
               \/ \E s \in Threads : s[1] = d /\ task'[s].at = "addUser"
    <3>1. CASE d = c
      BY <1>1, <1>6, <3>1 DEF At
    <3>2. CASE d # c
      BY <1>1, <1>2, <1>6, <1>7, <3>2 DEF Types, TypeOK
    <3>3. QED
      BY <3>1, <3>2
  <2>3. QED
    BY <1>1, <1>2, <1>6, <1>7, <2>1, <2>2 DEF Types, TypeOK
<1>9. \A name \in Names \ {p} : At(c, name)' = At(c, name) /\ task'[<<c, name>>] = task[<<c, name>>]
  BY <1>6, ThreadFacts DEF At
<1>10. RoomsOf(c)' = RoomsOf(c) \cup {r}
  BY <1>4, <1>7 DEF RoomsOf
<1>11. p # "connect" => pumps[c] # 0 /\ joins[c] # 0 /\ At(c, "connect") \notin {"idle", "addRoom"}
  BY <1>1, <1>2, <1>3 DEF ClientInv, Order, Tracked, Unmoved, At, Pumps
<1>12. p = "connect" => /\ pumps[c] = 0 /\ r = roomOf[c] /\ RoomsOf(c) = {}
                        /\ \A name \in Names \ {"connect"} : At(c, name) = "idle"
  BY <1>1, <1>2 DEF ClientInv, Order, Tracked, At, Names
<1>13. Order(c)'
  BY <1>1, <1>2, <1>3, <1>6, <1>9, <1>11, <1>12
     DEF ClientInv, Order, Tracked, At, Names, Pumps, Registering
<1>14. Unmoved(c)'
  BY <1>1, <1>2, <1>3, <1>9, <1>10, <1>11, <1>12 DEF ClientInv, Unmoved, Names, Pumps, Left
<1>15. Serial(c)'
  <2>1. CASE p = "connect"
    BY <1>2, <1>9, <1>10, <1>12, <2>1
       DEF Serial, InRoomOf, Names, Pumps, Left, Unregistering, Registering
  <2>2. CASE p \in Pumps
    BY <1>1, <1>2, <1>6, <1>9, <1>10, <2>2
       DEF ClientInv, Serial, InRoomOf, At, Names, Pumps, Left, Unregistering, Registering
  <2>3. QED
    BY <1>3, <2>1, <2>2
<1>16. \A d \in Clients \ {c} : Same(d)
  BY <1>2, <1>6, <1>7, ThreadFacts DEF Same, Tracked
<1>17. OwedInv'
  BY <1>1, <1>2, <1>6, <1>7, OwedFrame DEF Left
<1>18. QED
  BY <1>8, <1>13, <1>14, <1>15, <1>16, <1>17, StepOfOne DEF ClientInv

(* The rest of Register: the user's list, the pumps, the announcement.      *)
LEMMA RegisterStep ==
    ASSUME HubInv, NEW c \in Clients, NEW p \in Names,
           AddToUser(<<c, p>>) \/ StartPumps(<<c, p>>) \/ AnnounceOnline(<<c, p>>)
    PROVE  HubInv'
<1> DEFINE t == <<c, p>>
<1>1. Types /\ ClientInv(c) /\ OwedInv /\ t \in Threads
  BY ThreadFacts DEF HubInv
<1>2. /\ UNCHANGED <<rooms, roomOf, active, closed, joins, overlapped, owed>>
      /\ \/ /\ task[t].at = "addUser" /\ Go(t, "start") /\ pumps' = pumps
            /\ userClients' = [userClients EXCEPT ![UserOf[c]] = @ \cup {c}]
         \/ /\ task[t].at = "start" /\ Go(t, "online") /\ userClients' = userClients
            /\ pumps' = [pumps EXCEPT ![c] = IF @ < MaxPumps THEN @ + 1 ELSE @]
         \/ /\ task[t].at = "online" /\ Finish(t)
            /\ userClients' = userClients /\ pumps' = pumps
  BY DEF AddToUser, StartPumps, AnnounceOnline, clientVars, history
<1>3. p \in {"connect"} \cup Pumps
  BY <1>1, <1>2 DEF ClientInv, Order, Tracked, At, Names, Pumps, Unregistering
<1>4. /\ task' \in [Threads -> TaskType]
      /\ \A s \in Threads : s # t => task'[s] = task[s]
      /\ \/ /\ task[t].at = "addUser" /\ At(c, p)' = "start"
            /\ task'[t].room = task[t].room /\ task'[t].join = task[t].join
         \/ /\ task[t].at = "start" /\ At(c, p)' = "online"
            /\ task'[t].room = task[t].room /\ task'[t].join = task[t].join
         \/ /\ task[t].at = "online" /\ At(c, p)' = IF p \in Pumps THEN "idle" ELSE "done"
            /\ task'[t].join = NoRoom
  <2>1. CASE task[t].at = "addUser" /\ Go(t, "start")
    <3>1. NewTask(t, [at |-> "start", room |-> task[t].room, join |-> task[t].join])
      BY <1>1, <2>1, GoFacts
    <3>2. QED
      BY <2>1, <3>1 DEF NewTask, At
  <2>2. CASE task[t].at = "start" /\ Go(t, "online")
    <3>1. NewTask(t, [at |-> "online", room |-> task[t].room, join |-> task[t].join])
      BY <1>1, <2>2, GoFacts
    <3>2. QED
      BY <2>2, <3>1 DEF NewTask, At
  <2>3. CASE task[t].at = "online" /\ Finish(t)
    <3>1. NewTask(t, [at |-> IF p \in Pumps THEN "idle" ELSE "done",
                      room |-> NoRoom, join |-> NoRoom])
      BY <1>1, <2>3, FinishFacts
    <3>2. QED
      BY <2>3, <3>1 DEF NewTask, At
  <2>4. QED
    BY <1>2, <2>1, <2>2, <2>3
<1>5. /\ pumps' \in [Clients -> 0..MaxPumps] /\ pumps'[c] >= pumps[c]
      /\ task[t].at # "start" => pumps' = pumps
      /\ \A d \in Clients : d # c => pumps'[d] = pumps[d]
  BY <1>1, <1>2, BoundAssumption DEF Types, TypeOK
<1>6. roomOf[c] \in Rooms
  BY <1>1, <1>2, <1>3 DEF ClientInv, Order, Tracked, At, Pumps, Types, TypeOK
<1>7. Types'
  <2>1. \A s \in Threads : Busy(s)' => task'[s].room \in Rooms
    BY <1>1, <1>3, <1>4 DEF Types, TypeOK, Busy, At
  <2>2. \A d \in Clients : pumps'[d] > 0 => roomOf'[d] \in Rooms
    BY <1>1, <1>2, <1>5, <1>6 DEF Types, TypeOK
  <2>6. userClients' \in [Users -> SUBSET Clients]
    BY <1>1, <1>2, UserAssumption DEF Types
  <2>3. \A u \in Users : /\ userClients[u] \subseteq userClients'[u]
                         /\ userClients'[u] \subseteq {d \in Clients : UserOf[d] = u}
    BY <1>1, <1>2, UserAssumption DEF Types, TypeOK
  <2>4. ASSUME NEW q \in Rooms, NEW d \in rooms'[q]
        PROVE  \/ d \in userClients'[UserOf[d]]
               \/ \E s \in Threads : s[1] = d /\ task'[s].at = "addUser"
    <3>1. d \in Clients /\ UserOf[d] \in Users
      BY <1>1, <1>2, <2>4, UserAssumption DEF Types, TypeOK
    <3>2. \/ d \in userClients[UserOf[d]]
          \/ \E s \in Threads : s[1] = d /\ task[s].at = "addUser"
      BY <1>1, <1>2, <2>4 DEF Types, TypeOK
    <3>3. CASE task[t].at = "addUser" /\ d = c
      BY <1>1, <1>2, <3>1, <3>3 DEF Types
    <3>4. CASE ~(task[t].at = "addUser" /\ d = c)
      BY <1>4, <2>3, <3>1, <3>2, <3>4
    <3>5. QED
      BY <3>3, <3>4
  <2>5. QED
    BY <1>1, <1>2, <1>4, <1>5, <2>1, <2>2, <2>3, <2>4, <2>6 DEF Types, TypeOK
<1>8. \A name \in Names \ {p} : At(c, name)' = At(c, name) /\ task'[<<c, name>>] = task[<<c, name>>]
  BY <1>4, ThreadFacts DEF At
<1>9. RoomsOf(c)' = RoomsOf(c)
  BY <1>2 DEF RoomsOf
<1>10. p # "connect" => pumps[c] # 0 /\ joins[c] # 0
  BY <1>1, <1>2, <1>3 DEF ClientInv, Order, Tracked, Unmoved, At, Pumps
<1>11. pumps[c] \in Nat /\ (pumps'[c] = 0 => pumps[c] = 0)
  BY <1>1, <1>5 DEF Types, TypeOK
<1>12. Order(c)'
  BY <1>1, <1>2, <1>3, <1>4, <1>5, <1>6, <1>8, <1>9, <1>10, <1>11
     DEF ClientInv, Order, Tracked, At, Names, Pumps, Registering
<1>13. Unmoved(c)'
  BY <1>1, <1>2, <1>3, <1>4, <1>8, <1>9, <1>10 DEF ClientInv, Unmoved, At, Names, Pumps, Left
<1>14. Serial(c)'
  BY <1>1, <1>2, <1>3, <1>4, <1>8, <1>9
     DEF ClientInv, Serial, InRoomOf, At, Names, Pumps, Left, Unregistering, Registering
<1>15. \A d \in Clients \ {c} : Same(d)
  <2>1. ASSUME NEW d \in Clients \ {c} PROVE Tracked(d)' <=> Tracked(d)
    BY <1>1, <1>2, UserAssumption DEF Types, Tracked
  <2>2. QED
    BY <1>2, <1>4, <1>5, <2>1, ThreadFacts DEF Same
<1>16. OwedInv'
  BY <1>1, <1>2, <1>4, OwedFrame DEF Left
<1>17. QED
  BY <1>7, <1>12, <1>13, <1>14, <1>15, <1>16, StepOfOne DEF ClientInv

(***************************************************************************)
(* The steps of Unregister.                                                *)
(***************************************************************************)

(* Only the read pump, Close and message pumps unregister a client, and all *)
(* of that after it was entered in its first room.                          *)
LEMMA UnregisterFacts ==
    ASSUME Types, NEW c \in Clients, Order(c), NEW p \in Names,
           At(c, p) \in Unregistering
    PROVE  /\ p \in {"reader", "closer"} \cup Pumps
           /\ p # "closer" => pumps[c] # 0
           /\ At(c, "connect") \notin {"idle", "addRoom"}
           /\ task[<<c, p>>].room \in Rooms
<1>1. p \in {"reader", "closer"} \cup Pumps
  BY DEF Order, Tracked, Names, Pumps, Unregistering, Registering
<1>2. p # "closer" => pumps[c] # 0
  BY <1>1 DEF Order, Tracked, Pumps, Unregistering
<1>3. At(c, "connect") \notin {"idle", "addRoom"}
  BY <1>1, <1>2 DEF Order, Tracked, Unregistering
<1>4. Busy(<<c, p>>) /\ <<c, p>> \in Threads
  BY ThreadFacts DEF Busy, At, Unregistering
<1>5. QED
  BY <1>1, <1>2, <1>3, <1>4 DEF Types, TypeOK

(* The client is taken out of the room: if no other client of the user is   *)
(* there, the announcement is owed, and this goroutine is the one to make it.*)
LEMMA RemoveFromRoomStep ==
    ASSUME HubInv, NEW c \in Clients, NEW p \in Names, RemoveFromRoom(<<c, p>>)
    PROVE  HubInv'
<1> DEFINE t == <<c, p>>  r == task[t].room
<1>1. Types /\ ClientInv(c) /\ OwedInv /\ t \in Threads
  BY ThreadFacts DEF HubInv
<1>2. /\ UNCHANGED <<userClients, roomOf, active, pumps, closed, joins, overlapped>>
      /\ task[t].at = "delRoom" /\ rooms' = [rooms EXCEPT ![r] = @ \ {c}] /\ Go(t, "delUser")
      /\ owed' = IF MembersOf(r, UserOf[c]) = {c} THEN owed \cup {<<r, UserOf[c]>>} ELSE owed
  BY DEF RemoveFromRoom, clientVars
<1>3. /\ p \in {"reader", "closer"} \cup Pumps
      /\ p # "closer" => pumps[c] # 0
      /\ At(c, "connect") \notin {"idle", "addRoom"} /\ r \in Rooms
  BY <1>1, <1>2, UnregisterFacts DEF ClientInv, At, Unregistering
<1>4. NewTask(t, [at |-> "delUser", room |-> r, join |-> task[t].join])
  BY <1>1, <1>2, GoFacts DEF Unregistering
<1>5. /\ task' \in [Threads -> TaskType]
      /\ At(c, p)' = "delUser" /\ task'[t].room = r /\ task'[t].join = task[t].join
      /\ \A s \in Threads : s # t => task'[s] = task[s]
  BY <1>4 DEF NewTask, At
<1>6. rooms' \in [Rooms -> SUBSET Clients] /\ rooms'[r] = rooms[r] \ {c}
      /\ \A q \in Rooms : q # r => rooms'[q] = rooms[q]
  BY <1>1, <1>2, <1>3 DEF Types, TypeOK
<1>7. Types'
  <2>1. \A s \in Threads : Busy(s)' => task'[s].room \in Rooms
    BY <1>1, <1>3, <1>5 DEF Types, TypeOK, Busy
  <2>2. \A q \in Rooms : \A d \in rooms'[q] :
           \/ d \in userClients'[UserOf[d]]
           \/ \E s \in Threads : s[1] = d /\ task'[s].at = "addUser"
    BY <1>1, <1>2, <1>5, <1>6 DEF Types, TypeOK
  <2>3. QED
    BY <1>1, <1>2, <1>5, <1>6, <2>1, <2>2 DEF Types, TypeOK
<1>8. \A name \in Names \ {p} : At(c, name)' = At(c, name) /\ task'[<<c, name>>] = task[<<c, name>>]
  BY <1>5, ThreadFacts DEF At
<1>9. RoomsOf(c)' = RoomsOf(c) \ {r}
  BY <1>3, <1>6 DEF RoomsOf
<1>10. Order(c)'
  BY <1>1, <1>2, <1>3, <1>5, <1>8, <1>9
     DEF ClientInv, Order, Tracked, At, Names, Pumps, Registering, Unregistering
<1>11. Unmoved(c)'
  BY <1>1, <1>2, <1>3, <1>5, <1>8, <1>9 DEF ClientInv, Unmoved, At, Names, Pumps, Left
<1>12. Serial(c)'
  <2>1. SUFFICES ASSUME c \notin overlapped', active'[c], At(c, "reader")' = "idle"
                 PROVE  Serial(c)'
    BY DEF Serial, InRoomOf
  <2>2. p \in Pumps
    BY <1>1, <1>2, <1>3, <1>5, <2>1 DEF ClientInv, Order, Tracked, At
  <2>3. QED
    BY <1>1, <1>2, <1>5, <1>8, <1>9, <2>1, <2>2
       DEF ClientInv, Serial, InRoomOf, At, Names, Pumps, Left, Unregistering, Registering
<1>13. \A d \in Clients \ {c} : Same(d)
  BY <1>2, <1>5, <1>6, ThreadFacts DEF Same, Tracked
<1>14. OwedInv'
  <2>1. SUFFICES ASSUME NEW q \in Rooms, NEW u \in Users, <<q, u>> \in owed'
                 PROVE  \/ MembersOf(q, u)' # {}
                        \/ \E s \in Threads : UserOf[s[1]] = u /\ task'[s].at \in Left
                                               /\ task'[s].room = q
    BY DEF OwedInv, Threads, Pumps
  <2>2. CASE q = r /\ u = UserOf[c]
    BY <1>1, <1>5, <2>2 DEF At, Left
  <2>3. CASE ~(q = r /\ u = UserOf[c])
    <3>1. MembersOf(q, u)' = MembersOf(q, u)
      BY <1>6, <2>3 DEF MembersOf
    <3>2. <<q, u>> \in owed
      BY <1>2, <2>1, <2>3
    <3>3. QED
      BY <1>1, <1>2, <1>5, <3>1, <3>2 DEF OwedInv, Left
  <2>4. QED
    BY <2>2, <2>3
<1>15. QED
  BY <1>7, <1>10, <1>11, <1>12, <1>13, <1>14, StepOfOne DEF ClientInv

(* The user's list, and the check that finds nobody: nothing but where the  *)
(* goroutine stands changes.                                                *)
LEMMA WaitStep ==
    ASSUME HubInv, NEW c \in Clients, NEW p \in Names,
           RemoveFromUser(<<c, p>>) \/ NotOnline(<<c, p>>)
    PROVE  HubInv'
<1> DEFINE t == <<c, p>>
<1>1. Types /\ ClientInv(c) /\ OwedInv /\ t \in Threads
  BY ThreadFacts DEF HubInv
<1>2. /\ UNCHANGED <<rooms, userClients, roomOf, active, pumps, closed, joins, overlapped, owed>>
      /\ \/ task[t].at = "delUser" /\ Go(t, "check")
         \/ task[t].at = "check" /\ Go(t, "offline")
  BY DEF RemoveFromUser, NotOnline, clientVars, history
<1>3. /\ p \in {"reader", "closer"} \cup Pumps
      /\ p # "closer" => pumps[c] # 0
      /\ At(c, "connect") \notin {"idle", "addRoom"} /\ task[t].room \in Rooms
  BY <1>1, <1>2, UnregisterFacts DEF ClientInv, At, Unregistering
<1>4. /\ task' \in [Threads -> TaskType]
      /\ At(c, p) \in Left /\ At(c, p)' \in {"check", "offline"}
      /\ task'[t].room = task[t].room /\ task'[t].join = task[t].join
      /\ \A s \in Threads : s # t => task'[s] = task[s]
  <2>1. CASE task[t].at = "delUser" /\ Go(t, "check")
    <3>1. NewTask(t, [at |-> "check", room |-> task[t].room, join |-> task[t].join])
      BY <1>1, <2>1, GoFacts DEF Unregistering
    <3>2. QED
      BY <2>1, <3>1 DEF NewTask, At, Left
  <2>2. CASE task[t].at = "check" /\ Go(t, "offline")
    <3>1. NewTask(t, [at |-> "offline", room |-> task[t].room, join |-> task[t].join])
      BY <1>1, <2>2, GoFacts DEF Unregistering
    <3>2. QED
      BY <2>2, <3>1 DEF NewTask, At, Left
  <2>3. QED
    BY <1>2, <2>1, <2>2
<1>5. Types'
  <2>1. \A s \in Threads : Busy(s)' => task'[s].room \in Rooms
    BY <1>1, <1>3, <1>4 DEF Types, TypeOK, Busy
  <2>2. \A q \in Rooms : \A d \in rooms'[q] :
           \/ d \in userClients'[UserOf[d]]
           \/ \E s \in Threads : s[1] = d /\ task'[s].at = "addUser"
    BY <1>1, <1>2, <1>4 DEF Types, TypeOK
  <2>3. QED
    BY <1>1, <1>2, <1>4, <2>1, <2>2 DEF Types, TypeOK
<1>6. \A name \in Names \ {p} : At(c, name)' = At(c, name) /\ task'[<<c, name>>] = task[<<c, name>>]
  BY <1>4, ThreadFacts DEF At
<1>7. RoomsOf(c)' = RoomsOf(c)
  BY <1>2 DEF RoomsOf
<1>8. Order(c)'
  BY <1>1, <1>2, <1>3, <1>4, <1>6, <1>7
     DEF ClientInv, Order, Tracked, At, Names, Pumps, Registering, Unregistering, Left
<1>9. Unmoved(c)'
  BY <1>1, <1>2, <1>3, <1>4, <1>6, <1>7 DEF ClientInv, Unmoved, At, Names, Pumps, Left
<1>10. Serial(c)'
  BY <1>1, <1>2, <1>3, <1>4, <1>6, <1>7
     DEF ClientInv, Serial, InRoomOf, At, Names, Pumps, Left, Unregistering, Registering
<1>11. \A d \in Clients \ {c} : Same(d)
  BY <1>2, <1>4, ThreadFacts DEF Same, Tracked
<1>12. OwedInv'
  BY <1>1, <1>2, <1>4, OwedFrame DEF At, Left
<1>13. QED
  BY <1>5, <1>8, <1>9, <1>10, <1>11, <1>12, StepOfOne DEF ClientInv

(* The end of Unregister: some client of the user is in the room, or the    *)
(* announcement is made.  A join goes on, a cleanup closes the channels.    *)
LEMMA EndStep ==
    ASSUME HubInv, NEW c \in Clients, NEW p \in Names,
           StillOnline(<<c, p>>) \/ AnnounceOffline(<<c, p>>)
    PROVE  HubInv'
<1> DEFINE t == <<c, p>>  r == task[t].room
<1>1. Types /\ ClientInv(c) /\ OwedInv /\ t \in Threads
  BY ThreadFacts DEF HubInv
<1>2. /\ UNCHANGED <<rooms, userClients, roomOf, active, pumps, joins, overlapped>>
      /\ AfterUnregister(t)
      /\ \/ task[t].at = "check" /\ Online(r, UserOf[c]) /\ owed' = owed
         \/ task[t].at = "offline" /\ owed' = owed \ {<<r, UserOf[c]>>}
  BY DEF StillOnline, AnnounceOffline, history
<1>3. /\ p \in {"reader", "closer"} \cup Pumps
      /\ p # "closer" => pumps[c] # 0
      /\ At(c, "connect") \notin {"idle", "addRoom"} /\ r \in Rooms
  BY <1>1, <1>2, UnregisterFacts DEF ClientInv, At, Unregistering
<1>4. task[t].join \in AnyRoom /\ NoRoom \in AnyRoom
  BY <1>1 DEF Types, TaskType, AnyRoom
<1>5. /\ task' \in [Threads -> TaskType]
      /\ \/ /\ p \in Pumps /\ At(c, p)' = "addRoom" /\ task[t].join \in Rooms
            /\ task'[t].room = task[t].join /\ task'[t].join = NoRoom
         \/ /\ At(c, p)' = (IF p \in Pumps THEN "idle" ELSE "done")
            /\ task'[t].join = NoRoom
      /\ \A s \in Threads : s # t => task'[s] = task[s]
  <2>1. CASE task[t].join # NoRoom
    <3>1. NewTask(t, [at |-> "addRoom", room |-> task[t].join, join |-> NoRoom])
      BY <1>1, <1>2, <1>4, <2>1, BeginFacts DEF AfterUnregister
    <3>2. p \in Pumps
      BY <1>1, <1>3, <2>1 DEF ClientInv, Order, Tracked
    <3>3. QED
      BY <1>4, <2>1, <3>1, <3>2 DEF NewTask, At, AnyRoom
  <2>2. CASE task[t].join = NoRoom
    <3>1. NewTask(t, [at |-> IF p \in Pumps THEN "idle" ELSE "done",
                      room |-> NoRoom, join |-> NoRoom])
      BY <1>1, <1>2, <2>2, FinishFacts DEF AfterUnregister
    <3>2. QED
      BY <3>1 DEF NewTask, At
  <2>3. QED
    BY <2>1, <2>2
<1>6. closed' \in {closed, closed \cup {c}}
  BY <1>2 DEF AfterUnregister, CloseReceive
<1>7. At(c, p) \in Left
  BY <1>2 DEF At, Left
<1>8. Types'
  <2>1. \A s \in Threads : Busy(s)' => task'[s].room \in Rooms
    BY <1>1, <1>5 DEF Types, TypeOK, Busy, At
  <2>2. \A q \in Rooms : \A d \in rooms'[q] :
           \/ d \in userClients'[UserOf[d]]
           \/ \E s \in Threads : s[1] = d /\ task'[s].at = "addUser"
    BY <1>1, <1>2, <1>5, <1>7 DEF Types, TypeOK, At, Left
  <2>3. QED
    BY <1>1, <1>2, <1>5, <1>6, <2>1, <2>2 DEF Types, TypeOK
<1>9. \A name \in Names \ {p} : At(c, name)' = At(c, name) /\ task'[<<c, name>>] = task[<<c, name>>]
  BY <1>5, ThreadFacts DEF At
<1>10. RoomsOf(c)' = RoomsOf(c)
  BY <1>2 DEF RoomsOf
<1>11. Order(c)'
  BY <1>1, <1>2, <1>3, <1>5, <1>6, <1>9, <1>10
     DEF ClientInv, Order, Tracked, At, Names, Pumps, Registering, Unregistering
<1>12. Unmoved(c)'
  BY <1>1, <1>2, <1>3, <1>5, <1>7, <1>9, <1>10
     DEF ClientInv, Unmoved, At, Names, Pumps, Left
<1>13. Serial(c)'
  <2>1. SUFFICES ASSUME c \notin overlapped', active'[c], At(c, "reader")' = "idle"
                 PROVE  Serial(c)'
    BY DEF Serial, InRoomOf
  <2>2. p \in Pumps
    BY <1>1, <1>2, <1>3, <1>5, <1>7, <2>1 DEF ClientInv, Order, Tracked, At, Pumps, Left
  <2>3. QED
    BY <1>1, <1>2, <1>4, <1>5, <1>7, <1>9, <1>10, <2>1, <2>2, RoomAssumption
       DEF ClientInv, Serial, InRoomOf, At, Names, Pumps, Left, Unregistering, Registering
<1>14. \A d \in Clients \ {c} : Same(d)
  BY <1>2, <1>5, <1>6, ThreadFacts DEF Same, Tracked
<1>15. OwedInv'
  <2>1. SUFFICES ASSUME NEW q \in Rooms, NEW u \in Users, <<q, u>> \in owed'
                 PROVE  \/ MembersOf(q, u)' # {}
                        \/ \E s \in Threads : UserOf[s[1]] = u /\ task'[s].at \in Left
                                               /\ task'[s].room = q
    BY DEF OwedInv, Threads, Pumps
  <2>2. <<q, u>> \in owed /\ MembersOf(q, u)' = MembersOf(q, u)
    BY <1>2, <2>1 DEF MembersOf
  <2>3. CASE MembersOf(q, u) # {}
    BY <2>2, <2>3
  <2>4. CASE MembersOf(q, u) = {}
    <3>1. PICK s \in Threads : UserOf[s[1]] = u /\ task[s].at \in Left /\ task[s].room = q
      BY <1>1, <2>2, <2>4 DEF OwedInv
    <3>2. s # t
      BY <1>2, <2>1, <2>4, <3>1 DEF Online
    <3>3. QED
      BY <1>5, <3>1, <3>2
  <2>5. QED
    BY <2>3, <2>4
<1>16. QED
  BY <1>8, <1>11, <1>12, <1>13, <1>14, <1>15, StepOfOne DEF ClientInv

(***************************************************************************)
(* The invariant holds, and what follows from it.                          *)
(***************************************************************************)

(* It holds before any client connects.                                     *)
LEMMA InitHub == Init => HubInv
<1> SUFFICES ASSUME Init PROVE HubInv
  OBVIOUS
<1>1. task = [t \in Threads |-> Idle] /\ Idle \in TaskType /\ \A t \in Threads : ~Busy(t)
  BY DEF Init, Idle, TaskType, AnyRoom, Busy
<1>2. \A c \in Clients, name \in Names :
          At(c, name) = "idle" /\ task[<<c, name>>].join = NoRoom
  BY <1>1, ThreadFacts DEF At, Idle
<1>3. Types
  BY <1>1, BoundAssumption DEF Init, Types, TypeOK
<1>4. \A c \in Clients : RoomsOf(c) = {} /\ ~Tracked(c) /\ roomOf[c] # Empty
  BY RoomAssumption, UserAssumption DEF Init, RoomsOf, Tracked
<1>5. ASSUME NEW c \in Clients
      PROVE  ClientInv(c)
  <2>1. pumps[c] = 0
    BY DEF Init
  <2>2. Order(c)
    BY <1>2, <1>4, <2>1 DEF Order, Tracked, Names, Pumps
  <2>3. Unmoved(c)
    BY <1>2, <1>4 DEF Unmoved, Left, Names, Pumps
  <2>4. Serial(c)
    BY <1>2, <1>4 DEF Serial, InRoomOf, Left, Unregistering, Registering, Names, Pumps
  <2>5. QED
    BY <2>2, <2>3, <2>4 DEF ClientInv
<1>6. OwedInv
  BY DEF Init, OwedInv
<1>7. QED
  BY <1>3, <1>5, <1>6 DEF HubInv

(* Nothing changes when nothing happens.                                    *)
LEMMA StutterHub == HubInv /\ UNCHANGED vars => HubInv'
<1> SUFFICES ASSUME HubInv, UNCHANGED vars PROVE HubInv'
  OBVIOUS
<1>1. UNCHANGED <<rooms, userClients, roomOf, active, pumps, closed, task, joins, overlapped, owed>>
  BY DEF vars, clientVars, history
<1>2. Types' /\ OwedInv'
  BY <1>1 DEF HubInv, Types, TypeOK, OwedInv, Busy, MembersOf
<1>3. ASSUME NEW c \in Clients PROVE ClientInv(c)'
  BY <1>1, SameClient DEF HubInv, Same, Tracked
<1>4. QED
  BY <1>2, <1>3 DEF HubInv

(* Every step keeps the invariant.                                          *)
LEMMA NextHub == HubInv /\ [Next]_vars => HubInv'
<1> SUFFICES ASSUME HubInv, [Next]_vars PROVE HubInv'
  OBVIOUS
<1>1. ASSUME NEW c \in Clients, Disconnect(c) \/ Close(c) PROVE HubInv'
  BY <1>1, CleanupStep
<1>2. ASSUME NEW c \in Clients, NEW r \in Rooms, Connect(c, r) PROVE HubInv'
  BY <1>2, ConnectStep
<1>3. ASSUME NEW t \in Threads, Leave(t) \/ \E r \in Rooms : Join(t, r) PROVE HubInv'
  <2>1. PICK c \in Clients, p \in Names : t = <<c, p>>
    BY ThreadFacts
  <2>2. p \in Pumps
    BY <1>3, <2>1 DEF Leave, Join, Receive
  <2>3. QED
    BY <1>3, <2>1, <2>2, ReceiveStep
<1>4. ASSUME NEW t \in Threads, Step(t) PROVE HubInv'
  <2>1. PICK c \in Clients, p \in Names : t = <<c, p>>
    BY ThreadFacts
  <2>2. CASE Rename(t) \/ UnregisterSelf(t)
    BY <2>1, <2>2, RenameStep, UnregisterSelfStep
  <2>3. CASE AddToRoom(t)
    BY <2>1, <2>3, AddToRoomStep
  <2>4. CASE AddToUser(t) \/ StartPumps(t) \/ AnnounceOnline(t)
    BY <2>1, <2>4, RegisterStep
  <2>5. CASE RemoveFromRoom(t)
    BY <2>1, <2>5, RemoveFromRoomStep
  <2>6. CASE RemoveFromUser(t) \/ NotOnline(t)
    BY <2>1, <2>6, WaitStep
  <2>7. CASE StillOnline(t) \/ AnnounceOffline(t)
    BY <2>1, <2>7, EndStep
  <2>8. QED
    BY <1>4, <2>2, <2>3, <2>4, <2>5, <2>6, <2>7 DEF Step
<1>5. QED
  BY <1>1, <1>2, <1>3, <1>4, StutterHub DEF Next

(* The invariant holds in every reachable state.                            *)
LEMMA HubAlways == Spec => []HubInv
BY InitHub, NextHub, PTL DEF Spec

(* The registry is well formed, and every client of a room is in its user's *)
(* list or about to be (hub.go:52-81), so a message to a user reaches the   *)
(* clients it has in rooms.                                                 *)
THEOREM TypeCorrect == Spec => []TypeOK
<1>1. HubInv => TypeOK
  BY DEF HubInv, Types
<1>2. QED
  BY <1>1, HubAlways, PTL

(* The last client of a user to leave a room has "offline" announced        *)
(* (hub.go:94-128), however many clients the user has.                      *)
THEOREM LeaversAnnounced == Spec => []LastLeaverAnnounces
<1>1. ASSUME HubInv, NEW r \in Rooms, NEW u \in Users,
             QuietUser(u), MembersOf(r, u) = {}
      PROVE  <<r, u>> \notin owed
  <2>1. \A t \in Threads : t[1] \in Clients /\ (UserOf[t[1]] = u => ~Busy(t))
    BY <1>1, ThreadFacts DEF QuietUser, Quiet
  <2>2. QED
    BY <1>1, <2>1 DEF HubInv, OwedInv, Busy, Left
<1>2. HubInv => LastLeaverAnnounces
  BY <1>1 DEF LastLeaverAnnounces
<1>3. QED
  BY <1>2, HubAlways, PTL

(* A cleanup leaves a client that never moved in no room: its read pump and *)
(* Close both start after it was entered (hub.go:62-84), and the name of    *)
(* its room is not empty.                                                   *)
THEOREM UnmovedLeaveNoGhost == Spec => []NoGhostWithoutJoin
<1>1. ASSUME HubInv, NEW c \in Clients, Departed(c), joins[c] = 0
      PROVE  RoomsOf(c) = {}
  BY <1>1 DEF HubInv, ClientInv, Unmoved, Departed, At
<1>2. HubInv => NoGhostWithoutJoin
  BY <1>1 DEF NoGhostWithoutJoin
<1>3. QED
  BY <1>2, HubAlways, PTL

(* A client whose messages are handled one after the other is in one room   *)
(* at most apart from the one with the empty name, whatever it joins and    *)
(* leaves (client.go:233-244).                                              *)
THEOREM SerialClientsInOneNamedRoom == Spec => []OneNamedRoomIfSerial
<1>1. ASSUME HubInv, NEW c \in Clients, Orderly(c)
      PROVE  InRoomOf(c)
  <2>1. \A name \in Names : At(c, name) \in {"idle", "done"}
    BY <1>1, ThreadFacts DEF Orderly, Quiet, Busy, At
  <2>2. At(c, "reader") = "idle" /\ \A p \in Pumps : At(c, p) = "idle"
    BY <1>1, <2>1 DEF HubInv, ClientInv, Order, Tracked, Orderly, Departed, At, Names, Pumps
  <2>3. QED
    BY <1>1, <2>2 DEF HubInv, ClientInv, Serial, Orderly
<1>2. HubInv => OneNamedRoomIfSerial
  BY <1>1 DEF OneNamedRoomIfSerial, InRoomOf
<1>3. QED
  BY <1>2, HubAlways, PTL
=============================================================================
