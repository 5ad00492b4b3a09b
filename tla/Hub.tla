-------------------------------- MODULE Hub --------------------------------
(***************************************************************************)
(* The registry of the websocket hub (internal/websocket/hub.go): which    *)
(* clients are in which room, and which clients a user has.  The two maps  *)
(* have a lock each, so Register and Unregister are not atomic: each       *)
(* critical section is a step, and the goroutines of one client and of     *)
(* different clients interleave between them.                              *)
(*                                                                         *)
(* The goroutines of a client are the one of the HTTP handler that         *)
(* connects it, up to MaxPumps message pumps (client.Start is called by    *)
(* every Register), the read pump, which cleans up when the connection     *)
(* breaks, and whoever calls Close.  What happens on the client's channels *)
(* is another module's concern; here a message pump just takes no message  *)
(* once the Receive channel was closed.                                    *)
(*                                                                         *)
(* A connection names a room (handler.go:105), but a join message may name *)
(* any, the empty string as well, and the code takes a client with an      *)
(* empty RoomID for one that is in no room: a join and a cleanup then      *)
(* unregister nothing, and the client stays in the room "".                *)
(***************************************************************************)
EXTENDS Integers, FiniteSetsExt

CONSTANTS
    Clients, Users,
    UserOf,         \* the user of each client
    Rooms, Empty,   \* the names of rooms, and the empty one among them
    NoRoom,         \* no name at all: before a connection, or no argument
    MaxPumps,       \* bound on the message pumps of a client
    MaxEvents       \* bound on the connections made and the join and leave
                    \* messages taken, all clients together

ASSUME UserAssumption  == UserOf \in [Clients -> Users]
ASSUME RoomAssumption  == NoRoom \notin Rooms /\ Empty \in Rooms
ASSUME BoundAssumption == MaxPumps \in Nat /\ MaxEvents \in Nat

VARIABLES
    rooms,         \* rooms: the clients of each room
    userClients,   \* userClients: the clients in the slice of each user
    roomOf,        \* RoomID of each client
    active,        \* IsActive
    pumps,         \* message pumps that were started
    closed,        \* clients whose Receive channel a cleanup has closed
    task,          \* what each goroutine is doing
    joins,         \* history: join and leave messages taken by each client
    overlapped,    \* history: clients with two pumps at work at once
    owed           \* history: room and user with an offline status to announce

clientVars == <<roomOf, active, pumps, closed>>
history    == <<joins, overlapped, owed>>
vars       == <<rooms, userClients, clientVars, task, history>>

Pumps   == {"pump" , "pump2"}
Threads == Clients \X ({"connect", "reader", "closer"} \cup Pumps)
Nth(p)  == IF p = "pump" THEN 1 ELSE 2

\* room: the argument of the Register or Unregister under way; join: the
\* room to register in afterwards.
Idle == [at |-> "idle", room |-> NoRoom, join |-> NoRoom]
Busy(t) == task[t].at \notin {"idle", "done"}

Init ==
    /\ rooms = [r \in Rooms |-> {}]
    /\ userClients = [u \in Users |-> {}]
    /\ roomOf = [c \in Clients |-> NoRoom]
    /\ active = [c \in Clients |-> TRUE]
    /\ pumps = [c \in Clients |-> 0]
    /\ closed = {}
    /\ task = [t \in Threads |-> Idle]
    /\ joins = [c \in Clients |-> 0] /\ overlapped = {}
    /\ owed = {}

-----------------------------------------------------------------------------
MembersOf(r, u) == {c \in rooms[r] : UserOf[c] = u}
RoomsOf(c)      == {r \in Rooms : c \in rooms[r]}

Go(t, step)     == task' = [task EXCEPT ![t].at = step]
Begin(t, step, room, join) ==
    task' = [task EXCEPT ![t] = [at |-> step, room |-> room, join |-> join]]

\* A message pump goes back to its loop; the other goroutines are done.
Finish(t) == task' = [task EXCEPT ![t] = [Idle EXCEPT !.at =
                        IF t[2] \in Pumps THEN "idle" ELSE "done"]]

\* The end of a cleanup: it takes a message off the Receive channel, or closes
\* the channel if none is waiting; before the pumps start none is.
CloseReceive(c) == \/ closed' = closed \cup {c}
                   \/ pumps[c] > 0 /\ UNCHANGED closed

\* Unregister has returned: a cleanup turns to the channels, a join goes on.
AfterUnregister(t) ==
    /\ IF task[t].join # NoRoom THEN Begin(t, "addRoom", task[t].join, NoRoom) ELSE Finish(t)
    /\ IF t[2] \in {"reader", "closer"} THEN CloseReceive(t[1]) ELSE UNCHANGED closed

\* cleanup: a client with an empty RoomID is not unregistered.
StartCleanup(t) ==
    IF roomOf[t[1]] = Empty THEN Finish(t) /\ CloseReceive(t[1])
                            ELSE Begin(t, "cleanup", roomOf[t[1]], NoRoom) /\ UNCHANGED closed

-----------------------------------------------------------------------------
(* What starts a Register or an Unregister.                                 *)

Connected == {c \in Clients : task[<<c, "connect">>].at # "idle"}
Events    == Cardinality(Connected) + MapThenSumSet(LAMBDA c : joins[c], Clients)

ConnectStarting(c, r) ==
    LET t == <<c, "connect">> IN
    /\ r # Empty /\ task[t].at = "idle" /\ Events < MaxEvents
    /\ roomOf' = [roomOf EXCEPT ![c] = r]
    /\ pumps' = [pumps EXCEPT ![c] = 1]
    /\ Begin(t, "addRoom", r, NoRoom)
    /\ UNCHANGED <<rooms, userClients, active, closed, history>>
\* HandleWebSocket.
Connect(c, r) ==
    LET t == <<c, "connect">> IN
    /\ r # Empty /\ task[t].at = "idle" /\ Events < MaxEvents
    /\ roomOf' = [roomOf EXCEPT ![c] = r]
    /\ Begin(t, "addRoom", r, NoRoom)
    /\ UNCHANGED <<rooms, userClients, active, pumps, closed, history>>

\* A message pump takes a message.
Receive(t) ==
    /\ t[2] \in Pumps /\ Nth(t[2]) <= pumps[t[1]]
    /\ task[t].at = "idle" /\ t[1] \notin closed
    /\ Events < MaxEvents
    /\ joins' = [joins EXCEPT ![t[1]] = @ + 1]
    /\ overlapped' = IF \E p \in Pumps \ {t[2]} : Busy(<<t[1], p>>)
                       THEN overlapped \cup {t[1]} ELSE overlapped
    /\ UNCHANGED <<rooms, userClients, clientVars, owed>>

\* handleJoinRoom: oldRoomID is read without the lock ...
Join(t, r) == Receive(t) /\ Begin(t, "rename", roomOf[t[1]], r)

\* ... and RoomID is assigned under it.
RenameOnly(t) ==
    /\ task[t].at = "rename"
    /\ roomOf' = [roomOf EXCEPT ![t[1]] = task[t].join]
    /\ Begin(t, "addRoom", task[t].join, NoRoom)
    /\ UNCHANGED <<rooms, userClients, active, pumps, closed, history>>
Rename(t) ==
    /\ task[t].at = "rename"
    /\ roomOf' = [roomOf EXCEPT ![t[1]] = task[t].join]
    /\ IF task[t].room \notin {Empty, task[t].join}
         THEN Go(t, "delRoom")
         ELSE Begin(t, "addRoom", task[t].join, NoRoom)
    /\ UNCHANGED <<rooms, userClients, active, pumps, closed, history>>

\* handleLeaveRoom: RoomID stays.
Leave(t) == Receive(t) /\ Begin(t, "delRoom", roomOf[t[1]], NoRoom)

\* The connection breaks: the deferred cleanup of the read pump.
Disconnect(c) ==
    LET t == <<c, "reader">> IN
    /\ pumps[c] > 0 /\ task[t].at = "idle"
    /\ StartCleanup(t)
    /\ UNCHANGED <<rooms, userClients, roomOf, active, pumps, history>>

\* Close, of a client found in a room (the cleanup routine, a slow broadcast) or
\* in its user's list (an administrator, a reply that finds Send full); it
\* returns early when IsActive is unset.
Close(c) ==
    LET t == <<c, "closer">> IN
    /\ RoomsOf(c) # {} \/ c \in userClients[UserOf[c]]
    /\ active[c] /\ task[t].at = "idle"
    /\ active' = [active EXCEPT ![c] = FALSE]
    /\ StartCleanup(t)
    /\ UNCHANGED <<rooms, userClients, roomOf, pumps, history>>

\* cleanup reads RoomID again for the call of Unregister.
UnregisterSelf(t) ==
    /\ task[t].at = "cleanup"
    /\ Begin(t, "delRoom", roomOf[t[1]], NoRoom)
    /\ UNCHANGED <<rooms, userClients, clientVars, history>>

-----------------------------------------------------------------------------
(* The steps of Register.                                                   *)

AddToRoom(t) ==
    /\ task[t].at = "addRoom"
    /\ rooms' = [rooms EXCEPT ![task[t].room] = @ \cup {t[1]}]
    /\ Go(t, "addUser")
    /\ UNCHANGED <<userClients, clientVars, history>>

AddToUserReplacing(t) ==
    /\ task[t].at = "addUser"
    /\ userClients' = [userClients EXCEPT ![UserOf[t[1]]] = {t[1]}]
    /\ Go(t, "start")
    /\ UNCHANGED <<rooms, clientVars, history>>
AddToUser(t) ==
    /\ task[t].at = "addUser"
    /\ userClients' = [userClients EXCEPT ![UserOf[t[1]]] = @ \cup {t[1]}]
    /\ Go(t, "start")
    /\ UNCHANGED <<rooms, clientVars, history>>

StartPumps(t) ==
    /\ task[t].at = "start"
    /\ pumps' = [pumps EXCEPT ![t[1]] = IF @ < MaxPumps THEN @ + 1 ELSE @]
    /\ Go(t, "online")
    /\ UNCHANGED <<rooms, userClients, roomOf, active, closed, history>>

AnnounceOnline(t) ==
    /\ task[t].at = "online"
    /\ Finish(t)
    /\ UNCHANGED <<rooms, userClients, clientVars, history>>

-----------------------------------------------------------------------------
(* The steps of Unregister.                                                 *)

RemoveFromRoom(t) ==
    LET r == task[t].room  u == UserOf[t[1]] IN
    /\ task[t].at = "delRoom"
    /\ rooms' = [rooms EXCEPT ![r] = @ \ {t[1]}]
    /\ owed' = IF MembersOf(r, u) = {t[1]} THEN owed \cup {<<r, u>>} ELSE owed
    /\ Go(t, "delUser")
    /\ UNCHANGED <<userClients, clientVars, joins, overlapped>>

\* What follows the client in the slice is appended to the whole slice (and
\* not to what precedes it): nobody leaves it, it only gets longer.
RemoveFromUser(t) ==
    /\ task[t].at = "delUser"
    /\ Go(t, "check")
    /\ UNCHANGED <<rooms, userClients, clientVars, history>>

\* IsUserOnlineInRoom: some active client of the user is in the room.
OnlineTracked(r, u) == \E c \in userClients[u] : active[c]
Online(r, u) == \E c \in MembersOf(r, u) : active[c]

StillOnline(t) ==
    /\ task[t].at = "check"
    /\ Online(task[t].room, UserOf[t[1]])
    /\ AfterUnregister(t)
    /\ UNCHANGED <<rooms, userClients, roomOf, active, pumps, history>>

NotOnline(t) ==
    /\ task[t].at = "check"
    /\ ~Online(task[t].room, UserOf[t[1]])
    /\ Go(t, "offline")
    /\ UNCHANGED <<rooms, userClients, clientVars, history>>

AnnounceOffline(t) ==
    /\ task[t].at = "offline"
    /\ owed' = owed \ {<<task[t].room, UserOf[t[1]]>>}
    /\ AfterUnregister(t)
    /\ UNCHANGED <<rooms, userClients, roomOf, active, pumps, joins, overlapped>>

-----------------------------------------------------------------------------
Step(t) ==
    \/ Rename(t) \/ UnregisterSelf(t)
    \/ AddToRoom(t) \/ AddToUser(t) \/ StartPumps(t) \/ AnnounceOnline(t)
    \/ RemoveFromRoom(t) \/ RemoveFromUser(t)
    \/ StillOnline(t) \/ NotOnline(t) \/ AnnounceOffline(t)

Next ==
    \/ \E c \in Clients : Disconnect(c) \/ Close(c)
    \/ \E c \in Clients, r \in Rooms : Connect(c, r)
    \/ \E t \in Threads : Leave(t) \/ Step(t)
    \/ \E t \in Threads, r \in Rooms : Join(t, r)

Spec == Init /\ [][Next]_vars

-----------------------------------------------------------------------------
Quiet(c)   == \A t \in Threads : t[1] = c => ~Busy(t)
\* A cleanup of the client has ended.
Departed(c) == \E name \in {"reader", "closer"} : task[<<c, name>>].at = "done"
QuietUser(u) == \A c \in Clients : UserOf[c] = u => Quiet(c)

(* Type invariant.  Every client of a room is in its user's list, or about  *)
(* to be entered in it, so that BroadcastToUser (hub.go:212) misses none.   *)
TypeOK ==
    /\ rooms \in [Rooms -> SUBSET Clients]
    /\ \A u \in Users : userClients[u] \subseteq {c \in Clients : UserOf[c] = u}
    /\ roomOf \in [Clients -> Rooms \cup {NoRoom}]
    /\ active \in [Clients -> BOOLEAN]
    /\ pumps \in [Clients -> 0..MaxPumps]
    /\ closed \subseteq Clients
    /\ \A t \in Threads : Busy(t) => task[t].room \in Rooms
    /\ \A c \in Clients : pumps[c] > 0 => roomOf[c] \in Rooms
    /\ \A r \in Rooms : \A c \in rooms[r] :
           \/ c \in userClients[UserOf[c]]
           \/ \E t \in Threads : t[1] = c /\ task[t].at = "addUser"

(* The last client of a user to leave a room never leaves silently: between *)
(* the removal and the check (hub.go:94-128) other clients of the user may  *)
(* come and go, but when all is quiet and the user is gone, "offline" was   *)
(* announced after the removal.                                             *)
LastLeaverAnnounces ==
    \A r \in Rooms, u \in Users :
        QuietUser(u) /\ MembersOf(r, u) = {} => <<r, u>> \notin owed

(* A client that sent no join message leaves no ghost behind: when a        *)
(* cleanup has ended and its goroutines are quiet it is in no room, because *)
(* its pumps start only after it was entered (hub.go:62-84), and RoomID is  *)
(* that of the connection, which is not empty.  A client closed in the      *)
(* middle of a join does stay: it is entered after its cleanup, and every   *)
(* later Close returns early (client.go:331).                               *)
NoGhostWithoutJoin ==
    \A c \in Clients :
        Departed(c) /\ joins[c] = 0 /\ Quiet(c) => RoomsOf(c) = {}

\* Its messages are handled one after the other, and no cleanup has begun.
Orderly(c) == Quiet(c) /\ c \notin overlapped /\ ~Departed(c) /\ active[c]

(* Apart from the room with the empty name, a client is in one room at      *)
(* most, the one RoomID names, as long as its messages are handled one      *)
(* after the other (client.go:233-244).                                     *)
OneNamedRoomIfSerial ==
    \A c \in Clients : Orderly(c) => RoomsOf(c) \subseteq {roomOf[c], Empty}
=============================================================================
