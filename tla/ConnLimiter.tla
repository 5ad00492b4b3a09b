---------------------------- MODULE ConnLimiter ----------------------------
(***************************************************************************)
(* The websocket handshake (HandleWebSocket), the limiter of connections   *)
(* per address that it consults, and the ticker that sweeps the limiters.  *)
(*                                                                         *)
(* Requests are served by goroutines of their own, so the steps of two     *)
(* handshakes interleave wherever no lock is held.  A limiter is an object *)
(* the map points to: it is named after the connection whose handshake     *)
(* created it, so that a goroutine may go on with one that the map has     *)
(* dropped or replaced.  Of the hub only its active clients matter here,   *)
(* those that GetHubStats counts.                                          *)
(***************************************************************************)
EXTENDS Integers, FiniteSets

CONSTANTS
    Conns,            \* connections, each with one handshake
    Addresses,        \* clientIP
    AddressOf,        \* the address that a connection comes from
    PerAddress,       \* RateLimit.ConnectionsPerIP
    MaxConnections,
    None              \* no limiter

ASSUME ConnsAssumption ==
    IsFiniteSet(Conns) /\ AddressOf \in [Conns -> Addresses] /\ None \notin Conns
ASSUME LimitsAssumption == PerAddress \in Nat \ {0} /\ MaxConnections \in Nat \ {0}

VARIABLES
    rateLimiters,     \* address -> its limiter
    connections,      \* limiter -> count; zero is an absent entry
    step,             \* where the goroutines of a connection are
    limiter,          \* the limiter such a goroutine holds
    clients,          \* active clients that are in a room of the hub
    ctxDone,          \* ctx of the client
    gone,             \* the connection is closed
    raced,            \* history: a handshake overlapped another or a sweep
    left,             \* history: a connected client left its room
    countedOn         \* history: the limiter that counted a connection

limits  == <<rateLimiters, connections>>
session == <<clients, ctxDone, gone, left>>
history == <<raced, countedOn>>
vars    == <<limits, step, limiter, session, history>>

Steps == {"new", "create", "check", "capacity", "upgrade", "count", "add",
          "open", "subtract", "released", "refused"}

Init ==
    /\ rateLimiters = [a \in Addresses |-> None]
    /\ connections = [c \in Conns |-> 0]
    /\ step = [c \in Conns |-> "new"]
    /\ limiter = [c \in Conns |-> None]
    /\ clients = {} /\ ctxDone = {} /\ gone = {}
    /\ raced = FALSE /\ left = FALSE
    /\ countedOn = [c \in Conns |-> None]

-----------------------------------------------------------------------------
At(c, s) == step[c] = s
Go(c, s) == step' = [step EXCEPT ![c] = s]
Current(c) == rateLimiters[AddressOf[c]]

Shaking   == {c \in Conns : step[c] \in {"create", "check", "capacity", "upgrade", "count", "add"}}
Connected == {c \in Conns : step[c] \in {"count", "add", "open"}} \ gone

(* checkRateLimit: the lookup, under a read lock.                           *)
Arrive(c) ==
    /\ At(c, "new")
    /\ limiter' = [limiter EXCEPT ![c] = Current(c)]
    /\ Go(c, IF Current(c) = None THEN "create" ELSE "check")
    /\ raced' = (raced \/ Shaking # {})
    /\ UNCHANGED <<limits, session, countedOn>>

\* Under the write lock, and without a second look: a limiter that another
\* handshake has put there meanwhile is replaced.
Create(c) ==
    /\ At(c, "create")
    /\ rateLimiters' = [rateLimiters EXCEPT ![AddressOf[c]] = c]
    /\ limiter' = [limiter EXCEPT ![c] = c]
    /\ Go(c, "check")
    /\ UNCHANGED <<connections, session, history>>

\* Mutant: one connection more.
CheckLoose(c) ==
    /\ At(c, "check")
    /\ Go(c, IF connections[limiter[c]] <= PerAddress THEN "capacity" ELSE "refused")
    /\ UNCHANGED <<limits, limiter, session, history>>

Check(c) ==
    /\ At(c, "check")
    /\ Go(c, IF connections[limiter[c]] < PerAddress THEN "capacity" ELSE "refused")
    /\ UNCHANGED <<limits, limiter, session, history>>

Capacity(c) ==
    /\ At(c, "capacity")
    /\ Go(c, IF Cardinality(clients) >= MaxConnections THEN "refused" ELSE "upgrade")
    /\ UNCHANGED <<limits, limiter, session, history>>

\* Upgrade fails, or the client is registered.
Upgrade(c) ==
    /\ At(c, "upgrade")
    /\ \/ Go(c, "refused") /\ UNCHANGED clients
       \/ Go(c, "count") /\ clients' = clients \cup {c}
    /\ UNCHANGED <<limits, limiter, ctxDone, gone, left, history>>

-----------------------------------------------------------------------------
(* updateConnectionCount: the lookup, then the limiter's own lock.  Without *)
(* a limiter there is nothing to count.                                     *)

Count(c) ==
    /\ At(c, "count")
    /\ limiter' = [limiter EXCEPT ![c] = Current(c)]
    /\ Go(c, IF Current(c) = None THEN "open" ELSE "add")
    /\ UNCHANGED <<limits, session, history>>
Add(c) ==
    /\ At(c, "add")
    /\ connections' = [connections EXCEPT ![limiter[c]] = @ + 1]
    /\ countedOn' = [countedOn EXCEPT ![c] = limiter[c]]
    /\ Go(c, "open")
    /\ UNCHANGED <<rateLimiters, limiter, session, raced>>

\* Mutant: only while the connection is there.
ReleaseConnected(c) ==
    /\ At(c, "open") /\ c \in ctxDone \ gone
    /\ limiter' = [limiter EXCEPT ![c] = Current(c)]
    /\ Go(c, IF Current(c) = None THEN "released" ELSE "subtract")
    /\ UNCHANGED <<limits, session, history>>

\* The goroutine that waits for the client's context.
Release(c) ==
    /\ At(c, "open") /\ c \in ctxDone
    /\ limiter' = [limiter EXCEPT ![c] = Current(c)]
    /\ Go(c, IF Current(c) = None THEN "released" ELSE "subtract")
    /\ UNCHANGED <<limits, session, history>>

\* An entry at zero or below is deleted.
Subtract(c) ==
    /\ At(c, "subtract")
    /\ connections' = [connections EXCEPT ![limiter[c]] = IF @ > 0 THEN @ - 1 ELSE 0]
    /\ Go(c, "released")
    /\ UNCHANGED <<rateLimiters, limiter, session, history>>

-----------------------------------------------------------------------------
(* The client after Register.                                               *)

\* The peer goes away and the pumps clean up: they unregister the client and
\* close the connection, and leave the context alone.
Disconnect(c) ==
    /\ c \in Connected
    /\ gone' = gone \cup {c} /\ clients' = clients \ {c}
    /\ UNCHANGED <<limits, step, limiter, ctxDone, left, history>>

\* Close by the hub, for a slow consumer, or by an administrator, who finds
\* clients in the list of their user even after they have gone.
Close(c) ==
    /\ step[c] \in {"count", "add", "open"} /\ c \notin ctxDone
    /\ ctxDone' = ctxDone \cup {c}
    /\ gone' = gone \cup {c} /\ clients' = clients \ {c}
    /\ UNCHANGED <<limits, step, limiter, left, history>>

\* A client leaves its room and joins one again.
LeaveRoom(c) ==
    /\ c \in Connected \cap clients
    /\ clients' = clients \ {c} /\ left' = TRUE
    /\ UNCHANGED <<limits, step, limiter, ctxDone, gone, history>>
JoinRoom(c) ==
    /\ c \in Connected \ clients
    /\ clients' = clients \cup {c}
    /\ UNCHANGED <<limits, step, limiter, ctxDone, gone, left, history>>

\* Mutant: limiters that count something are swept too.
SweepAll(a) ==
    /\ rateLimiters[a] # None
    /\ rateLimiters' = [rateLimiters EXCEPT ![a] = None]
    /\ raced' = (raced \/ \E c \in Shaking : AddressOf[c] = a)
    /\ UNCHANGED <<connections, step, limiter, session, countedOn>>

\* cleanupRateLimiters, on a ticker; messages is always empty.
Sweep(a) ==
    /\ rateLimiters[a] # None /\ connections[rateLimiters[a]] = 0
    /\ rateLimiters' = [rateLimiters EXCEPT ![a] = None]
    /\ raced' = (raced \/ \E c \in Shaking : AddressOf[c] = a)
    /\ UNCHANGED <<connections, step, limiter, session, countedOn>>

-----------------------------------------------------------------------------
Handshake(c) == Arrive(c) \/ Create(c) \/ Check(c) \/ Capacity(c) \/ Upgrade(c)
                \/ Count(c) \/ Add(c)
CleanUp(c)   == Release(c) \/ Subtract(c)
Client(c)    == Disconnect(c) \/ Close(c) \/ LeaveRoom(c) \/ JoinRoom(c)

Next ==
    \/ \E c \in Conns : Handshake(c) \/ CleanUp(c) \/ Client(c)
    \/ \E a \in Addresses : Sweep(a)

Spec == Init /\ [][Next]_vars

(* A goroutine that can run does; nobody need connect, leave or close.      *)
FairSpec ==
    /\ Spec
    /\ \A c \in Conns : WF_vars(step[c] # "new" /\ Handshake(c)) /\ WF_vars(CleanUp(c))

-----------------------------------------------------------------------------
\* Connections from an address that were counted and are not released.
Held(a) == {c \in Conns : AddressOf[c] = a /\ countedOn[c] # None /\ step[c] # "released"}
\* What the map says of an address.
CountOf(a) == IF rateLimiters[a] = None THEN 0 ELSE connections[rateLimiters[a]]

(* Type invariant.                                                          *)
TypeOK ==
    /\ rateLimiters \in [Addresses -> Conns \cup {None}]
    /\ connections \in [Conns -> Nat]
    /\ step \in [Conns -> Steps]
    /\ limiter \in [Conns -> Conns \cup {None}]
    /\ clients \subseteq Conns /\ ctxDone \subseteq gone /\ gone \subseteq Conns
    /\ {raced, left} \subseteq BOOLEAN /\ countedOn \in [Conns -> Conns \cup {None}]

(* Whatever limiters were replaced or swept under way, an address is never  *)
(* charged for more connections than it has been counted for and has not    *)
(* been released from; and unless handshakes overlapped each other or a     *)
(* sweep, it is charged for exactly those (helper.go:64-100, 128-130).      *)
(* TypeOK is checked with it.                                               *)
CountIsFaithful ==
    TypeOK /\ \A a \in Addresses :
        /\ CountOf(a) <= Cardinality({c \in Held(a) : countedOn[c] = rateLimiters[a]})
        /\ ~raced => CountOf(a) = Cardinality(Held(a))

(* Unless handshakes overlapped each other or a sweep, no address has more  *)
(* connections open than the limit, however many closed and came back       *)
(* (helper.go:64-82, 128-130); and unless, besides, a client left its room  *)
(* and made place for another before it joined again, the hub has at most   *)
(* MaxConnections clients (handler.go:128).                                 *)
LimitsHeldUnlessRaced ==
    ~raced =>
        /\ \A a \in Addresses :
              Cardinality({c \in Connected : AddressOf[c] = a}) <= PerAddress
        /\ ~left => Cardinality(clients) <= MaxConnections

(* The count of a client whose context is done is taken off                 *)
(* (handler.go:162-164).                                                    *)
ClosedIsReleased == \A c \in Conns : c \in ctxDone ~> At(c, "released")

-----------------------------------------------------------------------------
(* A claim of a comment, checked by a run of its own.                       *)

(* "Setup cleanup on disconnect" (handler.go:161): a connection that ends   *)
(* gives its place back.                                                    *)
DisconnectedIsReleased == \A c \in Conns : c \in gone ~> At(c, "released")
=============================================================================
