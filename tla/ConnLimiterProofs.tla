------------------------- MODULE ConnLimiterProofs -------------------------
(* Theorems about ConnLimiter, for any number of connections and addresses  *)
(* and any limits.                                                          *)
EXTENDS ConnLimiter, FiniteSetTheorems, TLAPS

(***************************************************************************)
(* The inductive invariant.                                                *)
(***************************************************************************)

\* A limiter that its handshake has created.
Made(l) == step[l] \notin {"new", "create"}

\* A limiter is of one address, is created once, and is empty until then; a
\* connection that gives its place back while its limiter is still in the
\* map gives it back there.
Kept ==
    /\ \A a \in Addresses : rateLimiters[a] # None =>
          AddressOf[rateLimiters[a]] = a /\ Made(rateLimiters[a])
    /\ \A c \in Conns : limiter[c] # None =>
          AddressOf[limiter[c]] = AddressOf[c] /\ Made(limiter[c])
    /\ \A c \in Conns : countedOn[c] # None =>
          /\ AddressOf[countedOn[c]] = AddressOf[c] /\ Made(countedOn[c])
          /\ step[c] \in {"open", "subtract", "released"}
    /\ \A c \in Conns : ~Made(c) => connections[c] = 0
    /\ \A c \in Conns : step[c] \in {"check", "add", "subtract"} => limiter[c] # None
    /\ \A c \in Conns : step[c] = "subtract" /\ countedOn[c] # None /\ countedOn[c] = Current(c) =>
          limiter[c] = countedOn[c]

Charged(l) == {c \in Conns : countedOn[c] = l /\ step[c] # "released"}

Covered(a) ==
    rateLimiters[a] # None => connections[rateLimiters[a]] <= Cardinality(Charged(rateLimiters[a]))
NotAhead == \A a \in Addresses : Covered(a)

\* One handshake at a time, none of them with a sweep: what a connection was
\* counted on is what the map still has, and what it checked still holds.
Serial ==
    /\ \A c, d \in Shaking : c = d
    /\ \A c \in Conns :
          /\ step[c] = "create" => Current(c) = None
          /\ step[c] \in {"check", "capacity", "upgrade", "count", "add", "open", "subtract"} =>
                Current(c) # None
          /\ step[c] \in {"check", "add", "subtract"} => limiter[c] = Current(c)
          /\ step[c] \in {"open", "subtract"} => countedOn[c] = Current(c)
          /\ step[c] \in {"capacity", "upgrade", "count", "add"} =>
                connections[Current(c)] < PerAddress
    /\ \A a \in Addresses : CountOf(a) <= PerAddress

Exact == \A a \in Addresses : CountOf(a) = Cardinality(Held(a))

\* As long as nobody leaves its room, who is connected is in one.
Seated ==
    /\ Connected \subseteq clients
    /\ Cardinality(clients) <= MaxConnections
    /\ \A c \in Conns : step[c] = "upgrade" => Cardinality(clients) < MaxConnections

Inv == TypeOK /\ Kept /\ NotAhead /\ (~raced => Serial /\ Exact /\ (~left => Seated))

(***************************************************************************)
(* A step is of one connection, or a sweep.                                *)
(***************************************************************************)

Types ==
    /\ rateLimiters \in [Addresses -> Conns \cup {None}]
    /\ connections \in [Conns -> Nat]
    /\ step \in [Conns -> Steps]
    /\ limiter \in [Conns -> Conns \cup {None}]
    /\ clients \subseteq Conns /\ ctxDone \subseteq gone /\ gone \subseteq Conns
    /\ countedOn \in [Conns -> Conns \cup {None}]

LEMMA TypeSplit == TypeOK <=> Types /\ raced \in BOOLEAN /\ left \in BOOLEAN
BY DEF TypeOK, Types

LEMMA TypeStep == TypeOK /\ Kept /\ [Next]_vars => TypeOK'
<1> SUFFICES ASSUME TypeOK, Kept, [Next]_vars PROVE TypeOK'
  OBVIOUS
<1>1. Types /\ raced \in BOOLEAN /\ left \in BOOLEAN
  BY TypeSplit
<1>2. raced' \in BOOLEAN /\ left' \in BOOLEAN
  BY <1>1, Zenon DEF Next, vars, limits, session, history, Handshake, CleanUp, Client, Arrive,
     Create, Check, Capacity, Upgrade, Count, Add, Release, Subtract, Disconnect, Close,
     LeaveRoom, JoinRoom, Sweep
<1>3. Types'
  <2> USE <1>1 DEF Types, limits, session, history, Go
  <2>1. ASSUME NEW c \in Conns, Arrive(c) \/ Create(c) PROVE Types'
    BY <2>1, ConnsAssumption DEF Steps, Arrive, Create, Current
  <2>2. ASSUME NEW c \in Conns, Check(c) \/ Capacity(c) \/ Upgrade(c) PROVE Types'
    BY <2>2 DEF Steps, Check, Capacity, Upgrade
  <2>3. ASSUME NEW c \in Conns, Count(c) \/ Release(c) PROVE Types'
    BY <2>3, ConnsAssumption DEF Steps, Count, Release, Current
  <2>4. ASSUME NEW c \in Conns, Add(c) PROVE Types'
    <3>1. limiter[c] \in Conns
      BY <2>4 DEF Add, Kept, At
    <3>2. connections[limiter[c]] + 1 \in Nat
      BY <3>1
    <3> QED
      BY <2>4, <3>2 DEF Steps, Add
  <2>5. ASSUME NEW c \in Conns, Subtract(c) PROVE Types'
    <3> DEFINE n == IF connections[limiter[c]] > 0 THEN connections[limiter[c]] - 1 ELSE 0
    <3>1. limiter[c] \in Conns
      BY <2>5 DEF Subtract, Kept, At
    <3>2. n \in Nat
      BY <3>1
    <3>3. connections' = [connections EXCEPT ![limiter[c]] = n]
      BY <2>5 DEF Subtract
    <3> HIDE DEF n
    <3> QED
      BY <2>5, <3>2, <3>3 DEF Steps, Subtract
  <2>6. ASSUME NEW c \in Conns, Client(c) PROVE Types'
    BY <2>6 DEF Client, Disconnect, Close, LeaveRoom, JoinRoom, Connected
  <2>7. ASSUME NEW a \in Addresses, Sweep(a) PROVE Types'
    BY <2>7 DEF Sweep
  <2>8. CASE UNCHANGED vars
    BY <2>8 DEF vars
  <2> QED
    BY <2>1, <2>2, <2>3, <2>4, <2>5, <2>6, <2>7, <2>8 DEF Next, Handshake, CleanUp
<1> QED
  BY <1>2, <1>3 DEF TypeOK, Types

LEMMA KeptStep == TypeOK /\ Kept /\ [Next]_vars => Kept'
<1> SUFFICES ASSUME Types, Kept, [Next]_vars PROVE Kept'
  BY TypeSplit
<1> USE DEF limits, session, history, Go, Made, At, Current
<1>1. ASSUME NEW c \in Conns, Arrive(c) PROVE Kept'
  <2>1. /\ \A d \in Conns : limiter'[d] = IF d = c THEN Current(c) ELSE limiter[d]
        /\ \A d \in Conns : step'[d] = IF d = c THEN IF Current(c) = None THEN "create" ELSE "check"
                                               ELSE step[d]
        /\ UNCHANGED <<rateLimiters, connections, countedOn>> /\ step[c] = "new"
    BY <1>1 DEF Types, Arrive
  <2>2. /\ \A d \in Conns : Made(d)' <=> (d = c /\ Current(c) # None) \/ (d # c /\ Made(d))
        /\ AddressOf[c] \in Addresses
    BY <2>1, ConnsAssumption
  <2> QED
    BY <2>1, <2>2, ConnsAssumption DEF Types, Kept
<1>2. ASSUME NEW c \in Conns, Create(c) PROVE Kept'
  <2>1. /\ \A d \in Conns : limiter'[d] = IF d = c THEN c ELSE limiter[d]
        /\ \A d \in Conns : step'[d] = IF d = c THEN "check" ELSE step[d]
        /\ \A a \in Addresses : rateLimiters'[a] = IF a = AddressOf[c] THEN c ELSE rateLimiters[a]
        /\ UNCHANGED <<connections, countedOn>> /\ step[c] = "create"
    BY <1>2 DEF Types, Create
  <2>2. /\ \A d \in Conns : Made(d)' <=> d = c \/ Made(d)
        /\ \A d \in Conns : AddressOf[d] \in Addresses
    BY <2>1, ConnsAssumption
  <2> QED
    BY <2>1, <2>2, ConnsAssumption DEF Types, Kept
<1>3. ASSUME NEW c \in Conns, Check(c) \/ Capacity(c) PROVE Kept'
  BY <1>3, ConnsAssumption DEF Types, Steps, Kept, Check, Capacity
<1>4. ASSUME NEW c \in Conns, Upgrade(c) PROVE Kept'
  BY <1>4, ConnsAssumption DEF Types, Steps, Kept, Upgrade
<1>5. ASSUME NEW c \in Conns, Count(c) PROVE Kept'
  <2>1. /\ \A d \in Conns : limiter'[d] = IF d = c THEN Current(c) ELSE limiter[d]
        /\ \A d \in Conns : step'[d] = IF d = c THEN IF Current(c) = None THEN "open" ELSE "add"
                                               ELSE step[d]
        /\ UNCHANGED <<rateLimiters, connections, countedOn>> /\ step[c] = "count"
    BY <1>5 DEF Types, Count
  <2>2. /\ \A d \in Conns : Made(d)' <=> Made(d)
        /\ AddressOf[c] \in Addresses
    BY <2>1, ConnsAssumption
  <2> QED
    BY <2>1, <2>2, ConnsAssumption DEF Types, Kept
<1>6. ASSUME NEW c \in Conns, Add(c) PROVE Kept'
  BY <1>6, ConnsAssumption DEF Types, Steps, Kept, Add
<1>7. ASSUME NEW c \in Conns, Release(c) PROVE Kept'
  <2>1. /\ \A d \in Conns : limiter'[d] = IF d = c THEN Current(c) ELSE limiter[d]
        /\ \A d \in Conns :
              step'[d] = IF d = c THEN IF Current(c) = None THEN "released" ELSE "subtract"
                                  ELSE step[d]
        /\ UNCHANGED <<rateLimiters, connections, countedOn>> /\ step[c] = "open"
    BY <1>7 DEF Types, Release
  <2>2. /\ \A d \in Conns : Made(d)' <=> Made(d)
        /\ AddressOf[c] \in Addresses
    BY <2>1, ConnsAssumption
  <2> QED
    BY <2>1, <2>2, ConnsAssumption DEF Types, Kept
<1>8. ASSUME NEW c \in Conns, Subtract(c) PROVE Kept'
  BY <1>8, ConnsAssumption DEF Types, Steps, Kept, Subtract
<1>9. ASSUME NEW c \in Conns, Client(c) PROVE Kept'
  BY <1>9 DEF Kept, Client, Disconnect, Close, LeaveRoom, JoinRoom
<1>10. ASSUME NEW a \in Addresses, Sweep(a) PROVE Kept'
  BY <1>10, ConnsAssumption DEF Types, Kept, Sweep
<1>11. CASE UNCHANGED vars
  BY <1>11 DEF Kept, vars
<1> QED
  BY <1>1, <1>2, <1>3, <1>4, <1>5, <1>6, <1>7, <1>8, <1>9, <1>10, <1>11
     DEF Next, Handshake, CleanUp

(***************************************************************************)
(* What a step does to the counts.                                         *)
(***************************************************************************)

LEMMA SetsFinite ==
    ASSUME Types
    PROVE  /\ IsFiniteSet(clients) /\ Cardinality(clients) \in Nat
           /\ \A l : IsFiniteSet(Charged(l)) /\ Cardinality(Charged(l)) \in Nat
           /\ \A a : IsFiniteSet(Held(a)) /\ Cardinality(Held(a)) \in Nat
<1>1. /\ clients \subseteq Conns
      /\ \A l : Charged(l) \subseteq Conns
      /\ \A a : Held(a) \subseteq Conns
  BY DEF Types, Charged, Held
<1> QED
  BY <1>1, ConnsAssumption, FS_Subset, FS_CardinalityType

\* Nothing is counted, released, created or swept.
Uncounted ==
    /\ UNCHANGED <<limits, countedOn>>
    /\ \A c \in Conns : step'[c] = "released" <=> step[c] = "released"

(* The steps that count are Create, Add, the end of Release, Subtract, and  *)
(* Sweep.                                                                   *)
LEMMA CountingSteps ==
    ASSUME Types, [Next]_vars
    PROVE  \/ Uncounted
           \/ \E c \in Conns : \/ Create(c) \/ Add(c) \/ Subtract(c)
                               \/ Release(c) /\ Current(c) = None
           \/ \E a \in Addresses : Sweep(a)
<1> USE DEF Types, limits, session, history, Go, At, Uncounted
<1>1. ASSUME NEW c \in Conns, Arrive(c) \/ Check(c) \/ Capacity(c) \/ Upgrade(c) \/ Count(c)
      PROVE  Uncounted
  BY <1>1 DEF Arrive, Check, Capacity, Upgrade, Count
<1>2. ASSUME NEW c \in Conns, Release(c), Current(c) # None PROVE Uncounted
  BY <1>2 DEF Release
<1>3. ASSUME NEW c \in Conns, Client(c) PROVE Uncounted
  BY <1>3 DEF Client, Disconnect, Close, LeaveRoom, JoinRoom
<1>4. CASE UNCHANGED vars
  BY <1>4 DEF vars
<1> QED
  BY <1>1, <1>2, <1>3, <1>4 DEF Next, Handshake, CleanUp

\* How the four of one connection count.
LEMMA CreateFacts ==
    ASSUME Types, NEW c \in Conns, Create(c)
    PROVE  /\ \A a \in Addresses :
                 rateLimiters'[a] = IF a = AddressOf[c] THEN c ELSE rateLimiters[a]
           /\ \A d \in Conns : step'[d] = IF d = c THEN "check" ELSE step[d]
           /\ \A d \in Conns : limiter'[d] = IF d = c THEN c ELSE limiter[d]
           /\ UNCHANGED <<connections, countedOn, session, raced>>
           /\ step[c] = "create" /\ AddressOf[c] \in Addresses
BY ConnsAssumption DEF Types, Create, Go, At, history

LEMMA AddFacts ==
    ASSUME Types, Kept, NEW c \in Conns, Add(c)
    PROVE  /\ \A l \in Conns :
                 connections'[l] = IF l = limiter[c] THEN connections[l] + 1 ELSE connections[l]
           /\ \A d \in Conns : step'[d] = IF d = c THEN "open" ELSE step[d]
           /\ \A d \in Conns : countedOn'[d] = IF d = c THEN limiter[c] ELSE countedOn[d]
           /\ UNCHANGED <<rateLimiters, limiter, session, raced>>
           /\ step[c] = "add" /\ limiter[c] \in Conns /\ countedOn[c] = None
BY ConnsAssumption DEF Types, Kept, Add, Go, At

LEMMA SubtractFacts ==
    ASSUME Types, Kept, NEW c \in Conns, Subtract(c)
    PROVE  /\ \A l \in Conns : connections'[l] = IF l = limiter[c] /\ connections[l] > 0
                                                  THEN connections[l] - 1 ELSE connections[l]
           /\ \A d \in Conns : step'[d] = IF d = c THEN "released" ELSE step[d]
           /\ UNCHANGED <<rateLimiters, limiter, session, raced, countedOn>>
           /\ step[c] = "subtract" /\ limiter[c] \in Conns
BY ConnsAssumption DEF Types, Kept, Subtract, Go, At, history

LEMMA ReleaseFacts ==
    ASSUME Types, NEW c \in Conns, Release(c)
    PROVE  /\ \A d \in Conns :
                 step'[d] = IF d = c THEN IF Current(c) = None THEN "released" ELSE "subtract"
                                     ELSE step[d]
           /\ \A d \in Conns : limiter'[d] = IF d = c THEN Current(c) ELSE limiter[d]
           /\ UNCHANGED <<limits, countedOn, session, raced>>
           /\ step[c] = "open"
BY ConnsAssumption DEF Types, Release, Go, At, history

LEMMA SweepFacts ==
    ASSUME Types, NEW a \in Addresses, Sweep(a)
    PROVE  /\ \A b \in Addresses : rateLimiters'[b] = IF b = a THEN None ELSE rateLimiters[b]
           /\ UNCHANGED <<connections, step, limiter, session, countedOn>>
           /\ rateLimiters[a] \in Conns /\ connections[rateLimiters[a]] = 0
           /\ ~raced' => ~raced /\ \A c \in Shaking : AddressOf[c] # a
BY DEF Types, Sweep, limits

LEMMA NotAheadStep ==
    ASSUME Types, Types', Kept, NotAhead, [Next]_vars
    PROVE  NotAhead'
<1> SUFFICES ASSUME NEW a \in Addresses, rateLimiters'[a] # None PROVE Covered(a)'
  BY DEF NotAhead, Covered
<1> DEFINE l == rateLimiters[a]
           Same == rateLimiters'[a] = l /\ Charged(l)' = Charged(l)
<1>1. l \in Conns \cup {None} /\ \A k \in Conns : connections[k] \in Nat /\ connections'[k] \in Nat
  BY DEF Types
<1>2. l # None => connections[l] <= Cardinality(Charged(l))
  BY DEF NotAhead, Covered
<1>3. ASSUME Same, l \in Conns => connections'[l] <= connections[l]
      PROVE  Covered(a)'
  <2>1. Cardinality(Charged(l)) \in Nat
    BY SetsFinite
  <2>2. l \in Conns
    BY <1>1, <1>3
  <2>3. connections[l] \in Nat /\ connections'[l] \in Nat /\ connections[l] <= Cardinality(Charged(l))
    BY <1>1, <1>2, <2>2, ConnsAssumption
  <2> QED
    BY <1>3, <2>1, <2>2, <2>3 DEF Covered
<1>4. CASE Uncounted
  <2>1. Same /\ connections' = connections
    BY <1>4 DEF Uncounted, Charged, limits
  <2> QED
    BY <1>1, <1>3, <2>1
<1>5. ASSUME NEW c \in Conns, Create(c)
      PROVE  Covered(a)'
  <2>1. CASE a = AddressOf[c]
    <3>1. rateLimiters'[a] = c /\ connections'[c] = 0
      BY <1>5, <2>1, CreateFacts DEF Kept, Made
    <3>2. Cardinality(Charged(c)') \in Nat
      <4>1. Charged(c)' \subseteq Conns
        BY DEF Charged
      <4> QED
        BY <4>1, ConnsAssumption, FS_Subset, FS_CardinalityType
    <3> QED
      BY <2>1, <3>1, <3>2 DEF Covered
  <2>2. CASE a # AddressOf[c]
    <3>1. Same /\ connections' = connections
      BY <1>5, <2>2, CreateFacts DEF Charged
    <3> QED
      BY <1>1, <1>3, <3>1
  <2> QED
    BY <2>1, <2>2
<1>6. ASSUME NEW c \in Conns, Add(c)
      PROVE  Covered(a)'
  <2>1. rateLimiters'[a] = l
    BY <1>6, AddFacts
  <2>2. CASE limiter[c] = l
    <3>1. Charged(l)' = Charged(l) \cup {c} /\ c \notin Charged(l)
      BY <1>6, <2>2, AddFacts, ConnsAssumption DEF Charged
    <3>2. IsFiniteSet(Charged(l)) /\ Cardinality(Charged(l)) \in Nat
      BY SetsFinite
    <3>3. Cardinality(Charged(l)') = Cardinality(Charged(l)) + 1
      BY <3>1, <3>2, FS_AddElement
    <3>4. connections'[l] = connections[l] + 1 /\ connections[l] \in Nat /\ l # None
      BY <1>1, <1>6, <2>2, AddFacts, ConnsAssumption
    <3> QED
      BY <1>2, <2>1, <3>2, <3>3, <3>4 DEF Covered
  <2>3. CASE limiter[c] # l
    <3>1. Charged(l)' = Charged(l)
      BY <1>1, <1>6, <2>1, <2>3, AddFacts, ConnsAssumption DEF Charged
    <3>2. l \in Conns => connections'[l] = connections[l]
      BY <1>6, <2>3, AddFacts
    <3> QED
      BY <1>1, <1>3, <2>1, <3>1, <3>2
  <2> QED
    BY <2>2, <2>3
<1>7. ASSUME NEW c \in Conns, Subtract(c)
      PROVE  Covered(a)'
  <2>1. rateLimiters'[a] = l /\ l \in Conns /\ countedOn' = countedOn
    BY <1>1, <1>7, SubtractFacts
  <2>2. CASE countedOn[c] = l
    <3>1. limiter[c] = l
      BY <1>7, <2>1, <2>2, SubtractFacts, ConnsAssumption DEF Kept, Current
    <3>2. Charged(l)' = Charged(l) \ {c} /\ c \in Charged(l)
      BY <1>7, <2>1, <2>2, SubtractFacts DEF Charged
    <3>3. IsFiniteSet(Charged(l)) /\ Cardinality(Charged(l)) \in Nat
      BY SetsFinite
    <3>4. /\ Cardinality(Charged(l)') = Cardinality(Charged(l)) - 1
          /\ Cardinality(Charged(l)') \in Nat
      BY <3>2, <3>3, FS_RemoveElement, FS_CardinalityType
    <3>5. connections'[l] = IF connections[l] > 0 THEN connections[l] - 1 ELSE 0
      BY <1>1, <1>7, <2>1, <3>1, SubtractFacts
    <3> QED
      BY <1>1, <1>2, <2>1, <3>3, <3>4, <3>5, ConnsAssumption DEF Covered
  <2>3. CASE countedOn[c] # l
    <3>1. Charged(l)' = Charged(l)
      BY <1>7, <2>1, <2>3, SubtractFacts DEF Charged
    <3>2. connections'[l] <= connections[l]
      BY <1>1, <1>7, <2>1, SubtractFacts
    <3> QED
      BY <1>3, <2>1, <3>1, <3>2
  <2> QED
    BY <2>2, <2>3
<1>8. ASSUME NEW c \in Conns, Release(c), Current(c) = None
      PROVE  Covered(a)'
  <2>1. UNCHANGED <<rateLimiters, connections, countedOn>>
    BY <1>8, ReleaseFacts DEF limits
  <2>2. countedOn[c] # l
    BY <1>8, <2>1, ConnsAssumption DEF Kept, Current
  <2>3. Charged(l)' = Charged(l)
    BY <1>8, <2>1, <2>2, ReleaseFacts DEF Charged
  <2> QED
    BY <1>1, <1>3, <2>1, <2>3
<1>9. ASSUME NEW b \in Addresses, Sweep(b)
      PROVE  Covered(a)'
  <2>1. Same /\ connections' = connections
    BY <1>9, SweepFacts DEF Charged
  <2> QED
    BY <1>1, <1>3, <2>1
<1> QED
  BY <1>4, <1>5, <1>6, <1>7, <1>8, <1>9, CountingSteps

LEMMA ExactStep ==
    ASSUME Types, Types', Kept, Serial, Exact, [Next]_vars
    PROVE  Exact'
<1> SUFFICES ASSUME NEW a \in Addresses PROVE CountOf(a)' = Cardinality(Held(a)')
  BY DEF Exact
<1>1. /\ CountOf(a) = Cardinality(Held(a)) /\ CountOf(a) \in Nat
      /\ IsFiniteSet(Held(a))
  BY SetsFinite DEF Exact
<1>2. ASSUME CountOf(a)' = CountOf(a), Held(a)' = Held(a)
      PROVE  CountOf(a)' = Cardinality(Held(a)')
  BY <1>1, <1>2
<1>3. CASE Uncounted
  BY <1>2, <1>3 DEF Uncounted, limits, CountOf, Held
<1>4. ASSUME NEW c \in Conns, Create(c) PROVE CountOf(a)' = Cardinality(Held(a)')
  <2>1. Held(a)' = Held(a)
    BY <1>4, CreateFacts DEF Held
  <2>2. CountOf(a)' = CountOf(a)
    <3>1. Current(c) = None /\ connections[c] = 0 /\ c # None
      BY <1>4, CreateFacts, ConnsAssumption DEF Serial, Kept, Made
    <3> QED
      BY <1>4, <3>1, CreateFacts DEF CountOf, Current
  <2> QED
    BY <1>2, <2>1, <2>2
<1>5. ASSUME NEW c \in Conns, Add(c) PROVE CountOf(a)' = Cardinality(Held(a)')
  <2>1. limiter[c] = Current(c) /\ Current(c) \in Conns /\ countedOn[c] = None
    BY <1>5, AddFacts DEF Serial
  <2>2. CASE a = AddressOf[c]
    <3>1. Held(a)' = Held(a) \cup {c} /\ c \notin Held(a)
      BY <1>5, <2>1, <2>2, AddFacts, ConnsAssumption DEF Held
    <3>2. CountOf(a)' = CountOf(a) + 1
      BY <1>5, <2>1, <2>2, AddFacts, ConnsAssumption DEF CountOf, Current
    <3> QED
      BY <1>1, <3>1, <3>2, FS_AddElement
  <2>3. CASE a # AddressOf[c]
    <3>1. Held(a)' = Held(a)
      BY <1>5, <2>3, AddFacts DEF Held
    <3>2. CountOf(a)' = CountOf(a)
      <4>1. rateLimiters[a] # None => rateLimiters[a] # limiter[c]
        BY <1>5, <2>1, <2>3, AddFacts, ConnsAssumption DEF Kept
      <4> QED
        BY <1>5, <4>1, AddFacts, ConnsAssumption DEF CountOf, Types
    <3> QED
      BY <1>2, <3>1, <3>2
  <2> QED
    BY <2>2, <2>3
<1>6. ASSUME NEW c \in Conns, Subtract(c) PROVE CountOf(a)' = Cardinality(Held(a)')
  <2>1. /\ limiter[c] = Current(c) /\ Current(c) \in Conns
        /\ countedOn[c] = Current(c) /\ countedOn[c] # None
    BY <1>6, SubtractFacts, ConnsAssumption DEF Serial
  <2>2. CASE a = AddressOf[c]
    <3>1. Held(a)' = Held(a) \ {c} /\ c \in Held(a)
      BY <1>6, <2>1, <2>2, SubtractFacts DEF Held
    <3>2. /\ Cardinality(Held(a)') = Cardinality(Held(a)) - 1
          /\ Cardinality(Held(a)') \in Nat
      BY <1>1, <3>1, FS_RemoveElement, FS_CardinalityType
    <3>3. CountOf(a)' = CountOf(a) - 1
      <4>1. CountOf(a) > 0 /\ CountOf(a) = connections[Current(c)]
        BY <1>1, <2>1, <2>2, <3>2, ConnsAssumption DEF CountOf, Current
      <4> QED
        BY <1>6, <2>1, <2>2, <4>1, SubtractFacts, ConnsAssumption DEF CountOf, Current
    <3> QED
      BY <1>1, <3>2, <3>3
  <2>3. CASE a # AddressOf[c]
    <3>1. Held(a)' = Held(a)
      BY <1>6, <2>3, SubtractFacts DEF Held
    <3>2. CountOf(a)' = CountOf(a)
      <4>1. rateLimiters[a] # None => rateLimiters[a] # limiter[c]
        BY <1>6, <2>1, <2>3, SubtractFacts, ConnsAssumption DEF Kept
      <4> QED
        BY <1>6, <4>1, SubtractFacts, ConnsAssumption DEF CountOf, Types
    <3> QED
      BY <1>2, <3>1, <3>2
  <2> QED
    BY <2>2, <2>3
<1>7. ASSUME NEW c \in Conns, Release(c), Current(c) = None PROVE FALSE
  BY <1>7, ReleaseFacts DEF Serial
<1>8. ASSUME NEW b \in Addresses, Sweep(b) PROVE CountOf(a)' = Cardinality(Held(a)')
  <2>1. Held(a)' = Held(a)
    BY <1>8, SweepFacts DEF Held
  <2>2. CountOf(a)' = CountOf(a)
    BY <1>8, SweepFacts, ConnsAssumption DEF CountOf
  <2> QED
    BY <1>2, <2>1, <2>2
<1> QED
  BY <1>3, <1>4, <1>5, <1>6, <1>7, <1>8, CountingSteps

(* A connection that is counted is held.                                    *)
LEMMA CountedIsHeld ==
    ASSUME Types, Serial, Exact, NEW c \in Conns, step[c] \in {"open", "subtract"}
    PROVE  CountOf(AddressOf[c]) # 0 /\ c \in Held(AddressOf[c])
<1>1. c \in Held(AddressOf[c])
  BY DEF Serial, Held
<1>2. IsFiniteSet(Held(AddressOf[c])) /\ Held(AddressOf[c]) # {}
  BY <1>1, SetsFinite
<1>3. Cardinality(Held(AddressOf[c])) # 0
  BY <1>2, FS_EmptySet
<1> QED
  BY <1>1, <1>3, ConnsAssumption DEF Exact

LEMMA SerialStep ==
    ASSUME Types, Types', Kept, Serial, Exact, [Next]_vars, ~raced'
    PROVE  Serial'
<1>1. \A c \in Conns : AddressOf[c] \in Addresses
  BY ConnsAssumption
<1>2. ASSUME NEW c \in Conns, Arrive(c) PROVE Serial'
  <2>1. /\ \A d \in Conns : limiter'[d] = IF d = c THEN Current(c) ELSE limiter[d]
        /\ \A d \in Conns : step'[d] = IF d = c THEN IF Current(c) = None THEN "create" ELSE "check"
                                               ELSE step[d]
        /\ UNCHANGED <<rateLimiters, connections, countedOn>> /\ Shaking = {}
    BY <1>2 DEF Types, Arrive, Go, At, limits
  <2>2. Shaking' \subseteq {c}
    BY <2>1 DEF Shaking
  <2> QED
    BY <2>1, <2>2 DEF Serial, Current, CountOf
<1>3. ASSUME NEW c \in Conns, Create(c) PROVE Serial'
  <2>1. Current(c) = None /\ c # None /\ connections[c] = 0
    BY <1>3, CreateFacts, ConnsAssumption DEF Serial, Kept, Made
  <2>2. Shaking' = Shaking /\ \A d \in Shaking : d = c
    BY <1>3, CreateFacts DEF Serial, Shaking
  <2>3. \A d \in Conns : step[d] \in {"open", "subtract"} => AddressOf[d] # AddressOf[c]
    BY <2>1 DEF Serial, Current
  <2>4. \A a \in Addresses : CountOf(a)' = CountOf(a)
    BY <1>3, <2>1, CreateFacts DEF CountOf, Current
  <2>5. \A d, e \in Shaking' : d = e
    BY <2>2
  <2>6. \A a \in Addresses : CountOf(a)' <= PerAddress
    BY <2>4 DEF Serial
  <2>7. ASSUME NEW d \in Conns
        PROVE  /\ step'[d] # "create"
               /\ step'[d] \in {"check", "capacity", "upgrade", "count", "add", "open", "subtract"} =>
                     Current(d)' # None
               /\ step'[d] \in {"check", "add", "subtract"} => limiter'[d] = Current(d)'
               /\ step'[d] \in {"open", "subtract"} => countedOn'[d] = Current(d)'
               /\ step'[d] \notin {"capacity", "upgrade", "count", "add"}
    <3>1. CASE d = c
      BY <1>1, <1>3, <2>1, <3>1, CreateFacts DEF Current
    <3>2. CASE d # c
      <4>1. step'[d] = step[d] /\ d \notin Shaking
        BY <1>3, <2>2, <3>2, CreateFacts
      <4>2. step[d] \in {"open", "subtract"} =>
               Current(d)' = Current(d) /\ limiter'[d] = limiter[d] /\ countedOn'[d] = countedOn[d]
        BY <1>1, <1>3, <2>3, <3>2, CreateFacts DEF Current
      <4> QED
        BY <4>1, <4>2 DEF Serial, Shaking
    <3> QED
      BY <3>1, <3>2
  <2> QED
    BY <2>5, <2>6, <2>7 DEF Serial
<1>4. ASSUME NEW c \in Conns, Check(c) PROVE Serial'
  <2>1. /\ \A d \in Conns : step'[d] =
              IF d = c THEN IF connections[limiter[c]] < PerAddress THEN "capacity" ELSE "refused"
                       ELSE step[d]
        /\ UNCHANGED <<rateLimiters, connections, limiter, countedOn>> /\ step[c] = "check"
    BY <1>4 DEF Types, Check, Go, At, limits, history
  <2>2. Shaking' \subseteq Shaking
    BY <2>1 DEF Shaking
  <2> QED
    BY <2>1, <2>2 DEF Serial, Current, CountOf
<1>5. ASSUME NEW c \in Conns, Capacity(c) \/ Upgrade(c) PROVE Serial'
  <2>1. /\ \A d \in Conns : d # c => step'[d] = step[d]
        /\ \/ step[c] = "capacity" /\ step'[c] \in {"upgrade", "refused"}
           \/ step[c] = "upgrade" /\ step'[c] \in {"count", "refused"}
        /\ UNCHANGED <<rateLimiters, connections, limiter, countedOn>>
    BY <1>5 DEF Types, Capacity, Upgrade, Go, At, limits, history
  <2>2. Shaking' \subseteq Shaking
    BY <2>1 DEF Shaking
  <2> QED
    BY <2>1, <2>2 DEF Serial, Current, CountOf
<1>6. ASSUME NEW c \in Conns, Count(c) PROVE Serial'
  <2>1. /\ \A d \in Conns : limiter'[d] = IF d = c THEN Current(c) ELSE limiter[d]
        /\ \A d \in Conns : step'[d] = IF d = c THEN IF Current(c) = None THEN "open" ELSE "add"
                                               ELSE step[d]
        /\ UNCHANGED <<rateLimiters, connections, countedOn>> /\ step[c] = "count"
    BY <1>6 DEF Types, Count, Go, At, limits, history
  <2>2. Shaking' \subseteq Shaking
    BY <2>1 DEF Shaking
  <2> QED
    BY <2>1, <2>2 DEF Serial, Current, CountOf
<1>7. ASSUME NEW c \in Conns, Add(c) PROVE Serial'
  <2>1. /\ limiter[c] = Current(c) /\ connections[Current(c)] < PerAddress
        /\ Shaking' = Shaking \ {c} /\ Shaking' = {}
    BY <1>7, AddFacts DEF Serial, Shaking
  <2>2. ASSUME NEW a \in Addresses PROVE CountOf(a)' <= PerAddress
    <3>1. CASE rateLimiters[a] = limiter[c]
      BY <1>7, <2>1, <3>1, AddFacts, LimitsAssumption DEF Types, CountOf
    <3>2. CASE rateLimiters[a] # limiter[c]
      <4>1. CountOf(a)' = CountOf(a)
        BY <1>7, <3>2, AddFacts DEF Types, CountOf
      <4> QED
        BY <4>1 DEF Serial
    <3> QED
      BY <3>1, <3>2
  <2> QED
    BY <1>7, <2>1, <2>2, AddFacts DEF Serial, Current, Shaking
<1>8. ASSUME NEW c \in Conns, Release(c) PROVE Serial'
  <2>1. Shaking' = Shaking /\ Current(c) # None
    BY <1>8, ReleaseFacts DEF Serial, Shaking
  <2> QED
    BY <1>8, <2>1, ReleaseFacts DEF Serial, Current, CountOf, limits
<1>9. ASSUME NEW c \in Conns, Subtract(c) PROVE Serial'
  <2>1. Shaking' = Shaking
    BY <1>9, SubtractFacts DEF Shaking
  <2>2. \A l \in Conns : connections'[l] <= connections[l] /\ connections[l] \in Nat
                         /\ connections'[l] \in Nat
    BY <1>9, SubtractFacts DEF Types
  <2>3. \A a \in Addresses : rateLimiters[a] \in Conns \cup {None}
    BY DEF Types
  <2>4. ASSUME NEW a \in Addresses PROVE CountOf(a)' <= PerAddress
    BY <1>9, <2>2, <2>3, <2>4, SubtractFacts, LimitsAssumption DEF Serial, CountOf
  <2>5. ASSUME NEW d \in Conns, step'[d] \in {"capacity", "upgrade", "count", "add"}
        PROVE  connections'[Current(d)] < PerAddress
    <3>1. step[d] = step'[d]
      BY <1>9, <2>5, SubtractFacts
    <3>2. Current(d) \in Conns /\ connections[Current(d)] < PerAddress
      BY <1>1, <2>3, <2>5, <3>1 DEF Serial, Current
    <3> QED
      BY <2>2, <3>2, LimitsAssumption
  <2> QED
    BY <1>9, <2>1, <2>4, <2>5, SubtractFacts DEF Serial, Current
<1>10. ASSUME NEW a \in Addresses, Sweep(a) PROVE Serial'
  <2>1. \A d \in Conns :
           step[d] \in {"check", "capacity", "upgrade", "count", "add", "open", "subtract"} =>
              AddressOf[d] # a
    <3>1. \A d \in Shaking : AddressOf[d] # a
      BY <1>10, SweepFacts
    <3>2. CountOf(a) = 0
      BY <1>10, SweepFacts DEF CountOf
    <3> QED
      BY <3>1, <3>2, CountedIsHeld DEF Shaking
  <2>2. Shaking' = Shaking
    BY <1>10, SweepFacts DEF Shaking
  <2>3. \A d \in Conns : AddressOf[d] # a => Current(d)' = Current(d)
    BY <1>1, <1>10, SweepFacts DEF Current
  <2>4. \A d \in Conns : AddressOf[d] = a => Current(d)' = None
    BY <1>10, SweepFacts DEF Current
  <2>5. \A b \in Addresses : CountOf(b)' <= PerAddress
    BY <1>10, SweepFacts, LimitsAssumption DEF CountOf, Serial
  <2> QED
    BY <1>10, <2>1, <2>2, <2>3, <2>4, <2>5, SweepFacts DEF Serial
<1>11. ASSUME NEW c \in Conns, Client(c) PROVE Serial'
  <2>1. UNCHANGED <<limits, step, limiter, history>>
    BY <1>11 DEF Client, Disconnect, Close, LeaveRoom, JoinRoom
  <2> QED
    BY <2>1 DEF Serial, Shaking, Current, CountOf, limits, history
<1>12. CASE UNCHANGED vars
  BY <1>12 DEF vars, Serial, Shaking, Current, CountOf, limits, history
<1> QED
  BY <1>2, <1>3, <1>4, <1>5, <1>6, <1>7, <1>8, <1>9, <1>10, <1>11, <1>12
     DEF Next, Handshake, CleanUp

LEMMA SeatedStep ==
    ASSUME Types, Types', Serial, Seated, [Next]_vars, ~left'
    PROVE  Seated'
<1>1. /\ IsFiniteSet(clients) /\ Cardinality(clients) \in Nat /\ clients \subseteq Conns
      /\ MaxConnections \in Nat
  BY SetsFinite, LimitsAssumption DEF Types
<1>2. ASSUME Connected' \subseteq Connected, UNCHANGED clients,
             \A c \in Conns : step'[c] = "upgrade" =>
                step[c] = "upgrade" \/ Cardinality(clients) < MaxConnections
      PROVE  Seated'
  BY <1>2 DEF Seated
<1>3. ASSUME NEW c \in Conns,
             \/ Arrive(c) \/ Create(c) \/ Check(c) \/ Capacity(c) \/ Count(c) \/ Add(c)
             \/ Release(c) \/ Subtract(c)
      PROVE  Seated'
  <2>1. /\ \A d \in Conns : d # c => step'[d] = step[d]
        /\ step'[c] \in {"count", "add", "open"} => step[c] \in {"count", "add", "open"}
        /\ step'[c] = "upgrade" => Cardinality(clients) < MaxConnections
        /\ UNCHANGED <<clients, gone>>
    <3> USE DEF Types, Go, At, session
    <3>1. CASE Arrive(c) \/ Create(c) \/ Check(c) \/ Add(c)
      BY <3>1 DEF Arrive, Create, Check, Add
    <3>2. CASE Capacity(c)
      BY <1>1, <3>2 DEF Capacity
    <3>3. CASE Count(c) \/ Release(c) \/ Subtract(c)
      BY <3>3 DEF Count, Release, Subtract
    <3> QED
      BY <1>3, <3>1, <3>2, <3>3
  <2>2. Connected' \subseteq Connected
    BY <2>1 DEF Connected
  <2> QED
    BY <1>2, <2>1, <2>2
<1>4. ASSUME NEW c \in Conns, Upgrade(c) PROVE Seated'
  <2>1. /\ \A d \in Conns : d # c => step'[d] = step[d]
        /\ step[c] = "upgrade" /\ UNCHANGED gone
        /\ \/ step'[c] = "refused" /\ UNCHANGED clients
           \/ step'[c] = "count" /\ clients' = clients \cup {c}
    BY <1>4 DEF Types, Upgrade, Go, At
  <2>2. CASE step'[c] = "refused" /\ UNCHANGED clients
    <3>1. Connected' \subseteq Connected
      BY <2>1, <2>2 DEF Connected
    <3> QED
      BY <1>2, <2>1, <2>2, <3>1
  <2>3. CASE step'[c] = "count" /\ clients' = clients \cup {c}
    <3>1. Connected' \subseteq Connected \cup {c}
      BY <2>1, <2>3 DEF Connected
    <3>2. Cardinality(clients) < MaxConnections
      BY <2>1 DEF Seated
    <3>3. Cardinality(clients') <= Cardinality(clients) + 1 /\ Cardinality(clients') \in Nat
      BY <1>1, <2>3, FS_AddElement
    <3>4. \A d \in Conns : step'[d] # "upgrade"
      BY <2>1, <2>3 DEF Serial, Shaking
    <3> QED
      BY <1>1, <2>3, <3>1, <3>2, <3>3, <3>4 DEF Seated
  <2> QED
    BY <2>1, <2>2, <2>3
<1>5. ASSUME NEW c \in Conns, Disconnect(c) \/ Close(c) PROVE Seated'
  <2>1. UNCHANGED step /\ gone' = gone \cup {c} /\ clients' = clients \ {c}
    BY <1>5 DEF Disconnect, Close
  <2>2. Connected' = Connected \ {c}
    BY <2>1 DEF Connected
  <2>3. Cardinality(clients') <= Cardinality(clients) /\ Cardinality(clients') \in Nat
    BY <1>1, <2>1, FS_Subset, FS_CardinalityType
  <2> QED
    BY <1>1, <2>1, <2>2, <2>3 DEF Seated
<1>6. ASSUME NEW c \in Conns, LeaveRoom(c) \/ JoinRoom(c) PROVE FALSE
  BY <1>6 DEF LeaveRoom, JoinRoom, Seated
<1>7. CASE UNCHANGED <<step, clients, gone>>
  <2>1. Connected' = Connected
    BY <1>7 DEF Connected
  <2> QED
    BY <1>2, <1>7, <2>1
<1>8. (\E a \in Addresses : Sweep(a)) \/ UNCHANGED vars => UNCHANGED <<step, clients, gone>>
  BY DEF Sweep, vars, session
<1> QED
  BY <1>3, <1>4, <1>5, <1>6, <1>7, <1>8 DEF Next, Handshake, CleanUp, Client

LEMMA InitInv == Init => Inv
<1> SUFFICES ASSUME Init PROVE Inv
  OBVIOUS
<1>1. TypeOK
  BY ConnsAssumption DEF Init, TypeOK, Steps
<1>2. Kept /\ NotAhead
  BY ConnsAssumption DEF Init, Kept, NotAhead, Covered
<1>3. Serial
  BY ConnsAssumption, LimitsAssumption DEF Init, Serial, Shaking, CountOf
<1>4. Exact
  <2>1. \A a \in Addresses : CountOf(a) = 0 /\ Held(a) = {}
    BY DEF Init, CountOf, Held
  <2> QED
    BY <2>1, FS_EmptySet DEF Exact
<1>5. Seated
  BY FS_EmptySet, LimitsAssumption DEF Init, Seated, Connected
<1> QED
  BY <1>1, <1>2, <1>3, <1>4, <1>5 DEF Inv

(* What was raced stays so, and a room that was left stays left.            *)
LEMMA HistoryStays ==
    ASSUME [Next]_vars
    PROVE  (raced => raced') /\ (left => left')
<1> USE DEF limits, session, history
<1>1. ASSUME NEW c \in Conns, Arrive(c) \/ Create(c) \/ Check(c) \/ Capacity(c) \/ Upgrade(c)
      PROVE  (raced => raced') /\ (left => left')
  <2>1. CASE Arrive(c)
    <3>1. left' = left
      BY <2>1 DEF Arrive
    <3>2. raced => raced'
      BY <2>1, Zenon DEF Arrive
    <3> QED
      BY <3>1, <3>2
  <2>2. CASE Create(c) \/ Check(c) \/ Capacity(c) \/ Upgrade(c)
    BY <2>2 DEF Create, Check, Capacity, Upgrade
  <2> QED
    BY <1>1, <2>1, <2>2
<1>2. ASSUME NEW c \in Conns, Count(c) \/ Add(c) \/ CleanUp(c)
      PROVE  (raced => raced') /\ (left => left')
  BY <1>2 DEF Count, Add, CleanUp, Release, Subtract
<1>3. ASSUME NEW c \in Conns, Client(c) PROVE (raced => raced') /\ (left => left')
  BY <1>3 DEF Client, Disconnect, Close, LeaveRoom, JoinRoom
<1>4. ASSUME NEW a \in Addresses, Sweep(a) PROVE (raced => raced') /\ (left => left')
  <2>1. left' = left
    BY <1>4 DEF Sweep
  <2>2. raced => raced'
    BY <1>4, Zenon DEF Sweep
  <2> QED
    BY <2>1, <2>2
<1>5. CASE UNCHANGED vars
  BY <1>5 DEF vars
<1> QED
  BY <1>1, <1>2, <1>3, <1>4, <1>5 DEF Next, Handshake

LEMMA NextInv == Inv /\ [Next]_vars => Inv'
<1> SUFFICES ASSUME Inv, [Next]_vars PROVE Inv'
  OBVIOUS
<1>1. TypeOK /\ Kept /\ NotAhead /\ (~raced => Serial /\ Exact /\ (~left => Seated))
  BY DEF Inv
<1>2. TypeOK' /\ Kept'
  BY <1>1, TypeStep, KeptStep
<1>3. Types /\ Types'
  BY <1>1, <1>2, TypeSplit DEF TypeOK, Types
<1>4. NotAhead'
  BY <1>1, <1>3, NotAheadStep
<1>5. (raced => raced') /\ (left => left')
  BY <1>1, HistoryStays
<1>6. ASSUME ~raced' PROVE Serial' /\ Exact' /\ (~left' => Seated')
  BY <1>1, <1>3, <1>5, <1>6, SerialStep, ExactStep, SeatedStep
<1> QED
  BY <1>2, <1>4, <1>6 DEF Inv

LEMMA InvAlways == Spec => []Inv
BY InitInv, NextInv, PTL DEF Spec

(***************************************************************************)
(* The theorems.                                                           *)
(***************************************************************************)

(* TypeOK: counts stay natural numbers, a closed client has closed its      *)
(* connection, and a goroutine holds a limiter or none (helper.go:64-147).  *)
THEOREM TypeCorrect == Spec => []TypeOK
<1>1. Inv => TypeOK
  BY DEF Inv
<1> QED
  BY <1>1, InvAlways, PTL

(* CountIsFaithful: whatever limiters checkRateLimit replaces and the sweep *)
(* drops under way, an address is never charged for a connection that was   *)
(* released; and without such a race it is charged for exactly those it has *)
(* (helper.go:64-100, 128-130).                                             *)
THEOREM AddressesChargedFaithfully == Spec => []CountIsFaithful
<1>1. ASSUME Inv PROVE CountIsFaithful
  <2>1. ASSUME NEW a \in Addresses
        PROVE  CountOf(a) <= Cardinality({c \in Held(a) : countedOn[c] = rateLimiters[a]})
    <3> DEFINE Here == {c \in Held(a) : countedOn[c] = rateLimiters[a]}
    <3>1. CASE rateLimiters[a] = None
      <4>1. Here = {}
        BY <3>1 DEF Held
      <4> QED
        BY <3>1, <4>1, FS_EmptySet DEF CountOf
    <3>2. CASE rateLimiters[a] # None
      <4>1. Here = Charged(rateLimiters[a])
        BY <1>1, <3>2 DEF Inv, Kept, Held, Charged
      <4> QED
        BY <1>1, <3>2, <4>1 DEF Inv, NotAhead, Covered, CountOf
    <3> QED
      BY <3>1, <3>2
  <2> QED
    BY <1>1, <2>1 DEF Inv, Exact, CountIsFaithful
<1> QED
  BY <1>1, InvAlways, PTL

(* LimitsHeldUnlessRaced: without such a race no address has more than      *)
(* ConnectionsPerIP connections, and the hub not more than MaxConnections   *)
(* clients unless some of them left their room (handler.go:121-132).        *)
THEOREM LimitsHold == Spec => []LimitsHeldUnlessRaced
<1>1. ASSUME Inv, ~raced, NEW a \in Addresses
      PROVE  Cardinality({c \in Connected : AddressOf[c] = a}) <= PerAddress
  <2> DEFINE Here == {c \in Connected : AddressOf[c] = a}
  <2>1. Types /\ Serial /\ Exact /\ PerAddress \in Nat
    BY <1>1, TypeSplit, LimitsAssumption DEF Inv
  <2>2. /\ IsFiniteSet(Held(a)) /\ Cardinality(Held(a)) \in Nat
        /\ Cardinality(Held(a)) = CountOf(a) /\ CountOf(a) <= PerAddress
    BY <2>1, SetsFinite DEF Exact, Serial
  <2>3. \A c \in Here : step[c] = "open" => c \in Held(a)
    BY <2>1, CountedIsHeld DEF Connected
  <2>4. CASE \A c \in Here : step[c] = "open"
    <3>1. Here \subseteq Held(a)
      BY <2>3, <2>4
    <3> HIDE DEF Here
    <3>2. Cardinality(Here) <= Cardinality(Held(a)) /\ Cardinality(Here) \in Nat
      BY <2>2, <3>1, FS_Subset, FS_CardinalityType
    <3> QED
      BY <2>1, <2>2, <3>2 DEF Here
  <2>5. CASE \E c \in Here : step[c] # "open"
    <3>1. PICK c \in Here : step[c] # "open"
      BY <2>5
    <3>2. c \in Conns /\ AddressOf[c] = a /\ step[c] \in {"count", "add"}
      BY <3>1 DEF Connected
    <3>3. CountOf(a) < PerAddress
      BY <2>1, <3>2 DEF Serial, CountOf, Current
    <3>4. \A d \in Here : d # c => step[d] = "open"
      BY <2>1, <3>2 DEF Serial, Shaking, Connected
    <3>5. Here \subseteq Held(a) \cup {c}
      BY <2>3, <3>4
    <3> HIDE DEF Here
    <3>6. /\ IsFiniteSet(Held(a) \cup {c}) /\ Cardinality(Held(a) \cup {c}) \in Nat
          /\ Cardinality(Held(a) \cup {c}) <= Cardinality(Held(a)) + 1
      <4>1. /\ IsFiniteSet(Held(a) \cup {c})
            /\ c \in Held(a) => Held(a) \cup {c} = Held(a)
            /\ c \notin Held(a) => Cardinality(Held(a) \cup {c}) = Cardinality(Held(a)) + 1
        BY <2>2, FS_AddElement
      <4>2. Cardinality(Held(a) \cup {c}) \in Nat
        BY <4>1, FS_CardinalityType
      <4>3. c \in Held(a) => Cardinality(Held(a) \cup {c}) = Cardinality(Held(a))
        BY <4>1
      <4> QED
        BY <2>2, <4>1, <4>2, <4>3
    <3>7. Cardinality(Here) <= Cardinality(Held(a) \cup {c}) /\ Cardinality(Here) \in Nat
      BY <3>5, <3>6, FS_Subset, FS_CardinalityType
    <3> QED
      BY <2>1, <2>2, <3>3, <3>6, <3>7 DEF Here
  <2> QED
    BY <2>4, <2>5
<1>2. Inv => LimitsHeldUnlessRaced
  BY <1>1 DEF Inv, Seated, LimitsHeldUnlessRaced
<1> QED
  BY <1>2, InvAlways, PTL
=============================================================================
