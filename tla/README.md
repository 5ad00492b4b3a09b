# The chat system, specified

TLA+ models of the parts of this Go chat backend where the order of steps matters: its background
job pool, its dead letter pipeline, its websocket registry, clients and connection limiter, its
accounts and its private message store. TLC checks the models on small instances; TLAPS proves every
safety property, action property and refinement of the passing runs for every value of the
constants. What remains to TLC alone is liveness. Paths are relative to the repository root;
line numbers are written as in `worker.go:202`.

## 1. Inventory

| part | source | state | operations | what is hard | modelled in |
|---|---|---|---|---|---|
| job queue producer | `internal/queue`, `internal/handlers/*/...worker.go` | Redis sorted set `priority_queue` | `Enqueue` with a score from priority and expiry | scores mix priority and time | `WorkerPool` |
| worker pool | `internal/worker/worker.go` | `JobChannel`, one producer goroutine, `WorkerNum` workers, the pool's context | pop, expiry check, send, requeue, run, retry with backoff, dead letter, stop | a job leaves Redis when it is popped; failures on failure paths; blocking send; shutdown | `WorkerPool`, `JobLifecycle` |
| job handlers | `internal/worker/priority_job_handler.go`, `worker-handler/`, `worker-service/` | none | `HandleJob`: store and mail an OTP, broadcast a message | a job is run again after a failure half-way | `WorkerPool` (outcome), `Accounts` (the OTP job), `ClientPumps` (the fan-out) |
| dead letter mover | `internal/worker/start-dlq-worker.go` | Redis list, one job in hand | BLPOP, InsertOne, RPUSH on failure | the only copy is in memory between two stores | `DeadLetter` |
| dead letter retry consumer | `internal/worker/retry-dlq-worker.go` | MongoDB `dlq_jobs` | fetch a batch, mark, run again, write the outcome | snapshots; a write that fails strands a document | `DeadLetter` |
| hub registry | `internal/websocket/hub.go` | maps `rooms` and `userClients`, a lock each | `Register`, `Unregister`, `IsUserOnlineInRoom`, cleanup | each operation is several critical sections | `Hub` |
| client | `internal/websocket/client.go` | two channels, the connection, `RoomID`, `IsActive`, three pumps | send, broadcast, read, write in batches, join, leave, `Close`, `cleanup` | channels closed by whoever cleans up first; a set of pumps per `Register` | `ClientPumps`; `Hub` (its use of the registry) |
| upgrade handler, connection limiter | `internal/websocket/handler.go`, `helper.go` | connections per address | check, capacity, upgrade, count, release, sweep | check-then-act on the counter; who gives a place back | `ConnLimiter` |
| chat service and repository | `internal/use-case/chat-case`, `internal/repo/chat`, `internal/utils/cache.go` | PostgreSQL rooms, MongoDB messages, a Redis page per room | send, fetch, reply, mark as read, edit | three stores without a common transaction | `ChatStore` |
| users | `internal/use-case/user-case`, `internal/repo/user`, `internal/handlers/user-handler` | PostgreSQL users, Redis codes | register, mail a code, verify, login | compare-then-delete, two stores, a job that is run again | `Accounts` |
| tokens, websocket authentication | `internal/middleware`, `internal/websocket/auth.go` | none | check a token, copy headers | — | not modelled |
| HTTP layer | `internal/handlers`, `internal/routers` | none | decode, validate, route | — | their goroutines are the actors of the models |
| start and stop | `cmd/main.go`, `state/`, `config/` | contexts | signal, `Stop` | order of cancellation | `WorkerPool`, `DeadLetter` |
| hashing, signing, entities, DTOs | `internal/utils`, `internal/entity`, `internal/dtos`, `internal/errors` | none | — | — | not modelled |

How they interact: a handler that has stored a message or an account starts a goroutine that
enqueues a job; the pool's producer pops it, a worker runs it. The run of a broadcast job looks
clients up in the hub and puts the message on their channels, from which their write pumps send it;
the run of an OTP job stores a code that a later request compares. A job that cannot be run goes to
a Redis list, from there to MongoDB, and from there back to `HandleJob`. A websocket client passes
the limiter, is registered, and reaches the hub through its own pumps.

What makes each part correct:

* pool: a job has one owner at a time and one end; it is run at most `MaxRetry` times; it is lost
  only where the code says so in its log, in a crash, or by a lost reply; urgent jobs first; it
  comes to rest; a shutdown ends;
* dead letters: each is kept once, run again a bounded number of times and never after a success;
  a document is not stranded by a call that the code goes on from;
* registry: a client is in one room, a departed user is announced, nothing stays behind;
* client: what is accepted is written once and in order; nothing panics; whoever leaves ends;
* limiter: the count of an address is its open connections, the limits hold, places are given back;
* accounts: names are unique, the latest code is the valid one, it is spent once and not in vain,
  and nothing is reached without it;
* store: two users share a room; counts follow messages; concurrent writers of one message do not
  undo each other; the cache says nothing that was never true.

## 2. Modules

| module | stands for | actions and code |
|---|---|---|
| `WorkerPool` | one producer goroutine, `Workers`, the two Redis keys, time in seconds | `ProducerPop` (`popJob` with its Lua script), `ProducerExpire`, `ProducerAdmit`, `ProducerSend`, `ProducerRequeue`, `ProducerStop` (the loop of `Start`); `WorkerTake`, `WorkerSucceed`, `WorkerFail` (`handlerJobFailure` with `scheduleRetry` and `moveToDLQ` as one step), `WorkerQuit`; `Enqueue`, `Signal`, `Stop`, `Crash`, `Tick` |
| `JobLifecycle` | what the pool promises about one job: absent, queued, claimed, running, and the ends done, dead, lost | refined by `WorkerPool` (`ImplementsLifecycle`, with `Status` as the refinement mapping) |
| `WorkerPoolProofs`, `LifecycleProofs` | theorems about `WorkerPool`, and that it implements `JobLifecycle` | see section 5 |
| `DeadLetter` | mover and retry consumer; a step per call of a store | `MoverCall`, `MoverPop`, `MoverNothing`, `MoverInsert`, `MoverPushBack`, `MoverStop`; `ConsumerFetch` (filter, sort, limit, snapshot), `ConsumerMark`, `ConsumerReject`, `ConsumerHandle`, `ConsumerComplete`, `ConsumerFail`, `ConsumerStop` |
| `DocumentLifecycle` | what the retry consumer promises about the documents: waiting, taken, run with an outcome, and the ends completed and permanently failed | refined by `DeadLetter` (`ImplementsDocuments`, with `Stages` and `Runs` as the refinement mapping) |
| `Hub` | the two maps, a step per critical section, the goroutines of each client | `Connect`, `Join` with `Rename`, `Leave` begin; `Disconnect` and `Close` run `cleanup` (`StartCleanup`, `UnregisterSelf`, `CloseReceive`); `AddToRoom`, `AddToUser`, `StartPumps`, `AnnounceOnline` are `Register`; `RemoveFromRoom`, `RemoveFromUser`, `StillOnline`/`NotOnline`, `AnnounceOffline` are `Unregister` |
| `ChatStore` | requests served by goroutines, a step per call of PostgreSQL, MongoDB or Redis | `FindRoom`, `CreateRoom`, `InsertMessage`, `UpdateRoomMetadata` (send); `MarkReplied`, `Invalidate` (reply); `MarkRead`; `StartEdit`, `Stamp`, `UpdateMessage` (edit); `Fetch`, `FillCache` (get) |
| `Conversation` | what the chat promises about rooms and messages: a room is opened, a message is posted in it, answers one of the same room, is read, gets another text | refined by `ChatStore` (`ImplementsConversation`, with `Members` and `Letters` as the refinement mapping) |
| `ClientPumps` | one client with its channels, the goroutines of `Start`, the senders of the hub; up to `MaxStarts` sets of pumps | `Broadcast`, `Deliver` (the three loops of the hub, a step for the snapshot and one for the send), `Break`; `Close`, `CloseAgain`, `Cancel`; `Unregister`, `CloseSend`, `TestReceive`, `CloseReceive`, `CloseConn` (`cleanup`); `WriterTake`, `WriterBatch`, `WriterFlush`, `WriterEnds`; `ReaderLoop`, `ReaderGets`, `ReaderFails`; `PumpTake`, `PumpJoin`, `PumpLeave`, `PumpReply`, `PumpEnds`; a `...Panics` action wherever Go panics |
| `Outbox` | what a client promises to its senders: a message is accepted, pending, and then written or lost | refined by `ClientPumps` (`ImplementsOutbox`, what is on `Send` or in the hand of a write pump being pending) |
| `ConnLimiter` | the handshakes, the limiters per address, the sweep, the capacity | `Arrive`, `Create`, `Check`, `Capacity`, `Upgrade`, `Count`, `Add` (`HandleWebSocket`); `Release`, `Subtract` (the goroutine at `handler.go:162`); `Disconnect`, `Close`, `LeaveRoom`, `JoinRoom`; `Sweep` |
| `Accounts` | registrations, the job that mails a code, requests to verify and log in; a step per call of a store | `CountUser`, `SaveUser`, `Enqueue` (register); `Take`, `Store`, `SendMailTrapOTP`, `Lose`, `ExpireCode`; `Verify`, `Compare`, `Delete`, `VerifyUser` (verify); `Login`, `IssueNewTokens` |
| `AccountsProofs`, `ChatStoreProofs`, `ClientPumpsProofs`, `ConnLimiterProofs`, `DeadLetterProofs`, `HubProofs` | theorems about the module they are named after | see section 5 |
| `MC...` | constants for TLC | — |

Conventions. A call of a store has a reply: `"ok"`, `"refused"` (an error, and nothing happened) or
`"lostReply"` (it happened, and the caller sees an error); a call with a cancelled context is
always refused, because go-redis and the MongoDB driver look at the context first. `"crash"` is
the death and restart of the process. `Faults` selects the kinds that an instance has. History
variables (`done`, `dropped`, `runs`, `trouble`, `attempts`, `overlapped`, `owed`, `looked`,
`texts`, `raced`, `accepted`, `discarded`, `countedOn` and the like) record what happened and
influence no step. A definition such as `ZRemForgotten`, next to the one it resembles, is that
definition with a plausible mistake; nothing uses it, but with it in place of the original TLC
finds the property it is paired with in `PROJECT.json` violated, which shows that the property
depends on the code it is about.

### How the models read the code

* Producer and workers use the pool's context for every Redis call, so a call made after `Stop` is
  refused. That is why `ProducerRequeue` never puts a job back.
* A Redis sorted set member is the marshalled job. A job with another `Retry` is another member:
  `ZAdd` replaces only an equal envelope.
* `MayFail`: a broadcast of a payload built by our own handler does not fail; mailing does.
* An expired job is found only by the producer, or by a worker after a failed run.
* The DLQ consumer computes the new count from the document it decoded with the batch, not from the
  collection; the model keeps the snapshot.
* `Validated` says whether the validator of `state/initMongo.go:233-251` is in force, `IdDecodes`
  whether the driver decodes the `_id` of a document into `entity.DLQJob`, `Parsable` of which jobs
  the stored payload unmarshals as a job. As deployed they are true, false and of none: the
  validator rejects every document; `DLQJob.ID` is an ObjectID of mongo-driver v1, into which v2,
  which reads the collection, decodes nothing, so that each batch but an empty one errors.
  `DLQNotSaved` has these values. `DeadLetters` has the validator off, decoding on and one runnable job:
  with refused calls allowed it does whatever the code does, and what the code is written to do
  besides, so its safety properties hold of the code as well, and will when the stores are mended.
  The updates by the decoded `_id`, which would match no document, are reached in neither case.
* `trouble`, in `DeadLetter`, is a failure the code has no answer to: a lost reply of a pop, an insert
  or a mark, an error of the push back or of the write after a run, a crash. A call that is refused
  and simply made again later is none.
* The hub's `userClients` is a slice per user. `Unregister` appends its tail to the whole slice, so
  nobody leaves it (`hub.go:111`); the model keeps the set of its elements, which is unchanged.
* The read of `oldRoomID` in `handleJoinRoom` is outside the lock; a join that starts before another
  ends is possible because `Register` starts the pumps again (`hub.go:84`).
* `Empty` is the room with the empty name. A connection cannot name it (`handler.go:105`), a join can
  (`client.go:224-236`), and to `handleJoinRoom` and `cleanup` a client with this `RoomID` is in no room.
  `cleanup` closes `Receive` or takes a message off it, and the message pump then goes on.
* A message on a `Send` channel is the number that its acceptance gave it. What gorilla/websocket
  does when two pumps write at once is left open: it writes, fails or panics.
* A limiter is an object the map points to, named after the handshake that made it, so that a
  goroutine may go on with one that the sweep has dropped.
* A code is the number of the attempt that drew it: two attempts draw different codes. The
  queue that carries the job is reduced to "attempted, attempted again, or lost".
* In `ChatStore` a read of something that cannot change (members of a room, owner of a message) is
  merged with the next step; a read of what can change (a message, the cache) is a step.
  Messages are numbered by their inserts. The lock of an edit compares stamps in milliseconds.

## 3. Runs

| run | instance | question |
|---|---|---|
| `PoolFaults` | an OTP job with 3 runs and a broadcast, 2 workers, channel of 1, time 0..3, all faults | types and one owner, bounded runs, one end, no silent loss, cause of death, priority, refinement of `JobLifecycle` |
| `PoolLiveness` | 3 jobs of both priorities, time 0..2, refused calls | every job comes to rest; shutdown completes |
| `PoolRequeue` | 2 jobs, no faults | violated: the job in hand at shutdown is put back |
| `DeadLetters` | 2 dead letters, 1 runnable, 3 documents, all faults, no validator | types and bounded attempts, final is final, refinement of `DocumentLifecycle`; without trouble: kept once, not stranded |
| `DLQNotSaved` | 1 dead letter, validator in force | violated: a dead letter is saved |
| `HubRegistry` | 2 clients of a user, 2 named rooms and the empty one, 2 pumps each, 3 events | types, one named room if messages are handled one at a time, no ghost without a join, the last leaver announces |
| `Pumps` | 1 client, `Send` of 2, `Receive` of 1, 2 sets of pumps, 3 messages | written in order and once, no panic while connected, refinement of `Outbox`, whoever leaves ends, what is accepted is written |
| `PumpsPanic` | the same, the client followed to its end with both sets | violated: no goroutine panics |
| `Limiter` | 3 connections from 2 addresses, limits of 1 | types and faithful count, limits held, closed clients released |
| `LimiterLeak` | the same | violated: disconnected clients are released |
| `Accounts` | 2 registrations with a shared username, 2 requests, 2 attempts | types and unique names, the mailed code is valid, access follows verification, a code is spent once and not in vain, who registers is mailed |
| `ChatRequests` | 2 users, 3 requests on 2 goroutines, 1 failed call | rooms reused, counts follow messages, monotone read flag, types and honest cache, lock of later edits, refinement of `Conversation` |

### The bounds, and why they are enough

* Pool. One slot in the channel makes the producer block behind a single job; two workers make two
  runs overlap; three runs of the OTP job give two backoffs, the second longer than the first; a
  clock of 0..3 passes the expiry of both kinds (1 and 2) and both backoffs (1 and 2). Crashes,
  refusals and lost replies are not bounded. The real constants (100 slots, 5 s, 10^10) only scale
  these; `WeightAssumption` states the relation between weight and time that the code relies on,
  and the proofs use it for every value.
* Dead letters. `MaxRetryCount` 2 has a counted failure and a permanent one; a batch of 2 has a
  first and a last document; a lost reply of an insert makes a second document of the same job, and
  there is room for one such document. A job that does not parse and one that does go both ways
  of the consumer.
* Hub. Two pumps are what one join starts; three connections, joins and leaves are a join in
  progress, another on the second pump, and one after them. Two clients of one user is the smallest
  case in which "is the user still online" has two answers. One client alone connects, goes to another
  named room or the empty one, and on or back from there, or overlaps the two moves.
* Pumps. A `Send` channel of two slots has a batch, a full channel and one in between; a `Receive`
  channel of one blocks the reader. Two sets of pumps are what one join makes. `OneSetLeaves` is a
  constraint: two sets are followed until the client begins to leave, because after that two
  writers and two readers may panic in ways one set shows already (`PumpsPanic` has no such bound);
  so the liveness properties of this run say, for two sets, nothing about the time after. Three
  messages fill the channel and find it full.
* Limiter. Two connections of one address race for its only place; a third, of another address,
  competes for the capacity.
* Accounts. Two registrations race for one name; two requests race for one code; two attempts make
  an older code and a newer one.
* Chat. Three requests over a store that may hold a first message are an edit and two edits
  racing; two sends racing and a fetch; a read mark, an edit and a fetch. `EditWindow` 0 with a
  clock of 0..1 has edits inside and outside the window, and stamps that are equal or different.
  With two users nobody is an outsider; that a message of somebody who is not in the room raises no
  count, and that a pair finds its own room among those of others, rests on the theorems, which are
  for any number of users.

`CHECK_DEADLOCK FALSE` is set where the system really may stop: a pool that was shut down, a hub
without events left (`MaxEvents`), a client that is gone or a process that panicked, connections
that are released, requests that were answered.

### Fairness

`PoolLiveness`: weak fairness of `Stop` (main calls it after the signal), of the producer, and of
each worker: goroutines that can run are run by the Go scheduler, and `HandleJob` returns (the
mailer and the hub have no unbounded wait). Nothing is assumed of the clock, the handlers or the
signal, so a job comes to rest even if time stands still: the pop takes the lowest score whatever
its time. `DLQNotSaved`: weak fairness of the two goroutines, of the ticker, and
of `ConsumerStop` by itself, because `select` chooses at random among ready cases; the outcome of a
run is free. `Pumps`: weak fairness of each goroutine and of a send of the hub that has begun; a reader that
waits for its peer is fair only once the connection is broken or closed (its deadline), and nothing
is assumed of the peer. `Limiter`: weak fairness of a handshake that has begun and of the goroutine
that releases; nothing is assumed of the peer or the sweep. `Accounts`: weak fairness of a
registration that has begun, of the attempts of its job and of each request; who registers is
mailed unless a call fails or the job is lost.

## 4. Disagreements

Found by a run (the `findings` of `PROJECT.json`):

* `PoolRequeue`: the requeue at shutdown is refused, and the job in hand is lost;
* `DLQNotSaved`: no dead letter passes the validator;
* `PumpsPanic`: a sender of the hub that found a client before its clean-up sends on a closed
  channel, in a goroutine that nothing recovers;
* `LimiterLeak`: a client whose peer goes away is cleaned up without `Close`, so its context is never
  done and its address stays charged; after `ConnectionsPerIP` of them the address is locked out.

Met while reading, and visible in the models without a run of their own:

* a client that is closed while it joins stays in the room: `Unregister` has removed it from the old
  one before `Register` adds it to the new one (the reason for the premise of
  `NoGhostWithoutJoin`); so does one whose `RoomID` is empty when it is cleaned up;
* a client that joins the room `""` (no check of `room_id`, `client.go:224-236`) stays in it when it
  joins another, one message after the other, because `client.go:240` takes the empty name for "in no
  room"; the comment at `:239` says "Unregister from old room, register to new room". That is why
  `OneNamedRoomIfSerial` speaks of named rooms;
* a reply passes if its sender *or* the receiver it names is a member (`chat-service.go:162`), where
  the comment at `:152` says "sender and receiver is member of the room": an outsider may answer in a
  room by naming a member, and a member may name an outsider. `Conversation` promises nothing about
  who may answer whom;
* "update metadata for the room members" (`chat-repo.go:246`) writes the row of the sender only
  (`:146`), and so raises the unread count of whoever wrote. `UnreadFollowsMessages` leaves open whose
  count a message should raise;
* two first messages at once create two rooms for one pair of users (`RoomReusedUnlessRaced`);
* a first edit has no lock, and overwrites another one unseen (`LockedAfterFirstEdit`);
* two handshakes at once pass the limits, which are checked before they are counted; a handshake
  that overlaps a sweep counts on a limiter the map has dropped (`raced` in `ConnLimiter`);
* a client that joins, or whose `Send` is full, while it is cleaned up may panic in four ways:
  see the `...Panics` actions of `ClientPumps`; a nil message is one of them
  (a message pump that reads a closed `Receive`);
* the message pump of a client that left without `Close` stays, waiting on its two channels, when
  `Receive` was not empty at the clean-up (`DepartingClientEnds` leaves it out);
* the farewell of a kick is put on `Send` just before the clean-up that empties the channel;
* a failed activation after the code was deleted strands the account: there is no second code
  (`user-service.go:87-93`; the premise of `SpentCodeActivates`);
* two requests that overlap may both spend a code, and the delete of the slower one may hit a newer
  code (`user-service.go:78-87`; the premise of `CodeSpentOnce`);
* when the job that mails the code cannot be enqueued, that is logged (`user-handler.go:82`) and the
  account stays without a code (the premise of `RegisteredIsMailed`);
* a request without a stored code dereferences nil (`user-service.go:83`): the recoverer answers 500;
* `CountUser` asks for a row with this username *and* this e-mail, while the message says "or"
  (`user-service.go:44`): a name that is taken is found by the unique column, as a 500;
* a retry is popped on the next poll, not after its backoff (`worker.go:20` against `:213`); the
  exponential delay only orders retries of one priority among each other;
* the send to `JobChannel` blocks when it is full, although `worker.go:147` calls it non-blocking;
* jobs left in `JobChannel` when the pool stops, up to 100, are lost without a line in the log;
* a job that was not expired when the producer looked may have expired when a worker runs it, after
  a wait for a slot of the channel; a run that succeeds is then a run of an expired job;
* a dead letter that the DLQ worker holds when the pool stops is lost: insert and push back have the
  cancelled context, and the error of the latter is ignored (`start-dlq-worker.go:62`), which the
  comment at `:61` calls the fallback, "put back to Redis DLQ". As every insert is rejected before,
  this may strike whenever there are dead letters (the premise of `DeadLetterKeptOnce`);
* no batch of documents decodes (`dlqjob.go:7-11`, `retry-dlq-worker.go:71-74`), so no document is ever
  retried even if one is inserted, although `retry-dlq-worker.go:49` says "find jobs ready for retry".
  That a runnable document reaches its end is therefore no property of this code;
* the document of a dead letter holds the payload, not the job (`start-dlq-worker.go:48`), so the
  consumer unmarshals a job without a type (`retry-dlq-worker.go:100`) and never runs it; such
  documents stay first in the batch and, a batch of them, starve every other;
* `markDLQJobAsFailed` sets no `next_retry_at`; an update that fails leaves a document in
  `"processing"`, which no filter finds;
* after one join a client has two message pumps, whose joins interleave, and it may end in two rooms
  (the reason for the premise of `OneNamedRoomIfSerial`);
* `Unregister` never takes a client out of the user's slice and doubles its tail (`hub.go:111`);
* "offline" may be announced after "online" of a client that registered between the check and the
  announcement (`hub.go:123-128`);
* `IsUserOnlineInRoom` iterates a map after unlocking it (`hub.go:286`);
* after two first edits have raced, `updated_at` may go back and a later edit may be overwritten too
  (the premise `~raced` of `LockedAfterFirstEdit`);
* a message to oneself goes to any room one is in (`chat-repo.go:59-82` with equal ids);
* a page is cached per room without its limit and cursor (`chat-service.go:79`), and a sent message
  does not invalidate it;
* the migrations have no column `last_message_at`, so with the schema they create every new room and
  every metadata update fails; the model has the schema of the entities.

Outside the models, in the wiring: no route mounts `wsHandler` (`router.go:14` takes it and drops
it), so the websocket parts run only once one does; websocket authentication wants a key
`session:<sub>:<fp>` that nothing writes (`auth.go:41`); `GET /rooms/{roomId}/clients` is routed to
the broadcast, which reads the parameter `roomID` and so broadcasts to the room `""`
(`hub-routes.go:21`, `hub-handler.go:98`); the condition on `roomId` in `HandleGetUserStatus` is the
wrong way round (`hub-handler.go:194`).

## 5. Proofs

The theorems hold for all values of the constants that satisfy the named assumptions of the module
they are about, which TLC evaluates on every run of it.

| module | theorem | property | it says |
|---|---|---|---|
| `WorkerPoolProofs` | `JobHasOneOwner` | `LiveOnce` | types; at most one place holds a job, and none after its success |
| | `RetryIsTheRunCount` | `RetryCountsRuns` | the `Retry` field of a live envelope counts the runs, and is below `MaxRetry` |
| | `RunsNeverExceedMaxRetry` | `RunsBounded` | a job is run at most `MaxRetry` times |
| | `PopsMostUrgent` | `PopPriority` | a pop never overtakes a more urgent job |
| `LifecycleProofs` | `PoolImplementsLifecycle` | `ImplementsLifecycle` | the pool refines `JobLifecycle` |
| | `EndsAreFinal` | `Lifecycle!EndIsFinal` | nothing brings a job back from its end, or runs it again |
| | `NothingLostSilently` | `NoSilentLoss` | a job is held, ended, or its loss is logged, but for crashes and lost replies |
| | `JobsSettleOnce` | `SettledOnce` | one end, of one kind |
| | `DeadLettersHaveCause` | `DeadForCause` | without a fault only expiry or the last run kills |
| `DeadLetterProofs` | `RunsOfDocumentsBounded` | `AttemptsBounded` | types, and at most `MaxRetryCount` runs of a document |
| | `NoDocumentStranded` | `ProcessingIsOwned` | no document stays in `"processing"`, until a shutdown or a failure that the code does not make good |
| | `DocumentsEndOnce` | `FinalIsFinal` | a final document is final, and success is not followed by a run |
| | `DeadLettersAreKept` | `DeadLetterKeptOnce` | a dead letter is in exactly one place, under the same limits |
| | `ConsumerImplementsDocuments` | `ImplementsDocuments` | the retry consumer refines `DocumentLifecycle` |
| | `EndsOfDocumentsEarned` | `Documents!EndsAreEarned` | completed after a run, given up after exactly `MaxRetryCount` of them |
| `HubProofs` | `TypeCorrect` | `TypeOK` | the registry is well formed, its clients are tracked |
| | `SerialClientsInOneNamedRoom` | `OneNamedRoomIfSerial` | in no named room but that of its `RoomID`, unless two pumps overlapped |
| | `UnmovedLeaveNoGhost` | `NoGhostWithoutJoin` | no ghost of a client that never moved |
| | `LeaversAnnounced` | `LastLeaverAnnounces` | the last client of a user does not leave silently |
| `ClientPumpsProofs` | `MessagesInOrder` | `WrittenInOrder` | with one set of pumps messages are written in order, and none is missing until the client leaves |
| | `MessagesInOnePlace` | `AcceptedOnce` | types; an accepted message is in exactly one place, with any sets of pumps |
| | `NoPanicBeforeLeaving` | `NoPanicWhileConnected` | one set of pumps does not panic before the client leaves |
| | `PumpsImplementOutbox` | `ImplementsOutbox` | the pumps refine `Outbox` |
| | `MessagesSettleForGood` | `Box!SettledForGood` | written or lost is for good, and nothing is lost before the client leaves |
| `ConnLimiterProofs` | `AddressesChargedFaithfully` | `CountIsFaithful` | types; no address is charged for a released connection; unraced, the charge is exact |
| | `LimitsHold` | `LimitsHeldUnlessRaced` | unraced, neither limit is exceeded |
| `AccountsProofs` | `TypeCorrect` | `TypeOK` | types, and unique usernames and e-mails |
| | `NoOlderCodeIsStored` | `MailedCodeIsValid` | the code that a finished job mailed is the stored one |
| | `NoAccessUnverified` | `AccessWasVerified` | no activation and no token without a mailed code |
| | `NoCodeSpentTwice` | `CodeSpentOnce` | two acceptances overlapped, or a delete failed |
| | `NoCodeSpentInVain` | `SpentCodeActivates` | an accepted code activates, unless its request fails |
| `ChatStoreProofs` | `RoomsReused` | `RoomReusedUnlessRaced` | a second room only from a lookup that ended before the first was there |
| | `PagesWereTrue` | `CacheNeverAhead` | types; every line of a cached page was true |
| | `ReadIsForEver` | `ReadStays` | nothing makes a message unread again |
| | `LaterEditsLocked` | `LockedAfterFirstEdit` | after the first edit, only an edit of the same stamp is overwritten unseen |
| | `UnreadCountsMessages` | `UnreadFollowsMessages` | the counts of a room never run ahead of its messages, and lag only by what is in flight |
| | `RequestsImplementConversation` | `ImplementsConversation` | the requests refine `Conversation` |
| | `ConversationsAreThreaded` | `Chat!Threaded` | answers are in the room of what they answer, other messages between its members |

### The arguments

The pool has four layers, each inductive on top of the one before.

* `LiveInv = TypeOK /\ OneOwner /\ RetryCountsRuns /\ RunsBounded /\ NotYet /\ PollsEmptyHanded`.
  `OneOwner` (with `TypeOK` it is `LiveOnce`) is not inductive by itself. A pop into a variable
  that still holds an envelope would drop one (`PollsEmptyHanded`); the enqueueing of a job that is already somewhere would double it
  (`NotYet`); and `RunsBounded` follows only if the count that travels in the envelope is the count
  of the runs (`RetryCountsRuns`). Steps that only take envelopes away are one lemma, `Shrink`; each
  step that moves an envelope has a lemma that names the place it leaves and the place it enters.
* `ScoreInBand`: each score lies in the band of its priority. Its steps need `OneOwner` (a ZADD never
  overwrites the member of another envelope) and `WeightAssumption` (no expiry or retry time reaches
  the next band).
* `LifeInv = LiveInv /\ DeadExist /\ OneInHand`: a dead letter is about a job that was created, and a
  worker handles one job. Under it, every step moves the status of one job along `JobLifecycle`, is
  `LoseClaimed` (a crash), or changes no status (`NextMaps`). `EndsAreFinal` is then a fact about
  `JobLifecycle`, carried over by the refinement.
* `LossInv` adds `DroppedExist`, `SettledOnce`, `NoSilentLoss` and `DeadForCause`. The lemma `Outcomes`
  classifies every step once: it concerns nobody, a crash, or exactly one job, which then appears,
  succeeds, is given up (dead lettered or dropped, with the replies that led there), or vanishes
  with a fault on its record. Each of the three properties is preserved by each class, and nothing
  is known of the actions any more.

Dead letters: `DocsInv` relates a document to the snapshots that the consumer holds. What bounds the
runs is not the stored count but `Counted`: the runs begun of a document are its count, plus one
while a run is unrecorded; `BatchIsFresh` says that a snapshot of the batch agrees with the document
until its turn comes, which is why writing the count back from it is right. `WorkIsMarked` and
`ProcessingIsOwned` tie the status to the consumer that set it. `HandInv` and `KeptInv` say where a
job is between two stores. For the refinement of `DocumentLifecycle` the bound on the runs is not enough:
a document is given up after exactly `MaxRetryCount` runs only if its count *equals* its runs while it
waits, and is one behind when the outcome is written, so `Counted` and `WorkIsMarked` say so. Each of
the five writes of the consumer then moves the stage of the document at work, and nothing else.

Registry: `HubInv = Types /\ (for each client: Order, Unmoved, Serial) /\ OwedInv`. `Order` is the
order in which the goroutines of a client begin and finish; `Serial` describes the client between
two steps of its single goroutine, including the room it is about to enter; `OwedInv` says who still
owes the announcement of a user that has left. A step of one client frames all others (`SameClient`,
`StepOfOne`), so each action is looked at for its own client only.

Client: `Inv` has the order in which sets of pumps start (`SetsInTurn`), what only a leaving client can
show (`Leaving`: a closed channel, a context that is done, a panic of a single set), the batch in the
hand of a write pump (`Held`), and two facts about messages. `Placed`: `Send`, the written stream, the
hands and the discarded messages are disjoint, without repetitions, and together are what was
accepted, however many sets of pumps race. `InOrder`, for one set: what was written, the batch in hand
and what waits rise in this order, and until the client leaves they are all the messages. A lemma,
`Outcomes`, reduces every step to one of six things that can happen to messages (`Quiet`, `Accepts`,
`Discards`, and of one write pump `Moves`, `Flushes`, `Fails`); each property is preserved by each of
them, and each is a step of `Outbox` or leaves it alone. While there is one set of pumps, only its
write pump takes part in these (`OneWriter`), which is what the order rests on.

Connection limiter: `Kept` says that a limiter enters the map once and is empty until then, so one that
was replaced or swept never charges its address again, and that a connection whose limiter is still in
the map gives its place back there. With it, the count of a limiter in the map never exceeds the
connections charged to it (`NotAhead`). If nothing raced, `Serial` adds that what a handshake saw is
what the map still has, which makes the count exact (`Exact`), and the check that it passed still holds
when it counts itself; `Seated` is the same for the capacity of the hub.

Accounts: codes are numbered by attempts, so "older" is a comparison and what is stored or mailed
is bounded by the attempts made. `CodeSpentOnce` is not inductive: `SpentIsGone` adds that an
accepted code is out of Redis, or about to be deleted, or its user is in `raced`. `Presented` carries
the fact that a code was mailed across the calls between its comparison and the activation.

Message store: `Inv` says of each store and of each request between two calls what the later calls
rely on. Rooms and messages only grow (`RoomsGrow`, `MessageGrows`), which keeps true what a request
has read: a line of a page (`TrueLine`), and the version an edit started from, which is not newer
than what is there unless two first edits raced (`ReadBefore`). `Absent` carries the result of a
lookup to the creation of the room: among the rooms it saw, none was of the two users. The unread
counts are a balance, which is inductive only for each member by itself, because a step of a request
knows its sender (`Balanced`): the count plus the requests between the two writes against the messages
written. A step adds as much to both sides or, when a call fails, less to the left (`Recounted`). A
room has two members for ever (`PairsOK`), so the property is the sum of two balances (`BothMembers`).
The refinement of `Conversation` needs one more layer, `Addressed`: a request that waits to insert has
a room with its sender and receiver among the members (a first message), or answers a message of
that room. It is
established by a check several calls before the insert, and it lasts because neither the members of
a room (`RoomsStay`) nor the room of a message ever change. Then each write maps to one step
(`CreateMaps`, `InsertMaps`, `ReadMaps`, `EditMaps`) and everything else, lost replies and the cache
included, to none.

Left to TLC: the liveness properties (`EventuallySettled`, `ShutdownCompletes`,
`DepartingClientEnds`, `AcceptedIsWritten`, `ClosedIsReleased`, `RegisteredIsMailed`), which need
fairness and `ENABLED`, out of reach of the provers used here.

## 6. Not modelled, and why

* Wording, payloads, mails, metrics and log lines: no property is about them. `message.go` is the
  types and constructors of messages.
* Reads without effect: `GetDLQStats`, most of `GetHubStats`, the hub's HTTP handlers, whose writes
  (broadcast, kick, disconnect) are the actions of `ClientPumps`.
* The refresh branch of the JWT middleware (`jwt-middleware.go:84-145`): it waits for
  `jwt.ErrTokenExpired`, which `ParseAndVerifySign` never returns, because `Claims.Exp` hides the
  registered claim the library checks and an expired token gets another error (`sign.go:86-88`).
  What is left, and websocket authentication, checks a token without changing anything.
* The session keys that verification and login write: no reachable code reads them.
* Retries inside the Redis client (up to three by default) and the TTL index of `dlq_jobs`.
* Connecting to the stores, creating collections and indexes, reading the configuration:
  straight-line I/O before anything runs concurrently.
* Hashing and token signing: library calls.

## 7. What could follow

1. The composition of `WorkerPool` and `DeadLetter` over the shared list `priority_queue_dlq`, with the
   runs of a job counted across both: the consumer starts from the payload, so the count starts anew.
2. A registry with a client's pumps: `Hub` and `ClientPumps` over one list of goroutines.
