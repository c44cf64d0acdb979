# A verification project for the emergency-service STOMP system

The repository holds a publish/subscribe service over STOMP 1.2: a Java server
(`src/server`) that runs either with a thread per client or as a reactor, and a
C++ client (`src/client`) that turns keyboard commands (login, join, exit,
report, summary, logout) into frames and collects the events that others
publish. This directory holds TLA+ modules of it, the configurations that
model-check them with TLC, and proofs for TLAPS.

All of it is modelled: the thread-per-client server with everything it shares,
the actor thread pool, the reactor, the client's two threads, the client against
the server, and the texts of frames and reports. Every safety property is also
proved.

## Inventory

Server paths are below `src/server/src/main/java/bgu/spl/net/`, client paths
below `src/client/src/`.

| component | state it keeps | operations |
| --- | --- | --- |
| Database, `impl/stomp/StompDataBase.java` | `usersPasswords`, `channels` (channel to connections), `subscriptionsDetails` (connection to id to channel), `messages` and their counter, `connectedUsers`, `idToUser`, one `ReentrantReadWriteLock` | look-ups under the read lock, updates under the write lock; `isConnectedUser` and `getSubscribers` without one |
| Protocol, `impl/stomp/StompMessagingProtocolImpl.java` | `isTerminate` and the id of its connection | `process` with a handler method per command, `sendFrame` |
| Connections, `srv/ConnectionsImpl.java` | `idToHendler` | `send` to one, `send` to a channel, `disconnect`, `addConnectionHandler` |
| Thread-per-client server, `srv/BaseServer.java`, `srv/BlockingConnectionHandler.java` | connection counter, socket and streams of each handler | accept loop, read loop, `send`, `close` |
| Wire format, `StompFrame`, `StompMessageEncoderDecoder` | bytes of the frame that is being read | decode a byte, encode a frame |
| Actor thread pool, `srv/ActorThreadPool.java` | `acts` (pending tasks per actor), `playingNow`, an `ExecutorService` | `submit`, `complete`, `shutdown` |
| Reactor, `srv/Reactor.java`, `srv/NonBlockingConnectionHandler.java` | selector, `selectorTasks`, a write queue per handler, a pool of buffers | select loop, `continueRead`, `continueWrite`, `send`, `updateInterestedOps` |
| Client, `StompClient.cpp`, `StompProtocol.cpp`, `ConnectionHandler.cpp` | flags `isTerminate` and `isConnected`, maps `channels`, `reciepts` and `eventsMap`, the socket | a keyboard thread and a server thread, which share all of it without a lock |
| Events, `event.cpp` | one event; `eventsMap` of the client | formatting and parsing a body, sorted insertion, the counts of `summary` |

**How they interact.** `BaseServer` starts a thread per accepted connection.
The thread reads bytes, decodes frames and calls `process` of its protocol,
which reads and writes the database and calls `ConnectionsImpl`; that calls
`send` of the handler of the same connection (an answer) or of others (a
broadcast), so that one thread writes to, and may even close, the socket of
another. In the reactor one selector thread reads and writes all sockets and
submits the decoding and processing of what it read as a task of the
connection's handler to the pool; the handlers are the pool's actors. Clients
and server exchange frames only.

**What is hard.**

* The database has one lock, but the handlers do several look-ups and updates
  that each take it separately: check and act are apart (login, SUBSCRIBE,
  UNSUBSCRIBE).
* Who is logged in, and who is subscribed, is recorded twice each.
* A broadcast iterates over a `HashSet` that other threads change, without the
  lock, while it writes to handlers that other threads remove.
* A thread can die of an exception at many places (a malformed frame, an id that is
  no number, a missing receipt header, a concurrent modification) and nothing
  is cleaned up after it; in one place it dies with the read lock held.
* What follows an ERROR is done in three different orders.
* The pool decides between executing and queueing a task while a worker decides
  that nothing is pending.
* In the reactor, keys are cancelled by one thread while another uses them.
* In the client two threads share every map, every flag and the socket: one logs
  in while the other is still closing the last session, one records what a
  receipt is about after the frame was sent, and the other may have it already.
* The client keeps its subscriptions over a logout, the server does not.
* A connection that breaks leaves half a frame, which the client processes: perhaps a receipt with half its number.
* A client that does not read holds up who writes to it.

`PROJECT.json` lists these as hazards with their lines.

**What makes each part correct.** Database: its two records of logins and its
two indexes of subscriptions agree, ids are unique, the lock is always given
back. Protocol: one session per user, the right password, an ERROR ends the
session and leaves nothing behind. Broadcast: every subscriber that stays is reached, once, in
the order of each sender. Server: every frame is done with, every failed
session is closed. Pool: the tasks of an actor run one at a time, in order, and
none is forgotten. Reactor: every accepted frame is processed and every answer
written, and one connection cannot end the others. Client: an ERROR
ends the program, a confirmed logout ends its own session and no other, every receipt is
understood, and its record of subscriptions is that of the server. Reports: what a
user reports arrives, and a summary counts it.

## Modules

### The thread-per-client server

| module | what it holds |
| --- | --- |
| `StompDataBase` | state and methods of the database, and its lock |
| `StompServer` (extends it) | accepting, the read loop, the protocol's handlers, the broadcast, the error paths, crashes; specification and fairness |
| `StompServerProperties` | invariants, action and liveness properties, the claims of comments, the inductive invariant |
| `StompServerProofs` | theorems about ids, handlers and errors, and the lemmas about steps that the next one uses |
| `StompSessionProofs` | theorems about who is subscribed and logged in, and about broadcasts |
| `MCStompServer` | the frames that clients send in the instances for TLC |

*State.* The variables of `StompDataBase` are the fields of the class, with
the code's names. A missing entry of a map is `Null`, but an absent channel
and one with an empty set are not told apart, because `send` treats them alike.
`messages` keeps of each message whose frame it came from.
`idToHendler` is the set of connections with a handler; `sockOpen`, `outbox`
and `isTerminate` are what a handler and its protocol are to others; `pc`,
`frame`, `respond` and `iter` are the thread of a connection: where it is,
the frame in hand, the answer, and the loop of `ConnectionsImpl.send`.

*Steps.* One step is one access to shared state. Every database method that
holds the lock from its first to its last line is one step, which is sound
because nothing in it touches state that is accessed without that lock, except
`connectedUsers` (a concurrent set, of which `isConnectedUser` reads one element)
and the sets that `getSubscribers` hands out (see below). A method of the
protocol is a sequence of steps: `connectHendel`, `getPasswordForUser`,
`addUser` or `checkPassword`, `setConnected`; `sendHendel`, `storeMessage`,
`getSubscribers`, then `nextSubscriber` and `deliver` for each subscriber and
`endBroadcast`; and so on. `ErrorPath` gives the order of the steps after an
ERROR: a refused SEND sets `isTerminate` and then forgets the connection, the
commands that go through `sendFrame` forget it first, an unknown command does
not forget it at all.

*The lock.* A live thread holds it within one step, so it is free between
steps, with one exception: `isValidID` on a connection without a map of
subscriptions throws between `lock()` and `unlock()`. From then on the thread is in
`leakedReaders`: readers still get in, a writer cannot, and once a writer is
queued (`waitForWriteLock`) readers wait behind it, which is how the non-fair
`ReentrantReadWriteLock` treats a reader that finds a writer at the head of the queue.

*The broadcast.* `iter` keeps the elements that the set had when the iteration
began, those visited, and whether another thread modified the set since
(`MarkStale`, part of every step that changes a channel's set). After a modification
`next()` may throw `ConcurrentModificationException` or, since no lock or volatile
field orders the two threads, may fail to see it; an element that was added or
removed may or may not be returned. What `HashSet` promises is that the iterator passes over nobody who stays in its place
of the table (`Staying`, the guard of `endBroadcast`). `iter.moved` has the others: who was added since (its place may be before the iterator or
behind it, so it may come a second time), and everybody when the table may have grown. Where that happens depends on
the hashes, at the 13th element of the first table or, with nine in one bucket, earlier: `SmallSet` (8 in the code; 1 in `broadcast`, so that it happens)
is the size from which an addition may do it.

*Clients that do not read.* A write to a socket returns sooner or later unless its client has stopped reading; `Deaf` are the clients that may do so,
and `HeldUp` is a thread in a write to one of them.

*Crashes.* An unchecked exception leaves `run()`, whose try-with-resources
closes the socket; `Crash` does that and undoes nothing else. `decodeFails`
is a frame that cannot be parsed, `Eof` a client that goes away, at any time.

*Visibility.* `isTerminate` is a plain field that other threads read in `send`:
they may or may not see that it was set, and accordingly close or leave the socket.

### The actor thread pool

| module | what it holds |
| --- | --- |
| `ActorMailbox` | the abstract specification: per actor, tasks run one at a time in the order of their submission |
| `ActorThreadPool` | the code: `synchronized (act)`, `playingNow`, pending tasks, the executor |
| `ActorThreadPoolProperties` | refinement mapping, inductive invariant, liveness |
| `ActorThreadPoolProofs` | theorems |

A step is one access to shared state inside the monitor of the actor:
`submit` is `submit` (enter), `contains`, then `add` and `execute`, or
`addPending`, and `exit`; `complete` is `complete` (enter), `isEmpty`, then
`remove`, or `poll` and `execute`, and `exit`. The executor is a set of jobs from
which a worker takes any: the code's queue is first in first out, but a pool
that replaces a worker that died of an exception starts the new one with a job
of its own, so nothing is promised between actors, and the more general
choice is the sound one. `run` ends normally or by an exception alike, as
`complete` is in a `finally` clause. `shutdown` drops what is in the queue,
and `execute` is then rejected.

`pendingRunnablesOf` is part of the step that uses its result: the map is only
touched under its own read-write lock, and only the holder of the actor's monitor
looks up this actor. It is a `WeakHashMap`, whose `get` may remove entries of
dead keys while others hold the same read lock; that removal is synchronized in the
library and concerns other keys, and the task that is running or pending refers to its
actor, so a key in use is not dead.

### The reactor

| module | what it holds |
| --- | --- |
| `Reactor` | the selector thread, the tasks of the workers, the write queues and keys they share; the pool as `ActorMailbox` |
| `ReactorProperties` | invariants, action and liveness properties, the inductive invariant |
| `ReactorProofs` | theorems |
| `MCReactor` | what the clients send in the instances for TLC |

*State.* `open[c]` says that the channel of a connection is open, and with it
that its key is valid, since closing a channel cancels its key; `opWrite[c]` is
the `OP_WRITE` bit of the interest set. `writeQueue` and `selectorTasks` are the
fields of those names. A frame takes two halves on the wire, numbered 2n - 1 and 2n for
the n-th: `batches[c][k]` is the last half that read k got, `at[c]` the half
that the tasks reached, `head[c]` that the decoder holds a first half. `written[c]`
is what the client was sent in full. `spc` and `cur` are the selector
thread: its program point and the key in hand; `wpc`, `out`, `iter`, `target` and `after`
the workers, one at most for each connection. Of the database there are `subscribers`, the connections with a map in
`subscriptionsDetails`, and `readLeaked`: a thread died with the read lock.

*Steps.* `select`, then a `runSelectionThreadTask` for each task queued, then
`handleAccept` or `nextKey` for each selected key; of a key `isReadable`,
`continueRead` (with the submission to the pool), `isValid`, `isWritable`,
`continueWrite` (a step per frame, or per part of it that the socket takes),
`queueEmpty` and `updateInterestedOps`. They are steps of their own because a worker may
close the channel between any two of them, and each use of a cancelled key
throws: `Dies`. A worker does `take`, then `process` for each whole frame, which
sends by `send`, `addToWriteQueue`, `wakeup` and `closeIfTerminating` for each receiver,
`afterSending` for what the error path has left, and `endOfBuffer`. An exception is
`Throws`: the rest of the buffer is dropped, and the next buffer may begin
with the second half of a frame. Three frames do that: one that is malformed, an UNSUBSCRIBE of a connection without a map of subscriptions
(which leaves the read lock held, `LeaksReadLock`), and a SUBSCRIBE or UNSUBSCRIBE that asks for no receipt, after the database
was changed (`send` of null). Once the lock is left held, whatever needs the write lock `waits` for ever, and so does every reader behind it
(`IsHeldUp`, `GetsThrough`; `wpc` is then "blocked").

*What is reduced.* Of the protocol only what the reactor can tell apart is left: whom
a frame makes `send` write to, whether it sets `isTerminate`, in which order
the connection is forgotten, and how it can die or wait for ever. `StompServer` has the rest, over the database; the two share
the three error paths, the lock left held and the unlocked broadcast. A CONNECT is always accepted, and there is
one channel. What a client sends, and whether it closed its end, is decided when it is read. The pool of
byte buffers is left out: a buffer belongs to one task until it is released.

### The client

| module | what it holds |
| --- | --- |
| `StompClient` | the keyboard thread, the server thread, `main`, and the server as an environment; specification and fairness |
| `StompClientProperties` | invariants, an action property, liveness, the inductive invariant |
| `StompClientProofs` | theorems |
| `MCStompClient` | what the user types in the instance for TLC |

*State.* `isTerminate`, `isConnected`, `channels`, `reciepts`, `eventsMap` and the static `subscriptionId`
are those of `StompProtocol`, `isConect` and `sock` those of `ConnectionHandler`. `channels[ch]` is
0 if the map has no entry; of the events of a channel only is kept whether a summary of them can throw.
`kpc`, `line` and `kframe` are the keyboard thread, `spc` and `sframe` the
server thread. A line is its command, its channel, and whether its
arguments are right in number and readable. `toServer[n]` are the frames of connection n that
were not answered, `fromServer[n]` the answers that were not read. `asked` is a history
variable: what the frame with a receipt number asked for, and over which connection.

*Steps.* One access to what both threads use, or one write to the socket: `joinHendel` (send) and
`recordJoin`; `exitHendel` (record) and `sendFrame`; `logoutHendel`, `recordLogout` and `sendFrame`; `connect`,
`setConect`, `sendConnect` and `setConnected`; `receiptHendel`, `loggedOut`, `close` and
`clearConect`; `erorHendl` and `clearConnected`. A flag is `volatile` and the makefile does not
optimise, so one access to it is atomic. Two accesses to a `std::map` at one time are undefined:
where the other thread is at its access to the same map, the step may also lose the
insertion, miss the look-up, or end the program (`raced`, `aborted`). `stoi`, `general_information.at` and
the JSON library throw where nobody catches: `badPort`, `badFile`, a `MESSAGE` whose date is no number, a
RECEIPT without one, a summary over an event without "forces_arrival_at_scene". A bare `exit` reads past the
end of a vector.

*The server as environment.* It answers in order and with the receipt asked for, refuses a frame by
an ERROR and stops reading, sends messages of others, or goes away. What it then had written may be lost
from any byte on, and the rest of a frame is cut off; `getFrameAscii` returns
false for it and nobody looks, so the client processes the piece (`Readings`): a command that is none, a receipt whose number has lost
its last digits and is another one (`CutReceipts`, with numbers written in base `Radix`, so that the small numbers of an instance have digits to lose), a message for another channel
or with half an event (`CutMessages`). A client that was refused may
be sent a last message by the thread of another connection, which then closes its socket as `send` does when it
sees `isTerminate`: one step of that thread (`peerBroadcastsLast`).

### Client and server

`StompSystem` (with `MCStompSystem` and, for the theorems, `StompSystemProofs` and `StompAgreementProofs`) puts `StompClient`, its actions as they are, against
`StompServerProperties`, its actions as they are. `wire[n]` is what the
server's thread has still to read. When a thread of the server writes a frame, ends one, or closes its socket,
`PassOn` changes `toServer`, `fromServer` and `peer` accordingly; nothing else
does, so that the refinement `ServerIsAPeer` (the specification `StompClient` itself, as a
property of the system) says whether this server behaves as the environment that the client
was checked and proved against. `SessionsAgree` compares the client's `channels` and its login with
both indexes and both records of the server's database, whenever nothing is under way. `SystemInv` is why both
hold: what the two ends of the connection know of each other at every moment. After the end of the program the
server is not followed any further.

### Frames and reports

| module | what it holds |
| --- | --- |
| `FrameCodec` | `toString` and `parseStompFrame` of server and client, with the trimming of both |
| `EventReport` (extends it) | the body of a report and its parsing, sorted insertion, the counts of a summary |
| `EventReportProofs` | theorems about frames, reports, the sorted list and summaries |
| `MCEventReport` | the reports of the instance for TLC |

A text is the sequence of its parts between colons, a frame on the wire the sequence of its lines:
that is what both parsers look at (the first empty line, the first colon, blank
lines at both ends of a body). Both trim: the server the name and the value of a header (`TrimmedLine`; also of those that
it makes itself, `ServerFrame`), both of them the body (`Trim`: blank lines at its ends, and blanks at the ends of its first and last line). Blanks are the space, the tab and the carriage return, the ones that
the client asks for; that `String.trim` of Java takes other control characters too is left out. An exception is the field
`thrown`. The state machine is one channel of `eventsMap`: each step is a MESSAGE whose
event went through `getBodyFromEvent`, `toString` of the client, `parseStompFrame` of the server,
`sendHendel`, `toString` of the server, `parseStompFrame` and `Event` of the client.

## Runs

| run | instance | what it shows |
| --- | --- | --- |
| `pubsub` | 2 connections, 3 frames each, 2 passwords, 2 channels, 2 ids | logins and subscriptions are recorded consistently, whoever leaves by a frame is forgotten by the database; the inductive invariant of both |
| `broadcast` | 2 connections with 3 and 4 frames, 1 channel, a set that may grow with its second element | order and completeness of broadcasts by two senders, one of whom also leaves and comes back, with their inductive invariant |
| `careless` | 2 connections with 3 and 2 frames of every wrong kind, 2 channels, 3 ids with -1 among them | the inductive invariant `IInv` with the type invariant and its other parts, and that an ERROR is final |
| `progress` | 2 connections, 2 frames, 1 channel, 2 ids, one client that does not read | liveness |
| `pool` | 2 actors, 2 workers, 1 selector thread, 3 tasks per actor | the pool implements the mailbox; no task is forgotten; every task runs |
| `reactor` | 2 connections, one read each: one subscribes and publishes, the other subscribes, or leaves the lock held, and then sends no command | no frame is forgotten in a write queue, frames stay in order, with both workers and the selector thread on each other's channels |
| `reactor_progress` | 1 connection, 2 frames of any kind, up to 3 reads that may end anywhere | only exceptions tear frames; what is read is processed, what is queued is written; the inductive invariant `ReactorInv`, here of one connection (`reactor` checks what matters of it for two) |
| `client` | 5 lines of input, 2 connections, 1 message of others, 1 channel, numbers in base 2, a server of any behaviour | the client's inductive invariant and its parts, its liveness |
| `system` | 6 lines, 2 connections, 2 channels, numbers in base 2 | the server is the environment the client assumes, with the invariant behind that; both agree on login and subscriptions |
| `reports` | 3 reports: any of 1233, and two of nine by two users | frames and reports arrive but for what is trimmed, the list is sorted, summaries count |
| `two_sessions`, `stale_exit` | as small as the behaviour allows | what the code does against what its comments say (below) |

*Bounds.* `MaxConnections` and `MaxFrames` bound a session, `MaxTasks` the
tasks per actor. Two connections make every race of the database, because a
check and its use are always two accesses of one thread with steps of one
other between them. In a broadcast a second thread is all that an iteration can meet: it sends on the same
sockets, leaves, comes back and makes the table grow; `DeliveryInv` is proved for any number. Three frames are the shortest
session with a consequence (subscribe, publish or subscribe again, leave); the fourth comes back. Three tasks are
one in the executor and two pending, so that order among pending ones matters.
In the reactor two connections make a broadcast that
meets a terminating handler, and four halves in three reads make a read that ends within
a frame before, after and between others; what the first run leaves out to stay small (partial reads,
malformed and refused frames) is in the second.
The frames that a client sends are sets of `MCStompServer`: `PubSubFrames` of clients that
use an id for one channel at a time, `CarelessFrames` with missing headers, repeated and
unknown ids, the id -1, ids that are no numbers and unknown commands. `StripSlash` maps a destination
to what `sendHendel` looks up: the identity, or with `ToBareName` a second
name for the first channel, in `pubsub` and `careless`.
Five lines of the client are login, join, logout, login and one more in the second session, with
an alternative at most of them; the sixth of `system` is a report in the second session, or in the one session that there was. In base 2 the receipt numbers of a second session
begin like those of the first, so that a cut one may be an old logout's; a line without a newline at the end of the input is repeated,
which counts as new lines. Two connections are an old session and a new one. The event of the one message is `"partial"`, which can do all that a
whole one does and end the program; `"bad"` (a date that is no number) is covered by the
proofs and by the cut frames. `MaxSends` bounds the frames of one line. No symmetry is used: connections are numbers in the order of acceptance.

*Deadlock.* It is checked in `client` and `system` (which stop only where the program has ended), in `pool`, in the runs of the reactor, where `AllServed` says when nothing is left to do, and in the runs on logins. The server runs on
subscriptions say `CHECK_DEADLOCK FALSE`, since the system they model really stops: after a leaked
read lock every thread that writes waits for ever; so does `reports`, which ends after its last report. `progress` says what remains: every frame is
eventually done with *unless* a dead thread holds the lock, or it is being written to a client that does not read.

*Fairness.* Server: weak fairness of `Step(c)`, the thread of each connection. The
threads belong to the operating system's scheduler, a step waits for the database lock
only, and a held lock is given up within a step, so nobody can be overtaken for ever while the step
is enabled. Nothing is assumed of clients: `ReadFrame`, `Eof` and
`decodeFails` are not in it, nor is the write to a client of `Deaf`, which may never return (`HeldUp`); a write to one that reads does. Pool: weak fairness of
each worker and of a submission that has begun; submitting, and shutting down, are not fair.
Reactor: weak fairness of each worker (but once the lock of the database is left held, not of the start of a task: the threads of the pool may all be waiting) and of the selector thread, the latter while it
has something to do (`HasWork`: a select need not return for clients that are silent), and strong fairness of a write
that takes the rest of a frame: a client reads in the end. Clients need not send or close.
Client: weak fairness of both threads and of the return of `main`; none of the user, who need not type
(`AwaitsInput`), and none of the server. The server thread waits by reading flags in a loop
(`while` over `isConected`): its idle turns are merged into the step that ends them, since
nobody but it clears `isConect`, and nobody but it sets `isTerminate`.
Weak fairness is enough for the monitors because each actor is given finitely many tasks.

## Where code and comments disagree

Both of these runs end in a counterexample, and `PROJECT.json` quotes the comment.

* `two_sessions`: two connections pass the check for a logged-in user before
  either is recorded.
* `stale_exit`: the client keeps `channels` over a logout, so an `exit` in a later session sends
  an UNSUBSCRIBE for a subscription that this connection does not have. A connection that has subscribed to nothing
  has no map in `subscriptionsDetails`; `isValidID` dies of that with the read lock held,
  and every later writer of the database blocks, for all clients.

More are in the models and have no run of their own. A client that closes its socket without
DISCONNECT stays in `connectedUsers` for ever. A subscriber that leaves during a broadcast kills the thread of
the sender (`ConcurrentModificationException`), who is told nothing. In the reactor, a worker's answer that is queued for a
connection whose channel was closed meanwhile makes the selector task use a cancelled key; `serve` catches
`ClosedSelectorException` only, so the server ends for everybody. Two first logins race, and one client is told
CONNECTED with a password that is not the user's. A second SUBSCRIBE with an id in use leaves the connection in the first
channel's set for good: `ChannelsHoldOnlySubscribers` is checked with clients that do not do that. A SUBSCRIBE or UNSUBSCRIBE without
receipt is carried out and then kills its thread (or its task). In the reactor an UNSUBSCRIBE of a connection that never subscribed ends one
task, and from the next change of the database on the tasks that use it wait for its lock, until the pool has no thread left. In the reactor the write loop never ends once a
channel is closed with a frame left in its queue (`Spinning`); an ERROR may be lost because another worker closes the channel
of the terminating handler first; and an ERROR written before `isTerminate` is set leaves the channel open. SEND drops a leading slash
of its destination and SUBSCRIBE does not, so a client subscribed to `/x` that sends to `/x`
is refused. A second CONNECT on one connection overwrites its entry of `idToUser`, and the first
user stays listed for ever: `ListedUsersHaveAConnection` is checked with
one user for that reason. And -1 is the "not found" answer of
`getSubscriptionIDForChannel` but an id that a client may choose. Its subscription then hides the others of its channel: the client gets a second id for
it, cannot send, and leaves the channel's set with the second id while the first stays; `OneIdPerChannel` and `SubscriptionsAreBroadcastTo` are
for the clients that do not choose it (`NeverMinusOne`), whatever the others do. A MESSAGE carries the subscription number of its
sender, not of its receiver.

Of the client: who logs in while the server thread is between the two lines of `ConnectionHandler::close`
has the new connection's `isConect` cleared and never reads again (`LogoutEndsTheSession` names this). Two
accesses to `reciepts` at one time may lose the text of a logout, whose session then does not end
(`raced`). When the server breaks a connection off within the number of a receipt, what is left of the number may be that of an old logout: the client then prints
"Logged out" and closes this connection, which is broken (`BrokenOff`). A receipt that comes before `joinHendel` records its text is printed as an empty line. At the end of
the input a last line without a newline is processed again and again. After an ERROR the
program ends only when the user has typed one more line. `data/events1_partial.json` has its dates as strings, which `date_time` of
`parseEventsFile` is not: a report of it ends the program (`badFile`). In a report a
value with a colon arrives as "", so that a user whose name has one counts as the one without a
name; and the line of the description leaves an entry "escription" in the general information.
A description that ends in blanks or empty lines loses them. A header line without a colon kills the server's thread, and is name and value at once for the client.

## Proofs

For every number of connections, users, channels, ids, frames, actors, workers, tasks and lines of input:

| theorem | statement |
| --- | --- |
| `Invariance` | `Spec => []IInv` of the server |
| `TypeCorrect`, `UniqueIds`, `SubscribersAreReached`, `NoOrphanedSubscription` | its parts `TypeOK` (checked as part of `IInv`), `OneIdPerChannel`, `SubscriptionsAreBroadcastTo` (both of connections that do not choose the id -1), `SubscribedHasHandler` |
| `NothingGainedAfterError` | the action property `ErrorEndsTheSession` |
| `ErrorIsFinal` | `OnlyMessagesAfterError` |
| `DeliveryInvariance`, `MessagesInOrder` | `DeliveryInv` of the server, and its part `SenderOrder` |
| `NobodyIsMissed` | the action property `BroadcastReachesEveryone` |
| `SessionInvariance` | `SessionInv` of the server, for `OneChannelPerId` and `OneUserPerConnection` clients |
| `OnlySubscribersAreReached` | `ChannelsHoldOnlySubscribers`, for `OneChannelPerId` clients |
| `NoListedGhosts` | `ListedUsersHaveAConnection`, for `OneUserPerConnection` clients |
| `LeaversForgotten` | `LeaversAreForgotten`, for clients that are both |
| `PoolInvariance`, `NoLostWakeUp` | `PoolInv` and `NobodyIsForgotten` of the pool |
| `PoolImplementsMailbox` | `ImplementsMailbox`: the pool refines `ActorMailbox` |
| `ReactorInvariance`, `NoLostWakeup`, `SendersOrder` | `ReactorInv` of the reactor, and its parts `NoFrameIsForgotten`, `InSendersOrder` |
| `FramesStayIntact` | the action property `OnlyExceptionsTearFrames` |
| `ClientInvariance` | `Spec => []ClientInv` of the client, against any server that behaves like `Peer` |
| `ReceiptsUnderstood`, `LoggedInConnected` | its parts `EveryReceiptIsUnderstood`, `LoggedInHasSocket` |
| `LogoutClosesItsOwn` | the action property `OnlyItsLogoutCloses` |
| `FramesFit` | `Spec => []FramesInv` of the client: what its frames under way are about |
| `SidesAgree` | `SidesInv`, the part of `SystemInv` about what is not answered |
| `ServerImplementsPeer` | `ServerIsAPeer`: the system refines `StompClient`, its server the environment `Peer` |
| `ClientAgainstServer` | the client's invariants and `OnlyItsLogoutCloses`, against this server |
| `SystemHolds` | `SystemSpec => []SystemInv` of client and server together |
| `SessionsAlwaysAgree` | `SessionsAgree` |
| `FramesSurvive` | for any command, map of headers and lines of body: what the server parses of a frame that the client wrote, and the client of one that the server wrote, is that frame, with its body trimmed and, by the server, the values of its headers (names that would be trimmed are excluded) |
| `ReportFramesArrive`, `ReportsSurvive` | `FramesArrive` and `BodiesSurvive`, for reports of any length with any number of entries |
| `ReportsListed` | `Spec => []ListInv`: the sorted list holds what the constructor made of each report, in a place of its own |
| `SortedReports`, `SummariesCount` | `EventsStaySorted` and `SummaryCountsWhatWasSent` |
| `ServerInSystem` | the system's server is `StompServer`, so that what is proved of that holds in it |

*Server.* None of the invariants is inductive. What is missing is what each
thread relies on at its program point, `ThreadInv(c)`: that the check made under an
earlier hold of the lock still holds when its result is used (`SubscriptionChecked`; true
because only the own thread of a connection changes its subscriptions), that a login that goes
on has a name and a password, that a broadcast under way has a channel, and how far each of the
three error paths is (`ErrorPathState`, `ServingHasHandler`). That an id found is not taken for "not found" needs that an id in the map is one that the
client chose (`MinusOneIsNoId`). `IInv` is `TypeOK`, these and the three
invariants; the proof has a lemma per action. `ErrorIsFinal` and `NothingGainedAfterError`
need `AfterError`, where the thread of a connection can be once that was sent an ERROR, and
`NotYetAccepted`, that no connection is numbered twice; both are shown invariant
relative to `IInv`.

*Broadcasts.* Two threads that send to the same subscribers interleave step by step, over sets that others
change, and a message of an earlier frame could only come late if a thread went back. `DeliveryInv` says that it
does not: the loop sends the message that the frame in hand was stored as (`SendsItsMessage`, which needs that
`messages` only grows), whoever was reached has it or is gone for good (`Visited`; gone for good because a
number below `connectionsIdCuonter` is not accepted again), whoever keeps its place does not have it twice (`AtMostOnce`), and whoever was not tried yet has earlier messages of this
sender only (`OnlyEarlierMessages`). `SenderOrder` is not inductive without the last, nor that without the
first. `NobodyIsMissed` is what `Visited` and `AtMostOnce` make of the end of the loop. That the iterator returns whoever keeps its place is what is
taken of `HashSet`; what is proved is that the rest of the code keeps up with it: that the message under the id in hand is this frame's, that a delivery is
not lost to other threads that write to and close the same socket, and that none is repeated.

*Sessions.* What is in the database can be told from the frames of the connection alone
(`SubscribedByFrame`, `LoggedInByFrame`), since only its own thread writes it; `Leaving` follows each way out (DISCONNECT and the three
error paths) and says from which step on nothing of the connection is left. Both need what clients do, and these
are hypotheses of the theorems: `OneChannelPerId` (a client that reuses an id stays in the first channel's set, see below) and
`OneUserPerConnection` (a second CONNECT overwrites the first user). `LeaversForgotten` needs both: with two users the first name would stay listed. The client of the repository
satisfies them: one counter that no session resets numbers its subscriptions, and a login while it is connected is refused
by the client itself. So do the frames of `pubsub`; those of `careless` violate the first on purpose.

*Pool.* `PoolInv` says who holds a monitor where (`MonitorsAreHeld`), that the executor has one task
of an actor at most, counting a thread from `execute` to the end of `complete`
(`OneTaskEach`), that the actor is in `playingNow` exactly then (`PlayersArePlaying`), and that if task k is
the one in the executor then the pending ones are k + 1, k + 2, ... (`InOrder`). The refinement
then maps `take` to `Start`, `run` to `Finish`, `add` and `addPending` to
`Submit`, and every other step to a stutter; what an actor's mailbox runs is the set of tasks
that workers are running.

*Reactor.* `NoFrameIsForgotten` is about three parties: workers that add to a queue and then ask for `OP_WRITE`, the
selector thread that finds the queue empty and then takes `OP_WRITE` back, and the tasks in between. It needs
the key in hand at each program point (`SelectorState`), whom each worker is about to wake (`SendsItsFrame`), and that nothing is queued for
a connection that is not accepted (`NotYetAccepted`). `InSendersOrder` needs what `ActorMailbox` promises, namely that one worker at a time goes through
the reads of a connection (`TasksAreReads`), and `OnlyEarlierFrames`, the counterpart of `OnlyEarlierMessages`. A partial
write keeps the rest of a frame at the head of the queue, so `Sent`, the written and the queued together, only ever grows at its end.

*Client.* The question is why an old logout cannot close a new session although nothing orders the two threads.
The numbers of receipts come from a counter that no session resets (`NumbersAreFresh`), so
a number stands for one frame and, with `asked`, for one connection. What is under way
concerns the connection of the socket only, since closing it drops the rest (`OneConnection`, `Requests`,
`AnswersToCome`): the receipt in hand was asked for on this connection (`AnswerInHand`), unless it was cut. A cut frame is the last of a connection that is gone
(`OnlyTheLastIsCut`), so a number that was cut can close only what is broken off (`BrokenOff`), and something was asked for on that connection (`SomethingAsked`): it is not one
that a login is setting up. And the keyboard thread can only
connect when the socket is closed, so a connection on which a logout was asked for is not the one
that a login is still setting up (`SessionsApart`: `asked` knows nothing of it). Hence `loggedOut` meets no
`setConnected` of its own session, which gives `LoggedInHasSocket`. `InHand` says what the keyboard thread has sent and not
recorded, or recorded and not sent, which gives `EveryReceiptIsUnderstood`. The proof has
a lemma per action, for `Keyboard`, `ServerThread`, `Peer` and `mainReturns`.

*Client against server.* The client's theorems assume `Peer`, which promises a lot: answers in the order of the frames, each with the receipt
asked for, nothing but messages after an ERROR. `SidesInv` is what the server must keep for that, while the connection is served
(`Serving`): the frame that its thread handles is the first that the client counts as not answered, and what is behind it is on
the wire. After an ERROR nothing more is read (`Refused`), on each of the three error paths. `NumberedAlike` makes connection n of one side
that of the other. Every step of a server's thread then maps to `peerAnswers`, `peerRefuses`, `peerBroadcasts`, `peerGoes` or
`peerBroadcastsLast`, or to a stutter; the client's own steps map to themselves. The last of these was missing from `Peer`
until the proof met that step. The proof rests on what another's step may do to a connection (lemmas of `StompServerProofs` under *What a
client sees of a step*), taken through an instance of that module whose assumptions are proved from the client's. `ClientAgainstServer` then follows
from `ClientInvariance`, `LogoutClosesItsOwn` and the refinement.

*The session of both.* `SessionsAgree` is about moments when nothing is under way; `SystemInv` is what becomes of it in between, while
nobody changes all of a subscription at once: the keyboard thread draws a number, sends the frame and only then enters the
channel in its map, a thread of the server enters it in two indexes and answers later. Three things make it inductive. `FramesInv` is the client's alone: the
frames under way are in the order of their numbers, each SUBSCRIBE fits what its receipt was noted for, and an UNSUBSCRIBE is for
a number that the client has given up. `SubscriptionsAgree` counts a subscription as made from its frame on (`Made`) and as
ending from the moment that the client forgets it (`Ending`); a second `join` of a channel is such an end too, since its SUBSCRIBE is
refused as long as the first is in the database, and that ends the connection. `SubscribedOnce` says that no frame to come has the number of what is in the
database, so that an addition hits an entry that is free. Around them, `Done` says what a thread that is about to answer has achieved, `LogoutConfirmedOnlyIfDone` that no whole receipt of a logout
is on its way to the client, or in its hands, before the database has forgotten the login, and that whoever has a receipt to read has its login behind it; and `LoginsAgree` that one connection at a time
is logged in (`OneLogin`), and no login of an earlier one is still to come (`NoLoginComes`). A connection that the client closed because of a cut receipt may be listed still: the login of the
next session is then refused, which is what keeps `OneLogin`. `StompAgreementProofs` has the subscriptions as values first (`Agree`: what it is
to join, record, send, add, remove and answer), then a lemma per kind of step of the client, of `Accept`, `Read`, `Eof` and of the
threads, with what another thread may do to the session of this connection from `StompSessionProofs`.

*Reports.* Both parsers, the constructor of an event and a summary are folds, which is to say a `CHOOSE` of a function on sets of indices. No
theorem on folds is needed for what they compute here: that function is shown to exist, by the one induction of the module (`LastGoodIndex`:
a set with 0 in it that goes on from each index to the next has them all, from the library's theorem that finite sets are well-founded
under inclusion), and then unfolds step by step (`HeaderSteps`, `ReadSteps`, `CountSteps`). What is followed along these steps is
text. A frame is its command, a line for each header in the order that `SetToSeq` chooses (`Writes`), an empty line and the body (`Framed`), and the first empty line is that one because no
header is empty; blank lines at the ends of a body make no difference to `Trim`. A name of a header that is trimmed would be another name, perhaps that of a second header, so names have no blanks at
their ends. So frames survive, and
with them the body of a report (`Describes`), over SEND and MESSAGE, trimmed twice: its first line begins with `user` and has nothing to lose there, its last is that of the description, or "description" itself. What is trimmed once is not
changed by the second time (`TrimsWell`). The constructor is then in one of three
modes, `InFields`, `InGeneral`, `InDescription`, and has an event with each line read that was written (`ReadsUser`, ..., `ReadsAnEntry`, `ReadsDescription`).
What it makes of a report is `Made`. An insertion at the first event that does not come before the new one keeps the list sorted because `Before` compares dates
and then names, both as numbers: it has no cycles, and not coming before is transitive. `ListInv` adds a permutation from reports to places of the list (`Placed`),
shifted by each insertion; a summary counts the list (`Sums`), and the permutation
makes the numbers those of the reports.

Two facts came out of these proofs. A flag written `true:` counts as `true`, since `split_str` drops a colon at the end of a line, so `SummaryCountsWhatWasSent` is for reports
without such a flag (`IsPlain`); and the entry "escription" of a report, if it has one, is overwritten by the line of the description (`BodiesSurvive` excepts it).

*Assumptions.* `ClientAssumption` (types of the bounds and inputs; only reading a port or a file throws), `DataBaseAssumption` (ids are numbers; `Null` is not a value),
`ServerAssumption`, `ReactorAssumption` (types of the bounds and inputs), `ReportsAssumption` (reports have texts, and dates of the one digit that the model has), `TextAssumption` (what is used of strings: the tab before the key of an entry is what
`substr(1)` takes off, and keeps the key apart from those of fields; keys have no colon, texts no line break; what is trimmed has nothing more to trim, and the names of headers have nothing at all), `PoolAssumption` (workers and
submitters are different threads) and `SystemAssumption` (the names of the user, the password and the event are none of the
other values, and `Null` is no number).

*Only model-checked.* The liveness properties `FramesAreHandled`,
`ErrorClosesTheSocket`, `EveryTaskRuns`, `ErrorEndsTheProgram`, `LogoutEndsTheSession`, `WhatIsReadIsProcessed` and `WhatIsQueuedIsWritten` are out of the prover's reach.

## Not modelled

Printing, ports and addresses; bytes of a frame beneath lines and colons; the layout of a summary's file and the shortening of
its descriptions; reading JSON, beyond that it succeeds or throws. `getMessageContent`,
`getConnectedUsers`, `BaseServer.close`, `Reactor.close`, `getLine`, `sendLine`, `findIndex` and the
flag `isTerminateServer` are used by nobody. Memory: `messages` and
`idToHendler` only grow. `echoClient.cpp` is an example program outside the build of
the client. `json.hpp` is the vendored library nlohmann::json; it is some 24,600 of
the 25,800 lines of C++, so that a share of the client's lines taken over all of it is small
however much of the client's own code (about 1,150 lines with headers) the map covers.

## What is left

1. An abstract publish/subscribe specification (subscribers of a channel at the time of a message get it once), refined by
   `StompServer`. `BroadcastReachesEveryone` and `SenderOrder` say its two halves.
2. Two clients against one server, for the ghost of a client that vanished and broadcasts between them.
