------------------------------ MODULE Reactor ------------------------------
(***************************************************************************)
(* The reactor server: a selector thread accepts, reads and writes all     *)
(* sockets, and hands what it read of a connection to the pool as a task   *)
(* of the connection's NonBlockingConnectionHandler.  The tasks decode the *)
(* bytes and run the protocol, which calls send of this and other handlers *)
(* and thereby works on their write queues, on selectorTasks and, when a   *)
(* protocol is to terminate, on the channels that the selector thread is   *)
(* just reading or writing.                                                *)
(*                                                                         *)
(* The pool is its abstract specification, ActorMailbox, which the module  *)
(* ActorThreadPool implements.  The protocol is reduced to what a frame    *)
(* makes it send and forget; StompServer has it in full, over the database.*)
(*                                                                         *)
(* A step is one access to shared state: spc is the program point of the   *)
(* selector thread, wpc[c] that of the worker which runs the task of c.    *)
(***************************************************************************)
EXTENDS Integers, Sequences

CONSTANTS
  MaxConnections,  \* bound: how many connections are ever accepted
  Kinds,           \* bound: Kinds[c][n], what the n-th frame of c may be
  Reads            \* bound: Reads[c][k], how far read number k of c may get

Conn == 0 .. MaxConnections - 1

(* What a frame makes process do: one of the five commands ("silent" those  *)
(* that ask for no receipt), one that is refused whatever the database says *)
(* ("Wrong", through sendFrame), an unknown command, an exception.          *)
Subscribing == {"SUBSCRIBE", "silent SUBSCRIBE"}
Unsubscribing == {"UNSUBSCRIBE", "silent UNSUBSCRIBE"}
Kind == Subscribing \cup Unsubscribing
          \cup {"CONNECT", "SEND", "DISCONNECT", "Wrong", "Unknown", "Malformed"}

ASSUME ReactorAssumption ==
  /\ MaxConnections \in Nat
  /\ Kinds \in [Conn -> Seq(SUBSET Kind)]
  /\ Reads \in [Conn -> Seq(SUBSET Nat)]
  /\ \A c \in Conn : \A k \in DOMAIN Reads[c] :
       \A h \in Reads[c][k] : h <= 2 * Len(Kinds[c])

VARIABLES
  connectionsIdCuonter,
  open,           \* open[c]: chan is open, and its key valid
  opWrite,        \* opWrite[c]: the key's interest set has OP_WRITE too
  batches,        \* batches[c][k]: how far read number k of c got
  selectorTasks,  \* the channels whose interest set is to get OP_WRITE
  spc, cur,       \* the selector thread: program point, key in hand
  ready,          \* the connections whose keys are selected and still to do
  ops,            \* the ready set of the key in hand
  acceptable,     \* the server socket's key is selected, and still to do
  writeQueue,     \* writeQueue[c]: frames that are to be written
  written,        \* written[c]: the frames that were written
  submitted, started, active,  \* the pool (ActorMailbox)
  wpc,            \* program points of the workers
  at,             \* at[c]: how far the tasks of c got in what was read
  head,           \* head[c]: the decoder holds the first half of a frame
  out,            \* out[c]: the frame that is being sent
  iter,           \* iter[c]: the loop over its receivers
  target,         \* the receiver in hand
  after,          \* what process does after sending
  isTerminate, subscribers, idToHendler,
  subscriptionsDetails,  \* the connections that have a map there
  readLeaked      \* a thread that died holds the read lock of the database

poolVars == <<submitted, started, active>>
selectorVars == <<spc, cur, ops, ready, acceptable, batches, connectionsIdCuonter>>
workVars == <<wpc, at, head, out, iter, target, after>>
dataBaseVars == <<subscribers, subscriptionsDetails, readLeaked>>
protocolVars == <<isTerminate, idToHendler, dataBaseVars>>
vars == <<poolVars, selectorVars, written, workVars,
          protocolVars, open, opWrite, selectorTasks, writeQueue>>

Pool == INSTANCE ActorMailbox WITH Act <- Conn

Nobody == -1
(* "null" is no frame: what a handler returns that owes no receipt.         *)
Commend == {"RECEIPT", "MESSAGE", "ERROR", "null"}
OutFrame == [from : Conn, nth : Nat, commend : Commend]
NoOut == [from |-> 0, nth |-> 0, commend |-> "RECEIPT"]

(* The loop of ConnectionsImpl.send: the receivers left, those served, and  *)
(* whether the set of subscribers was modified since it began.              *)
Iterator == [todo : SUBSET Conn, done : SUBSET Conn, stale : BOOLEAN]
Over(set) == [todo |-> set, done |-> {}, stale |-> FALSE]

Cleanup == {"dbDisconnect", "removeHandler", "terminate"}

Init ==
  /\ connectionsIdCuonter = 0
  /\ open = [c \in Conn |-> FALSE]
  /\ opWrite = [c \in Conn |-> FALSE]
  /\ batches = [c \in Conn |-> <<>>]
  /\ selectorTasks = <<>>
  /\ spc = "select"
  /\ cur = Nobody
  /\ ready = {}
  /\ ops = {}
  /\ acceptable = FALSE
  /\ writeQueue = [c \in Conn |-> <<>>]
  /\ written = [c \in Conn |-> <<>>]
  /\ Pool!Init
  /\ wpc = [c \in Conn |-> "idle"]
  /\ at = [c \in Conn |-> 0]
  /\ head = [c \in Conn |-> FALSE]
  /\ out = [c \in Conn |-> NoOut]
  /\ iter = [c \in Conn |-> Over({})]
  /\ target = [c \in Conn |-> Nobody]
  /\ after = [c \in Conn |-> <<>>]
  /\ isTerminate = [c \in Conn |-> FALSE]
  /\ subscribers = {}
  /\ idToHendler = {}
  /\ subscriptionsDetails = {}
  /\ readLeaked = FALSE

-----------------------------------------------------------------------------
(* The selector thread.  A frame takes two halves, so that a read can end   *)
(* within one: of frame n, they are number 2n - 1 and 2n of what the client *)
(* sends.  What a client sent, and whether it closed its end, shows when it *)
(* is read or written to, and is decided there.                             *)
ReadSoFar(c) == IF batches[c] = <<>> THEN 0 ELSE batches[c][Len(batches[c])]

Selector(from, to) ==
  /\ spc = from
  /\ spc' = to

(* An unchecked exception leaves serve(): nobody reads, writes or accepts   *)
(* any more, and the pool is not even shut down.                            *)
Dies(from) ==
  /\ Selector(from, "dead")
  /\ UNCHANGED <<cur, ops, ready, acceptable, batches, connectionsIdCuonter>>

OpenChannels == {c \in Conn : open[c]}
ToBeWritten == {c \in OpenChannels : opWrite[c]}

(* select() answers when a key is ready or a pool thread called wakeup; a   *)
(* socket is writable while its client reads.                               *)
select ==
  /\ Selector("select", "tasks")
  /\ ready' \in SUBSET OpenChannels
  /\ acceptable' \in BOOLEAN
  /\ acceptable' => connectionsIdCuonter < MaxConnections
  /\ acceptable' \/ selectorTasks # <<>> \/ ready' # {}
  /\ UNCHANGED <<cur, ops, batches, connectionsIdCuonter, poolVars,
                 written, workVars, protocolVars, open, opWrite,
                 selectorTasks, writeQueue>>

(* key.interestOps of a channel that was closed throws, as does a null key. *)
runSelectionThreadTask ==
  /\ selectorTasks # <<>>
  /\ selectorTasks' = Tail(selectorTasks)
  /\ IF open[Head(selectorTasks)]
     THEN /\ Selector("tasks", "tasks")
          /\ opWrite' = [opWrite EXCEPT ![Head(selectorTasks)] = TRUE]
          /\ UNCHANGED <<cur, ops, ready, acceptable, batches, connectionsIdCuonter>>
     ELSE Dies("tasks") /\ UNCHANGED opWrite
  /\ UNCHANGED <<poolVars, written, workVars,
                 protocolVars, open, writeQueue>>

tasksDone ==
  /\ selectorTasks = <<>>
  /\ Selector("tasks", "keys")
  /\ UNCHANGED <<cur, ops, ready, acceptable, batches, connectionsIdCuonter,
                 poolVars, written, workVars,
                 protocolVars, open, opWrite, selectorTasks, writeQueue>>

handleAccept ==
  /\ Selector("keys", "keys") /\ acceptable
  /\ acceptable' = FALSE
  /\ connectionsIdCuonter' = connectionsIdCuonter + 1
  /\ open' = [open EXCEPT ![connectionsIdCuonter] = TRUE]
  /\ idToHendler' = idToHendler \cup {connectionsIdCuonter}
  /\ UNCHANGED <<cur, ops, ready, batches, poolVars, written,
                 workVars, isTerminate, dataBaseVars, opWrite,
                 selectorTasks, writeQueue>>

(* The loop over the selected keys; one that is not valid is passed over.   *)
(* What its channel is ready for is decided here, and need not have been so *)
(* when it was selected: the next round would find the same.                *)
nextKey ==
  /\ \E c \in ready :
       /\ ready' = ready \ {c}
       /\ IF open[c]
          THEN /\ Selector("keys", "isReadable")
               /\ cur' = c
               /\ ops' \in SUBSET (IF opWrite[c] THEN {"read", "write"}
                                   ELSE {"read"}) \ {{}}
          ELSE Selector("keys", "keys") /\ UNCHANGED <<cur, ops>>
  /\ UNCHANGED <<acceptable, batches, connectionsIdCuonter,
                 poolVars, written, workVars, protocolVars, open,
                 opWrite, selectorTasks, writeQueue>>

keysDone ==
  /\ Selector("keys", "select")
  /\ ~acceptable /\ ready = {}
  /\ UNCHANGED <<cur, ops, ready, acceptable, batches, connectionsIdCuonter,
                 poolVars, written, workVars,
                 protocolVars, open, opWrite, selectorTasks, writeQueue>>

(* The end of handleReadWrite.                                              *)
KeyDone(from) ==
  /\ Selector(from, "keys")
  /\ cur' = Nobody
  /\ ops' = {}
  /\ UNCHANGED <<ready, acceptable, batches, connectionsIdCuonter>>

Goes(from, to) ==
  /\ Selector(from, to)
  /\ UNCHANGED <<cur, ops, ready, acceptable, batches, connectionsIdCuonter>>

(* isAcceptable, isReadable and isWritable throw if the key was cancelled   *)
(* since isValid was asked.                                                 *)
isReadable ==
  /\ spc = "isReadable"
  /\ IF ~open[cur] THEN Dies("isReadable")
     ELSE Goes("isReadable", IF "read" \in ops
                             THEN "continueRead" ELSE "isValid")
  /\ UNCHANGED <<poolVars, written, workVars, protocolVars,
                 open, opWrite, selectorTasks, writeQueue>>

isValid ==
  /\ spc = "isValid"
  /\ IF open[cur] THEN Goes("isValid", "isWritable") ELSE KeyDone("isValid")
  /\ UNCHANGED <<poolVars, written, workVars, protocolVars,
                 open, opWrite, selectorTasks, writeQueue>>

isWritable ==
  /\ spc = "isWritable"
  /\ IF ~open[cur] THEN Dies("isWritable")
     ELSE IF "write" \in ops THEN Goes("isWritable", "continueWrite")
     ELSE KeyDone("isWritable")
  /\ UNCHANGED <<poolVars, written, workVars, protocolVars,
                 open, opWrite, selectorTasks, writeQueue>>

CloseChannel(c) == open' = [open EXCEPT ![c] = FALSE]

(* Faulty variant: not while a task of the connection is running.           *)
FaultySubmitTask(c) ==
  IF active[c] = {} THEN Pool!Submit(c) ELSE UNCHANGED poolVars

SubmitTask(c) == Pool!Submit(c)

(* A read takes some of what arrived and submits the task for it; or it     *)
(* finds the end of the stream, or fails, and the channel is closed.        *)
continueRead ==
  /\ spc = "continueRead"
  /\ spc' = "isValid"
  /\ \/ /\ open[cur]
        /\ Len(batches[cur]) < Len(Reads[cur])
        /\ \E upTo \in Reads[cur][Len(batches[cur]) + 1] :
             /\ upTo > ReadSoFar(cur)
             /\ batches' = [batches EXCEPT ![cur] = Append(@, upTo)]
        /\ SubmitTask(cur)
        /\ UNCHANGED open
     \/ /\ CloseChannel(cur)
        /\ UNCHANGED <<batches, poolVars>>
  /\ UNCHANGED <<cur, ops, ready, acceptable, connectionsIdCuonter,
                 written, workVars, protocolVars, opWrite,
                 selectorTasks, writeQueue>>

(* Faulty variant: a frame that was written is not removed.                 *)
FaultyWrite ==
  /\ writeQueue[cur] # <<>> /\ open[cur]
  /\ KeyDone("continueWrite")
  /\ written' = [written EXCEPT ![cur] = Append(@, Head(writeQueue[cur]))]
  /\ UNCHANGED writeQueue

(* chan.write(top): with that the frame is written, or only a part of it.   *)
Write ==
  /\ writeQueue[cur] # <<>> /\ open[cur]
  /\ \/ /\ Goes("continueWrite", "continueWrite")
        /\ written' = [written EXCEPT ![cur] = Append(@, Head(writeQueue[cur]))]
        /\ writeQueue' = [writeQueue EXCEPT ![cur] = Tail(@)]
     \/ KeyDone("continueWrite") /\ UNCHANGED <<written, writeQueue>>

(* The queue is found empty once more after the loop.  The frame that fails *)
(* is not removed, so that the loop never ends once the channel is closed.  *)
continueWrite ==
  /\ spc = "continueWrite"
  /\ \/ /\ Write
        /\ UNCHANGED open
     \/ /\ writeQueue[cur] # <<>>
        /\ Goes("continueWrite", "continueWrite")
        /\ CloseChannel(cur)
        /\ UNCHANGED <<written, writeQueue>>
     \/ /\ writeQueue[cur] = <<>>
        /\ Goes("continueWrite", "isEmpty")
        /\ UNCHANGED <<written, writeQueue, open>>
  /\ UNCHANGED <<poolVars, workVars, protocolVars,
                 opWrite, selectorTasks>>

(* isTerminate is a plain field: another thread than the one that set it    *)
(* may see it or not.                                                       *)
queueEmpty ==
  /\ spc = "isEmpty"
  /\ \/ /\ writeQueue[cur] # <<>>
        /\ KeyDone("isEmpty")
        /\ UNCHANGED open
     \/ /\ writeQueue[cur] = <<>> /\ isTerminate[cur]
        /\ KeyDone("isEmpty")
        /\ CloseChannel(cur)
     \/ /\ writeQueue[cur] = <<>>
        /\ Goes("isEmpty", "interestOps")
        /\ UNCHANGED open
  /\ UNCHANGED <<poolVars, written, workVars,
                 protocolVars, opWrite, selectorTasks, writeQueue>>

(* updateInterestedOps(chan, OP_READ), by the selector thread itself.       *)
updateInterestedOps ==
  /\ spc = "interestOps"
  /\ IF open[cur]
     THEN /\ KeyDone("interestOps")
          /\ opWrite' = [opWrite EXCEPT ![cur] = FALSE]
     ELSE Dies("interestOps") /\ UNCHANGED opWrite
  /\ UNCHANGED <<poolVars, written, workVars,
                 protocolVars, open, selectorTasks, writeQueue>>

Serve ==
  \/ select \/ runSelectionThreadTask \/ tasksDone
  \/ handleAccept \/ nextKey \/ keysDone
  \/ isReadable \/ isValid \/ isWritable
  \/ continueRead \/ continueWrite \/ queueEmpty \/ updateInterestedOps

-----------------------------------------------------------------------------
(* The workers: at most one per connection (Pool).                          *)
selectorThreadVars == <<selectorVars, written>>

Work(c, from, to) ==
  /\ wpc[c] = from
  /\ wpc' = [wpc EXCEPT ![c] = to]

take(c) ==
  /\ Work(c, "idle", "loop")
  /\ Pool!Start(c)
  /\ at' = [at EXCEPT ![c] = IF started[c] = 0 THEN 0
                             ELSE batches[c][started[c]]]
  /\ UNCHANGED <<head, out, target, after, iter, protocolVars, open, opWrite,
                 selectorTasks, writeQueue, selectorThreadVars>>

(* The task ends, and what is left of its buffer is dropped: nothing, or,   *)
(* after an exception or when it is to terminate, all the rest.             *)
TaskEnds(c, from, decoding) ==
  /\ Work(c, from, "idle")
  /\ Pool!Finish(c)
  /\ at' = [at EXCEPT ![c] = batches[c][started[c]]]
  /\ head' = [head EXCEPT ![c] = decoding]
  /\ out' = [out EXCEPT ![c] = NoOut]
  /\ iter' = [iter EXCEPT ![c] = Over({})]
  /\ after' = [after EXCEPT ![c] = <<>>]
  /\ UNCHANGED target

Throws(c, from) == TaskEnds(c, from, FALSE)

Frame(c) == at[c] \div 2 + 1
HasWholeFrame(c) == 2 * Frame(c) <= batches[c][started[c]]

(* Faulty variant: the decoder begins anew with every buffer.               *)
FaultyEndOfBuffer(c) ==
  /\ wpc[c] = "loop"
  /\ ~HasWholeFrame(c) \/ isTerminate[c]
  /\ TaskEnds(c, "loop", FALSE)
  /\ UNCHANGED <<protocolVars, open, opWrite, selectorTasks, writeQueue,
                 selectorThreadVars>>

endOfBuffer(c) ==
  /\ wpc[c] = "loop"
  /\ ~HasWholeFrame(c) \/ isTerminate[c]
  /\ TaskEnds(c, "loop",
              head[c] \/ (~isTerminate[c] /\ at[c] < batches[c][started[c]]))
  /\ UNCHANGED <<protocolVars, open, opWrite, selectorTasks, writeQueue,
                 selectorThreadVars>>

(* The set of subscribers changes under the iterations of other threads,    *)
(* which notice it, or see it, or do not.                                   *)
Iterating == {d \in Conn : out[d].commend = "MESSAGE"}

SubscribersBecome(set, c, own) ==
  LET added == set \ subscribers
      removed == subscribers \ set
      Unseen(d) == [iter[d] EXCEPT !.stale = TRUE]
      Seen(d) == [Unseen(d) EXCEPT
                    !.todo = (@ \ removed) \cup (added \ iter[d].done)] IN
  /\ subscribers' = set
  /\ \E seeing \in SUBSET (IF set = subscribers THEN {} ELSE Iterating) :
       iter' = [d \in Conn |->
                  IF d = c THEN own
                  ELSE IF d \in seeing THEN Seen(d)
                  ELSE IF d \in Iterating /\ set # subscribers THEN Unseen(d)
                  ELSE iter[d]]
  /\ UNCHANGED idToHendler

(* A frame whose first half was dropped parses as an unknown command, or    *)
(* not at all.                                                              *)
Decoded(c) ==
  IF at[c] % 2 = 0 \/ head[c] THEN Kinds[c][Frame(c)]
  ELSE {"Unknown", "Malformed"}

Served(c, kind) ==
  \/ kind \in Subscribing /\ c \notin subscribers
  \/ kind \in Unsubscribing /\ c \in subscribers
  \/ kind = "SEND" /\ c \in subscribers
  \/ kind \in {"CONNECT", "DISCONNECT"}

(* isValidID throws where the connection has no map, and leaves the read    *)
(* lock held.                                                               *)
LeaksReadLock(c, kind) == kind \in Unsubscribing /\ c \notin subscriptionsDetails

(* With that no thread gets the write lock any more, nor, once a thread     *)
(* waits for it, the read lock.  What is served needs the one; what is      *)
(* refused needs the other or, as a frame without a header, none.           *)
WriterWaits == \E d \in Conn : wpc[d] = "blocked"

IsHeldUp(c, kind) ==
  readLeaked /\ (Served(c, kind) \/ (WriterWaits /\ kind # "Unknown"))

GetsThrough(c, kind) ==
  \/ ~readLeaked
  \/ kind \in {"Wrong", "Unknown", "Malformed"}
  \/ ~Served(c, kind) /\ ~WriterWaits

(* What process does after sending an ERROR.                                *)
ErrorPath(kind) ==
  CASE kind = "SEND" -> <<"terminate", "dbDisconnect", "removeHandler">>
    [] kind = "Unknown" -> <<"terminate">>
    [] OTHER -> <<"dbDisconnect", "removeHandler", "terminate">>

(* The answer to a frame: what it changes before the first send, and what   *)
(* is to be sent to whom.                                                   *)
answer(c, kind) ==
  LET served == Served(c, kind)
      commend == IF ~served THEN "ERROR"
                 ELSE IF kind = "SEND" THEN "MESSAGE"
                 ELSE IF kind \in {"silent SUBSCRIBE", "silent UNSUBSCRIBE"}
                 THEN "null" ELSE "RECEIPT"
      receivers == IF commend = "MESSAGE" THEN subscribers ELSE {c}
      leaves == served /\ kind \in Unsubscribing \cup {"DISCONNECT"} IN
  /\ Work(c, "loop", "send")
  /\ at' = [at EXCEPT ![c] = 2 * Frame(c)]
  /\ head' = [head EXCEPT ![c] = FALSE]
  /\ out' = [out EXCEPT ![c] = [from |-> c, nth |-> Frame(c),
                                commend |-> commend]]
  /\ after' = [after EXCEPT ![c] = IF served THEN <<>> ELSE ErrorPath(kind)]
  /\ SubscribersBecome(CASE served /\ kind \in Subscribing -> subscribers \cup {c}
                         [] leaves -> subscribers \ {c}
                         [] OTHER -> subscribers,
                       c, Over(receivers))
  /\ subscriptionsDetails' =
       CASE served /\ kind \in Subscribing -> subscriptionsDetails \cup {c}
         [] kind = "DISCONNECT" -> subscriptionsDetails \ {c}
         [] OTHER -> subscriptionsDetails
  /\ UNCHANGED <<readLeaked, target, poolVars>>

(* An exception before the database was changed.                            *)
fails(c, kind) ==
  /\ kind = "Malformed" \/ LeaksReadLock(c, kind)
  /\ Throws(c, "loop")
  /\ readLeaked' = (readLeaked \/ LeaksReadLock(c, kind))
  /\ UNCHANGED <<subscribers, subscriptionsDetails, idToHendler>>

(* The worker waits for ever for the lock of the database.                  *)
waits(c, from) ==
  /\ Work(c, from, "blocked")
  /\ UNCHANGED <<at, head, out, iter, target, after, poolVars, dataBaseVars,
                 idToHendler>>

(* decodeNextByte up to the end of the next frame, and process of it up to  *)
(* the first send.                                                          *)
process(c) ==
  /\ wpc[c] = "loop"
  /\ HasWholeFrame(c) /\ ~isTerminate[c]
  /\ \E kind \in Decoded(c) :
       \/ IsHeldUp(c, kind) /\ waits(c, "loop")
       \/ GetsThrough(c, kind) /\ fails(c, kind)
       \/ /\ GetsThrough(c, kind)
          /\ kind # "Malformed" /\ ~LeaksReadLock(c, kind)
          /\ answer(c, kind)
  /\ UNCHANGED <<isTerminate, open, opWrite, selectorTasks, writeQueue,
                 selectorThreadVars>>

(* idToHendler.get(d), or an exception: next() found the set modified, or d *)
(* has no handler any more; or sendFrame was given null, of which nothing   *)
(* is queued.                                                               *)
send(c) ==
  /\ wpc[c] = "send"
  /\ \/ \E d \in iter[c].todo \cap idToHendler :
          /\ out[c].commend # "null"
          /\ Work(c, "send", "add")
          /\ target' = [target EXCEPT ![c] = d]
          /\ UNCHANGED <<at, head, out, iter, after, poolVars>>
     \/ /\ iter[c].todo # {}
        /\ \/ iter[c].stale \/ ~(iter[c].todo \subseteq idToHendler)
           \/ out[c].commend = "null"
        /\ Throws(c, "send")
  /\ UNCHANGED <<protocolVars, open, opWrite, selectorTasks, writeQueue,
                 selectorThreadVars>>

(* NonBlockingConnectionHandler.send of the receiver's handler: queue the   *)
(* frame, have the interest set updated, close if it is to terminate.       *)
addToWriteQueue(c) ==
  /\ Work(c, "add", "wakeup")
  /\ writeQueue' = [writeQueue EXCEPT ![target[c]] = Append(@, out[c])]
  /\ UNCHANGED <<at, head, out, iter, target, after, poolVars, protocolVars,
                 open, opWrite, selectorTasks, selectorThreadVars>>

(* Faulty variant: not if OP_WRITE is in the interest set already.          *)
FaultyWakeup(c) ==
  /\ Work(c, "wakeup", "close")
  /\ selectorTasks' = IF opWrite[target[c]] THEN selectorTasks
                      ELSE Append(selectorTasks, target[c])
  /\ UNCHANGED <<at, head, out, iter, target, after, poolVars, protocolVars,
                 open, opWrite, writeQueue, selectorThreadVars>>

wakeup(c) ==
  /\ Work(c, "wakeup", "close")
  /\ selectorTasks' = Append(selectorTasks, target[c])
  /\ UNCHANGED <<at, head, out, iter, target, after, poolVars, protocolVars,
                 open, opWrite, writeQueue, selectorThreadVars>>

closeIfTerminating(c) ==
  /\ Work(c, "close", "send")
  /\ \/ isTerminate[target[c]] /\ CloseChannel(target[c])
     \/ /\ ~isTerminate[target[c]] \/ target[c] # c
        /\ UNCHANGED open
  /\ iter' = [iter EXCEPT ![c].todo = @ \ {target[c]},
                          ![c].done = @ \cup {target[c]}]
  /\ target' = [target EXCEPT ![c] = Nobody]
  /\ UNCHANGED <<at, head, out, after, poolVars, protocolVars, opWrite,
                 selectorTasks, writeQueue, selectorThreadVars>>

(* The rest of process: the steps of an error path, if there are any left.  *)
afterSending(c) ==
  /\ wpc[c] = "send" /\ iter[c].todo = {}
  /\ after[c] # <<>>
  /\ \/ /\ Head(after[c]) = "terminate"
        /\ isTerminate' = [isTerminate EXCEPT ![c] = TRUE]
        /\ after' = [after EXCEPT ![c] = Tail(@)]
        /\ UNCHANGED <<wpc, iter, idToHendler, dataBaseVars>>
     \/ /\ Head(after[c]) = "dbDisconnect" /\ ~readLeaked
        /\ SubscribersBecome(subscribers \ {c}, c, iter[c])
        /\ subscriptionsDetails' = subscriptionsDetails \ {c}
        /\ after' = [after EXCEPT ![c] = Tail(@)]
        /\ UNCHANGED <<wpc, isTerminate, readLeaked>>
     \/ /\ Head(after[c]) = "dbDisconnect" /\ readLeaked
        /\ waits(c, "send")
        /\ UNCHANGED isTerminate
     \/ /\ Head(after[c]) = "removeHandler"
        /\ idToHendler' = idToHendler \ {c}
        /\ after' = [after EXCEPT ![c] = Tail(@)]
        /\ UNCHANGED <<wpc, iter, isTerminate, dataBaseVars>>
  /\ UNCHANGED <<at, head, out, target, poolVars, open, opWrite,
                 selectorTasks, writeQueue, selectorThreadVars>>

processed(c) ==
  /\ iter[c].todo = {} /\ after[c] = <<>>
  /\ Work(c, "send", "loop")
  /\ out' = [out EXCEPT ![c] = NoOut]
  /\ iter' = [iter EXCEPT ![c] = Over({})]
  /\ UNCHANGED <<at, head, target, after, poolVars, protocolVars, open, opWrite,
                 selectorTasks, writeQueue, selectorThreadVars>>

Task(c) ==
  \/ take(c) \/ process(c) \/ endOfBuffer(c)
  \/ send(c) \/ addToWriteQueue(c) \/ wakeup(c) \/ closeIfTerminating(c)
  \/ afterSending(c) \/ processed(c)

-----------------------------------------------------------------------------
(* Every client was served, or waits behind the lock of the database, or    *)
(* the selector thread is dead; or it spins on a closed channel, which is   *)
(* no deadlock either.                                                      *)
AllServed ==
  /\ \A c \in Conn : \/ wpc[c] = "idle" /\ submitted[c] = started[c]
                     \/ wpc[c] = "blocked"
  /\ \/ spc = "dead"
     \/ /\ spc = "select" /\ selectorTasks = <<>>
        /\ connectionsIdCuonter = MaxConnections
        /\ OpenChannels = {}
  /\ UNCHANGED vars

Next ==
  \/ Serve
  \/ \E c \in Conn : Task(c)
  \/ AllServed

Spec == Init /\ [][Next]_vars

(* The selector thread and the workers are scheduled, and a socket takes a  *)
(* whole frame in the end.  No client has to send, or to close: select need *)
(* not return for what they do.  Once the read lock is left held, workers   *)
(* that wait for ever may be all that the pool has.                         *)
HasWork == spc = "select" => selectorTasks # <<>> \/ ToBeWritten # {}

Fairness ==
  /\ WF_vars(HasWork /\ Serve)
  /\ \A c \in Conn : WF_vars((readLeaked => wpc[c] # "idle") /\ Task(c))
  /\ \A c \in Conn : SF_vars(cur = c /\ continueWrite /\ written' # written)

FairSpec == Spec /\ Fairness
=============================================================================
