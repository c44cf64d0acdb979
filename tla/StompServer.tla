----------------------------- MODULE StompServer -----------------------------
(***************************************************************************)
(* The thread-per-client STOMP server: BaseServer accepts connections and  *)
(* gives each a BlockingConnectionHandler and a thread of its own; the     *)
(* thread reads frames and runs them through StompMessagingProtocolImpl,   *)
(* which works on the shared StompDataBase and on the shared               *)
(* ConnectionsImpl.                                                        *)
(*                                                                         *)
(* A step of a thread is one access to shared state: a database method, a  *)
(* look-up or removal in ConnectionsImpl, a write to a socket, an          *)
(* assignment to isTerminate.  pc[c] names the step that the thread of     *)
(* connection c takes next; a handler method starts at the label that is   *)
(* its command.  Printing, and the text of frames, are left out.           *)
(***************************************************************************)
EXTENDS StompDataBase, FiniteSets

CONSTANTS
  MaxFrames,    \* bound: how many frames each connection ever sends
  Frames,       \* Frames[c]: the frames that the client of c may send
  NotANumber,   \* an 'id' header that Integer.valueOf rejects
  StripSlash,   \* StripSlash[d]: destination d without a leading '/'
  SmallSet,     \* an addition to a HashSet of fewer elements than this (8)
                \* leaves the others where they are in its table
  Deaf          \* clients that need not read what is sent to them

Commend == {"CONNECT", "SEND", "SUBSCRIBE", "UNSUBSCRIBE", "DISCONNECT"}

(* The headers a frame has; Null is an absent one.  'receipt' and the body  *)
(* matter only by being there; "accept-version" and "host" behave like a    *)
(* missing 'login' when they are absent or unsupported.                     *)
Frame == [commend : Commend \cup {"OTHER"},
          login : User \cup {Null}, passcode : Password \cup {Null},
          destination : Channel \cup {Null},
          id : SubId \cup {NotANumber, Null},
          receipt : BOOLEAN, body : BOOLEAN]

ASSUME ServerAssumption ==
  /\ MaxFrames \in [Conn -> Nat]
  /\ Frames \in [Conn -> SUBSET Frame]
  /\ NotANumber \notin SubId
  /\ NotANumber # Null
  /\ StripSlash \in [Channel -> Channel]
  /\ SmallSet \in Nat
  /\ Deaf \subseteq Conn

VARIABLES
  connectionsIdCuonter,  \* BaseServer: id of the next connection
  idToHendler,           \* ConnectionsImpl: connections that have a handler
  isTerminate,           \* StompMessagingProtocolImpl, one per connection
  sockOpen,              \* BlockingConnectionHandler: the socket is open
  outbox,                \* frames written to each socket, oldest first
  framesRead,            \* how many frames each thread has read
  pc, frame, respond,    \* per thread: next step, frame in hand, its answer
  iter                   \* per thread: the loop of ConnectionsImpl.send

threadVars == <<pc, frame, respond, iter, framesRead>>
netVars == <<idToHendler, isTerminate, sockOpen, outbox>>
vars == <<dbVars, lockVars, netVars, threadVars, connectionsIdCuonter>>

Labels == Commend \cup
  {"unborn", "loop", "getPassword", "addUser", "checkPassword",
   "setConnected", "addMessage", "getSubscribers", "deliver", "write",
   "addSubscription", "removeSubscription", "respond", "dbDisconnect",
   "removeHandler", "terminate", "closed", "crashed"}

Respond == {"CONNECTED", "RECEIPT", "ERROR"}
OutFrame == [commend : Respond \cup {"MESSAGE"}, id : Nat]

NoFrame == [commend |-> "OTHER", login |-> Null, passcode |-> Null,
            destination |-> Null, id |-> Null, receipt |-> FALSE,
            body |-> FALSE]

(* The for loop over the HashSet of a channel's subscribers: the elements   *)
(* it had when the iterator was made, those that next() has returned, the   *)
(* one in hand, whether the set was modified since, and which elements that *)
(* has put in another place of the table.                                   *)
Iterator == [channel : Channel \cup {Null}, id : Nat, start : SUBSET Conn,
             done : SUBSET Conn, target : Conn \cup {Null}, stale : BOOLEAN,
             moved : SUBSET Conn]

NoIter == [channel |-> Null, id |-> 0, start |-> {}, done |-> {},
           target |-> Null, stale |-> FALSE, moved |-> {}]

NetTypeOK ==
  /\ connectionsIdCuonter \in 0 .. MaxConnections
  /\ idToHendler \subseteq Conn
  /\ isTerminate \in [Conn -> BOOLEAN]
  /\ sockOpen \in [Conn -> BOOLEAN]
  /\ outbox \in [Conn -> Seq(OutFrame)]

ThreadTypeOK ==
  /\ pc \in [Conn -> Labels]
  /\ frame \in [Conn -> Frame]
  /\ respond \in [Conn -> Respond \cup {Null}]
  /\ iter \in [Conn -> Iterator]
  /\ framesRead \in [Conn -> Nat]

TypeOK == DbTypeOK /\ NetTypeOK /\ ThreadTypeOK

Init ==
  /\ DbInit
  /\ connectionsIdCuonter = 0
  /\ idToHendler = {}
  /\ isTerminate = [c \in Conn |-> FALSE]
  /\ sockOpen = [c \in Conn |-> FALSE]
  /\ outbox = [c \in Conn |-> <<>>]
  /\ framesRead = [c \in Conn |-> 0]
  /\ pc = [c \in Conn |-> "unborn"]
  /\ frame = [c \in Conn |-> NoFrame]
  /\ respond = [c \in Conn |-> Null]
  /\ iter = [c \in Conn |-> NoIter]

-----------------------------------------------------------------------------
(* Moves of one thread; those of GoTo and Reply leave iter to the caller.   *)
GoTo(c, label) ==
  /\ pc' = [pc EXCEPT ![c] = label]
  /\ UNCHANGED <<frame, respond, framesRead>>

Reply(c, r) ==
  /\ pc' = [pc EXCEPT ![c] = "respond"]
  /\ respond' = [respond EXCEPT ![c] = r]
  /\ UNCHANGED <<frame, framesRead>>

(* The frame is done with: back to the while loop of run().                 *)
BackToLoop(c) ==
  /\ pc' = [pc EXCEPT ![c] = "loop"]
  /\ frame' = [frame EXCEPT ![c] = NoFrame]
  /\ respond' = [respond EXCEPT ![c] = Null]
  /\ iter' = [iter EXCEPT ![c] = NoIter]
  /\ UNCHANGED framesRead

(* An unchecked exception leaves run(): only IOException is caught there,   *)
(* and the try-with-resources closes the socket.  Nothing else is undone.   *)
Crash(c) ==
  /\ pc' = [pc EXCEPT ![c] = "crashed"]
  /\ iter' = [iter EXCEPT ![c] = NoIter]
  /\ sockOpen' = [sockOpen EXCEPT ![c] = FALSE]
  /\ UNCHANGED <<frame, respond, framesRead, idToHendler, isTerminate, outbox>>

(* BlockingConnectionHandler.send, called by thread c for connection d: the *)
(* frame goes to the socket if that is open (an IOException is swallowed    *)
(* otherwise), and the handler of a protocol that is to terminate closes.   *)
(* isTerminate is a plain field: a thread other than its own may or may not *)
(* see that it was set.                                                     *)
handlerSend(c, d, m) ==
  /\ outbox' = IF sockOpen[d]
               THEN [outbox EXCEPT ![d] = Append(@, m)] ELSE outbox
  /\ \E closes \in {isTerminate[d], isTerminate[d] /\ c = d} :
       sockOpen' = [sockOpen EXCEPT ![d] = @ /\ ~closes]
  /\ UNCHANGED <<idToHendler, isTerminate>>

(* A change to the set of a channel that another thread is iterating over.  *)
(* An element that is added may have a place before the iterator or behind, *)
(* also if it had another one before; and when the table grows with it, so  *)
(* may every element.  Where it grows depends on the hashes: at 13 elements *)
(* of the first table, or at a ninth in one bucket.                         *)
Moved(ch) ==
  IF channels'[ch] \subseteq channels[ch] THEN {}
  ELSE IF Cardinality(channels[ch]) >= SmallSet THEN Conn
  ELSE channels'[ch] \ channels[ch]

Overtaken(i) ==
  IF i.channel = Null \/ channels'[i.channel] = channels[i.channel] THEN i
  ELSE [i EXCEPT !.stale = TRUE,
                 !.moved = @ \cup Moved(i.channel),
                 !.done = @ \ Moved(i.channel)]

MarkStale == iter' = [d \in Conn |-> Overtaken(iter[d])]

-----------------------------------------------------------------------------
(* BaseServer.serve: the new connection is entered in ConnectionsImpl and   *)
(* its protocol started before its thread is.                               *)
Accept ==
  LET c == connectionsIdCuonter IN
  /\ c < MaxConnections
  /\ connectionsIdCuonter' = c + 1
  /\ idToHendler' = idToHendler \cup {c}
  /\ sockOpen' = [sockOpen EXCEPT ![c] = TRUE]
  /\ GoTo(c, "loop")
  /\ UNCHANGED <<dbVars, lockVars, isTerminate, outbox, iter>>

(* BlockingConnectionHandler.run.  The client sends a frame ...             *)
ReadFrame(c) ==
  /\ pc[c] = "loop" /\ ~isTerminate[c] /\ sockOpen[c]
  /\ framesRead[c] < MaxFrames[c]
  /\ framesRead' = [framesRead EXCEPT ![c] = @ + 1]
  /\ \E f \in Frames[c] :
       /\ frame' = [frame EXCEPT ![c] = f]
       /\ IF f.commend \in Commend
          THEN /\ pc' = [pc EXCEPT ![c] = f.commend]
               /\ UNCHANGED respond
          ELSE /\ pc' = [pc EXCEPT ![c] = "respond"]
               /\ respond' = [respond EXCEPT ![c] = "ERROR"]
  /\ UNCHANGED <<dbVars, lockVars, netVars, iter, connectionsIdCuonter>>

Close(c) ==
  /\ sockOpen' = [sockOpen EXCEPT ![c] = FALSE]
  /\ GoTo(c, "closed")
  /\ UNCHANGED <<dbVars, lockVars, idToHendler, isTerminate, outbox, iter,
                 connectionsIdCuonter>>

(* ... or is gone, with or without a DISCONNECT (read() < 0).               *)
Eof(c) ==
  /\ pc[c] = "loop" /\ ~isTerminate[c] /\ sockOpen[c]
  /\ Close(c)

(* Or what it sent is no frame: a header line without a ':', or no line at  *)
(* all, is an ArrayIndexOutOfBoundsException of decodeNextByte.             *)
decodeFails(c) ==
  /\ pc[c] = "loop" /\ ~isTerminate[c] /\ sockOpen[c]
  /\ Crash(c)
  /\ UNCHANGED <<dbVars, lockVars, connectionsIdCuonter>>

ExitLoop(c) ==
  /\ pc[c] = "loop"
  /\ isTerminate[c] \/ ~sockOpen[c]
  /\ Close(c)

-----------------------------------------------------------------------------
(* connectHendel, one step per database method it calls.                    *)
connectHendel(c) ==
  LET f == frame[c] IN
  /\ pc[c] = "CONNECT"
  /\ IF \/ f.login = Null \/ f.passcode = Null
        \/ f.login \in connectedUsers          \* isConnectedUser: no lock
     THEN Reply(c, "ERROR")
     ELSE GoTo(c, "getPassword")
  /\ UNCHANGED <<dbVars, lockVars, netVars, iter, connectionsIdCuonter>>

getPasswordForUser(c) ==
  /\ pc[c] = "getPassword"
  /\ CanRead
  /\ GoTo(c, IF usersPasswords[frame[c].login] = Null
             THEN "addUser" ELSE "checkPassword")
  /\ UNCHANGED <<dbVars, lockVars, netVars, iter, connectionsIdCuonter>>

addUser(c) ==
  /\ pc[c] = "addUser"
  /\ addOrUpdateUser(frame[c].login, frame[c].passcode, c)
  /\ Reply(c, "CONNECTED")
  /\ UNCHANGED <<netVars, iter, connectionsIdCuonter>>

checkPassword(c) ==
  /\ pc[c] = "checkPassword"
  /\ CanRead
  /\ IF usersPasswords[frame[c].login] = frame[c].passcode
     THEN GoTo(c, "setConnected")
     ELSE Reply(c, "ERROR")
  /\ UNCHANGED <<dbVars, lockVars, netVars, iter, connectionsIdCuonter>>

setConnected(c) ==
  /\ pc[c] = "setConnected"
  /\ setNewConnected(frame[c].login, c)
  /\ Reply(c, "CONNECTED")
  /\ UNCHANGED <<netVars, iter, connectionsIdCuonter>>

-----------------------------------------------------------------------------
(* sendHendel, and the broadcast of ConnectionsImpl.send(channel, msg).     *)
SendChannel(c) == StripSlash[frame[c].destination]

(* Faulty variant: the look-up returns the id that it finds without giving  *)
(* the read lock back.                                                      *)
FaultySendHendel(c) ==
  /\ pc[c] = "SEND"
  /\ IF frame[c].destination = Null \/ ~frame[c].body
     THEN Reply(c, "ERROR") /\ UNCHANGED <<dbVars, lockVars>>
     ELSE /\ CanRead
          /\ IF SendChannel(c) \in SubscribedChannels(c)
             THEN GoTo(c, "addMessage") /\ leakReadLock(c)
             ELSE Reply(c, "ERROR") /\ UNCHANGED <<dbVars, lockVars>>
  /\ UNCHANGED <<netVars, iter, connectionsIdCuonter>>

sendHendel(c) ==
  LET f == frame[c] IN
  /\ pc[c] = "SEND"
  /\ IF f.destination = Null \/ ~f.body
     THEN Reply(c, "ERROR")
     ELSE /\ CanRead
          /\ \E subID \in getSubscriptionIDForChannel(SendChannel(c), c) :
               IF isSubscribersForChannel(subID)
               THEN GoTo(c, "addMessage")
               ELSE Reply(c, "ERROR")
  /\ UNCHANGED <<dbVars, lockVars, netVars, iter, connectionsIdCuonter>>

(* The number of the subscription is looked up after it, under the lock     *)
(* once more; it is this thread's own entry, and only text of the MESSAGE.  *)
storeMessage(c) ==
  /\ pc[c] = "addMessage"
  /\ addMessage([from |-> c, nth |-> framesRead[c]])
  /\ iter' = [iter EXCEPT ![c].channel = SendChannel(c),
                          ![c].id = Len(messages')]
  /\ GoTo(c, "getSubscribers")
  /\ UNCHANGED <<netVars, connectionsIdCuonter>>

(* Faulty variant: takes for the message's number where the counter is now. *)
FaultyGetSubscribers(c) ==
  /\ pc[c] = "getSubscribers"
  /\ iter' = [iter EXCEPT ![c].start = channels[iter[c].channel],
                          ![c].id = Len(messages),
                          ![c].stale = FALSE, ![c].moved = {}]
  /\ GoTo(c, "deliver")
  /\ UNCHANGED <<dbVars, lockVars, netVars, connectionsIdCuonter>>

(* getSubscribers hands out the set itself, and no lock is held from here.  *)
getSubscribers(c) ==
  /\ pc[c] = "getSubscribers"
  /\ iter' = [iter EXCEPT ![c].start = channels[iter[c].channel],
                          ![c].stale = FALSE, ![c].moved = {}]
  /\ GoTo(c, "deliver")
  /\ UNCHANGED <<dbVars, lockVars, netVars, connectionsIdCuonter>>

(* Faulty variant: the iteration starts over with every subscriber.         *)
FaultyCandidates(c) == iter[c].start

(* What next() may return.  Until the set is modified that is what is left  *)
(* of it; after that, as no lock or volatile orders the two threads, the    *)
(* iterator may or may not see an element that was removed or added, and    *)
(* may see one once more that has moved.                                    *)
Candidates(c) ==
  (iter[c].start \cup (IF iter[c].stale THEN channels[iter[c].channel] ELSE {}))
    \ iter[c].done

(* next(), then idToHendler.get(d).send: a NullPointerException if there is *)
(* no such handler any more.                                                *)
nextSubscriber(c) ==
  /\ pc[c] = "deliver"
  /\ \E d \in Candidates(c) :
       IF d \in idToHendler
       THEN /\ iter' = [iter EXCEPT ![c].target = d, ![c].done = @ \cup {d}]
            /\ GoTo(c, "write")
            /\ UNCHANGED netVars
       ELSE Crash(c)
  /\ UNCHANGED <<dbVars, lockVars, connectionsIdCuonter>>

(* next() notices the modification: ConcurrentModificationException.        *)
concurrentModification(c) ==
  /\ pc[c] = "deliver"
  /\ iter[c].stale
  /\ Candidates(c) # {}
  /\ Crash(c)
  /\ UNCHANGED <<dbVars, lockVars, connectionsIdCuonter>>

deliver(c) ==
  LET i == iter[c] IN
  /\ pc[c] = "write"
  /\ handlerSend(c, i.target, [commend |-> "MESSAGE", id |-> i.id])
  /\ iter' = [iter EXCEPT ![c].target = Null]
  /\ GoTo(c, "deliver")
  /\ UNCHANGED <<dbVars, lockVars, connectionsIdCuonter>>

(* The subscribers that the iteration cannot miss: they were in the set     *)
(* when it began, are in it, and have kept their place.                     *)
Staying(c) == (iter[c].start \cap channels[iter[c].channel]) \ iter[c].moved

(* hasNext() is false: next() has returned all of these.                    *)
EndOfBroadcast(c) == Staying(c) \subseteq iter[c].done

endBroadcast(c) ==
  /\ pc[c] = "deliver"
  /\ EndOfBroadcast(c)
  /\ BackToLoop(c)
  /\ UNCHANGED <<dbVars, lockVars, netVars, connectionsIdCuonter>>

-----------------------------------------------------------------------------
(* subscribeHendel, unsubscribeHendel and disconnectHendel.                 *)
subscribeHendel(c) ==
  LET f == frame[c] IN
  /\ pc[c] = "SUBSCRIBE"
  /\ \/ /\ f.destination = Null \/ f.id = Null
        /\ Reply(c, "ERROR")
        /\ UNCHANGED <<netVars, iter>>
     \/ /\ f.destination # Null /\ f.id # Null
        /\ CanRead
        /\ \E subID \in getSubscriptionIDForChannel(f.destination, c) :
             IF isSubscribersForChannel(subID)
             THEN Reply(c, "ERROR") /\ UNCHANGED <<netVars, iter>>
             ELSE IF f.id = NotANumber
             THEN Crash(c)                         \* NumberFormatException
             ELSE GoTo(c, "addSubscription") /\ UNCHANGED <<netVars, iter>>
  /\ UNCHANGED <<dbVars, lockVars, connectionsIdCuonter>>

(* The answer of a handler that was asked for a receipt, or was not.        *)
ReceiptFor(f) == IF f.receipt THEN "RECEIPT" ELSE Null

addSubscription(c) ==
  LET f == frame[c] IN
  /\ pc[c] = "addSubscription"
  /\ addChannelSubscription(f.destination, c, f.id)
  /\ MarkStale
  /\ Reply(c, ReceiptFor(f))
  /\ UNCHANGED <<netVars, connectionsIdCuonter>>

unsubscribeHendel(c) ==
  LET f == frame[c] IN
  /\ pc[c] = "UNSUBSCRIBE"
  /\ \/ /\ f.id = Null
        /\ Reply(c, "ERROR")
        /\ UNCHANGED <<dbVars, lockVars, netVars, iter>>
     \/ /\ f.id = NotANumber                      \* NumberFormatException
        /\ Crash(c)
        /\ UNCHANGED <<dbVars, lockVars>>
     \/ /\ f.id \in SubId
        /\ CanRead
        /\ IF subscriptionsDetails[c] = Null
           THEN leakReadLock(c) /\ Crash(c)
           ELSE /\ IF isValidID(f.id, c)
                   THEN GoTo(c, "removeSubscription")
                   ELSE Reply(c, "ERROR")
                /\ UNCHANGED <<dbVars, lockVars, netVars, iter>>
  /\ UNCHANGED connectionsIdCuonter

(* getChannel reads this thread's own entry.                                *)
removeSubscription(c) ==
  LET f == frame[c] IN
  /\ pc[c] = "removeSubscription"
  /\ removeChannelSubscription(Details(c)[f.id], c, f.id)
  /\ MarkStale
  /\ Reply(c, ReceiptFor(f))
  /\ UNCHANGED <<netVars, connectionsIdCuonter>>

disconnectHendel(c) ==
  /\ pc[c] = "DISCONNECT"
  /\ IF frame[c].receipt
     THEN dbDisconnect(c) /\ MarkStale /\ Reply(c, "RECEIPT")
     ELSE UNCHANGED <<dbVars, lockVars, iter>> /\ Reply(c, "ERROR")
  /\ UNCHANGED <<netVars, connectionsIdCuonter>>

-----------------------------------------------------------------------------
(* Faulty variants of what follows an ERROR: the handler goes before the    *)
(* subscriptions; a wrong SEND terminates without being forgotten, or does  *)
(* not end anything; an unknown command does not terminate.                 *)
FaultyHandlerFirst(f) ==
  [respond |-> "removeHandler", removeHandler |-> "dbDisconnect",
   dbDisconnect |-> "terminate", terminate |-> "loop"]

FaultySendError(f) ==
  IF f.commend \in {"SEND", "OTHER"}
  THEN [respond |-> "terminate", terminate |-> "loop"]
  ELSE [respond |-> "dbDisconnect", dbDisconnect |-> "removeHandler",
        removeHandler |-> "terminate", terminate |-> "loop"]

FaultyServesOn(f) ==
  IF f.commend = "SEND" THEN [respond |-> "loop"]
  ELSE [respond |-> "dbDisconnect", dbDisconnect |-> "removeHandler",
        removeHandler |-> "terminate", terminate |-> "loop"]

FaultyUnknownCommand(f) ==
  CASE f.commend = "SEND" ->
         [respond |-> "terminate", terminate |-> "dbDisconnect",
          dbDisconnect |-> "removeHandler", removeHandler |-> "loop"]
    [] f.commend = "OTHER" ->
         [respond |-> "loop", terminate |-> "loop"]
    [] OTHER ->
         [respond |-> "dbDisconnect", dbDisconnect |-> "removeHandler",
          removeHandler |-> "terminate", terminate |-> "loop"]

(* What process and sendFrame do with the answer.  After an ERROR the order *)
(* of the steps depends on the command of the frame: SEND, an unknown one,  *)
(* or one of those that go through sendFrame.                               *)
ErrorPath(f) ==
  CASE f.commend = "SEND" ->
         [respond |-> "terminate", terminate |-> "dbDisconnect",
          dbDisconnect |-> "removeHandler", removeHandler |-> "loop"]
    [] f.commend = "OTHER" ->
         [respond |-> "terminate", terminate |-> "loop"]
    [] OTHER ->
         [respond |-> "dbDisconnect", dbDisconnect |-> "removeHandler",
          removeHandler |-> "terminate", terminate |-> "loop"]

(* A receipt that nobody asked for is null: handler.send(null) does nothing *)
(* and null.getCommend() throws.                                            *)
sendRespond(c) ==
  /\ pc[c] = "respond"
  /\ IF c \in idToHendler /\ respond[c] # Null
     THEN /\ handlerSend(c, c, [commend |-> respond[c], id |-> 0])
          /\ IF respond[c] = "ERROR"
             THEN GoTo(c, ErrorPath(frame[c]).respond) /\ UNCHANGED iter
             ELSE BackToLoop(c)
     ELSE Crash(c)
  /\ UNCHANGED <<dbVars, lockVars, connectionsIdCuonter>>

disconnectUser(c) ==
  /\ pc[c] = "dbDisconnect"
  /\ dbDisconnect(c)
  /\ MarkStale
  /\ GoTo(c, ErrorPath(frame[c]).dbDisconnect)
  /\ UNCHANGED <<netVars, connectionsIdCuonter>>

removeHandler(c) ==
  /\ pc[c] = "removeHandler"
  /\ idToHendler' = idToHendler \ {c}
  /\ GoTo(c, ErrorPath(frame[c]).removeHandler)
  /\ UNCHANGED <<dbVars, lockVars, isTerminate, sockOpen, outbox, iter,
                 connectionsIdCuonter>>

(* Faulty variant: isTerminate is not set.                                  *)
FaultyTerminate(c) ==
  /\ pc[c] = "terminate"
  /\ GoTo(c, ErrorPath(frame[c]).terminate)
  /\ UNCHANGED <<dbVars, lockVars, netVars, iter, connectionsIdCuonter>>

terminate(c) ==
  /\ pc[c] = "terminate"
  /\ isTerminate' = [isTerminate EXCEPT ![c] = TRUE]
  /\ GoTo(c, ErrorPath(frame[c]).terminate)
  /\ UNCHANGED <<dbVars, lockVars, idToHendler, sockOpen, outbox, iter,
                 connectionsIdCuonter>>

(* A thread that finds the lock taken queues for it, and readers then wait  *)
(* behind it.                                                               *)
NeedsWriteLock(c) ==
  \/ pc[c] \in {"addUser", "setConnected", "addMessage", "addSubscription",
                "removeSubscription", "dbDisconnect"}
  \/ pc[c] = "DISCONNECT" /\ frame[c].receipt

waitForWriteLock(c) ==
  /\ NeedsWriteLock(c)
  /\ queueForWriteLock(c)
  /\ UNCHANGED <<netVars, threadVars, connectionsIdCuonter>>

-----------------------------------------------------------------------------
(* A step the thread of c takes by itself; what its client decides on is    *)
(* ReadFrame, Eof and decodeFails.                                          *)
Step(c) ==
  \/ connectHendel(c) \/ getPasswordForUser(c) \/ addUser(c)
  \/ checkPassword(c) \/ setConnected(c)
  \/ sendHendel(c) \/ storeMessage(c) \/ getSubscribers(c)
  \/ nextSubscriber(c) \/ concurrentModification(c)
  \/ deliver(c) \/ endBroadcast(c)
  \/ subscribeHendel(c) \/ addSubscription(c)
  \/ unsubscribeHendel(c) \/ removeSubscription(c)
  \/ disconnectHendel(c)
  \/ sendRespond(c) \/ disconnectUser(c) \/ removeHandler(c) \/ terminate(c)
  \/ waitForWriteLock(c) \/ ExitLoop(c)

(* Within the bound MaxConnections: every connection came and went.         *)
AllGone ==
  /\ \A c \in Conn : pc[c] \in {"closed", "crashed"}
  /\ UNCHANGED vars

Next ==
  \/ Accept
  \/ \E c \in Conn : Step(c) \/ ReadFrame(c) \/ Eof(c) \/ decodeFails(c)
  \/ AllGone

Spec == Init /\ [][Next]_vars

(* The thread of c is in the write to a client that has stopped reading.    *)
HeldUp(c) ==
  \E d \in Deaf :
    /\ sockOpen[d]
    /\ \/ pc[c] = "write" /\ iter[c].target = d
       \/ pc[c] = "respond" /\ c = d

(* The threads are scheduled; no client has to send, or to leave, and a     *)
(* write to one that has stopped reading need not return.                   *)
Fairness == \A c \in Conn : WF_vars(Step(c) /\ ~HeldUp(c))
FairSpec == Spec /\ Fairness
=============================================================================
