------------------------ MODULE StompServerProperties ------------------------
(***************************************************************************)
(* What makes the thread-per-client server correct, what comments of its   *)
(* code claim, and the inductive invariant behind the proofs.              *)
(***************************************************************************)
EXTENDS StompServer

-----------------------------------------------------------------------------
(* Safety.                                                                  *)

(* -1 is the answer "not found" of getSubscriptionIDForChannel, and an id   *)
(* that subscribeHendel accepts.  A subscription under it hides all others  *)
(* of its channel from the check, so the next two are for the connections   *)
(* of clients that do not choose it (whatever the others do).               *)
NeverMinusOne(c) == \A f \in Frames[c] : f.id # -1

(* Two look-ups of a channel find the same id: subscribeHendel checks and   *)
(* addChannelSubscription writes under two separate holds of the lock, and  *)
(* still the connection never has two ids for a channel.                    *)
OneIdPerChannel ==
  \A c \in Conn : NeverMinusOne(c) =>
    \A i, j \in SubId :
      Details(c)[i] # Null /\ Details(c)[i] = Details(c)[j] => i = j

(* The two indexes of the database agree one way, whatever other ids the    *)
(* client chooses, and chooses again for another channel: who has a         *)
(* subscription is in the set that is broadcast to.                         *)
SubscriptionsAreBroadcastTo ==
  \A c \in Conn : NeverMinusOne(c) =>
    \A i \in SubId : Details(c)[i] # Null => c \in channels[Details(c)[i]]

(* And the other way, as long as an id always means the same channel: who   *)
(* is broadcast to has a subscription (line 15 of StompDataBase.java).      *)
ChannelsHoldOnlySubscribers ==
  \A ch \in Channel : \A c \in channels[ch] : ch \in SubscribedChannels(c)

(* A subscription never outlives the handler in ConnectionsImpl: both error *)
(* paths call the database's disconnect before connections.disconnect, and  *)
(* no frame of the connection is processed in between or afterwards.        *)
SubscribedHasHandler ==
  \A c \in Conn : SubscribedChannels(c) # {} => c \in idToHendler

HasError(c) == \E k \in DOMAIN outbox[c] : outbox[c][k].commend = "ERROR"

(* An ERROR is the last thing the server says on its own to a client: only  *)
(* broadcasts of other clients can still follow it, on each of the three    *)
(* error paths of process and sendFrame.                                    *)
OnlyMessagesAfterError ==
  \A c \in Conn : \A j, k \in DOMAIN outbox[c] :
    j < k /\ outbox[c][j].commend = "ERROR" => outbox[c][k].commend = "MESSAGE"

HasNoEntry(c) ==
  /\ idToUser[c] = Null
  /\ \A ch \in Channel : c \notin channels[ch]
  /\ subscriptionsDetails[c] = Null

(* And no user that it may have logged in as is listed on its account.      *)
Forgotten(c) ==
  /\ HasNoEntry(c)
  /\ \A f \in Frames[c] :
       f.commend = "CONNECT" /\ f.login \in connectedUsers =>
         \E d \in Conn \ {c} : idToUser[d] = f.login

(* Who leaves by a frame leaves nothing behind in the database: from the    *)
(* moment that a DISCONNECT is carried out (its handler stays), and after   *)
(* the ERROR to a frame with a known command, when ConnectionsImpl has      *)
(* forgotten it, too.  For clients that let an id mean one channel and log  *)
(* in as one user: dbDisconnect looks for channels by the ids, and for the  *)
(* user by the connection.                                                  *)
LeaversAreForgotten ==
  \A c \in Conn :
    /\ pc[c] = "respond" /\ respond[c] = "RECEIPT"
         /\ frame[c].commend = "DISCONNECT" => Forgotten(c)
    /\ pc[c] \in {"loop", "closed"} /\ isTerminate[c]
         /\ frame[c].commend \in Commend => Forgotten(c) /\ c \notin idToHendler

(* Per receiver, the messages of one sender arrive in the order in which it *)
(* sent them, although ids are drawn under the lock and the writing is done *)
(* without it (storeMessage ... deliver).  One may come twice in a row, if   *)
(* next() returns the receiver again (BroadcastReachesEveryone).            *)
SenderOrder ==
  \A c \in Conn : \A j, k \in DOMAIN outbox[c] :
    LET m == outbox[c][j]
        n == outbox[c][k] IN
    /\ j < k /\ m.commend = "MESSAGE" /\ n.commend = "MESSAGE"
    /\ messages[m.id].from = messages[n.id].from
    => messages[m.id].nth <= messages[n.id].nth

(* A user counts as logged in only while a connection is mapped to it, as   *)
(* long as no connection logs in as two users: dbDisconnect removes both    *)
(* entries, and no login leaves the one without the other.                  *)
ListedUsersHaveAConnection ==
  \A u \in connectedUsers : \E c \in Conn : idToUser[c] = u

-----------------------------------------------------------------------------
(* The inductive invariant behind the first, second and fourth of these:    *)
(* what each thread relies on at its program point.                         *)

LoginChecked(c) ==
  pc[c] \in {"getPassword", "addUser", "checkPassword", "setConnected"}
  => frame[c].login \in User /\ frame[c].passcode \in Password

(* The check of subscribeHendel (unsubscribeHendel) still holds when its    *)
(* result is used, although the lock was released in between: only the own  *)
(* thread of a connection changes its subscriptions.                        *)
SubscriptionChecked(c) ==
  /\ pc[c] = "addSubscription" =>
       /\ frame[c].destination \in Channel
       /\ NeverMinusOne(c) => frame[c].destination \notin SubscribedChannels(c)
       /\ frame[c].id \in SubId
  /\ pc[c] = "removeSubscription" =>
       /\ frame[c].id \in SubId
       /\ Details(c)[frame[c].id] # Null

(* Only an id that the client chose is in the map.                          *)
MinusOneIsNoId(c) ==
  /\ frame[c] \in Frames[c] \cup {NoFrame}
  /\ NeverMinusOne(c) => \A i \in SubId : Details(c)[i] # Null => i # -1

BroadcastState(c) ==
  /\ pc[c] = "addMessage" => frame[c].destination \in Channel
  /\ pc[c] \in {"getSubscribers", "deliver", "write"}
       => iter[c].channel \in Channel
  /\ pc[c] = "write" => iter[c].target \in Conn

(* Where the three error paths are: the handler goes last but for setting   *)
(* isTerminate, and a SEND has set that already.                            *)
ErrorPathState(c) ==
  /\ pc[c] \in {"dbDisconnect", "removeHandler"} => frame[c].commend # "OTHER"
  /\ pc[c] \in {"dbDisconnect", "removeHandler"} /\ frame[c].commend = "SEND"
       => isTerminate[c]
  /\ pc[c] = "removeHandler" => subscriptionsDetails[c] = Null

(* A thread that still serves has its handler in ConnectionsImpl, so that   *)
(* idToHendler.get(connectionId) in its own send never answers null.        *)
ServingHasHandler(c) ==
  \/ pc[c] \in {"unborn", "closed", "crashed"}
  \/ pc[c] = "terminate" /\ frame[c].commend # "SEND"
  \/ pc[c] = "loop" /\ isTerminate[c]
  \/ c \in idToHendler

ThreadInv(c) ==
  /\ LoginChecked(c)
  /\ SubscriptionChecked(c)
  /\ BroadcastState(c)
  /\ ErrorPathState(c)
  /\ ServingHasHandler(c)

IInv ==
  /\ TypeOK
  /\ \A c \in Conn : ThreadInv(c) /\ MinusOneIsNoId(c)
  /\ OneIdPerChannel
  /\ SubscriptionsAreBroadcastTo
  /\ SubscribedHasHandler

(* Where the thread of a connection can be once that was sent an ERROR: on  *)
(* its way out, and it reads no frame any more.                             *)
AfterError ==
  \A c \in Conn : HasError(c) =>
    \/ pc[c] \in {"terminate", "dbDisconnect", "removeHandler", "closed"}
    \/ pc[c] = "loop" /\ isTerminate[c]

(* BaseServer numbers the connections in the order it accepts them.         *)
NotYetAccepted ==
  \A c \in Conn : c >= connectionsIdCuonter => pc[c] = "unborn"

-----------------------------------------------------------------------------
(* The inductive invariant behind SenderOrder and BroadcastReachesEveryone: *)
(* where every broadcast is, and whom it reached.                           *)

Sending == {"SEND", "addMessage", "getSubscribers", "deliver", "write"}
Broadcasting == {"getSubscribers", "deliver", "write"}

(* The loop of c sends the message that its frame was stored as, to one     *)
(* subscriber after the other.                                              *)
SendsItsMessage(c) ==
  /\ pc[c] \in Broadcasting =>
       /\ iter[c].id \in 1 .. Len(messages)
       /\ messages[iter[c].id] = [from |-> c, nth |-> framesRead[c]]
  /\ pc[c] \notin {"deliver", "write"} => iter[c].done = {}
  /\ pc[c] = "write" => iter[c].target \in iter[c].done \cup iter[c].moved

(* The message that c is sending; whom it has been written to for sure, and *)
(* whom it may have been.                                                   *)
Copy(c) == [commend |-> "MESSAGE", id |-> iter[c].id]

Reached(c) ==
  IF pc[c] = "write" THEN iter[c].done \ {iter[c].target} ELSE iter[c].done

Tried(c) ==
  IF pc[c] \in {"deliver", "write"} THEN Reached(c) \cup iter[c].moved ELSE {}

(* Who was reached has the message or is gone; it had been accepted, so it  *)
(* is not going to come yet.  And who keeps its place does not have it      *)
(* twice.                                                                   *)
Visited(c) ==
  /\ pc[c] = "write" => iter[c].target < connectionsIdCuonter
  /\ \A d \in Reached(c) :
       /\ d < connectionsIdCuonter
       /\ sockOpen[d] => \E k \in DOMAIN outbox[d] : outbox[d][k] = Copy(c)

AtMostOnce(c) ==
  pc[c] \in {"deliver", "write"} =>
    \A d \in Conn \ iter[c].moved : \A j, k \in DOMAIN outbox[d] :
      outbox[d][j] = Copy(c) /\ outbox[d][k] = Copy(c) => j = k

(* Whoever the frame of c in hand was not sent to yet got earlier messages  *)
(* of c only; nobody got a later one.                                       *)
Earlier(d, i) ==
  LET m == messages[i] IN
  /\ i \in 1 .. Len(messages)
  /\ m.nth <= framesRead[m.from]
  /\ pc[m.from] \in Sending /\ d \notin Tried(m.from) => m.nth < framesRead[m.from]

OnlyEarlierMessages ==
  \A d \in Conn : \A k \in DOMAIN outbox[d] :
    outbox[d][k].commend = "MESSAGE" => Earlier(d, outbox[d][k].id)

HandlersAreAccepted == \A c \in idToHendler : c < connectionsIdCuonter

DeliveryInv ==
  /\ \A c \in Conn : SendsItsMessage(c) /\ Visited(c) /\ AtMostOnce(c)
  /\ HandlersAreAccepted
  /\ OnlyEarlierMessages
  /\ SenderOrder

-----------------------------------------------------------------------------
(* The inductive invariant behind ChannelsHoldOnlySubscribers,              *)
(* LeaversAreForgotten and ListedUsersHaveAConnection, for clients that ... *)

(* ... let a subscription id mean one channel, as the client of the         *)
(* repository does, which numbers its subscriptions ...                     *)
OneChannelPerId ==
  \A c \in Conn : \A f, g \in Frames[c] :
    /\ f.commend = "SUBSCRIBE" /\ g.commend = "SUBSCRIBE"
    /\ f.destination # Null /\ g.destination # Null
    /\ f.id = g.id
    => f.destination = g.destination

(* ... and log in as one user per connection: that client opens a new one   *)
(* for every login.                                                         *)
OneUserPerConnection ==
  \A c \in Conn : \A f, g \in Frames[c] :
    /\ f.commend = "CONNECT" /\ g.commend = "CONNECT"
    /\ f.login # Null /\ g.login # Null
    => f.login = g.login

(* The frame in hand is one of the client's, and the one whose handler runs. *)
FrameInHand(c) ==
  /\ frame[c] \in Frames[c] \cup {NoFrame}
  /\ pc[c] \in Commend => frame[c].commend = pc[c]
  /\ pc[c] \in {"getPassword", "addUser", "checkPassword", "setConnected"}
       => frame[c].commend = "CONNECT"
  /\ pc[c] = "addSubscription" => frame[c].commend = "SUBSCRIBE"
  /\ pc[c] = "removeSubscription" => frame[c].commend = "UNSUBSCRIBE"

(* What the database holds for c comes from a frame of its client.          *)
SubscribedByFrame(c) ==
  \A i \in SubId : Details(c)[i] # Null =>
    \E f \in Frames[c] : /\ f.commend = "SUBSCRIBE" /\ f.id = i
                         /\ f.destination = Details(c)[i]

LoggedInByFrame(c) ==
  idToUser[c] # Null =>
    \E f \in Frames[c] : f.commend = "CONNECT" /\ f.login = idToUser[c]

(* How far the forgetting is on the three error paths and at a DISCONNECT.  *)
Leaving(c) ==
  /\ pc[c] = "respond" /\ respond[c] = "RECEIPT" /\ frame[c].commend = "DISCONNECT"
       => HasNoEntry(c)
  /\ pc[c] = "removeHandler" => HasNoEntry(c)
  /\ pc[c] = "terminate" /\ frame[c].commend \in Commend \ {"SEND"}
       => HasNoEntry(c) /\ c \notin idToHendler
  /\ pc[c] \in {"loop", "closed"} /\ isTerminate[c] /\ frame[c].commend \in Commend
       => HasNoEntry(c) /\ c \notin idToHendler
  /\ isTerminate[c] =>
       \/ pc[c] \in {"dbDisconnect", "removeHandler"} /\ frame[c].commend = "SEND"
       \/ pc[c] \in {"loop", "closed"}

SubscriberInv ==
  /\ \A c \in Conn : FrameInHand(c) /\ SubscribedByFrame(c) /\ Leaving(c)
  /\ ChannelsHoldOnlySubscribers

LoginInv ==
  /\ \A c \in Conn : FrameInHand(c) /\ LoggedInByFrame(c)
  /\ ListedUsersHaveAConnection

SessionInv == SubscriberInv /\ LoginInv

-----------------------------------------------------------------------------
(* What comments of the code say and the code does not keep.                *)

(* "User already logged in. Log out before trying again.": the check of     *)
(* lines 119-125 lets one connection at a time be logged in as a user.      *)
AtMostOneSession ==
  \A c, d \in Conn : idToUser[c] # Null /\ idToUser[c] = idToUser[d] => c = d

(* isValidID answers "true if valid, false otherwise" (line 198), and like  *)
(* every reader gives the lock back.                                        *)
ReadersGiveTheLockBack == leakedReaders = {}

-----------------------------------------------------------------------------
(* What a step may never do.                                                *)

(* After its ERROR a connection gains nothing: no login, no subscription,   *)
(* no place in a channel, whatever it had sent behind the offending frame.  *)
ErrorEndsTheSession ==
  [][\A c \in Conn : HasError(c) =>
       /\ idToUser'[c] \in {idToUser[c], Null}
       /\ subscriptionsDetails'[c] \in {subscriptionsDetails[c], Null}
       /\ \A ch \in Channel : c \in channels'[ch] => c \in channels[ch]]_vars

(* A broadcast that ends without an exception reached everyone who was      *)
(* subscribed when it began and stayed to its end, and whose socket is      *)
(* open, exactly once and under the right message id, whatever other        *)
(* threads did in between to the set and to the sockets (the iteration      *)
(* without a lock, ConnectionsImpl.java:31-36).  Exempt is who left and     *)
(* came back, and everybody when the table of a set of SmallSet elements    *)
(* may have grown: HashSet then promises nothing.                           *)
BroadcastReachesEveryone ==
  [][\A c \in Conn : endBroadcast(c) =>
       /\ messages[iter[c].id] = [from |-> c, nth |-> framesRead[c]]
       /\ \A d \in (iter[c].start \cap channels[iter[c].channel]) \ iter[c].moved :
            sockOpen[d] =>
              \E k \in DOMAIN outbox[d] : \A j \in DOMAIN outbox[d] :
                outbox[d][j] = Copy(c) <=> j = k]_vars

-----------------------------------------------------------------------------
(* Liveness, under Fairness.                                                *)

Idle == {"unborn", "loop", "closed", "crashed"}

(* A thread died with the read lock, so that nobody can write any more.     *)
BehindTheDead == \E c \in leakedReaders : pc[c] = "crashed"

(* Every frame is eventually done with, unless a dead thread holds the lock *)
(* or the frame is just being written to a client that does not read it:    *)
(* such a client holds up who writes to it, and nobody else, since no       *)
(* thread has the lock while it writes, or waits for itself.                *)
FramesAreHandled ==
  \A c \in Conn :
    pc[c] \notin Idle ~> (pc[c] \in Idle \/ BehindTheDead \/ HeldUp(c))

(* A client that was sent an ERROR is disconnected even if it never closes  *)
(* its end.                                                                 *)
ErrorClosesTheSocket ==
  \A c \in Conn : HasError(c) ~> (~sockOpen[c] \/ BehindTheDead)
=============================================================================
