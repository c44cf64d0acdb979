-------------------------- MODULE StompServerProofs --------------------------
(***************************************************************************)
(* Proofs about StompServer, for any number of connections, users,         *)
(* channels and ids and any frames.                                        *)
(***************************************************************************)
EXTENDS StompServerProperties, TLAPS

USE DEF Conn

-----------------------------------------------------------------------------
(* The subscriptions of a connection, as the readers see them.              *)

(* A map from id to channel for every connection, null or not.              *)
LEMMA DetailsType ==
  ASSUME DbTypeOK, NEW c \in Conn
  PROVE  Details(c) \in [SubId -> Channel \cup {Null}]
BY DataBaseAssumption DEF DbTypeOK, Details, NoDetails

(* Null is not the channel of anybody's subscription.                       *)
LEMMA SubscribedChannelsType ==
  ASSUME DbTypeOK, NEW c \in Conn
  PROVE  /\ SubscribedChannels(c) \subseteq Channel
         /\ \A ch \in Channel :
              ch \in SubscribedChannels(c) <=> \E i \in SubId : Details(c)[i] = ch
BY DetailsType, DataBaseAssumption DEF SubscribedChannels

(* What isSubscribersForChannel answers is right for who is told "not a     *)
(* subscriber" only if -1 is none of its ids.                               *)
LEMMA IsSubscriber ==
  ASSUME DbTypeOK, NEW c \in Conn, NEW ch \in Channel,
         NEW subID \in getSubscriptionIDForChannel(ch, c)
  PROVE  /\ isSubscribersForChannel(subID) => ch \in SubscribedChannels(c)
         /\ (\A i \in SubId : Details(c)[i] # Null => i # -1) =>
              (ch \in SubscribedChannels(c) => isSubscribersForChannel(subID))
<1>1. CASE ch \in SubscribedChannels(c)
  <2>1. subID \in SubId /\ Details(c)[subID] = ch
    BY <1>1 DEF getSubscriptionIDForChannel
  <2>. QED
    BY <1>1, <2>1, DataBaseAssumption DEF isSubscribersForChannel
<1>2. CASE ch \notin SubscribedChannels(c)
  BY <1>2 DEF isSubscribersForChannel, getSubscriptionIDForChannel
<1>. QED
  BY <1>1, <1>2

-----------------------------------------------------------------------------
(* Types: what the operations are built from keeps them.                    *)

LEMMA TypeInit == Init => TypeOK
BY DataBaseAssumption, ServerAssumption
DEF Init, DbInit, TypeOK, DbTypeOK, NetTypeOK, ThreadTypeOK, NoFrame, NoIter,
    Frame, Iterator, Labels

LEMMA DbUnchangedType ==
  ASSUME DbTypeOK, UNCHANGED <<dbVars, lockVars>>
  PROVE  DbTypeOK'
BY DEF DbTypeOK, dbVars, lockVars

LEMMA LoginType ==
  ASSUME DbTypeOK, NEW c \in Conn, NEW u \in User, NEW p \in Password,
         addOrUpdateUser(u, p, c) \/ setNewConnected(u, c)
  PROVE  DbTypeOK'
BY ZenonT(60) DEF DbTypeOK, addOrUpdateUser, setNewConnected, lockVars

LEMMA SubscriptionType ==
  ASSUME DbTypeOK, NEW c \in Conn, NEW ch \in Channel, NEW i \in SubId,
         \/ addChannelSubscription(ch, c, i)
         \/ removeChannelSubscription(ch, c, i)
  PROVE  DbTypeOK'
<1>1. Details(c) \in [SubId -> Channel \cup {Null}]
  BY DetailsType
<1>2. CASE addChannelSubscription(ch, c, i)
  <2>1. [Details(c) EXCEPT ![i] = ch] \in [SubId -> Channel \cup {Null}]
    BY <1>1
  <2>. QED
    BY <1>2, <2>1 DEF DbTypeOK, addChannelSubscription, lockVars
<1>3. CASE removeChannelSubscription(ch, c, i)
  <2>1. [Details(c) EXCEPT ![i] = Null] \in [SubId -> Channel \cup {Null}]
    BY <1>1
  <2>. QED
    BY <1>3, <2>1 DEF DbTypeOK, removeChannelSubscription, lockVars
<1>. QED
  BY <1>2, <1>3

LEMMA DbDisconnectType ==
  ASSUME DbTypeOK, NEW c \in Conn, dbDisconnect(c)
  PROVE  DbTypeOK'
BY DEF DbTypeOK, dbDisconnect, ChannelsWithout, lockVars

LEMMA MessageType ==
  ASSUME DbTypeOK, NEW content \in Content, addMessage(content)
  PROVE  DbTypeOK'
BY DEF DbTypeOK, addMessage, lockVars

LEMMA MoveType ==
  ASSUME ThreadTypeOK, NEW c \in Conn, iter' \in [Conn -> Iterator],
         \/ \E label \in Labels : GoTo(c, label)
         \/ \E r \in Respond \cup {Null} : Reply(c, r)
  PROVE  ThreadTypeOK'
BY DEF ThreadTypeOK, GoTo, Reply, Labels

LEMMA BackToLoopType ==
  ASSUME ThreadTypeOK, NEW c \in Conn, BackToLoop(c)
  PROVE  ThreadTypeOK'
<1>1. NoFrame \in Frame /\ NoIter \in Iterator /\ "loop" \in Labels
  BY DEF NoFrame, Frame, NoIter, Iterator, Labels
<1>. QED
  BY <1>1 DEF ThreadTypeOK, BackToLoop

LEMMA CrashType ==
  ASSUME NetTypeOK, ThreadTypeOK, NEW c \in Conn, Crash(c),
         UNCHANGED connectionsIdCuonter
  PROVE  NetTypeOK' /\ ThreadTypeOK'
<1>1. NoIter \in Iterator /\ "crashed" \in Labels
  BY DEF NoIter, Iterator, Labels
<1>. QED
  BY <1>1 DEF NetTypeOK, ThreadTypeOK, Crash

LEMMA SendType ==
  ASSUME NetTypeOK, NEW c \in Conn, NEW d \in Conn, NEW m \in OutFrame,
         handlerSend(c, d, m), UNCHANGED connectionsIdCuonter
  PROVE  NetTypeOK'
<1>1. outbox' \in [Conn -> Seq(OutFrame)]
  BY DEF NetTypeOK, handlerSend
<1>2. sockOpen' \in [Conn -> BOOLEAN]
  BY DEF NetTypeOK, handlerSend
<1>. QED
  BY <1>1, <1>2 DEF NetTypeOK, handlerSend

LEMMA OvertakenIterator ==
  ASSUME ThreadTypeOK, MarkStale, NEW d \in Conn
  PROVE  \/ iter'[d] = iter[d]
         \/ /\ iter[d].channel \in Channel
            /\ iter'[d] = [iter[d] EXCEPT !.stale = TRUE,
                             !.moved = @ \cup Moved(iter[d].channel),
                             !.done = @ \ Moved(iter[d].channel)]
<1>1. iter[d] \in Iterator /\ iter'[d] = Overtaken(iter[d])
  BY DEF MarkStale, ThreadTypeOK
<1>2. CASE iter'[d] # iter[d]
  BY <1>1, <1>2 DEF Overtaken, Iterator
<1>. QED
  BY <1>2

LEMMA MarkStaleSame ==
  ASSUME ThreadTypeOK, MarkStale
  PROVE  \A d \in Conn : /\ iter'[d].channel = iter[d].channel
                         /\ iter'[d].target = iter[d].target
<1>1. ASSUME NEW d \in Conn
      PROVE  iter'[d].channel = iter[d].channel /\ iter'[d].target = iter[d].target
  <2>1. iter[d] \in Iterator
    BY DEF ThreadTypeOK
  <2>. QED
    BY <2>1, OvertakenIterator DEF Iterator
<1>. QED
  BY <1>1

LEMMA MarkStaleType ==
  ASSUME ThreadTypeOK, DbTypeOK', MarkStale
  PROVE  iter' \in [Conn -> Iterator]
<1>1. ASSUME NEW d \in Conn
      PROVE  iter'[d] \in Iterator
  <2>1. iter[d] \in Iterator
    BY DEF ThreadTypeOK
  <2>2. CASE iter'[d] = iter[d]
    BY <2>1, <2>2
  <2>3. CASE iter'[d] # iter[d]
    <3>1. /\ iter[d].channel \in Channel
          /\ iter'[d] = [iter[d] EXCEPT !.stale = TRUE,
                           !.moved = @ \cup Moved(iter[d].channel),
                           !.done = @ \ Moved(iter[d].channel)]
      BY <2>3, OvertakenIterator
    <3>2. Moved(iter[d].channel) \subseteq Conn
      BY <3>1 DEF Moved, DbTypeOK
    <3>. HIDE DEF Moved
    <3>. QED
      BY <2>1, <3>1, <3>2 DEF Iterator
  <2>. QED
    BY <2>2, <2>3
<1>2. iter' = [d \in Conn |-> iter'[d]]
  BY DEF MarkStale
<1>. QED
  BY <1>1, <1>2

LEMMA IteratorType ==
  ASSUME NEW it \in Iterator
  PROVE  /\ \A ch \in Channel, n \in Nat :
              [it EXCEPT !.channel = ch, !.id = n] \in Iterator
         /\ \A S \in SUBSET Conn :
              [it EXCEPT !.start = S, !.stale = FALSE, !.moved = {}] \in Iterator
         /\ \A d \in Conn : \A S \in SUBSET Conn :
              [it EXCEPT !.target = d, !.done = S] \in Iterator
         /\ [it EXCEPT !.target = Null] \in Iterator
BY DEF Iterator

LEMMA QuietType ==
  ASSUME TypeOK, NEW c \in Conn,
         UNCHANGED <<dbVars, lockVars, netVars, iter, connectionsIdCuonter>>,
         \/ \E label \in Labels : GoTo(c, label)
         \/ \E r \in Respond \cup {Null} : Reply(c, r)
  PROVE  TypeOK'
<1>1. DbTypeOK'
  BY DbUnchangedType DEF TypeOK
<1>2. NetTypeOK'
  BY DEF TypeOK, NetTypeOK, netVars
<1>3. ThreadTypeOK'
  BY MoveType DEF TypeOK, ThreadTypeOK
<1>. QED
  BY <1>1, <1>2, <1>3 DEF TypeOK

-----------------------------------------------------------------------------
(* Types: every step of a thread keeps them.                                *)

LEMMA LoginStepsType ==
  ASSUME IInv, NEW c \in Conn,
         \/ connectHendel(c) \/ getPasswordForUser(c) \/ addUser(c)
         \/ checkPassword(c) \/ setConnected(c)
  PROVE  TypeOK'
<1>. TypeOK /\ LoginChecked(c)
  BY DEF IInv, ThreadInv
<1>. {"getPassword", "addUser", "checkPassword", "setConnected"} \subseteq Labels
  BY DEF Labels
<1>. {"ERROR", "CONNECTED"} \subseteq Respond
  BY DEF Respond
<1>1. CASE connectHendel(c) \/ getPasswordForUser(c) \/ checkPassword(c)
  BY <1>1, QuietType DEF connectHendel, getPasswordForUser, checkPassword
<1>2. CASE addUser(c) \/ setConnected(c)
  <2>1. frame[c].login \in User /\ frame[c].passcode \in Password
    BY <1>2 DEF LoginChecked, addUser, setConnected
  <2>2. DbTypeOK'
    BY <1>2, <2>1, LoginType DEF TypeOK, addUser, setConnected
  <2>3. NetTypeOK'
    BY <1>2 DEF TypeOK, NetTypeOK, addUser, setConnected, netVars
  <2>4. ThreadTypeOK'
    <3>1. Reply(c, "CONNECTED") /\ iter' \in [Conn -> Iterator]
      BY <1>2 DEF TypeOK, ThreadTypeOK, addUser, setConnected
    <3>. QED
      BY <3>1, MoveType DEF TypeOK
  <2>. QED
    BY <2>2, <2>3, <2>4 DEF TypeOK
<1>. QED
  BY <1>1, <1>2

LEMMA SendStepsType ==
  ASSUME IInv, NEW c \in Conn,
         \/ sendHendel(c) \/ storeMessage(c) \/ getSubscribers(c)
         \/ nextSubscriber(c) \/ concurrentModification(c)
         \/ deliver(c) \/ endBroadcast(c)
  PROVE  TypeOK'
<1>. TypeOK /\ BroadcastState(c)
  BY DEF IInv, ThreadInv
<1>. DbTypeOK /\ NetTypeOK /\ ThreadTypeOK
  BY DEF TypeOK
<1>. {"addMessage", "getSubscribers", "deliver", "write"} \subseteq Labels
  BY DEF Labels
<1>1. CASE sendHendel(c)
  <2>. "ERROR" \in Respond
    BY DEF Respond
  <2>. QED
    BY <1>1, QuietType DEF sendHendel
<1>2. CASE storeMessage(c)
  <2>1. [from |-> c, nth |-> framesRead[c]] \in Content
    BY DEF ThreadTypeOK, Content
  <2>2. DbTypeOK'
    BY <1>2, <2>1, MessageType DEF storeMessage
  <2>3. NetTypeOK'
    BY <1>2 DEF NetTypeOK, storeMessage, netVars
  <2>4. frame[c].destination \in Channel /\ SendChannel(c) \in Channel
    BY <1>2, ServerAssumption DEF BroadcastState, storeMessage, SendChannel
  <2>5. Len(messages') \in Nat
    BY <2>2 DEF DbTypeOK
  <2>6. iter' \in [Conn -> Iterator]
    <3>1. [iter[c] EXCEPT !.channel = SendChannel(c), !.id = Len(messages')]
            \in Iterator
      BY <2>4, <2>5, IteratorType DEF ThreadTypeOK
    <3>. QED
      BY <1>2, <3>1 DEF storeMessage, ThreadTypeOK
  <2>7. GoTo(c, "getSubscribers")
    BY <1>2 DEF storeMessage
  <2>8. ThreadTypeOK'
    BY <2>6, <2>7, MoveType
  <2>. QED
    BY <2>2, <2>3, <2>8 DEF TypeOK
<1>3. CASE getSubscribers(c)
  <2>1. DbTypeOK'
    BY <1>3, DbUnchangedType DEF getSubscribers
  <2>2. NetTypeOK'
    BY <1>3 DEF NetTypeOK, getSubscribers, netVars
  <2>3. channels[iter[c].channel] \in SUBSET Conn
    BY <1>3 DEF BroadcastState, getSubscribers, DbTypeOK
  <2>4. iter' \in [Conn -> Iterator]
    <3>1. [iter[c] EXCEPT !.start = channels[iter[c].channel], !.stale = FALSE,
                          !.moved = {}] \in Iterator
      BY <2>3, IteratorType DEF ThreadTypeOK
    <3>. QED
      BY <1>3, <3>1 DEF getSubscribers, ThreadTypeOK
  <2>5. GoTo(c, "deliver")
    BY <1>3 DEF getSubscribers
  <2>6. ThreadTypeOK'
    BY <2>4, <2>5, MoveType
  <2>. QED
    BY <2>1, <2>2, <2>6 DEF TypeOK
<1>4. CASE nextSubscriber(c)
  <2>1. PICK d \in Candidates(c) :
          IF d \in idToHendler
          THEN /\ iter' = [iter EXCEPT ![c].target = d, ![c].done = @ \cup {d}]
               /\ GoTo(c, "write")
               /\ UNCHANGED netVars
          ELSE Crash(c)
    BY <1>4 DEF nextSubscriber
  <2>2. DbTypeOK' /\ UNCHANGED connectionsIdCuonter
    BY <1>4, DbUnchangedType DEF nextSubscriber
  <2>3. CASE d \in idToHendler
    <3>1. d \in Conn
      BY <2>3 DEF NetTypeOK
    <3>2. iter' \in [Conn -> Iterator]
      <4>1. iter[c] \in Iterator /\ iter[c].done \cup {d} \subseteq Conn
        BY <3>1 DEF ThreadTypeOK, Iterator
      <4>2. [iter[c] EXCEPT !.target = d, !.done = iter[c].done \cup {d}]
              \in Iterator
        BY <3>1, <4>1, IteratorType
      <4>. QED
        BY <2>1, <2>3, <4>2 DEF ThreadTypeOK
    <3>3. ThreadTypeOK'
      BY <2>1, <2>3, <3>2, MoveType
    <3>4. NetTypeOK'
      BY <2>1, <2>2, <2>3 DEF NetTypeOK, netVars
    <3>. QED
      BY <2>2, <3>3, <3>4 DEF TypeOK
  <2>4. CASE d \notin idToHendler
    BY <2>1, <2>2, <2>4, CrashType DEF TypeOK
  <2>. QED
    BY <2>3, <2>4
<1>5. CASE concurrentModification(c)
  BY <1>5, DbUnchangedType, CrashType DEF concurrentModification, TypeOK
<1>6. CASE deliver(c)
  <2>1. DbTypeOK' /\ UNCHANGED connectionsIdCuonter
    BY <1>6, DbUnchangedType DEF deliver
  <2>2. iter[c].target \in Conn /\ iter[c].id \in Nat
    BY <1>6 DEF deliver, BroadcastState, ThreadTypeOK, Iterator
  <2>3. [commend |-> "MESSAGE", id |-> iter[c].id] \in OutFrame
    BY <2>2 DEF OutFrame
  <2>4. NetTypeOK'
    BY <1>6, <2>1, <2>2, <2>3, SendType DEF deliver
  <2>5. iter' \in [Conn -> Iterator]
    <3>1. [iter[c] EXCEPT !.target = Null] \in Iterator
      BY IteratorType DEF ThreadTypeOK
    <3>. QED
      BY <1>6, <3>1 DEF deliver, ThreadTypeOK
  <2>6. GoTo(c, "deliver")
    BY <1>6 DEF deliver
  <2>7. ThreadTypeOK'
    BY <2>5, <2>6, MoveType
  <2>. QED
    BY <2>1, <2>4, <2>7 DEF TypeOK
<1>7. CASE endBroadcast(c)
  <2>1. NetTypeOK'
    BY <1>7 DEF NetTypeOK, endBroadcast, netVars
  <2>. QED
    BY <1>7, <2>1, DbUnchangedType, BackToLoopType DEF endBroadcast, TypeOK
<1>. QED
  BY <1>1, <1>2, <1>3, <1>4, <1>5, <1>6, <1>7

LEMMA SubscriptionStepsType ==
  ASSUME IInv, NEW c \in Conn,
         \/ subscribeHendel(c) \/ addSubscription(c)
         \/ unsubscribeHendel(c) \/ removeSubscription(c)
         \/ disconnectHendel(c)
  PROVE  TypeOK'
<1>. TypeOK /\ SubscriptionChecked(c)
  BY DEF IInv, ThreadInv
<1>. DbTypeOK /\ NetTypeOK /\ ThreadTypeOK
  BY DEF TypeOK
<1>. {"addSubscription", "removeSubscription"} \subseteq Labels
  BY DEF Labels
<1>. {"ERROR", "RECEIPT"} \subseteq Respond
  BY DEF Respond
<1>. ReceiptFor(frame[c]) \in Respond \cup {Null}
  BY DEF ReceiptFor
<1>1. CASE subscribeHendel(c)
  <2>1. CASE Crash(c)
    BY <1>1, <2>1, DbUnchangedType, CrashType DEF subscribeHendel, TypeOK
  <2>2. CASE ~Crash(c)
    BY <1>1, <2>2, QuietType DEF subscribeHendel
  <2>. QED
    BY <2>1, <2>2
<1>2. CASE addSubscription(c) \/ removeSubscription(c)
  <2>1. /\ frame[c].id \in SubId
        /\ IF pc[c] = "addSubscription"
           THEN frame[c].destination \in Channel
           ELSE Details(c)[frame[c].id] \in Channel
    BY <1>2, DetailsType
    DEF SubscriptionChecked, addSubscription, removeSubscription
  <2>2. DbTypeOK'
    BY <1>2, <2>1, SubscriptionType DEF addSubscription, removeSubscription
  <2>3. NetTypeOK'
    BY <1>2 DEF NetTypeOK, addSubscription, removeSubscription, netVars
  <2>4. MarkStale /\ Reply(c, ReceiptFor(frame[c]))
    BY <1>2 DEF addSubscription, removeSubscription
  <2>5. ThreadTypeOK'
    BY <2>2, <2>4, MarkStaleType, MoveType
  <2>. QED
    BY <2>2, <2>3, <2>5 DEF TypeOK
<1>3. CASE unsubscribeHendel(c)
  <2>1. CASE Crash(c)
    <3>1. DbTypeOK'
      BY <1>3, <2>1, DbUnchangedType
      DEF unsubscribeHendel, leakReadLock, DbTypeOK, dbVars, lockVars, netVars
    <3>. QED
      BY <1>3, <2>1, <3>1, CrashType DEF unsubscribeHendel, TypeOK
  <2>2. CASE ~Crash(c)
    BY <1>3, <2>2, QuietType DEF unsubscribeHendel
  <2>. QED
    BY <2>1, <2>2
<1>4. CASE disconnectHendel(c)
  <2>1. CASE frame[c].receipt
    <3>1. dbDisconnect(c) /\ MarkStale /\ Reply(c, "RECEIPT")
      BY <1>4, <2>1 DEF disconnectHendel
    <3>2. NetTypeOK'
      BY <1>4 DEF NetTypeOK, disconnectHendel, netVars
    <3>. QED
      BY <3>1, <3>2, DbDisconnectType, MarkStaleType, MoveType DEF TypeOK
  <2>2. CASE ~frame[c].receipt
    BY <1>4, <2>2, QuietType DEF disconnectHendel
  <2>. QED
    BY <2>1, <2>2
<1>. QED
  BY <1>1, <1>2, <1>3, <1>4

LEMMA AnswerStepsType ==
  ASSUME IInv, NEW c \in Conn,
         \/ sendRespond(c) \/ disconnectUser(c) \/ removeHandler(c)
         \/ terminate(c) \/ waitForWriteLock(c)
  PROVE  TypeOK'
<1>. TypeOK /\ ErrorPathState(c)
  BY DEF IInv, ThreadInv
<1>. DbTypeOK /\ NetTypeOK /\ ThreadTypeOK
  BY DEF TypeOK
<1>1. /\ ErrorPath(frame[c]).respond \in Labels
      /\ ErrorPath(frame[c]).terminate \in Labels
  BY DEF ErrorPath, Labels
<1>2. CASE sendRespond(c)
  <2>1. DbTypeOK' /\ UNCHANGED connectionsIdCuonter
    BY <1>2, DbUnchangedType DEF sendRespond
  <2>2. CASE Crash(c)
    BY <2>1, <2>2, CrashType DEF TypeOK
  <2>3. CASE ~Crash(c)
    <3>1. respond[c] \in Respond
      BY <1>2, <2>3 DEF sendRespond, ThreadTypeOK
    <3>2. [commend |-> respond[c], id |-> 0] \in OutFrame
      BY <3>1 DEF OutFrame
    <3>3. NetTypeOK'
      BY <1>2, <2>1, <2>3, <3>2, SendType DEF sendRespond
    <3>4. CASE GoTo(c, ErrorPath(frame[c]).respond) /\ UNCHANGED iter
      <4>1. iter' \in [Conn -> Iterator]
        BY <3>4 DEF ThreadTypeOK
      <4>. QED
        BY <1>1, <2>1, <3>3, <3>4, <4>1, MoveType DEF TypeOK
    <3>5. CASE BackToLoop(c)
      BY <2>1, <3>3, <3>5, BackToLoopType DEF TypeOK
    <3>. QED
      BY <1>2, <2>3, <3>4, <3>5 DEF sendRespond
  <2>. QED
    BY <2>2, <2>3
<1>3. CASE disconnectUser(c)
  <2>1. /\ dbDisconnect(c)
        /\ MarkStale
        /\ GoTo(c, ErrorPath(frame[c]).dbDisconnect)
    BY <1>3 DEF disconnectUser
  <2>2. ErrorPath(frame[c]).dbDisconnect \in Labels
    BY <1>3 DEF disconnectUser, ErrorPathState, ErrorPath, Labels
  <2>3. NetTypeOK'
    BY <1>3 DEF NetTypeOK, disconnectUser, netVars
  <2>. QED
    BY <2>1, <2>2, <2>3, DbDisconnectType, MarkStaleType, MoveType DEF TypeOK
<1>4. CASE removeHandler(c)
  <2>1. ErrorPath(frame[c]).removeHandler \in Labels
    BY <1>4 DEF removeHandler, ErrorPathState, ErrorPath, Labels
  <2>2. GoTo(c, ErrorPath(frame[c]).removeHandler) /\ iter' \in [Conn -> Iterator]
    BY <1>4 DEF removeHandler, ThreadTypeOK
  <2>3. NetTypeOK'
    BY <1>4 DEF NetTypeOK, removeHandler
  <2>4. DbTypeOK'
    BY <1>4, DbUnchangedType DEF removeHandler
  <2>. QED
    BY <2>1, <2>2, <2>3, <2>4, MoveType DEF TypeOK
<1>5. CASE terminate(c)
  <2>1. GoTo(c, ErrorPath(frame[c]).terminate) /\ iter' \in [Conn -> Iterator]
    BY <1>5 DEF terminate, ThreadTypeOK
  <2>2. NetTypeOK'
    BY <1>5 DEF NetTypeOK, terminate
  <2>3. DbTypeOK'
    BY <1>5, DbUnchangedType DEF terminate
  <2>. QED
    BY <1>1, <2>1, <2>2, <2>3, MoveType DEF TypeOK
<1>6. CASE waitForWriteLock(c)
  BY <1>6 DEF waitForWriteLock, queueForWriteLock, TypeOK, DbTypeOK, NetTypeOK,
              ThreadTypeOK, dbVars, netVars, threadVars
<1>. QED
  BY <1>2, <1>3, <1>4, <1>5, <1>6

LEMMA ConnectionStepsType ==
  ASSUME IInv,
         \/ Accept
         \/ \E c \in Conn : ReadFrame(c) \/ Eof(c) \/ decodeFails(c) \/ ExitLoop(c)
  PROVE  TypeOK'
<1>. TypeOK
  BY DEF IInv
<1>. DbTypeOK /\ NetTypeOK /\ ThreadTypeOK
  BY DEF TypeOK
<1>. {"loop", "closed", "respond"} \subseteq Labels /\ Commend \subseteq Labels
  BY DEF Labels
<1>1. CASE Accept
  <2>1. connectionsIdCuonter \in Conn
    BY <1>1, DataBaseAssumption DEF Accept, NetTypeOK
  <2>2. GoTo(connectionsIdCuonter, "loop") /\ iter' \in [Conn -> Iterator]
    BY <1>1 DEF Accept, ThreadTypeOK
  <2>3. NetTypeOK'
    BY <1>1, <2>1, DataBaseAssumption DEF Accept, NetTypeOK
  <2>4. DbTypeOK'
    BY <1>1, DbUnchangedType DEF Accept
  <2>. QED
    BY <2>1, <2>2, <2>3, <2>4, MoveType DEF TypeOK
<1>2. ASSUME NEW c \in Conn, ReadFrame(c)
      PROVE  TypeOK'
  <2>1. DbTypeOK' /\ NetTypeOK'
    BY <1>2, DbUnchangedType DEF ReadFrame, NetTypeOK, netVars
  <2>2. ThreadTypeOK'
    BY <1>2, ServerAssumption DEF ReadFrame, ThreadTypeOK, Respond
  <2>. QED
    BY <2>1, <2>2 DEF TypeOK
<1>3. ASSUME NEW c \in Conn, Eof(c) \/ ExitLoop(c)
      PROVE  TypeOK'
  <2>1. Close(c)
    BY <1>3 DEF Eof, ExitLoop
  <2>2. DbTypeOK' /\ NetTypeOK'
    BY <2>1, DbUnchangedType DEF Close, NetTypeOK
  <2>3. GoTo(c, "closed") /\ iter' \in [Conn -> Iterator]
    BY <2>1 DEF Close, ThreadTypeOK
  <2>. QED
    BY <2>2, <2>3, MoveType DEF TypeOK
<1>4. ASSUME NEW c \in Conn, decodeFails(c)
      PROVE  TypeOK'
  BY <1>4, DbUnchangedType, CrashType DEF decodeFails, TypeOK
<1>. QED
  BY <1>1, <1>2, <1>3, <1>4

LEMMA TypeNext ==
  ASSUME IInv, [Next]_vars
  PROVE  TypeOK'
<1>1. CASE UNCHANGED vars
  BY <1>1 DEF IInv, TypeOK, DbTypeOK, NetTypeOK, ThreadTypeOK, vars, dbVars,
              lockVars, netVars, threadVars
<1>2. ASSUME NEW c \in Conn, Step(c)
      PROVE  TypeOK'
  BY <1>2, LoginStepsType, SendStepsType, SubscriptionStepsType, AnswerStepsType,
     ConnectionStepsType DEF Step
<1>. QED
  BY <1>1, <1>2, ConnectionStepsType DEF Next, AllGone

-----------------------------------------------------------------------------
(* A step of one thread leaves what the others rely on as it is.            *)

SameThread(d) ==
  /\ pc'[d] = pc[d]
  /\ frame'[d] = frame[d]
  /\ iter'[d].channel = iter[d].channel
  /\ iter'[d].target = iter[d].target

SameSession(d) ==
  /\ isTerminate'[d] = isTerminate[d]
  /\ subscriptionsDetails'[d] = subscriptionsDetails[d]
  /\ idToUser'[d] = idToUser[d]
  /\ d \in idToHendler' <=> d \in idToHendler

LEMMA SameInv ==
  ASSUME NEW d \in Conn, ThreadInv(d), SameThread(d), SameSession(d)
  PROVE  ThreadInv(d)'
<1>1. /\ Details(d)' = Details(d)
      /\ SubscribedChannels(d)' = SubscribedChannels(d)
  BY DEF SameSession, Details, SubscribedChannels
<1>. QED
  BY <1>1 DEF SameThread, SameSession, ThreadInv, LoginChecked,
              SubscriptionChecked, NeverMinusOne, BroadcastState,
              ErrorPathState, ServingHasHandler

LEMMA OtherThreads ==
  ASSUME TypeOK, NEW c \in Conn,
         Step(c) \/ ReadFrame(c) \/ Eof(c) \/ decodeFails(c),
         NEW d \in Conn, d # c
  PROVE  SameThread(d)
<1>. ThreadTypeOK
  BY DEF TypeOK
<1>1. CASE \/ connectHendel(c) \/ getPasswordForUser(c) \/ addUser(c)
           \/ checkPassword(c) \/ setConnected(c) \/ sendHendel(c)
           \/ ReadFrame(c) \/ Eof(c) \/ ExitLoop(c)
           \/ removeHandler(c) \/ terminate(c) \/ waitForWriteLock(c)
  BY <1>1 DEF connectHendel, getPasswordForUser, addUser, checkPassword,
       setConnected, sendHendel, ReadFrame, Eof, ExitLoop, Close,
       removeHandler, terminate, waitForWriteLock, threadVars, GoTo, Reply,
       ThreadTypeOK, SameThread
<1>2. CASE \/ storeMessage(c) \/ getSubscribers(c) \/ nextSubscriber(c)
           \/ concurrentModification(c) \/ deliver(c) \/ endBroadcast(c)
           \/ sendRespond(c) \/ decodeFails(c)
  BY <1>2 DEF storeMessage, getSubscribers, nextSubscriber, decodeFails,
       concurrentModification, deliver, endBroadcast, sendRespond,
       GoTo, BackToLoop, Crash, ThreadTypeOK, SameThread
<1>3. CASE subscribeHendel(c) \/ unsubscribeHendel(c)
  BY <1>3 DEF subscribeHendel, unsubscribeHendel, GoTo, Reply, Crash,
       ThreadTypeOK, SameThread
<1>4. CASE \/ addSubscription(c) \/ removeSubscription(c)
           \/ disconnectHendel(c) \/ disconnectUser(c)
  <2>1. \/ \E label : GoTo(c, label)
        \/ \E r : Reply(c, r)
    BY <1>4 DEF addSubscription, removeSubscription, disconnectHendel,
         disconnectUser
  <2>2. MarkStale \/ UNCHANGED iter
    BY <1>4 DEF addSubscription, removeSubscription, disconnectHendel,
         disconnectUser
  <2>. QED
    BY <2>1, <2>2, MarkStaleSame DEF GoTo, Reply, ThreadTypeOK, SameThread
<1>. QED
  BY <1>1, <1>2, <1>3, <1>4 DEF Step

LEMMA OtherSessions ==
  ASSUME TypeOK, NEW c \in Conn,
         Step(c) \/ ReadFrame(c) \/ Eof(c) \/ decodeFails(c),
         NEW d \in Conn, d # c
  PROVE  SameSession(d)
<1>. DbTypeOK /\ NetTypeOK
  BY DEF TypeOK
<1>1. CASE UNCHANGED <<subscriptionsDetails, idToUser, isTerminate, idToHendler>>
  BY <1>1 DEF SameSession
<1>2. CASE addUser(c) \/ setConnected(c)
  BY <1>2 DEF addUser, setConnected, addOrUpdateUser, setNewConnected, netVars,
       DbTypeOK, SameSession
<1>3. CASE \/ addSubscription(c) \/ removeSubscription(c)
           \/ disconnectHendel(c) \/ disconnectUser(c)
  BY <1>3 DEF addSubscription, removeSubscription, disconnectHendel,
       disconnectUser, addChannelSubscription, removeChannelSubscription,
       dbDisconnect, dbVars, netVars, DbTypeOK, SameSession
<1>4. CASE removeHandler(c) \/ terminate(c)
  BY <1>4 DEF removeHandler, terminate, dbVars, NetTypeOK, SameSession
<1>5. CASE \/ connectHendel(c) \/ getPasswordForUser(c) \/ checkPassword(c)
           \/ sendHendel(c) \/ storeMessage(c) \/ getSubscribers(c)
           \/ nextSubscriber(c) \/ concurrentModification(c)
           \/ deliver(c) \/ endBroadcast(c) \/ sendRespond(c)
           \/ subscribeHendel(c) \/ unsubscribeHendel(c)
           \/ waitForWriteLock(c) \/ ReadFrame(c) \/ Eof(c) \/ decodeFails(c)
           \/ ExitLoop(c)
  BY <1>1, <1>5 DEF connectHendel, getPasswordForUser, checkPassword, sendHendel,
       storeMessage, addMessage, getSubscribers, nextSubscriber,
       concurrentModification, deliver, handlerSend, endBroadcast, sendRespond,
       subscribeHendel, unsubscribeHendel, leakReadLock, waitForWriteLock,
       queueForWriteLock, ReadFrame, Eof, decodeFails, ExitLoop, Close, Crash, dbVars, netVars
<1>. QED
  BY <1>2, <1>3, <1>4, <1>5 DEF Step

-----------------------------------------------------------------------------
(* The thread that steps establishes what it relies on next.                *)

(* With the database left alone, a connection's subscriptions stay.         *)
LEMMA SameDetails ==
  ASSUME NEW c \in Conn, subscriptionsDetails'[c] = subscriptionsDetails[c]
  PROVE  /\ Details(c)' = Details(c)
         /\ SubscribedChannels(c)' = SubscribedChannels(c)
BY DEF Details, SubscribedChannels

LEMMA CrashInv ==
  ASSUME TypeOK, NEW c \in Conn, Crash(c)
  PROVE  ThreadInv(c)'
BY DEF TypeOK, ThreadTypeOK, Crash, ThreadInv, LoginChecked, SubscriptionChecked,
       BroadcastState, ErrorPathState, ServingHasHandler

(* A handler method that has its answer has its handler, too.               *)
LEMMA ReplyInv ==
  ASSUME TypeOK, NEW c \in Conn, NEW r, Reply(c, r), c \in idToHendler'
  PROVE  ThreadInv(c)'
BY DEF TypeOK, ThreadTypeOK, Reply, ThreadInv, LoginChecked, SubscriptionChecked,
       BroadcastState, ErrorPathState, ServingHasHandler

LEMMA BackToLoopInv ==
  ASSUME TypeOK, NEW c \in Conn, BackToLoop(c), c \in idToHendler'
  PROVE  ThreadInv(c)'
BY DEF TypeOK, ThreadTypeOK, BackToLoop, ThreadInv, LoginChecked,
       SubscriptionChecked, BroadcastState, ErrorPathState, ServingHasHandler

LEMMA LoginStepsInv ==
  ASSUME IInv, NEW c \in Conn,
         \/ connectHendel(c) \/ getPasswordForUser(c) \/ addUser(c)
         \/ checkPassword(c) \/ setConnected(c)
  PROVE  ThreadInv(c)'
<1>. TypeOK /\ ThreadInv(c)
  BY DEF IInv
<1>1. c \in idToHendler'
  BY DEF ThreadInv, ServingHasHandler, connectHendel, getPasswordForUser,
         addUser, checkPassword, setConnected, netVars
<1>2. CASE \E r : Reply(c, r)
  BY <1>1, <1>2, ReplyInv
<1>3. CASE GoTo(c, "getPassword")
  <2>1. frame[c].login # Null /\ frame[c].passcode # Null
    BY <1>3 DEF connectHendel, getPasswordForUser, addUser, checkPassword,
           setConnected, GoTo, Reply, TypeOK, ThreadTypeOK
  <2>2. frame[c].login \in User /\ frame[c].passcode \in Password
    BY <2>1 DEF TypeOK, ThreadTypeOK, Frame
  <2>. QED
    BY <1>1, <1>3, <2>2 DEF GoTo, TypeOK, ThreadTypeOK, ThreadInv, LoginChecked,
       SubscriptionChecked, BroadcastState, ErrorPathState, ServingHasHandler
<1>4. CASE \E label \in {"addUser", "checkPassword", "setConnected"} :
              GoTo(c, label)
  <2>1. pc[c] \in {"getPassword", "checkPassword"}
    BY <1>4 DEF connectHendel, getPasswordForUser, addUser, checkPassword,
           setConnected, GoTo, Reply, TypeOK, ThreadTypeOK
  <2>. QED
    BY <1>1, <1>4, <2>1 DEF GoTo, TypeOK, ThreadTypeOK, ThreadInv, LoginChecked,
       SubscriptionChecked, BroadcastState, ErrorPathState, ServingHasHandler
<1>. QED
  BY <1>2, <1>3, <1>4 DEF connectHendel, getPasswordForUser, addUser,
     checkPassword, setConnected

LEMMA SendStepsInv ==
  ASSUME IInv, TypeOK', NEW c \in Conn,
         \/ sendHendel(c) \/ storeMessage(c) \/ getSubscribers(c)
         \/ nextSubscriber(c) \/ concurrentModification(c)
         \/ deliver(c) \/ endBroadcast(c)
  PROVE  ThreadInv(c)'
<1>. TypeOK /\ ThreadInv(c)
  BY DEF IInv
<1>1. c \in idToHendler'
  BY DEF ThreadInv, ServingHasHandler, sendHendel, storeMessage, getSubscribers,
         nextSubscriber, concurrentModification, deliver, handlerSend,
         endBroadcast, Crash, netVars
<1>. USE DEF TypeOK, ThreadTypeOK
<1>2. CASE sendHendel(c)
  <2>1. CASE Reply(c, "ERROR")
    BY <1>1, <2>1, ReplyInv
  <2>2. CASE GoTo(c, "addMessage")
    <3>1. frame[c].destination \in Channel
      BY <1>2, <2>2 DEF sendHendel, GoTo, Reply, Frame
    <3>. QED
      BY <1>1, <2>2, <3>1 DEF GoTo, ThreadInv, LoginChecked,
         SubscriptionChecked, BroadcastState, ErrorPathState, ServingHasHandler
  <2>. QED
    BY <1>2, <2>1, <2>2 DEF sendHendel
<1>3. CASE storeMessage(c)
  <2>1. SendChannel(c) \in Channel
    BY <1>3, ServerAssumption DEF ThreadInv, BroadcastState, storeMessage,
       SendChannel
  <2>2. iter'[c].channel = SendChannel(c)
    BY <1>3 DEF storeMessage, Iterator
  <2>. QED
    BY <1>1, <1>3, <2>1, <2>2 DEF storeMessage, GoTo, ThreadInv, LoginChecked,
       SubscriptionChecked, BroadcastState, ErrorPathState, ServingHasHandler
<1>4. CASE getSubscribers(c)
  <2>1. iter'[c].channel = iter[c].channel
    BY <1>4 DEF getSubscribers, Iterator
  <2>. QED
    BY <1>1, <1>4, <2>1 DEF getSubscribers, GoTo, ThreadInv, LoginChecked,
       SubscriptionChecked, BroadcastState, ErrorPathState, ServingHasHandler
<1>5. CASE nextSubscriber(c)
  <2>1. CASE Crash(c)
    BY <2>1, CrashInv
  <2>2. CASE ~Crash(c)
    <3>1. PICK d \in idToHendler :
            /\ iter' = [iter EXCEPT ![c].target = d, ![c].done = @ \cup {d}]
            /\ GoTo(c, "write")
      BY <1>5, <2>2 DEF nextSubscriber
    <3>2. d \in Conn
      BY DEF NetTypeOK
    <3>3. iter'[c].channel = iter[c].channel /\ iter'[c].target = d
      BY <3>1 DEF Iterator
    <3>. QED
      BY <1>1, <1>5, <3>1, <3>2, <3>3 DEF nextSubscriber, GoTo, ThreadInv,
         LoginChecked, SubscriptionChecked, BroadcastState, ErrorPathState,
         ServingHasHandler
  <2>. QED
    BY <2>1, <2>2
<1>6. CASE concurrentModification(c)
  BY <1>6, CrashInv DEF concurrentModification
<1>7. CASE deliver(c)
  <2>1. iter'[c].channel = iter[c].channel
    BY <1>7 DEF deliver, Iterator
  <2>. QED
    BY <1>1, <1>7, <2>1 DEF deliver, GoTo, ThreadInv, LoginChecked,
       SubscriptionChecked, BroadcastState, ErrorPathState, ServingHasHandler
<1>8. CASE endBroadcast(c)
  BY <1>1, <1>8, BackToLoopInv DEF endBroadcast
<1>. QED
  BY <1>2, <1>3, <1>4, <1>5, <1>6, <1>7, <1>8

LEMMA SubscriptionStepsInv ==
  ASSUME IInv, NEW c \in Conn,
         \/ subscribeHendel(c) \/ addSubscription(c)
         \/ unsubscribeHendel(c) \/ removeSubscription(c)
         \/ disconnectHendel(c)
  PROVE  ThreadInv(c)'
<1>. TypeOK /\ ThreadInv(c)
  BY DEF IInv
<1>. DbTypeOK
  BY DEF TypeOK
<1>1. CASE Crash(c)
  BY <1>1, CrashInv
<1>2. CASE ~Crash(c)
  <2>1. c \in idToHendler'
    BY <1>2 DEF ThreadInv, ServingHasHandler, subscribeHendel, addSubscription,
       unsubscribeHendel, removeSubscription, disconnectHendel, netVars
  <2>2. CASE \E r : Reply(c, r)
    BY <2>1, <2>2, ReplyInv
  <2>3. CASE GoTo(c, "addSubscription")
    <3>1. subscribeHendel(c)
      BY <2>3 DEF subscribeHendel, addSubscription, unsubscribeHendel,
         removeSubscription, disconnectHendel, GoTo, Reply, Crash, TypeOK,
         ThreadTypeOK
    <3>2. /\ frame[c].destination # Null /\ frame[c].id # Null
          /\ frame[c].id # NotANumber
          /\ UNCHANGED dbVars
      BY <1>2, <2>3, <3>1 DEF subscribeHendel, GoTo, Reply, TypeOK, ThreadTypeOK
    <3>3. PICK subID \in getSubscriptionIDForChannel(frame[c].destination, c) :
            ~isSubscribersForChannel(subID)
      BY <1>2, <2>3, <3>1 DEF subscribeHendel, GoTo, Reply, TypeOK, ThreadTypeOK
    <3>4. frame[c].destination \in Channel /\ frame[c].id \in SubId
      BY <3>2 DEF TypeOK, ThreadTypeOK, Frame
    <3>5. NeverMinusOne(c) => frame[c].destination \notin SubscribedChannels(c)
      BY <3>3, <3>4, IsSubscriber DEF IInv, MinusOneIsNoId
    <3>6. SubscribedChannels(c)' = SubscribedChannels(c)
      BY <3>2, SameDetails DEF dbVars
    <3>. QED
      BY <2>1, <2>3, <3>4, <3>5, <3>6 DEF GoTo, TypeOK, ThreadTypeOK, ThreadInv,
         LoginChecked, SubscriptionChecked, BroadcastState, ErrorPathState,
         ServingHasHandler, NeverMinusOne
  <2>4. CASE GoTo(c, "removeSubscription")
    <3>1. unsubscribeHendel(c)
      BY <2>4 DEF subscribeHendel, addSubscription, unsubscribeHendel,
         removeSubscription, disconnectHendel, GoTo, Reply, Crash, TypeOK,
         ThreadTypeOK
    <3>2. /\ frame[c].id \in SubId /\ isValidID(frame[c].id, c)
          /\ UNCHANGED dbVars
      BY <1>2, <2>4, <3>1 DEF unsubscribeHendel, GoTo, Reply, TypeOK, ThreadTypeOK
    <3>3. Details(c)' = Details(c)
      BY <3>2, SameDetails DEF dbVars
    <3>. QED
      BY <2>1, <2>4, <3>2, <3>3 DEF GoTo, TypeOK, ThreadTypeOK, ThreadInv,
         LoginChecked, SubscriptionChecked, BroadcastState, ErrorPathState,
         ServingHasHandler, isValidID
  <2>. QED
    BY <1>2, <2>2, <2>3, <2>4 DEF subscribeHendel, addSubscription,
       unsubscribeHendel, removeSubscription, disconnectHendel
<1>. QED
  BY <1>1, <1>2

LEMMA AnswerStepsInv ==
  ASSUME IInv, NEW c \in Conn,
         \/ sendRespond(c) \/ disconnectUser(c) \/ removeHandler(c)
         \/ terminate(c) \/ waitForWriteLock(c)
  PROVE  ThreadInv(c)'
<1>. TypeOK /\ ThreadInv(c)
  BY DEF IInv
<1>. USE DEF TypeOK, ThreadTypeOK
<1>1. CASE sendRespond(c)
  <2>1. CASE Crash(c)
    BY <2>1, CrashInv
  <2>2. CASE ~Crash(c)
    <3>1. c \in idToHendler'
      BY <1>1, <2>2 DEF sendRespond, handlerSend
    <3>2. CASE BackToLoop(c)
      BY <3>1, <3>2, BackToLoopInv
    <3>3. CASE GoTo(c, ErrorPath(frame[c]).respond)
      BY <3>1, <3>3 DEF ErrorPath, GoTo, ThreadInv, LoginChecked,
         SubscriptionChecked, BroadcastState, ErrorPathState, ServingHasHandler
    <3>. QED
      BY <1>1, <2>2, <3>2, <3>3 DEF sendRespond
  <2>. QED
    BY <2>1, <2>2
<1>2. CASE disconnectUser(c)
  <2>1. subscriptionsDetails'[c] = Null
    BY <1>2 DEF disconnectUser, dbDisconnect, DbTypeOK
  <2>2. ErrorPath(frame[c]).dbDisconnect = "removeHandler"
    BY <1>2 DEF disconnectUser, ThreadInv, ErrorPathState, ErrorPath
  <2>. QED
    BY <1>2, <2>1, <2>2 DEF disconnectUser, netVars, GoTo, ThreadInv,
       LoginChecked, SubscriptionChecked, BroadcastState, ErrorPathState,
       ServingHasHandler
<1>3. CASE removeHandler(c)
  <2>1. \/ /\ ErrorPath(frame[c]).removeHandler = "terminate"
           /\ frame[c].commend # "SEND"
        \/ ErrorPath(frame[c]).removeHandler = "loop" /\ isTerminate[c]
    BY <1>3 DEF removeHandler, ThreadInv, ErrorPathState, ErrorPath
  <2>. QED
    BY <1>3, <2>1 DEF removeHandler, GoTo, ThreadInv, LoginChecked,
       SubscriptionChecked, BroadcastState, ErrorPathState, ServingHasHandler
<1>4. CASE terminate(c)
  <2>1. isTerminate'[c]
    BY <1>4 DEF terminate, NetTypeOK
  <2>2. \/ ErrorPath(frame[c]).terminate = "loop"
        \/ /\ ErrorPath(frame[c]).terminate = "dbDisconnect"
           /\ frame[c].commend = "SEND"
    BY DEF ErrorPath
  <2>. QED
    BY <1>4, <2>1, <2>2 DEF terminate, GoTo, ThreadInv, LoginChecked,
       SubscriptionChecked, BroadcastState, ErrorPathState, ServingHasHandler
<1>5. CASE waitForWriteLock(c)
  <2>1. SameThread(c) /\ SameSession(c)
    BY <1>5 DEF waitForWriteLock, queueForWriteLock, threadVars, netVars, dbVars,
       SameThread, SameSession
  <2>. QED
    BY <2>1, SameInv
<1>. QED
  BY <1>1, <1>2, <1>3, <1>4, <1>5

LEMMA ConnectionStepsInv ==
  ASSUME IInv, NEW c \in Conn,
         ReadFrame(c) \/ Eof(c) \/ decodeFails(c) \/ ExitLoop(c)
  PROVE  ThreadInv(c)'
<1>. TypeOK /\ ThreadInv(c)
  BY DEF IInv
<1>. USE DEF TypeOK, ThreadTypeOK
<1>1. CASE ReadFrame(c)
  <2>1. c \in idToHendler'
    BY <1>1 DEF ReadFrame, ThreadInv, ServingHasHandler, netVars
  <2>2. pc'[c] \in Commend \cup {"respond"}
    BY <1>1 DEF ReadFrame
  <2>. QED
    BY <2>1, <2>2 DEF Commend, ThreadInv, LoginChecked, SubscriptionChecked,
       BroadcastState, ErrorPathState, ServingHasHandler
<1>2. CASE Eof(c) \/ ExitLoop(c)
  BY <1>2 DEF Eof, ExitLoop, Close, GoTo, ThreadInv, LoginChecked,
     SubscriptionChecked, BroadcastState, ErrorPathState, ServingHasHandler
<1>3. CASE decodeFails(c)
  BY <1>3, CrashInv DEF decodeFails
<1>. QED
  BY <1>1, <1>2, <1>3

LEMMA AcceptInv ==
  ASSUME IInv, Accept, NEW d \in Conn
  PROVE  ThreadInv(d)'
<1>. TypeOK /\ ThreadInv(d)
  BY DEF IInv
<1>1. CASE d = connectionsIdCuonter
  BY <1>1 DEF Accept, GoTo, TypeOK, ThreadTypeOK, ThreadInv, LoginChecked,
     SubscriptionChecked, BroadcastState, ErrorPathState, ServingHasHandler
<1>2. CASE d # connectionsIdCuonter
  <2>1. SameThread(d) /\ SameSession(d)
    BY <1>2 DEF Accept, GoTo, TypeOK, ThreadTypeOK, dbVars, SameThread, SameSession
  <2>. QED
    BY <2>1, SameInv
<1>. QED
  BY <1>1, <1>2

LEMMA ThreadNext ==
  ASSUME IInv, TypeOK', [Next]_vars, NEW d \in Conn
  PROVE  ThreadInv(d)'
<1>. TypeOK /\ ThreadInv(d)
  BY DEF IInv
<1>1. CASE UNCHANGED vars
  <2>1. SameThread(d) /\ SameSession(d)
    BY <1>1 DEF vars, dbVars, netVars, threadVars, SameThread, SameSession
  <2>. QED
    BY <2>1, SameInv
<1>2. ASSUME NEW c \in Conn, Step(c) \/ ReadFrame(c) \/ Eof(c) \/ decodeFails(c)
      PROVE  ThreadInv(d)'
  <2>1. CASE d = c
    BY <1>2, <2>1, LoginStepsInv, SendStepsInv, SubscriptionStepsInv,
       AnswerStepsInv, ConnectionStepsInv DEF Step
  <2>2. CASE d # c
    BY <1>2, <2>2, OtherThreads, OtherSessions, SameInv
  <2>. QED
    BY <2>1, <2>2
<1>. QED
  BY <1>1, <1>2, AcceptInv DEF Next, AllGone

-----------------------------------------------------------------------------
(* The two indexes of the database and ConnectionsImpl stay in step.        *)

IndexInv ==
  /\ OneIdPerChannel
  /\ SubscriptionsAreBroadcastTo
  /\ SubscribedHasHandler

LEMMA AddSubscriptionIndex ==
  ASSUME IInv, TypeOK', NEW c \in Conn, addSubscription(c)
  PROVE  IndexInv'
<1>. DEFINE ch == frame[c].destination
            id == frame[c].id
<1>. TypeOK /\ IndexInv /\ ThreadInv(c) /\ DbTypeOK
  BY DEF IInv, IndexInv, TypeOK
<1>1. /\ ch \in Channel /\ id \in SubId
      /\ NeverMinusOne(c) => ch \notin SubscribedChannels(c)
  BY DEF addSubscription, ThreadInv, SubscriptionChecked
<1>2. addChannelSubscription(ch, c, id)
  BY DEF addSubscription
<1>3. \A d \in Conn : Details(d) \in [SubId -> Channel \cup {Null}]
  BY DetailsType
<1>4. Details(c)' = [Details(c) EXCEPT ![id] = ch]
  <2>1. [Details(c) EXCEPT ![id] = ch] # Null
    BY <1>1, <1>3, DataBaseAssumption
  <2>. QED
    BY <1>2, <2>1 DEF addChannelSubscription, DbTypeOK, Details
<1>5. \A d \in Conn : d # c => Details(d)' = Details(d)
  BY <1>2 DEF addChannelSubscription, DbTypeOK, Details
<1>6. NeverMinusOne(c) => \A i \in SubId : Details(c)[i] # ch
  BY <1>1, SubscribedChannelsType
<1>7. channels' = [channels EXCEPT ![ch] = @ \cup {c}] /\ idToHendler' = idToHendler
  BY <1>2 DEF addChannelSubscription, addSubscription, netVars
<1>. HIDE DEF ch, id
<1>8. OneIdPerChannel'
  BY <1>1, <1>3, <1>4, <1>5, <1>6 DEF IndexInv, OneIdPerChannel
<1>9. SubscriptionsAreBroadcastTo'
  BY <1>1, <1>3, <1>4, <1>5, <1>7
  DEF IndexInv, SubscriptionsAreBroadcastTo, DbTypeOK
<1>10. SubscribedHasHandler'
  <2>1. c \in idToHendler
    BY DEF addSubscription, ThreadInv, ServingHasHandler
  <2>2. \A d \in Conn : d # c => SubscribedChannels(d)' = SubscribedChannels(d)
    BY <1>5 DEF SubscribedChannels
  <2>. QED
    BY <1>7, <2>1, <2>2 DEF IndexInv, SubscribedHasHandler
<1>. QED
  BY <1>8, <1>9, <1>10 DEF IndexInv

LEMMA RemoveSubscriptionIndex ==
  ASSUME IInv, TypeOK', NEW c \in Conn, removeSubscription(c)
  PROVE  IndexInv'
<1>. DEFINE id == frame[c].id
            ch == Details(c)[id]
<1>. TypeOK /\ IndexInv /\ ThreadInv(c) /\ DbTypeOK
  BY DEF IInv, IndexInv, TypeOK
<1>1. \A d \in Conn : Details(d) \in [SubId -> Channel \cup {Null}]
  BY DetailsType
<1>2. id \in SubId /\ ch \in Channel
  BY <1>1 DEF removeSubscription, ThreadInv, SubscriptionChecked
<1>3. removeChannelSubscription(ch, c, id)
  BY DEF removeSubscription
<1>4. Details(c)' = [Details(c) EXCEPT ![id] = Null]
  <2>1. [Details(c) EXCEPT ![id] = Null] # Null
    BY <1>1, <1>2, DataBaseAssumption
  <2>. QED
    BY <1>3, <2>1 DEF removeChannelSubscription, DbTypeOK, Details
<1>5. \A d \in Conn : d # c => Details(d)' = Details(d)
  BY <1>3 DEF removeChannelSubscription, DbTypeOK, Details
<1>6. NeverMinusOne(c) => \A i \in SubId : i # id => Details(c)[i] # ch
  BY <1>2, DataBaseAssumption DEF IndexInv, OneIdPerChannel
<1>7. channels' = [channels EXCEPT ![ch] = @ \ {c}] /\ idToHendler' = idToHendler
  BY <1>3 DEF removeChannelSubscription, removeSubscription, netVars
<1>. HIDE DEF ch, id
<1>8. OneIdPerChannel'
  BY <1>1, <1>2, <1>4, <1>5 DEF IndexInv, OneIdPerChannel
<1>9. SubscriptionsAreBroadcastTo'
  BY <1>1, <1>2, <1>4, <1>5, <1>6, <1>7
  DEF IndexInv, SubscriptionsAreBroadcastTo, DbTypeOK
<1>10. SubscribedHasHandler'
  <2>1. c \in idToHendler
    BY DEF removeSubscription, ThreadInv, ServingHasHandler
  <2>2. \A d \in Conn : d # c => SubscribedChannels(d)' = SubscribedChannels(d)
    BY <1>5 DEF SubscribedChannels
  <2>. QED
    BY <1>7, <2>1, <2>2 DEF IndexInv, SubscribedHasHandler
<1>. QED
  BY <1>8, <1>9, <1>10 DEF IndexInv

LEMMA DisconnectIndex ==
  ASSUME IInv, TypeOK', NEW c \in Conn, dbDisconnect(c), UNCHANGED idToHendler
  PROVE  IndexInv'
<1>. TypeOK /\ IndexInv /\ DbTypeOK
  BY DEF IInv, IndexInv, TypeOK
<1>1. \A i \in SubId : Details(c)'[i] = Null
  BY DEF dbDisconnect, DbTypeOK, Details, NoDetails
<1>2. \A d \in Conn : d # c => Details(d)' = Details(d)
  BY DEF dbDisconnect, DbTypeOK, Details
<1>3. \A ch \in Channel : channels[ch] \ {c} \subseteq channels'[ch]
  BY DEF dbDisconnect, ChannelsWithout
<1>4. \A d \in Conn : Details(d) \in [SubId -> Channel \cup {Null}]
  BY DetailsType
<1>5. OneIdPerChannel'
  BY <1>1, <1>2 DEF IndexInv, OneIdPerChannel
<1>6. SubscriptionsAreBroadcastTo'
  BY <1>1, <1>2, <1>3, <1>4 DEF IndexInv, SubscriptionsAreBroadcastTo
<1>7. SubscribedHasHandler'
  <2>1. SubscribedChannels(c)' = {}
    BY <1>1 DEF SubscribedChannels
  <2>2. \A d \in Conn : d # c => SubscribedChannels(d)' = SubscribedChannels(d)
    BY <1>2 DEF SubscribedChannels
  <2>. QED
    BY <2>1, <2>2 DEF IndexInv, SubscribedHasHandler
<1>. QED
  BY <1>5, <1>6, <1>7 DEF IndexInv

LEMMA SameIndex ==
  ASSUME IndexInv, UNCHANGED <<channels, subscriptionsDetails>>,
         \A d \in Conn : SubscribedChannels(d) # {} /\ d \in idToHendler
                         => d \in idToHendler'
  PROVE  IndexInv'
BY SameDetails DEF IndexInv, OneIdPerChannel, SubscriptionsAreBroadcastTo,
   SubscribedHasHandler

LEMMA IndexNext ==
  ASSUME IInv, TypeOK', [Next]_vars
  PROVE  IndexInv'
<1>. IndexInv
  BY DEF IInv, IndexInv
<1>1. CASE UNCHANGED vars \/ Accept
  BY <1>1, SameIndex DEF vars, dbVars, netVars, Accept
<1>2. ASSUME NEW c \in Conn, ReadFrame(c) \/ Eof(c) \/ decodeFails(c)
      PROVE  IndexInv'
  BY <1>2, SameIndex DEF ReadFrame, Eof, decodeFails, Close, Crash, dbVars, netVars
<1>3. ASSUME NEW c \in Conn, Step(c)
      PROVE  IndexInv'
  <2>1. CASE addSubscription(c)
    BY <2>1, AddSubscriptionIndex
  <2>2. CASE removeSubscription(c)
    BY <2>2, RemoveSubscriptionIndex
  <2>3. CASE dbDisconnect(c) /\ (disconnectHendel(c) \/ disconnectUser(c))
    BY <2>3, DisconnectIndex DEF disconnectHendel, disconnectUser, netVars
  <2>4. CASE removeHandler(c)
    <3>1. SubscribedChannels(c) = {}
      BY <2>4 DEF IInv, ThreadInv, ErrorPathState, removeHandler,
         SubscribedChannels, Details, NoDetails
    <3>. QED
      BY <2>4, <3>1, SameIndex DEF removeHandler, dbVars
  <2>5. CASE /\ UNCHANGED <<channels, subscriptionsDetails>>
             /\ UNCHANGED idToHendler
    BY <2>5, SameIndex
  <2>6. CASE \/ connectHendel(c) \/ getPasswordForUser(c) \/ addUser(c)
             \/ checkPassword(c) \/ setConnected(c)
             \/ sendHendel(c) \/ storeMessage(c) \/ getSubscribers(c)
             \/ terminate(c) \/ waitForWriteLock(c) \/ ExitLoop(c)
    BY <2>5, <2>6 DEF connectHendel, getPasswordForUser, addUser,
       addOrUpdateUser, checkPassword, setConnected, setNewConnected,
       sendHendel, storeMessage, addMessage, getSubscribers, terminate,
       waitForWriteLock, queueForWriteLock, ExitLoop, Close, dbVars, netVars
  <2>7. CASE \/ nextSubscriber(c) \/ concurrentModification(c) \/ deliver(c)
             \/ endBroadcast(c) \/ subscribeHendel(c) \/ unsubscribeHendel(c)
             \/ sendRespond(c)
    BY <2>5, <2>7 DEF nextSubscriber, concurrentModification, deliver,
       handlerSend, endBroadcast, subscribeHendel, unsubscribeHendel,
       leakReadLock, sendRespond, Crash, dbVars, netVars
  <2>8. CASE \/ disconnectHendel(c) /\ ~dbDisconnect(c)
             \/ disconnectUser(c) /\ ~dbDisconnect(c)
    BY <2>5, <2>8 DEF disconnectHendel, disconnectUser, dbVars, netVars
  <2>. QED
    BY <1>3, <2>1, <2>2, <2>3, <2>4, <2>6, <2>7, <2>8 DEF Step
<1>. QED
  BY <1>1, <1>2, <1>3 DEF Next, AllGone

-----------------------------------------------------------------------------
(* What a connection has comes from the frames of its client.               *)

LEMMA FrameOrigin ==
  ASSUME TypeOK, [Next]_vars, NEW d \in Conn
  PROVE  frame'[d] \in {frame[d], NoFrame} \cup Frames[d]
<1>. ThreadTypeOK
  BY DEF TypeOK
<1>1. CASE UNCHANGED vars \/ Accept
  BY <1>1 DEF vars, threadVars, Accept, GoTo
<1>2. ASSUME NEW c \in Conn, Step(c) \/ ReadFrame(c) \/ Eof(c) \/ decodeFails(c)
      PROVE  frame'[d] \in {frame[d], NoFrame} \cup Frames[d]
  <2>1. CASE d # c
    BY <1>2, <2>1, OtherThreads DEF SameThread
  <2>2. CASE ReadFrame(d) /\ d = c
    BY <2>2 DEF ReadFrame, ThreadTypeOK
  <2>3. CASE UNCHANGED frame \/ BackToLoop(c)
    BY <2>3 DEF BackToLoop, ThreadTypeOK
  <2>4. UNCHANGED frame \/ BackToLoop(c) \/ ReadFrame(c)
    BY <1>2 DEF Step, connectHendel, getPasswordForUser, addUser, checkPassword,
       setConnected, sendHendel, storeMessage, getSubscribers, nextSubscriber,
       concurrentModification, deliver, endBroadcast, subscribeHendel,
       addSubscription, unsubscribeHendel, removeSubscription, disconnectHendel,
       sendRespond, disconnectUser, removeHandler, terminate, waitForWriteLock,
       Eof, decodeFails, ExitLoop, Close, GoTo, Reply, Crash, threadVars
  <2>. QED
    BY <2>1, <2>2, <2>3, <2>4
<1>. QED
  BY <1>1, <1>2 DEF Next, AllGone

(* A subscription that is new has the id of a frame.                        *)
LEMMA DetailsOrigin ==
  ASSUME IInv, [Next]_vars, NEW d \in Conn, NEW i \in SubId, Details(d)'[i] # Null
  PROVE  Details(d)[i] # Null \/ i = frame[d].id
<1>. TypeOK /\ DbTypeOK
  BY DEF IInv, TypeOK
<1>1. \A e \in Conn : Details(e) \in [SubId -> Channel \cup {Null}]
  BY DetailsType
<1>2. CASE subscriptionsDetails' = subscriptionsDetails
  BY <1>2 DEF Details
<1>3. ASSUME NEW c \in Conn, addSubscription(c) \/ removeSubscription(c)
      PROVE  Details(d)[i] # Null \/ i = frame[d].id
  <2>1. CASE d = c /\ addSubscription(c)
    <3>1. subscriptionsDetails'[c]
            = [Details(c) EXCEPT ![frame[c].id] = frame[c].destination]
      BY <2>1 DEF addSubscription, addChannelSubscription, DbTypeOK
    <3>. QED
      BY <1>1, <2>1, <3>1 DEF Details, NoDetails
  <2>2. CASE d = c /\ removeSubscription(c)
    <3>1. subscriptionsDetails'[c] = [Details(c) EXCEPT ![frame[c].id] = Null]
      BY <2>2 DEF removeSubscription, removeChannelSubscription, DbTypeOK
    <3>. QED
      BY <1>1, <2>2, <3>1 DEF Details, NoDetails
  <2>3. CASE d # c
    BY <1>3, <2>3
    DEF addSubscription, addChannelSubscription, removeSubscription,
        removeChannelSubscription, DbTypeOK, Details
  <2>. QED
    BY <1>3, <2>1, <2>3, <2>2
<1>4. ASSUME NEW c \in Conn, dbDisconnect(c)
      PROVE  Details(d)[i] # Null
  BY <1>4 DEF dbDisconnect, DbTypeOK, Details, NoDetails
<1>5. ASSUME NEW c \in Conn, Step(c)
      PROVE  \/ subscriptionsDetails' = subscriptionsDetails \/ dbDisconnect(c)
             \/ addSubscription(c) \/ removeSubscription(c)
  BY <1>5 DEF Step, connectHendel, getPasswordForUser, addUser, addOrUpdateUser,
     checkPassword, setConnected, setNewConnected, sendHendel, storeMessage,
     addMessage, getSubscribers, nextSubscriber, concurrentModification, deliver,
     endBroadcast, subscribeHendel, unsubscribeHendel, leakReadLock,
     disconnectHendel, sendRespond, disconnectUser, removeHandler, terminate,
     waitForWriteLock, queueForWriteLock, ExitLoop, Close, dbVars
<1>6. CASE \/ UNCHANGED vars \/ Accept
           \/ \E c \in Conn : ReadFrame(c) \/ Eof(c) \/ decodeFails(c)
  BY <1>2, <1>6 DEF vars, dbVars, Accept, ReadFrame, Eof, decodeFails, Close
<1>. QED
  BY <1>2, <1>3, <1>4, <1>5, <1>6 DEF Next, AllGone

LEMMA MinusOneNext ==
  ASSUME IInv, [Next]_vars, NEW d \in Conn
  PROVE  MinusOneIsNoId(d)'
<1>. TypeOK /\ MinusOneIsNoId(d)
  BY DEF IInv
<1>1. frame'[d] \in Frames[d] \cup {NoFrame}
  BY FrameOrigin DEF MinusOneIsNoId
<1>2. ASSUME NeverMinusOne(d), NEW i \in SubId, Details(d)'[i] # Null
      PROVE  i # -1
  <2>1. CASE Details(d)[i] # Null
    BY <1>2, <2>1 DEF MinusOneIsNoId
  <2>2. CASE i = frame[d].id
    <3>1. frame[d] # NoFrame
      BY <2>2, DataBaseAssumption DEF NoFrame
    <3>. QED
      BY <1>2, <2>2, <3>1 DEF MinusOneIsNoId, NeverMinusOne
  <2>. QED
    BY <1>2, <2>1, <2>2, DetailsOrigin
<1>. QED
  BY <1>1, <1>2 DEF MinusOneIsNoId, NeverMinusOne

-----------------------------------------------------------------------------
LEMMA InvariantInit ==
  ASSUME Init
  PROVE  IInv
<1>1. TypeOK
  BY TypeInit
<1>2. ASSUME NEW c \in Conn
      PROVE  /\ ThreadInv(c)
             /\ frame[c] = NoFrame
             /\ \A i \in SubId : Details(c)[i] = Null
             /\ SubscribedChannels(c) = {}
  BY DEF Init, DbInit, Details, NoDetails, SubscribedChannels, ThreadInv,
     LoginChecked, SubscriptionChecked, BroadcastState, ErrorPathState,
     ServingHasHandler
<1>. QED
  BY <1>1, <1>2 DEF IInv, OneIdPerChannel, SubscriptionsAreBroadcastTo,
     SubscribedHasHandler, MinusOneIsNoId

LEMMA InvariantNext ==
  ASSUME IInv, [Next]_vars
  PROVE  IInv'
BY TypeNext, ThreadNext, MinusOneNext, IndexNext DEF IInv, IndexInv

(* The invariant holds: initially no thread runs and nobody subscribed, and *)
(* the three groups of lemmas above are its steps.                          *)
THEOREM Invariance == Spec => []IInv
<1>1. Init => IInv
  BY InvariantInit
<1>2. IInv /\ [Next]_vars => IInv'
  BY InvariantNext
<1>. QED
  BY <1>1, <1>2, PTL DEF Spec

(* Type correctness, for every number of connections and every set of       *)
(* frames: no field of the server ever holds a value of another type.       *)
THEOREM TypeCorrect == Spec => []TypeOK
BY Invariance, PTL DEF IInv

(* A connection whose client never chooses the id -1 never has two ids for  *)
(* one channel, although the check of subscribeHendel and its effect are    *)
(* two steps, and whatever ids the other clients choose.                    *)
THEOREM UniqueIds == Spec => []OneIdPerChannel
BY Invariance, PTL DEF IInv

(* Every subscription of such a client is in the set its channel is         *)
(* broadcast to, also when the client uses an id for two channels.          *)
THEOREM SubscribersAreReached == Spec => []SubscriptionsAreBroadcastTo
BY Invariance, PTL DEF IInv

(* No subscription is left behind by a connection whose handler is gone:    *)
(* the lookup in ConnectionsImpl.send can fail for a stale element only.    *)
THEOREM NoOrphanedSubscription == Spec => []SubscribedHasHandler
BY Invariance, PTL DEF IInv

-----------------------------------------------------------------------------
(* ERROR ends a session.                                                    *)

(* What handlerSend writes: only to its target, only at the end.            *)
LEMMA SendEffect ==
  ASSUME TypeOK, NEW c \in Conn, NEW d \in Conn, NEW m \in OutFrame,
         handlerSend(c, d, m)
  PROVE  /\ \A e \in Conn \ {d} : outbox'[e] = outbox[e]
         /\ \/ outbox'[d] = outbox[d]
            \/ outbox'[d] = Append(outbox[d], m)
         /\ m.commend # "ERROR" => \A e \in Conn : HasError(e)' <=> HasError(e)
<1>1. outbox \in [Conn -> Seq(OutFrame)]
  BY DEF TypeOK, NetTypeOK
<1>2. \A e \in Conn \ {d} : outbox'[e] = outbox[e]
  BY <1>1 DEF handlerSend
<1>3. \/ outbox'[d] = outbox[d]
      \/ outbox'[d] = Append(outbox[d], m)
  BY <1>1 DEF handlerSend
<1>4. ASSUME m.commend # "ERROR"
      PROVE  HasError(d)' <=> HasError(d)
  <2>1. outbox[d] \in Seq(OutFrame)
    BY <1>1
  <2>2. \A k \in DOMAIN outbox[d] : Append(outbox[d], m)[k] = outbox[d][k]
    BY <2>1
  <2>3. \A k \in DOMAIN Append(outbox[d], m) :
          k \in DOMAIN outbox[d] \/ Append(outbox[d], m)[k] = m
    BY <2>1
  <2>4. DOMAIN outbox[d] \subseteq DOMAIN Append(outbox[d], m)
    BY <2>1
  <2>. QED
    BY <1>3, <1>4, <2>2, <2>3, <2>4 DEF HasError
<1>. QED
  BY <1>2, <1>3, <1>4 DEF HasError

(* Frames are sent by deliver and sendRespond only.                         *)
LEMMA WhoSends ==
  ASSUME [Next]_vars
  PROVE  \/ UNCHANGED outbox
         \/ \E c \in Conn : deliver(c) \/ sendRespond(c)
<1>1. CASE Accept \/ AllGone \/ UNCHANGED vars
  BY <1>1 DEF Accept, AllGone, vars, netVars
<1>2. ASSUME NEW c \in Conn,
             \/ ReadFrame(c) \/ Eof(c) \/ decodeFails(c) \/ ExitLoop(c)
             \/ connectHendel(c) \/ getPasswordForUser(c) \/ addUser(c)
             \/ checkPassword(c) \/ setConnected(c)
      PROVE  UNCHANGED outbox
  BY <1>2 DEF ReadFrame, Eof, decodeFails, ExitLoop, Close, Crash, connectHendel,
     getPasswordForUser, addUser, checkPassword, setConnected, netVars
<1>3. ASSUME NEW c \in Conn,
             \/ sendHendel(c) \/ storeMessage(c) \/ getSubscribers(c)
             \/ nextSubscriber(c) \/ concurrentModification(c)
             \/ endBroadcast(c)
      PROVE  UNCHANGED outbox
  BY <1>3 DEF sendHendel, storeMessage, getSubscribers, nextSubscriber,
     concurrentModification, endBroadcast, Crash, netVars
<1>4. ASSUME NEW c \in Conn,
             \/ subscribeHendel(c) \/ addSubscription(c)
             \/ unsubscribeHendel(c) \/ removeSubscription(c)
             \/ disconnectHendel(c) \/ waitForWriteLock(c)
      PROVE  UNCHANGED outbox
  BY <1>4 DEF subscribeHendel, addSubscription, unsubscribeHendel,
     removeSubscription, disconnectHendel, waitForWriteLock, Crash, netVars
<1>5. ASSUME NEW c \in Conn,
             disconnectUser(c) \/ removeHandler(c) \/ terminate(c)
      PROVE  UNCHANGED outbox
  BY <1>5 DEF disconnectUser, removeHandler, terminate, netVars
<1>. QED
  BY <1>1, <1>2, <1>3, <1>4, <1>5 DEF Next, Step

(* Only its own thread sends an ERROR to a connection, and it does so from  *)
(* sendRespond.                                                             *)
LEMMA ErrorComesFromSendRespond ==
  ASSUME IInv, [Next]_vars, NEW d \in Conn, HasError(d)', ~HasError(d)
  PROVE  /\ sendRespond(d) /\ respond[d] = "ERROR"
         /\ GoTo(d, ErrorPath(frame[d]).respond)
<1>. TypeOK
  BY DEF IInv
<1>1. UNCHANGED outbox => FALSE
  BY DEF HasError
<1>2. PICK c \in Conn : deliver(c) \/ sendRespond(c)
  BY <1>1, WhoSends
<1>3. CASE deliver(c)
  <2>1. iter[c].target \in Conn /\ iter[c].id \in Nat
    BY <1>3 DEF deliver, IInv, ThreadInv, BroadcastState, TypeOK, ThreadTypeOK,
       Iterator
  <2>2. [commend |-> "MESSAGE", id |-> iter[c].id] \in OutFrame
    BY <2>1 DEF OutFrame
  <2>. QED
    BY <1>3, <2>1, <2>2, SendEffect DEF deliver
<1>4. CASE sendRespond(c)
  <2>1. c \in idToHendler /\ respond[c] # Null
    BY <1>1, <1>4 DEF sendRespond, Crash
  <2>2. respond[c] \in Respond
    BY <2>1 DEF TypeOK, ThreadTypeOK
  <2>3. [commend |-> respond[c], id |-> 0] \in OutFrame
    BY <2>2 DEF OutFrame
  <2>4. handlerSend(c, c, [commend |-> respond[c], id |-> 0])
    BY <1>4, <2>1 DEF sendRespond
  <2>5. d = c
    BY <2>3, <2>4, SendEffect DEF HasError
  <2>6. respond[d] = "ERROR"
    BY <2>3, <2>4, <2>5, SendEffect
  <2>. QED
    BY <1>4, <2>1, <2>5, <2>6 DEF sendRespond
<1>. QED
  BY <1>2, <1>3, <1>4

(* The steps that a thread after an ERROR still has in front of it.         *)
LEMMA StepsAfterError ==
  ASSUME TypeOK, AfterError, NEW c \in Conn, HasError(c),
         Step(c) \/ ReadFrame(c) \/ Eof(c) \/ decodeFails(c)
  PROVE  \/ disconnectUser(c) \/ removeHandler(c) \/ terminate(c)
         \/ waitForWriteLock(c) \/ ExitLoop(c)
BY DEF AfterError, Step, ReadFrame, Eof, decodeFails, connectHendel, getPasswordForUser,
   addUser, checkPassword, setConnected, sendHendel, storeMessage,
   getSubscribers, nextSubscriber, concurrentModification, deliver, endBroadcast,
   subscribeHendel, addSubscription, unsubscribeHendel, removeSubscription,
   disconnectHendel, sendRespond

LEMMA NotYetAcceptedNext ==
  ASSUME TypeOK, NotYetAccepted, [Next]_vars
  PROVE  NotYetAccepted'
<1>. ThreadTypeOK /\ NetTypeOK
  BY DEF TypeOK
<1>1. CASE UNCHANGED vars
  BY <1>1 DEF NotYetAccepted, vars, threadVars
<1>2. CASE Accept
  BY <1>2 DEF NotYetAccepted, Accept, GoTo, ThreadTypeOK, NetTypeOK
<1>3. ASSUME NEW c \in Conn, Step(c) \/ ReadFrame(c) \/ Eof(c) \/ decodeFails(c)
      PROVE  NotYetAccepted'
  <2>1. UNCHANGED connectionsIdCuonter
    BY <1>3 DEF Step, ReadFrame, Eof, decodeFails, ExitLoop, Close, connectHendel,
       getPasswordForUser, addUser, checkPassword, setConnected, sendHendel,
       storeMessage, getSubscribers, nextSubscriber, concurrentModification,
       deliver, endBroadcast, subscribeHendel, addSubscription,
       unsubscribeHendel, removeSubscription, disconnectHendel, sendRespond,
       disconnectUser, removeHandler, terminate, waitForWriteLock
  <2>2. pc[c] # "unborn"
    BY <1>3 DEF Step, ReadFrame, Eof, decodeFails, ExitLoop, connectHendel,
       getPasswordForUser, addUser, checkPassword, setConnected, sendHendel,
       storeMessage, getSubscribers, nextSubscriber, concurrentModification,
       deliver, endBroadcast, subscribeHendel, addSubscription,
       unsubscribeHendel, removeSubscription, disconnectHendel, sendRespond,
       disconnectUser, removeHandler, terminate, waitForWriteLock, NeedsWriteLock
  <2>3. \A d \in Conn : d # c => pc'[d] = pc[d]
    BY <1>3, OtherThreads DEF SameThread
  <2>. QED
    BY <2>1, <2>2, <2>3 DEF NotYetAccepted
<1>. QED
  BY <1>1, <1>2, <1>3 DEF Next, AllGone

LEMMA AfterErrorNext ==
  ASSUME IInv, AfterError, NotYetAccepted, [Next]_vars
  PROVE  AfterError'
<1>. SUFFICES ASSUME NEW d \in Conn, HasError(d)'
              PROVE  \/ pc'[d] \in {"terminate", "dbDisconnect",
                                    "removeHandler", "closed"}
                     \/ pc'[d] = "loop" /\ isTerminate'[d]
  BY DEF AfterError
<1>. TypeOK /\ ThreadInv(d) /\ ThreadTypeOK /\ NetTypeOK
  BY DEF IInv, TypeOK
<1>1. CASE ~HasError(d)
  <2>1. pc'[d] = ErrorPath(frame[d]).respond
    BY <1>1, ErrorComesFromSendRespond DEF GoTo, ThreadTypeOK
  <2>. QED
    BY <2>1 DEF ErrorPath
<1>2. CASE HasError(d)
  <2>1. CASE UNCHANGED vars
    BY <1>2, <2>1 DEF AfterError, vars, netVars, threadVars
  <2>2. CASE Accept
    <3>1. CASE d = connectionsIdCuonter
      BY <1>2, <3>1 DEF NotYetAccepted, AfterError, NetTypeOK
    <3>2. CASE d # connectionsIdCuonter
      BY <1>2, <2>2, <3>2 DEF Accept, GoTo, ThreadTypeOK, AfterError
    <3>. QED
      BY <3>1, <3>2
  <2>3. ASSUME NEW c \in Conn, c # d, Step(c) \/ ReadFrame(c) \/ Eof(c) \/ decodeFails(c)
        PROVE  pc'[d] = pc[d] /\ isTerminate'[d] = isTerminate[d]
    BY <2>3, OtherThreads, OtherSessions DEF SameThread, SameSession
  <2>4. ASSUME Step(d) \/ ReadFrame(d) \/ Eof(d) \/ decodeFails(d)
        PROVE  \/ pc'[d] \in {"terminate", "dbDisconnect", "removeHandler",
                              "closed"}
               \/ pc'[d] = "loop" /\ isTerminate'[d]
    <3>1. CASE disconnectUser(d) \/ removeHandler(d)
      BY <3>1 DEF disconnectUser, removeHandler, ThreadInv, ErrorPathState,
         ErrorPath, GoTo, ThreadTypeOK
    <3>2. CASE terminate(d)
      BY <3>2 DEF terminate, ErrorPath, GoTo, ThreadTypeOK, NetTypeOK
    <3>3. CASE waitForWriteLock(d)
      BY <1>2, <3>3 DEF AfterError, waitForWriteLock, threadVars, netVars
    <3>4. CASE ExitLoop(d)
      BY <3>4 DEF ExitLoop, Close, GoTo, ThreadTypeOK
    <3>. QED
      BY <1>2, <2>4, <3>1, <3>2, <3>3, <3>4, StepsAfterError
  <2>. QED
    BY <1>2, <2>1, <2>2, <2>3, <2>4 DEF Next, AllGone, AfterError
<1>. QED
  BY <1>1, <1>2

LEMMA ErrorInvariance == Spec => [](IInv /\ AfterError /\ NotYetAccepted)
<1>1. Init => AfterError /\ NotYetAccepted
  BY DEF Init, AfterError, HasError, NotYetAccepted
<1>2. IInv /\ AfterError /\ NotYetAccepted /\ [Next]_vars
      => AfterError' /\ NotYetAccepted'
  BY AfterErrorNext, NotYetAcceptedNext DEF IInv
<1>. QED
  BY <1>1, <1>2, Invariance, PTL DEF Spec

(* Other threads never enter a connection into a channel.                   *)
LEMMA OthersDoNotSubscribeMe ==
  ASSUME TypeOK, NEW c \in Conn,
         Step(c) \/ ReadFrame(c) \/ Eof(c) \/ decodeFails(c),
         NEW d \in Conn, d # c, NEW ch \in Channel, d \in channels'[ch]
  PROVE  d \in channels[ch]
<1>. DbTypeOK
  BY DEF TypeOK
<1>1. CASE addSubscription(c)
  BY <1>1 DEF addSubscription, addChannelSubscription, DbTypeOK
<1>2. CASE removeSubscription(c)
  BY <1>2 DEF removeSubscription, removeChannelSubscription, DbTypeOK
<1>3. CASE disconnectHendel(c) \/ disconnectUser(c)
  BY <1>3 DEF disconnectHendel, disconnectUser, dbDisconnect, ChannelsWithout,
     dbVars
<1>4. CASE UNCHANGED channels
  BY <1>4
<1>5. CASE \/ connectHendel(c) \/ getPasswordForUser(c) \/ addUser(c)
           \/ checkPassword(c) \/ setConnected(c) \/ sendHendel(c)
           \/ storeMessage(c) \/ getSubscribers(c) \/ nextSubscriber(c)
           \/ concurrentModification(c) \/ deliver(c) \/ endBroadcast(c)
           \/ subscribeHendel(c) \/ unsubscribeHendel(c) \/ sendRespond(c)
           \/ removeHandler(c) \/ terminate(c) \/ waitForWriteLock(c)
           \/ ExitLoop(c) \/ ReadFrame(c) \/ Eof(c) \/ decodeFails(c)
  BY <1>4, <1>5 DEF connectHendel, getPasswordForUser, addUser, addOrUpdateUser,
     checkPassword, setConnected, setNewConnected, sendHendel, storeMessage,
     addMessage, getSubscribers, nextSubscriber, concurrentModification, deliver,
     endBroadcast, subscribeHendel, unsubscribeHendel, leakReadLock, sendRespond,
     removeHandler, terminate, waitForWriteLock, queueForWriteLock, ExitLoop,
     Close, ReadFrame, Eof, decodeFails, dbVars
<1>. QED
  BY <1>1, <1>2, <1>3, <1>5 DEF Step

(* After its ERROR a connection gains no login, no subscription and no      *)
(* place in a channel: its thread only has the error path left (AfterError) *)
(* and the other threads leave its entries alone.                           *)
THEOREM NothingGainedAfterError == Spec => ErrorEndsTheSession
<1>. DEFINE Shrinks(c) ==
       /\ idToUser'[c] \in {idToUser[c], Null}
       /\ subscriptionsDetails'[c] \in {subscriptionsDetails[c], Null}
       /\ \A ch \in Channel : c \in channels'[ch] => c \in channels[ch]
<1>1. ASSUME IInv, AfterError, [Next]_vars, NEW c \in Conn, HasError(c)
      PROVE  Shrinks(c)
  <2>. TypeOK /\ DbTypeOK
    BY <1>1 DEF IInv, TypeOK
  <2>1. CASE UNCHANGED vars \/ Accept
    BY <2>1 DEF vars, Accept, dbVars
  <2>2. ASSUME NEW d \in Conn, d # c, Step(d) \/ ReadFrame(d) \/ Eof(d) \/ decodeFails(d)
        PROVE  Shrinks(c)
    BY <2>2, OtherSessions, OthersDoNotSubscribeMe DEF SameSession
  <2>3. ASSUME Step(c) \/ ReadFrame(c) \/ Eof(c) \/ decodeFails(c)
        PROVE  Shrinks(c)
    <3>1. CASE disconnectUser(c)
      BY <3>1 DEF disconnectUser, dbDisconnect, ChannelsWithout, DbTypeOK
    <3>2. CASE removeHandler(c) \/ terminate(c) \/ waitForWriteLock(c) \/ ExitLoop(c)
      BY <3>2 DEF removeHandler, terminate, waitForWriteLock, queueForWriteLock,
         ExitLoop, Close, dbVars
    <3>. QED
      BY <1>1, <2>3, <3>1, <3>2, StepsAfterError
  <2>. HIDE DEF Shrinks
  <2>. QED
    BY <1>1, <2>1, <2>2, <2>3 DEF Next, AllGone
<1>2. IInv /\ AfterError /\ [Next]_vars
      => [\A c \in Conn : HasError(c) => Shrinks(c)]_vars
  BY <1>1
<1>. QED
  BY <1>2, ErrorInvariance, PTL DEF Spec, ErrorEndsTheSession

(* A frame added at the end keeps the rule if it is a MESSAGE, or if there  *)
(* was no ERROR before it.                                                  *)
LEMMA AppendAfterError ==
  ASSUME NEW out \in Seq(OutFrame), NEW m \in OutFrame,
         \A j, k \in DOMAIN out :
           j < k /\ out[j].commend = "ERROR" => out[k].commend = "MESSAGE",
         m.commend = "MESSAGE" \/ \A j \in DOMAIN out : out[j].commend # "ERROR"
  PROVE  \A j, k \in DOMAIN Append(out, m) :
           j < k /\ Append(out, m)[j].commend = "ERROR"
           => Append(out, m)[k].commend = "MESSAGE"
<1>1. DOMAIN Append(out, m) = 1 .. Len(out) + 1 /\ DOMAIN out = 1 .. Len(out)
  OBVIOUS
<1>2. \A k \in 1 .. Len(out) : Append(out, m)[k] = out[k]
  OBVIOUS
<1>3. Append(out, m)[Len(out) + 1] = m
  OBVIOUS
<1>4. Len(out) \in Nat
  OBVIOUS
<1>. QED
  BY <1>1, <1>2, <1>3, <1>4

(* On each of the three error paths, an ERROR is the last frame a client    *)
(* gets but for broadcasts: at sendRespond it has had none (AfterError).    *)
THEOREM ErrorIsFinal == Spec => []OnlyMessagesAfterError
<1>. DEFINE Final(out) == \A j, k \in DOMAIN out :
              j < k /\ out[j].commend = "ERROR" => out[k].commend = "MESSAGE"
<1>1. Init => OnlyMessagesAfterError
  BY DEF Init, OnlyMessagesAfterError
<1>2. ASSUME IInv, AfterError, OnlyMessagesAfterError, [Next]_vars
      PROVE  OnlyMessagesAfterError'
  <2>. TypeOK /\ \A e \in Conn : Final(outbox[e]) /\ outbox[e] \in Seq(OutFrame)
    BY <1>2 DEF IInv, TypeOK, NetTypeOK, OnlyMessagesAfterError
  <2>. SUFFICES \A e \in Conn : Final(outbox'[e])
    BY DEF OnlyMessagesAfterError
  <2>1. CASE UNCHANGED outbox
    BY <2>1
  <2>2. ASSUME NEW c \in Conn, NEW d \in Conn, NEW m \in OutFrame,
               handlerSend(c, d, m), m.commend = "MESSAGE" \/ ~HasError(d)
        PROVE  \A e \in Conn : Final(outbox'[e])
    <3>1. Final(Append(outbox[d], m))
      BY <2>2, AppendAfterError DEF HasError
    <3>. HIDE DEF Final
    <3>. QED
      BY <2>2, <3>1, SendEffect, ZenonT(60)
  <2>. HIDE DEF Final
  <2>3. ASSUME NEW c \in Conn, deliver(c)
        PROVE  \A e \in Conn : Final(outbox'[e])
    <3>1. iter[c].target \in Conn /\ iter[c].id \in Nat
      BY <1>2, <2>3 DEF deliver, IInv, ThreadInv, BroadcastState, TypeOK,
         ThreadTypeOK, Iterator
    <3>2. [commend |-> "MESSAGE", id |-> iter[c].id] \in OutFrame
      BY <3>1 DEF OutFrame
    <3>. QED
      BY <2>2, <2>3, <3>1, <3>2 DEF deliver
  <2>4. ASSUME NEW c \in Conn, sendRespond(c)
        PROVE  \A e \in Conn : Final(outbox'[e])
    <3>1. CASE Crash(c)
      BY <2>1, <3>1 DEF Crash
    <3>2. CASE ~Crash(c)
      <4>1. respond[c] \in Respond
        BY <2>4, <3>2 DEF sendRespond, TypeOK, ThreadTypeOK
      <4>2. [commend |-> respond[c], id |-> 0] \in OutFrame
        BY <4>1 DEF OutFrame
      <4>3. ~HasError(c)
        BY <1>2, <2>4 DEF AfterError, sendRespond
      <4>. QED
        BY <2>2, <2>4, <3>2, <4>2, <4>3 DEF sendRespond
    <3>. QED
      BY <3>1, <3>2
  <2>. QED
    BY <1>2, <2>1, <2>3, <2>4, WhoSends
<1>. QED
  BY <1>1, <1>2, ErrorInvariance, PTL DEF Spec

-----------------------------------------------------------------------------
(* What a client sees of a step: the frames that are written to it, and the *)
(* end of its socket.                                                       *)

(* Where a thread is with a frame, and what it answers in the end.          *)
HandlerLabels(cmd) ==
  CASE cmd = "CONNECT" -> {"CONNECT", "getPassword", "addUser",
                           "checkPassword", "setConnected"}
    [] cmd = "SEND" -> {"SEND", "addMessage", "getSubscribers", "deliver",
                        "write"}
    [] cmd = "SUBSCRIBE" -> {"SUBSCRIBE", "addSubscription"}
    [] cmd = "UNSUBSCRIBE" -> {"UNSUBSCRIBE", "removeSubscription"}
    [] OTHER -> {"DISCONNECT"}
AnswersTo(cmd) ==
  CASE cmd = "CONNECT" -> {"CONNECTED", "ERROR"}
    [] cmd = "SEND" -> {"ERROR"}
    [] OTHER -> {"RECEIPT", "ERROR", Null}

Silent == UNCHANGED <<outbox, sockOpen, isTerminate>>

(* The write of m to d, which closes the socket of a protocol that is to    *)
(* terminate, if the thread sees that.                                      *)
Sends(d, m) ==
  /\ outbox' = IF sockOpen[d]
               THEN [outbox EXCEPT ![d] = Append(@, m)] ELSE outbox
  /\ \/ UNCHANGED sockOpen
     \/ isTerminate[d] /\ sockOpen' = [sockOpen EXCEPT ![d] = FALSE]
  /\ UNCHANGED isTerminate

InHandler(c) ==
  /\ Silent /\ frame'[c] = frame[c]
  /\ \E cmd \in Commend :
       /\ pc[c] \in HandlerLabels(cmd)
       /\ \/ pc'[c] \in HandlerLabels(cmd)
          \/ pc'[c] = "respond" /\ respond'[c] \in AnswersTo(cmd)

Broadcasts(c) ==
  /\ pc[c] = "write" /\ pc'[c] = "deliver" /\ frame'[c] = frame[c]
  /\ iter[c].channel \in Channel /\ iter[c].target \in Conn
  /\ Sends(iter[c].target, [commend |-> "MESSAGE", id |-> iter[c].id])

Finishes(c) == pc[c] = "deliver" /\ pc'[c] = "loop" /\ Silent

Responds(c) ==
  /\ pc[c] = "respond" /\ respond[c] \in Respond \ {Null}
  /\ Sends(c, [commend |-> respond[c], id |-> 0])
  /\ IF respond[c] = "ERROR"
     THEN pc'[c] = ErrorPath(frame[c]).respond /\ frame'[c] = frame[c]
     ELSE pc'[c] = "loop"

Leaves(c) ==
  /\ UNCHANGED <<outbox, sockOpen>> /\ frame'[c] = frame[c]
  /\ \/ /\ pc[c] = "terminate" /\ pc'[c] = ErrorPath(frame[c]).terminate
        /\ isTerminate' = [isTerminate EXCEPT ![c] = TRUE]
     \/ /\ pc[c] = "dbDisconnect" /\ pc'[c] = ErrorPath(frame[c]).dbDisconnect
        /\ UNCHANGED isTerminate
     \/ /\ pc[c] = "removeHandler" /\ pc'[c] = ErrorPath(frame[c]).removeHandler
        /\ UNCHANGED isTerminate

Dies(c) ==
  /\ pc'[c] \in {"closed", "crashed"}
  /\ sockOpen' = [sockOpen EXCEPT ![c] = FALSE]
  /\ UNCHANGED <<outbox, isTerminate>>

Waits(c) == Silent /\ UNCHANGED threadVars

LEMMA SendsWhatHandlerSends ==
  ASSUME TypeOK, NEW c \in Conn, NEW d \in Conn, NEW m, handlerSend(c, d, m)
  PROVE  Sends(d, m)
<1>1. sockOpen \in [Conn -> BOOLEAN]
  BY DEF TypeOK, NetTypeOK
<1>2. PICK closes \in {isTerminate[d], isTerminate[d] /\ c = d} :
        sockOpen' = [sockOpen EXCEPT ![d] = @ /\ ~closes]
  BY DEF handlerSend
<1>3. CASE closes
  BY <1>1, <1>2, <1>3 DEF handlerSend, Sends
<1>4. CASE ~closes
  BY <1>1, <1>2, <1>4 DEF handlerSend, Sends
<1>. QED
  BY <1>3, <1>4

LEMMA LoginSteps ==
  ASSUME TypeOK, NEW c \in Conn,
         \/ connectHendel(c) \/ getPasswordForUser(c) \/ addUser(c)
         \/ checkPassword(c) \/ setConnected(c)
  PROVE  InHandler(c)
<1>1. /\ Silent /\ frame' = frame /\ pc[c] \in HandlerLabels("CONNECT")
      /\ \/ pc'[c] \in HandlerLabels("CONNECT")
         \/ pc'[c] = "respond" /\ respond'[c] \in AnswersTo("CONNECT")
  BY DEF connectHendel, getPasswordForUser, addUser, checkPassword, setConnected,
     GoTo, Reply, netVars, Silent, HandlerLabels, AnswersTo, TypeOK, ThreadTypeOK
<1>. QED
  BY <1>1 DEF InHandler, Commend

LEMMA SendSteps ==
  ASSUME IInv, NEW c \in Conn,
         \/ sendHendel(c) \/ storeMessage(c) \/ getSubscribers(c)
         \/ nextSubscriber(c) \/ concurrentModification(c)
         \/ deliver(c) \/ endBroadcast(c)
  PROVE  InHandler(c) \/ Broadcasts(c) \/ Finishes(c) \/ Dies(c)
<1>. TypeOK /\ ThreadTypeOK /\ NetTypeOK
  BY DEF IInv, TypeOK
<1>1. CASE \/ sendHendel(c) \/ storeMessage(c) \/ getSubscribers(c)
           \/ nextSubscriber(c) /\ ~Crash(c)
  <2>1. /\ Silent /\ frame' = frame /\ pc[c] \in HandlerLabels("SEND")
        /\ \/ pc'[c] \in HandlerLabels("SEND")
           \/ pc'[c] = "respond" /\ respond'[c] \in AnswersTo("SEND")
    BY <1>1 DEF sendHendel, storeMessage, getSubscribers, nextSubscriber,
       GoTo, Reply, netVars, Silent, HandlerLabels, AnswersTo, ThreadTypeOK
  <2>. QED
    BY <2>1 DEF InHandler, Commend
<1>2. CASE Crash(c)
  BY <1>2 DEF Crash, Dies, ThreadTypeOK
<1>3. CASE deliver(c)
  <2>1. iter[c].channel \in Channel /\ iter[c].target \in Conn
    BY <1>3 DEF deliver, IInv, ThreadInv, BroadcastState
  <2>2. Sends(iter[c].target, [commend |-> "MESSAGE", id |-> iter[c].id])
    BY <1>3, <2>1, SendsWhatHandlerSends DEF deliver
  <2>. QED
    BY <1>3, <2>1, <2>2 DEF deliver, GoTo, Broadcasts, ThreadTypeOK
<1>4. CASE endBroadcast(c)
  BY <1>4 DEF endBroadcast, BackToLoop, Finishes, Silent, netVars, ThreadTypeOK
<1>. QED
  BY <1>1, <1>2, <1>3, <1>4 DEF nextSubscriber, concurrentModification

LEMMA SubscriptionSteps ==
  ASSUME TypeOK, NEW c \in Conn,
         \/ subscribeHendel(c) \/ addSubscription(c) \/ unsubscribeHendel(c)
         \/ removeSubscription(c) \/ disconnectHendel(c)
  PROVE  InHandler(c) \/ Dies(c)
<1>. ThreadTypeOK
  BY DEF TypeOK
<1>1. CASE Crash(c)
  BY <1>1 DEF Crash, Dies, ThreadTypeOK
<1>2. ASSUME ~Crash(c)
      PROVE  \E cmd \in Commend :
        /\ Silent /\ frame'[c] = frame[c] /\ pc[c] \in HandlerLabels(cmd)
        /\ \/ pc'[c] \in HandlerLabels(cmd)
           \/ pc'[c] = "respond" /\ respond'[c] \in AnswersTo(cmd)
  <2>1. CASE subscribeHendel(c) \/ addSubscription(c)
    BY <1>2, <2>1 DEF subscribeHendel, addSubscription, GoTo, Reply, ReceiptFor,
       netVars, Silent, HandlerLabels, AnswersTo, Commend, ThreadTypeOK
  <2>2. CASE unsubscribeHendel(c) \/ removeSubscription(c)
    BY <1>2, <2>2 DEF unsubscribeHendel, removeSubscription, GoTo, Reply,
       ReceiptFor, netVars, Silent, HandlerLabels, AnswersTo, Commend, ThreadTypeOK
  <2>3. CASE disconnectHendel(c)
    BY <2>3 DEF disconnectHendel, Reply, netVars, Silent, HandlerLabels,
       AnswersTo, Commend, ThreadTypeOK
  <2>. QED
    BY <2>1, <2>2, <2>3
<1>. QED
  BY <1>1, <1>2 DEF InHandler

LEMMA AnswerSteps ==
  ASSUME TypeOK, NEW c \in Conn,
         \/ sendRespond(c) \/ disconnectUser(c) \/ removeHandler(c)
         \/ terminate(c)
  PROVE  Responds(c) \/ Leaves(c) \/ Dies(c)
<1>. ThreadTypeOK
  BY DEF TypeOK
<1>1. CASE sendRespond(c)
  <2>1. CASE Crash(c)
    BY <2>1 DEF Crash, Dies, ThreadTypeOK
  <2>2. CASE handlerSend(c, c, [commend |-> respond[c], id |-> 0]) /\ ~Crash(c)
    <3>1. Sends(c, [commend |-> respond[c], id |-> 0])
      BY <2>2, SendsWhatHandlerSends
    <3>. QED
      BY <1>1, <2>2, <3>1 DEF sendRespond, GoTo, BackToLoop, Responds, ThreadTypeOK
  <2>. QED
    BY <1>1, <2>1, <2>2 DEF sendRespond
<1>2. CASE disconnectUser(c) \/ removeHandler(c) \/ terminate(c)
  BY <1>2 DEF disconnectUser, removeHandler, terminate, GoTo, Leaves, netVars,
     ThreadTypeOK
<1>. QED
  BY <1>1, <1>2

LEMMA VisibleStep ==
  ASSUME IInv, NEW c \in Conn, Step(c)
  PROVE  \/ InHandler(c) \/ Broadcasts(c) \/ Finishes(c) \/ Responds(c)
         \/ Leaves(c) \/ Dies(c) \/ Waits(c)
<1>. TypeOK /\ ThreadTypeOK
  BY DEF IInv, TypeOK
<1>1. CASE ExitLoop(c)
  BY <1>1 DEF ExitLoop, Close, GoTo, Dies, ThreadTypeOK
<1>2. CASE waitForWriteLock(c)
  BY <1>2 DEF waitForWriteLock, Waits, Silent, netVars
<1>. QED
  BY <1>1, <1>2, LoginSteps, SendSteps, SubscriptionSteps, AnswerSteps DEF Step

(* No thread runs before its connection is accepted.                        *)
LEMMA AcceptedStep ==
  ASSUME NEW c \in Conn, Step(c)
  PROVE  pc[c] # "unborn" /\ UNCHANGED connectionsIdCuonter
<1>1. pc[c] # "unborn"
  BY DEF Step, connectHendel, getPasswordForUser, addUser, checkPassword,
     setConnected, sendHendel, storeMessage, getSubscribers, nextSubscriber,
     concurrentModification, deliver, endBroadcast, subscribeHendel,
     addSubscription, unsubscribeHendel, removeSubscription, disconnectHendel,
     sendRespond, disconnectUser, removeHandler, terminate, waitForWriteLock,
     NeedsWriteLock, ExitLoop
<1>2. UNCHANGED connectionsIdCuonter
  BY DEF Step, connectHendel, getPasswordForUser, addUser, checkPassword,
     setConnected, sendHendel, storeMessage, getSubscribers, nextSubscriber,
     concurrentModification, deliver, endBroadcast, subscribeHendel,
     addSubscription, unsubscribeHendel, removeSubscription, disconnectHendel,
     sendRespond, disconnectUser, removeHandler, terminate, waitForWriteLock,
     ExitLoop, Close
<1>. QED
  BY <1>1, <1>2

(* And of the threads of others it sees nothing else.                       *)
LEMMA OthersStay ==
  ASSUME TypeOK, NEW c \in Conn, Step(c), NEW d \in Conn, d # c
  PROVE  /\ pc'[d] = pc[d] /\ frame'[d] = frame[d]
         /\ respond'[d] = respond[d] /\ isTerminate'[d] = isTerminate[d]
<1>1. SameThread(d) /\ SameSession(d)
  BY OtherThreads, OtherSessions
<1>2. respond'[d] = respond[d]
  BY DEF Step, connectHendel, getPasswordForUser, addUser, checkPassword,
     setConnected, sendHendel, storeMessage, getSubscribers, nextSubscriber,
     concurrentModification, deliver, endBroadcast, subscribeHendel,
     addSubscription, unsubscribeHendel, removeSubscription, disconnectHendel,
     sendRespond, disconnectUser, removeHandler, terminate, waitForWriteLock,
     ExitLoop, Close, GoTo, Reply, BackToLoop, Crash, threadVars, TypeOK,
     ThreadTypeOK
<1>. QED
  BY <1>1, <1>2 DEF SameThread, SameSession
=============================================================================
