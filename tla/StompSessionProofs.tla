------------------------- MODULE StompSessionProofs -------------------------
(***************************************************************************)
(* Proofs about the sessions of StompServer: who is broadcast to and who   *)
(* counts as logged in, and that who leaves is forgotten, for clients that *)
(* let a subscription id mean one channel and log in as one user per       *)
(* connection; and about its broadcasts: the order of delivery, and that   *)
(* an iteration without a lock misses nobody.                              *)
(***************************************************************************)
EXTENDS StompServerProofs

-----------------------------------------------------------------------------
(* The frame in hand.                                                       *)

LEMMA FrameInHandNext ==
  ASSUME IInv, NEW c \in Conn, FrameInHand(c), [Next]_vars
  PROVE  FrameInHand(c)'
<1>. TypeOK /\ ThreadTypeOK
  BY DEF IInv, TypeOK
<1>1. CASE UNCHANGED <<pc, frame>>
  BY <1>1 DEF FrameInHand
<1>2. CASE Accept
  BY <1>2 DEF Accept, GoTo, ThreadTypeOK, FrameInHand, Commend
<1>3. ASSUME NEW d \in Conn, d # c, Step(d) \/ ReadFrame(d) \/ Eof(d) \/ decodeFails(d)
      PROVE  FrameInHand(c)'
  BY <1>3, OtherThreads DEF SameThread, FrameInHand
<1>4. CASE ReadFrame(c)
  BY <1>4 DEF ReadFrame, ThreadTypeOK, FrameInHand, Commend
<1>5. ASSUME NEW label, GoTo(c, label), label \notin Commend,
             label \in {"getPassword", "addUser", "checkPassword", "setConnected"}
               => frame[c].commend = "CONNECT",
             label = "addSubscription" => frame[c].commend = "SUBSCRIBE",
             label = "removeSubscription" => frame[c].commend = "UNSUBSCRIBE"
      PROVE  FrameInHand(c)'
  BY <1>5 DEF GoTo, ThreadTypeOK, FrameInHand
<1>6. ASSUME NEW r, Reply(c, r)
      PROVE  FrameInHand(c)'
  BY <1>6 DEF Reply, ThreadTypeOK, FrameInHand, Commend
<1>7. CASE Crash(c) \/ BackToLoop(c)
  BY <1>7 DEF Crash, BackToLoop, ThreadTypeOK, FrameInHand, Commend
<1>8. CASE Eof(c) \/ decodeFails(c) \/ ExitLoop(c) \/ removeHandler(c) \/ terminate(c)
  <2>1. CASE decodeFails(c)
    BY <1>7, <2>1 DEF decodeFails
  <2>2. CASE Eof(c) \/ ExitLoop(c)
    BY <1>5, <2>2 DEF Eof, ExitLoop, Close, Commend
  <2>3. CASE removeHandler(c) \/ terminate(c)
    <3>1. PICK label \in {"terminate", "loop", "dbDisconnect"} : GoTo(c, label)
      BY <2>3 DEF removeHandler, terminate, ErrorPath, IInv, ThreadInv, ErrorPathState
    <3>. QED
      BY <1>5, <3>1 DEF Commend
  <2>. QED
    BY <1>8, <2>1, <2>2, <2>3
<1>9. CASE \/ connectHendel(c) \/ getPasswordForUser(c) \/ addUser(c)
           \/ checkPassword(c) \/ setConnected(c)
  <2>1. frame[c].commend = "CONNECT"
    BY <1>9 DEF connectHendel, getPasswordForUser, addUser, checkPassword,
       setConnected, FrameInHand, Commend
  <2>2. \/ \E r : Reply(c, r)
        \/ \E label \in {"getPassword", "addUser", "checkPassword", "setConnected"} :
             GoTo(c, label)
    BY <1>9 DEF connectHendel, getPasswordForUser, addUser, checkPassword,
       setConnected
  <2>. QED
    BY <1>5, <1>6, <2>1, <2>2 DEF Commend
<1>10. CASE \/ sendHendel(c) \/ storeMessage(c) \/ getSubscribers(c)
            \/ nextSubscriber(c) \/ concurrentModification(c) \/ deliver(c)
            \/ endBroadcast(c)
  <2>1. \/ \E r : Reply(c, r)
        \/ \E label \in {"addMessage", "getSubscribers", "deliver", "write"} :
             GoTo(c, label)
        \/ Crash(c) \/ BackToLoop(c)
    BY <1>10 DEF sendHendel, storeMessage, getSubscribers, nextSubscriber,
       concurrentModification, deliver, endBroadcast
  <2>. QED
    BY <1>5, <1>6, <1>7, <2>1 DEF Commend
<1>11. CASE \/ subscribeHendel(c) \/ addSubscription(c)
            \/ unsubscribeHendel(c) \/ removeSubscription(c) \/ disconnectHendel(c)
  <2>1. \/ \E r : Reply(c, r)
        \/ GoTo(c, "addSubscription") /\ pc[c] = "SUBSCRIBE"
        \/ GoTo(c, "removeSubscription") /\ pc[c] = "UNSUBSCRIBE"
        \/ Crash(c)
    BY <1>11 DEF subscribeHendel, addSubscription, unsubscribeHendel,
       removeSubscription, disconnectHendel
  <2>. QED
    BY <1>5, <1>6, <1>7, <2>1 DEF FrameInHand, Commend
<1>12. CASE sendRespond(c) \/ disconnectUser(c)
  <2>1. \/ Crash(c) \/ BackToLoop(c)
        \/ \E label \in {"terminate", "dbDisconnect", "removeHandler"} : GoTo(c, label)
    BY <1>12 DEF sendRespond, disconnectUser, ErrorPath, IInv, ThreadInv,
       ErrorPathState
  <2>. QED
    BY <1>5, <1>7, <2>1 DEF Commend
<1>13. CASE waitForWriteLock(c) \/ AllGone \/ UNCHANGED vars
  BY <1>1, <1>13 DEF waitForWriteLock, AllGone, vars, threadVars
<1>. QED
  BY <1>2, <1>3, <1>4, <1>8, <1>9, <1>10, <1>11, <1>12, <1>13 DEF Next, Step

-----------------------------------------------------------------------------
(* Who changes what the database holds of a connection.                     *)

LEMMA WhoSubscribes ==
  ASSUME [Next]_vars
  PROVE  \/ UNCHANGED <<channels, subscriptionsDetails>>
         \/ \E c \in Conn :
              \/ addSubscription(c) \/ removeSubscription(c)
              \/ dbDisconnect(c)
<1>1. CASE UNCHANGED vars \/ Accept \/ AllGone
  BY <1>1 DEF vars, dbVars, Accept, AllGone
<1>2. ASSUME NEW c \in Conn,
             \/ ReadFrame(c) \/ Eof(c) \/ decodeFails(c) \/ ExitLoop(c)
             \/ connectHendel(c) \/ getPasswordForUser(c) \/ addUser(c)
             \/ checkPassword(c) \/ setConnected(c)
             \/ sendHendel(c) \/ storeMessage(c) \/ getSubscribers(c)
             \/ nextSubscriber(c) \/ concurrentModification(c) \/ deliver(c)
             \/ endBroadcast(c)
      PROVE  UNCHANGED <<channels, subscriptionsDetails>>
  BY <1>2 DEF ReadFrame, Eof, decodeFails, ExitLoop, Close, connectHendel,
     getPasswordForUser, addUser, addOrUpdateUser, checkPassword, setConnected,
     setNewConnected, sendHendel, storeMessage, addMessage, getSubscribers,
     nextSubscriber, concurrentModification, deliver, endBroadcast, dbVars
<1>3. ASSUME NEW c \in Conn,
             \/ subscribeHendel(c) \/ unsubscribeHendel(c) \/ sendRespond(c)
             \/ removeHandler(c) \/ terminate(c) \/ waitForWriteLock(c)
      PROVE  UNCHANGED <<channels, subscriptionsDetails>>
  BY <1>3 DEF subscribeHendel, unsubscribeHendel, leakReadLock, sendRespond,
     removeHandler, terminate, waitForWriteLock, queueForWriteLock, dbVars
<1>4. ASSUME NEW c \in Conn, disconnectHendel(c) \/ disconnectUser(c)
      PROVE  UNCHANGED <<channels, subscriptionsDetails>> \/ dbDisconnect(c)
  BY <1>4 DEF disconnectHendel, disconnectUser, dbVars
<1>. QED
  BY <1>1, <1>2, <1>3, <1>4 DEF Next, Step

LEMMA WhoLogsIn ==
  ASSUME [Next]_vars
  PROVE  \/ UNCHANGED <<connectedUsers, idToUser>>
         \/ \E c \in Conn : addUser(c) \/ setConnected(c) \/ dbDisconnect(c)
<1>1. CASE UNCHANGED vars \/ Accept \/ AllGone
  BY <1>1 DEF vars, dbVars, Accept, AllGone
<1>2. ASSUME NEW c \in Conn,
             \/ ReadFrame(c) \/ Eof(c) \/ decodeFails(c) \/ ExitLoop(c)
             \/ connectHendel(c) \/ getPasswordForUser(c) \/ checkPassword(c)
             \/ sendHendel(c) \/ storeMessage(c) \/ getSubscribers(c)
             \/ nextSubscriber(c) \/ concurrentModification(c) \/ deliver(c)
             \/ endBroadcast(c)
      PROVE  UNCHANGED <<connectedUsers, idToUser>>
  BY <1>2 DEF ReadFrame, Eof, decodeFails, ExitLoop, Close, connectHendel,
     getPasswordForUser, checkPassword, sendHendel, storeMessage, addMessage,
     getSubscribers, nextSubscriber, concurrentModification, deliver,
     endBroadcast, dbVars
<1>3. ASSUME NEW c \in Conn,
             \/ subscribeHendel(c) \/ addSubscription(c)
             \/ unsubscribeHendel(c) \/ removeSubscription(c) \/ sendRespond(c)
             \/ removeHandler(c) \/ terminate(c) \/ waitForWriteLock(c)
      PROVE  UNCHANGED <<connectedUsers, idToUser>>
  BY <1>3 DEF subscribeHendel, addSubscription, addChannelSubscription,
     unsubscribeHendel, leakReadLock, removeSubscription,
     removeChannelSubscription, sendRespond, removeHandler, terminate,
     waitForWriteLock, queueForWriteLock, dbVars
<1>4. ASSUME NEW c \in Conn, disconnectHendel(c) \/ disconnectUser(c)
      PROVE  UNCHANGED <<connectedUsers, idToUser>> \/ dbDisconnect(c)
  BY <1>4 DEF disconnectHendel, disconnectUser, dbVars
<1>. QED
  BY <1>1, <1>2, <1>3, <1>4 DEF Next, Step

-----------------------------------------------------------------------------
(* One thread, and what the database holds.  An answer that is no ERROR is  *)
(* given by the step that writes, or by a logout.                           *)

StandsStill(c) ==
  /\ UNCHANGED <<channels, subscriptionsDetails, connectedUsers, idToUser>>
  /\ \/ pc'[c] = pc[c] /\ respond'[c] = respond[c]
     \/ pc'[c] # "respond"
     \/ respond'[c] = "ERROR"

Forgetting(c) ==
  /\ dbDisconnect(c)
  /\ \/ pc[c] = "DISCONNECT"
     \/ pc[c] = "dbDisconnect" /\ pc'[c] # "respond"

LEMMA DatabaseSteps ==
  ASSUME IInv, NEW c \in Conn, Step(c)
  PROVE  \/ StandsStill(c) \/ Forgetting(c)
         \/ addSubscription(c) \/ removeSubscription(c)
         \/ addUser(c) \/ setConnected(c)
<1>. TypeOK /\ ThreadTypeOK
  BY DEF IInv, TypeOK
<1>1. CASE connectHendel(c) \/ getPasswordForUser(c) \/ checkPassword(c)
  BY <1>1 DEF connectHendel, getPasswordForUser, checkPassword, GoTo, Reply,
     dbVars, StandsStill, ThreadTypeOK
<1>2. CASE \/ sendHendel(c) \/ storeMessage(c) \/ getSubscribers(c)
           \/ nextSubscriber(c) \/ concurrentModification(c)
           \/ deliver(c) \/ endBroadcast(c)
  BY <1>2 DEF sendHendel, storeMessage, addMessage, getSubscribers,
     nextSubscriber, concurrentModification, deliver, endBroadcast, GoTo,
     Reply, Crash, BackToLoop, dbVars, StandsStill, ThreadTypeOK
<1>3. CASE subscribeHendel(c) \/ unsubscribeHendel(c)
  BY <1>3 DEF subscribeHendel, unsubscribeHendel, leakReadLock, GoTo, Reply,
     Crash, dbVars, StandsStill, ThreadTypeOK
<1>4. CASE disconnectHendel(c)
  BY <1>4 DEF disconnectHendel, Reply, dbVars, StandsStill, Forgetting,
     ThreadTypeOK
<1>5. CASE disconnectUser(c)
  <2>1. pc'[c] # "respond"
    BY <1>5 DEF disconnectUser, GoTo, ErrorPath, ThreadTypeOK, IInv, ThreadInv,
       ErrorPathState
  <2>. QED
    BY <1>5, <2>1 DEF disconnectUser, Forgetting
<1>6. CASE sendRespond(c) \/ removeHandler(c) \/ terminate(c)
  <2>1. pc'[c] # "respond"
    BY <1>6 DEF sendRespond, removeHandler, terminate, GoTo, Crash, BackToLoop,
       ErrorPath, ThreadTypeOK, IInv, ThreadInv, ErrorPathState
  <2>. QED
    BY <1>6, <2>1 DEF sendRespond, removeHandler, terminate, dbVars, StandsStill
<1>7. CASE waitForWriteLock(c) \/ ExitLoop(c)
  BY <1>7 DEF waitForWriteLock, queueForWriteLock, ExitLoop, Close, GoTo,
     dbVars, threadVars, StandsStill, ThreadTypeOK
<1>. QED
  BY <1>1, <1>2, <1>3, <1>4, <1>5, <1>6, <1>7 DEF Step

(* Only a CONNECT that was read leads to the steps of a login.              *)
LEMMA LoginLabelsOnly ==
  ASSUME IInv, NEW c \in Conn, Step(c), pc'[c] \in HandlerLabels("CONNECT")
  PROVE  pc[c] \in HandlerLabels("CONNECT")
<1>. TypeOK /\ ThreadTypeOK
  BY DEF IInv, TypeOK
<1>. DEFINE login == {"CONNECT", "getPassword", "addUser", "checkPassword",
                      "setConnected"}
<1>0. HandlerLabels("CONNECT") = login
  BY DEF HandlerLabels
<1>1. CASE InHandler(c)
  <2>1. PICK cmd \in Commend : /\ pc[c] \in HandlerLabels(cmd)
                               /\ pc'[c] \in HandlerLabels(cmd) \cup {"respond"}
    BY <1>1 DEF InHandler
  <2>2. cmd = "CONNECT"
    BY <1>0, <2>1 DEF HandlerLabels, Commend
  <2>. QED
    BY <2>1, <2>2
<1>2. CASE Broadcasts(c) \/ Finishes(c) \/ Dies(c) \/ Waits(c)
  BY <1>0, <1>2 DEF Broadcasts, Finishes, Dies, Waits, threadVars
<1>3. CASE Responds(c) \/ Leaves(c)
  <2>1. pc'[c] \notin login
    BY <1>3 DEF Responds, Leaves, ErrorPath, IInv, ThreadInv, ErrorPathState
  <2>. QED
    BY <1>0, <2>1
<1>. QED
  BY <1>1, <1>2, <1>3, VisibleStep

(* Past its check is only who was not in the list.                          *)
LEMMA LoginIsChecked ==
  ASSUME IInv, NEW c \in Conn, Step(c), pc[c] = "CONNECT",
         pc'[c] \in HandlerLabels("CONNECT") \ {"CONNECT"}
  PROVE  frame[c].login \in User \ connectedUsers
<1>. TypeOK /\ ThreadTypeOK /\ frame[c] \in Frame
  BY DEF IInv, TypeOK, ThreadTypeOK
<1>1. connectHendel(c)
  <2>1. ~waitForWriteLock(c)
    BY DEF waitForWriteLock, threadVars, HandlerLabels
  <2>2. /\ ~getPasswordForUser(c) /\ ~addUser(c) /\ ~checkPassword(c)
        /\ ~setConnected(c) /\ ~sendHendel(c) /\ ~storeMessage(c)
        /\ ~getSubscribers(c) /\ ~nextSubscriber(c)
        /\ ~concurrentModification(c) /\ ~deliver(c) /\ ~endBroadcast(c)
    BY DEF getPasswordForUser, addUser, checkPassword, setConnected, sendHendel,
       storeMessage, getSubscribers, nextSubscriber, concurrentModification,
       deliver, endBroadcast
  <2>3. /\ ~subscribeHendel(c) /\ ~addSubscription(c) /\ ~unsubscribeHendel(c)
        /\ ~removeSubscription(c) /\ ~disconnectHendel(c) /\ ~sendRespond(c)
        /\ ~disconnectUser(c) /\ ~removeHandler(c) /\ ~terminate(c)
        /\ ~ExitLoop(c)
    BY DEF subscribeHendel, addSubscription, unsubscribeHendel,
       removeSubscription, disconnectHendel, sendRespond, disconnectUser,
       removeHandler, terminate, ExitLoop
  <2>. QED
    BY <2>1, <2>2, <2>3 DEF Step
<1>2. pc'[c] # "respond"
  BY DEF HandlerLabels
<1>3. frame[c].login # Null /\ frame[c].login \notin connectedUsers
  BY <1>1, <1>2 DEF connectHendel, Reply, ThreadTypeOK
<1>. QED
  BY <1>3 DEF Frame

-----------------------------------------------------------------------------
(* What the writers of the database do to the subscriptions.                *)

LEMMA Adds ==
  ASSUME IInv, NEW c \in Conn, addSubscription(c),
         NEW ch, ch = frame[c].destination, NEW i, i = frame[c].id
  PROVE  /\ ch \in Channel /\ i \in SubId
         /\ Details(c)' = [Details(c) EXCEPT ![i] = ch]
         /\ \A d \in Conn : d # c => Details(d)' = Details(d)
         /\ channels' = [channels EXCEPT ![ch] = @ \cup {c}]
<1>. TypeOK /\ ThreadInv(c) /\ DbTypeOK
  BY DEF IInv, TypeOK
<1>1. ch \in Channel /\ i \in SubId
  BY DEF addSubscription, ThreadInv, SubscriptionChecked
<1>2. addChannelSubscription(ch, c, i)
  BY DEF addSubscription
<1>3. [Details(c) EXCEPT ![i] = ch] # Null
  BY <1>1, DetailsType, DataBaseAssumption
<1>4. Details(c)' = [Details(c) EXCEPT ![i] = ch]
  BY <1>2, <1>3 DEF addChannelSubscription, DbTypeOK, Details
<1>5. \A d \in Conn : d # c => Details(d)' = Details(d)
  BY <1>2 DEF addChannelSubscription, DbTypeOK, Details
<1>. QED
  BY <1>1, <1>2, <1>4, <1>5 DEF addChannelSubscription

LEMMA Removes ==
  ASSUME IInv, NEW c \in Conn, removeSubscription(c), NEW i, i = frame[c].id,
         NEW ch, ch = Details(c)[i]
  PROVE  /\ ch \in Channel /\ i \in SubId
         /\ Details(c)' = [Details(c) EXCEPT ![i] = Null]
         /\ \A d \in Conn : d # c => Details(d)' = Details(d)
         /\ channels' = [channels EXCEPT ![ch] = @ \ {c}]
<1>. TypeOK /\ ThreadInv(c) /\ DbTypeOK
  BY DEF IInv, TypeOK
<1>1. ch \in Channel /\ i \in SubId
  BY DetailsType DEF removeSubscription, ThreadInv, SubscriptionChecked
<1>2. removeChannelSubscription(ch, c, i)
  BY DEF removeSubscription
<1>3. [Details(c) EXCEPT ![i] = Null] # Null
  BY <1>1, DetailsType, DataBaseAssumption
<1>4. Details(c)' = [Details(c) EXCEPT ![i] = Null]
  BY <1>2, <1>3 DEF removeChannelSubscription, DbTypeOK, Details
<1>5. \A d \in Conn : d # c => Details(d)' = Details(d)
  BY <1>2 DEF removeChannelSubscription, DbTypeOK, Details
<1>. QED
  BY <1>1, <1>2, <1>4, <1>5 DEF removeChannelSubscription

LEMMA Forgets ==
  ASSUME TypeOK, NEW c \in Conn, dbDisconnect(c)
  PROVE  /\ Details(c)' = NoDetails
         /\ \A d \in Conn : d # c => Details(d)' = Details(d)
         /\ channels' = [ch \in Channel |-> IF ch \in SubscribedChannels(c)
                                            THEN channels[ch] \ {c} ELSE channels[ch]]
<1>. DbTypeOK
  BY DEF TypeOK
<1>1. Details(c)' = NoDetails
  BY DEF dbDisconnect, DbTypeOK, Details, NoDetails
<1>. QED
  BY <1>1 DEF dbDisconnect, DbTypeOK, Details, ChannelsWithout

-----------------------------------------------------------------------------
(* Who is broadcast to has a subscription.                                  *)

LEMMA SubscribedByFrameNext ==
  ASSUME IInv, NEW c \in Conn, FrameInHand(c), SubscribedByFrame(c), [Next]_vars
  PROVE  SubscribedByFrame(c)'
<1>1. CASE Details(c)' = Details(c)
  BY <1>1 DEF SubscribedByFrame
<1>2. CASE addSubscription(c)
  <2>. PICK ch : ch = frame[c].destination
    OBVIOUS
  <2>. PICK i : i = frame[c].id
    OBVIOUS
  <2>1. /\ Details(c)' = [Details(c) EXCEPT ![i] = ch]
        /\ ch \in Channel /\ i \in SubId
    BY <1>2, Adds
  <2>2. frame[c] \in Frames[c] /\ frame[c].commend = "SUBSCRIBE"
    BY <1>2 DEF addSubscription, FrameInHand, NoFrame
  <2>3. Details(c) \in [SubId -> Channel \cup {Null}]
    BY DetailsType DEF IInv, TypeOK
  <2>. QED
    BY <2>1, <2>2, <2>3 DEF SubscribedByFrame
<1>3. CASE removeSubscription(c)
  <2>. PICK i : i = frame[c].id
    OBVIOUS
  <2>1. Details(c)' = [Details(c) EXCEPT ![i] = Null] /\ i \in SubId
    BY <1>3, Removes
  <2>2. Details(c) \in [SubId -> Channel \cup {Null}]
    BY DetailsType DEF IInv, TypeOK
  <2>. QED
    BY <2>1, <2>2 DEF SubscribedByFrame
<1>4. CASE dbDisconnect(c)
  BY <1>4, Forgets DEF IInv, SubscribedByFrame, NoDetails
<1>5. CASE UNCHANGED <<channels, subscriptionsDetails>>
  BY <1>1, <1>5 DEF Details
<1>6. ASSUME NEW d \in Conn, d # c,
             addSubscription(d) \/ removeSubscription(d) \/ dbDisconnect(d)
      PROVE  Details(c)' = Details(c)
  BY <1>6, Adds, Removes, Forgets DEF IInv
<1>. QED
  BY <1>1, <1>2, <1>3, <1>4, <1>5, <1>6, WhoSubscribes

LEMMA OnlySubscribersNext ==
  ASSUME IInv, OneChannelPerId, SubscriberInv, [Next]_vars
  PROVE  ChannelsHoldOnlySubscribers'
<1>. TypeOK /\ DbTypeOK /\ ChannelsHoldOnlySubscribers
  BY DEF IInv, TypeOK, SubscriberInv
<1>. SUFFICES ASSUME NEW ch \in Channel, NEW d \in Conn, d \in channels'[ch]
              PROVE  \E i \in SubId : Details(d)'[i] = ch
  <2>1. DbTypeOK'
    BY TypeNext DEF TypeOK
  <2>2. Null \notin Channel
    BY DataBaseAssumption
  <2>. QED
    BY <2>1, <2>2 DEF ChannelsHoldOnlySubscribers, SubscribedChannels, DbTypeOK
<1>0. ASSUME d \in channels[ch]
      PROVE  \E i \in SubId : Details(d)[i] = ch
  BY <1>0, SubscribedChannelsType DEF ChannelsHoldOnlySubscribers
<1>1. CASE UNCHANGED <<channels, subscriptionsDetails>>
  BY <1>0, <1>1 DEF Details
<1>2. ASSUME NEW c \in Conn, addSubscription(c)
      PROVE  \E i \in SubId : Details(d)'[i] = ch
  <2>. PICK dest : dest = frame[c].destination
    OBVIOUS
  <2>. PICK id : id = frame[c].id
    OBVIOUS
  <2>1. /\ dest \in Channel
        /\ id \in SubId
        /\ Details(c)' = [Details(c) EXCEPT ![id] = dest]
        /\ \A e \in Conn : e # c => Details(e)' = Details(e)
        /\ channels' = [channels EXCEPT ![dest] = @ \cup {c}]
    BY <1>2, Adds
  <2>2. Details(c) \in [SubId -> Channel \cup {Null}]
    BY DetailsType
  <2>3. Details(c)[id] \in {Null, dest}
    <3>. SUFFICES ASSUME Details(c)[id] # Null PROVE Details(c)[id] = dest
      OBVIOUS
    <3>1. PICK f \in Frames[c] : /\ f.commend = "SUBSCRIBE" /\ f.id = id
                                 /\ f.destination = Details(c)[id]
      BY <2>1 DEF SubscriberInv, SubscribedByFrame
    <3>2. frame[c] \in Frames[c] /\ frame[c].commend = "SUBSCRIBE"
      BY <1>2 DEF addSubscription, SubscriberInv, FrameInHand, NoFrame
    <3>3. dest # Null
      BY <2>1, DataBaseAssumption
    <3>. QED
      BY <3>1, <3>2, <3>3 DEF OneChannelPerId
  <2>4. CASE d = c /\ ch = dest
    BY <2>1, <2>2, <2>4
  <2>5. CASE ~(d = c /\ ch = dest)
    <3>1. PICK i \in SubId : Details(d)[i] = ch
      BY <1>0, <2>1, <2>5 DEF DbTypeOK
    <3>2. d = c => i # id
      BY <2>3, <2>5, <3>1, DataBaseAssumption
    <3>. QED
      BY <2>1, <2>2, <3>1, <3>2
  <2>. QED
    BY <2>4, <2>5
<1>3. ASSUME NEW c \in Conn, removeSubscription(c)
      PROVE  \E i \in SubId : Details(d)'[i] = ch
  <2>. PICK id : id = frame[c].id
    OBVIOUS
  <2>. PICK was : was = Details(c)[id]
    OBVIOUS
  <2>1. /\ was \in Channel /\ id \in SubId
        /\ Details(c)' = [Details(c) EXCEPT ![id] = Null]
        /\ \A e \in Conn : e # c => Details(e)' = Details(e)
        /\ channels' = [channels EXCEPT ![was] = @ \ {c}]
    BY <1>3, Removes
  <2>2. Details(c) \in [SubId -> Channel \cup {Null}]
    BY DetailsType
  <2>3. PICK i \in SubId : Details(d)[i] = ch
    BY <1>0, <2>1 DEF DbTypeOK
  <2>4. d = c => i # id
    BY <2>1, <2>3 DEF DbTypeOK
  <2>. QED
    BY <2>1, <2>2, <2>3, <2>4
<1>4. ASSUME NEW c \in Conn, dbDisconnect(c)
      PROVE  \E i \in SubId : Details(d)'[i] = ch
  <2>1. /\ \A e \in Conn : e # c => Details(e)' = Details(e)
        /\ channels' = [x \in Channel |-> IF x \in SubscribedChannels(c)
                                          THEN channels[x] \ {c} ELSE channels[x]]
    BY <1>4, Forgets
  <2>2. d \in channels[ch]
    BY <2>1
  <2>3. d # c
    BY <2>1, <2>2 DEF ChannelsHoldOnlySubscribers
  <2>. QED
    BY <1>0, <2>1, <2>2, <2>3
<1>. QED
  BY <1>1, <1>2, <1>3, <1>4, WhoSubscribes

-----------------------------------------------------------------------------
(* Who counts as logged in has a connection.                                *)

(* What a login does.                                                       *)
LEMMA LogsIn ==
  ASSUME IInv, NEW c \in Conn, FrameInHand(c), addUser(c) \/ setConnected(c),
         NEW u, u = frame[c].login
  PROVE  /\ u \in User
         /\ frame[c] \in Frames[c] /\ frame[c].commend = "CONNECT"
         /\ idToUser' = [idToUser EXCEPT ![c] = u]
         /\ connectedUsers' = connectedUsers \cup {u}
<1>1. u \in User
  BY DEF addUser, setConnected, IInv, ThreadInv, LoginChecked
<1>2. frame[c] \in Frames[c] /\ frame[c].commend = "CONNECT"
  BY DEF addUser, setConnected, FrameInHand, NoFrame
<1>. QED
  BY <1>1, <1>2 DEF addUser, setConnected, addOrUpdateUser, setNewConnected

LEMMA LoggedInByFrameNext ==
  ASSUME IInv, NEW c \in Conn, FrameInHand(c), LoggedInByFrame(c),
         \A d \in Conn : FrameInHand(d), [Next]_vars
  PROVE  LoggedInByFrame(c)'
<1>. DbTypeOK
  BY DEF IInv, TypeOK
<1>1. CASE idToUser'[c] = idToUser[c]
  BY <1>1 DEF LoggedInByFrame
<1>2. CASE addUser(c) \/ setConnected(c)
  BY <1>2, LogsIn DEF LoggedInByFrame, DbTypeOK
<1>3. ASSUME NEW d \in Conn, d # c, addUser(d) \/ setConnected(d)
      PROVE  idToUser'[c] = idToUser[c]
  BY <1>3, LogsIn DEF DbTypeOK
<1>4. ASSUME NEW d \in Conn, dbDisconnect(d)
      PROVE  idToUser'[c] \in {idToUser[c], Null}
  BY <1>4 DEF dbDisconnect, DbTypeOK
<1>5. CASE idToUser'[c] = Null
  BY <1>5 DEF LoggedInByFrame
<1>. QED
  BY <1>1, <1>2, <1>3, <1>4, <1>5, WhoLogsIn

LEMMA ListedUsersNext ==
  ASSUME IInv, OneUserPerConnection, LoginInv, [Next]_vars
  PROVE  ListedUsersHaveAConnection'
<1>. DbTypeOK /\ ListedUsersHaveAConnection
  BY DEF IInv, TypeOK, LoginInv
<1>. SUFFICES ASSUME NEW v \in connectedUsers'
              PROVE  \E d \in Conn : idToUser'[d] = v
  BY DEF ListedUsersHaveAConnection
<1>0. v \in connectedUsers => \E d \in Conn : idToUser[d] = v
  BY DEF ListedUsersHaveAConnection
<1>1. CASE UNCHANGED <<connectedUsers, idToUser>>
  BY <1>0, <1>1
<1>2. ASSUME NEW c \in Conn, addUser(c) \/ setConnected(c)
      PROVE  \E d \in Conn : idToUser'[d] = v
  <2>. PICK u : u = frame[c].login
    OBVIOUS
  <2>1. /\ u \in User
        /\ frame[c] \in Frames[c] /\ frame[c].commend = "CONNECT"
        /\ idToUser' = [idToUser EXCEPT ![c] = u]
        /\ connectedUsers' = connectedUsers \cup {u}
    BY <1>2, LogsIn DEF LoginInv
  <2>2. idToUser'[c] = u
    BY <2>1 DEF DbTypeOK
  <2>3. idToUser[c] \in {u, Null}
    <3>. SUFFICES ASSUME idToUser[c] # Null PROVE idToUser[c] = u
      OBVIOUS
    <3>1. PICK f \in Frames[c] : f.commend = "CONNECT" /\ f.login = idToUser[c]
      BY DEF LoginInv, LoggedInByFrame
    <3>2. u # Null
      BY <2>1, DataBaseAssumption
    <3>. QED
      BY <2>1, <3>1, <3>2 DEF OneUserPerConnection
  <2>4. CASE v = u
    BY <2>2, <2>4
  <2>5. CASE v # u
    <3>1. PICK d \in Conn : idToUser[d] = v
      BY <1>0, <2>1, <2>5
    <3>2. v # Null
      BY <2>1, <2>5, DataBaseAssumption DEF DbTypeOK
    <3>3. d # c
      BY <2>3, <2>5, <3>1, <3>2
    <3>. QED
      BY <2>1, <3>1, <3>3 DEF DbTypeOK
  <2>. QED
    BY <2>4, <2>5
<1>3. ASSUME NEW c \in Conn, dbDisconnect(c)
      PROVE  \E d \in Conn : idToUser'[d] = v
  <2>1. /\ idToUser' = [idToUser EXCEPT ![c] = Null]
        /\ v \in connectedUsers /\ v # idToUser[c]
    BY <1>3 DEF dbDisconnect
  <2>2. PICK d \in Conn : idToUser[d] = v
    BY <1>0, <2>1
  <2>. QED
    BY <2>1, <2>2 DEF DbTypeOK
<1>. QED
  BY <1>1, <1>2, <1>3, WhoLogsIn

-----------------------------------------------------------------------------
(* Who leaves is forgotten.                                                 *)

(* disconnect forgets, because whoever is broadcast to has a subscription.  *)
LEMMA DisconnectForgets ==
  ASSUME TypeOK, ChannelsHoldOnlySubscribers, NEW c \in Conn, dbDisconnect(c)
  PROVE  HasNoEntry(c)'
<1>. DbTypeOK
  BY DEF TypeOK
<1>1. \A ch \in Channel : c \notin channels'[ch]
  BY Forgets DEF ChannelsHoldOnlySubscribers
<1>2. idToUser'[c] = Null /\ subscriptionsDetails'[c] = Null
  BY DEF dbDisconnect, DbTypeOK
<1>. QED
  BY <1>1, <1>2 DEF HasNoEntry

(* Only the thread of a connection can end this.                            *)
LEMMA StaysForgotten ==
  ASSUME TypeOK, NEW c \in Conn, HasNoEntry(c),
         UNCHANGED <<channels, subscriptionsDetails, idToUser>>
  PROVE  HasNoEntry(c)'
BY DEF HasNoEntry

LEMMA OthersLeaveForgotten ==
  ASSUME TypeOK, NEW c \in Conn, HasNoEntry(c), NEW d \in Conn, d # c,
         Step(d) \/ ReadFrame(d) \/ Eof(d) \/ decodeFails(d)
  PROVE  HasNoEntry(c)'
BY OtherSessions, OthersDoNotSubscribeMe DEF SameSession, HasNoEntry

LEMMA OthersLeaveRespond ==
  ASSUME TypeOK, NEW c \in Conn, NEW d \in Conn, d # c,
         Step(d) \/ ReadFrame(d) \/ Eof(d) \/ decodeFails(d)
  PROVE  respond'[c] = respond[c]
<1>. ThreadTypeOK
  BY DEF TypeOK
<1>1. CASE \/ connectHendel(d) \/ getPasswordForUser(d) \/ addUser(d)
           \/ checkPassword(d) \/ setConnected(d) \/ sendHendel(d)
           \/ ReadFrame(d) \/ Eof(d) \/ ExitLoop(d)
           \/ removeHandler(d) \/ terminate(d) \/ waitForWriteLock(d)
  BY <1>1 DEF connectHendel, getPasswordForUser, addUser, checkPassword,
       setConnected, sendHendel, ReadFrame, Eof, ExitLoop, Close,
       removeHandler, terminate, waitForWriteLock, threadVars, GoTo, Reply,
       ThreadTypeOK
<1>2. CASE \/ storeMessage(d) \/ getSubscribers(d) \/ nextSubscriber(d)
           \/ concurrentModification(d) \/ deliver(d) \/ endBroadcast(d)
           \/ sendRespond(d) \/ decodeFails(d)
  BY <1>2 DEF storeMessage, getSubscribers, nextSubscriber, decodeFails,
       concurrentModification, deliver, endBroadcast, sendRespond,
       GoTo, BackToLoop, Crash, ThreadTypeOK
<1>3. CASE \/ subscribeHendel(d) \/ unsubscribeHendel(d)
           \/ addSubscription(d) \/ removeSubscription(d)
           \/ disconnectHendel(d) \/ disconnectUser(d)
  BY <1>3 DEF subscribeHendel, unsubscribeHendel, addSubscription,
       removeSubscription, disconnectHendel, disconnectUser, GoTo, Reply, Crash,
       ThreadTypeOK
<1>. QED
  BY <1>1, <1>2, <1>3 DEF Step

LEMMA SameLeaving ==
  ASSUME NEW c \in Conn, Leaving(c),
         pc'[c] = pc[c], frame'[c] = frame[c], respond'[c] = respond[c],
         isTerminate'[c] = isTerminate[c],
         c \in idToHendler' => c \in idToHendler,
         HasNoEntry(c) => HasNoEntry(c)'
  PROVE  Leaving(c)'
BY DEF Leaving

(* A thread that serves on, and is not at the answer to a DISCONNECT.       *)
LEMMA ServesOn ==
  ASSUME NEW c \in Conn, ~isTerminate'[c],
         pc'[c] \notin {"removeHandler", "terminate"},
         ~(pc'[c] = "respond" /\ respond'[c] = "RECEIPT"
             /\ frame'[c].commend = "DISCONNECT")
  PROVE  Leaving(c)'
BY DEF Leaving

(* The steps of the error paths.                                            *)
LEMMA ErrorPathLeaving ==
  ASSUME IInv, ChannelsHoldOnlySubscribers, NEW c \in Conn, Leaving(c),
         disconnectUser(c) \/ removeHandler(c) \/ terminate(c)
  PROVE  Leaving(c)'
<1>. TypeOK /\ ThreadTypeOK /\ NetTypeOK /\ ErrorPathState(c)
  BY DEF IInv, ThreadInv, TypeOK
<1>0. frame'[c] = frame[c]
  BY DEF disconnectUser, removeHandler, terminate, GoTo
<1>1. CASE disconnectUser(c)
  <2>1. /\ pc[c] = "dbDisconnect" /\ dbDisconnect(c)
        /\ pc'[c] = "removeHandler" /\ isTerminate' = isTerminate
    BY <1>1 DEF disconnectUser, GoTo, ErrorPath, ErrorPathState, netVars, ThreadTypeOK
  <2>2. HasNoEntry(c)'
    BY <2>1, DisconnectForgets
  <2>. QED
    BY <1>0, <2>1, <2>2 DEF Leaving
<1>2. CASE removeHandler(c)
  <2>1. /\ pc[c] = "removeHandler" /\ frame[c].commend # "OTHER"
        /\ pc'[c] = IF frame[c].commend = "SEND" THEN "loop" ELSE "terminate"
        /\ isTerminate' = isTerminate /\ c \notin idToHendler'
    BY <1>2 DEF removeHandler, GoTo, ErrorPath, ErrorPathState, ThreadTypeOK
  <2>2. HasNoEntry(c) /\ HasNoEntry(c)'
    BY <1>2, <2>1, StaysForgotten DEF removeHandler, dbVars, Leaving
  <2>. QED
    BY <1>0, <2>1, <2>2 DEF Leaving
<1>3. CASE terminate(c)
  <2>1. /\ pc[c] = "terminate"
        /\ pc'[c] = IF frame[c].commend = "SEND" THEN "dbDisconnect" ELSE "loop"
        /\ idToHendler' = idToHendler
    BY <1>3 DEF terminate, GoTo, ErrorPath, ThreadTypeOK
  <2>2. HasNoEntry(c) => HasNoEntry(c)'
    BY <1>3, StaysForgotten DEF terminate, dbVars
  <2>. QED
    BY <1>0, <2>1, <2>2 DEF Leaving
<1>. QED
  BY <1>1, <1>2, <1>3

(* All other steps of a thread.                                             *)
LEMMA ServingLeaving ==
  ASSUME IInv, ChannelsHoldOnlySubscribers, NEW c \in Conn, FrameInHand(c), Leaving(c),
         \/ ReadFrame(c) \/ Eof(c) \/ decodeFails(c)
         \/ connectHendel(c) \/ getPasswordForUser(c) \/ addUser(c)
         \/ checkPassword(c) \/ setConnected(c)
         \/ sendHendel(c) \/ storeMessage(c) \/ getSubscribers(c)
         \/ nextSubscriber(c) \/ concurrentModification(c)
         \/ deliver(c) \/ endBroadcast(c)
         \/ subscribeHendel(c) \/ addSubscription(c)
         \/ unsubscribeHendel(c) \/ removeSubscription(c)
         \/ disconnectHendel(c) \/ sendRespond(c)
  PROVE  Leaving(c)'
<1>. TypeOK /\ ThreadTypeOK /\ NetTypeOK
  BY DEF IInv, TypeOK
<1>0. isTerminate' = isTerminate
  BY DEF ReadFrame, Eof, Close, decodeFails, connectHendel, getPasswordForUser,
     addUser, checkPassword, setConnected, sendHendel, storeMessage,
     getSubscribers, nextSubscriber, concurrentModification, deliver,
     endBroadcast, subscribeHendel, addSubscription, unsubscribeHendel,
     removeSubscription, disconnectHendel, sendRespond, handlerSend, Crash, netVars
<1>1. ~isTerminate'[c]
  BY <1>0 DEF ReadFrame, Eof, decodeFails, connectHendel, getPasswordForUser,
     addUser, checkPassword, setConnected, sendHendel, storeMessage,
     getSubscribers, nextSubscriber, concurrentModification, deliver,
     endBroadcast, subscribeHendel, addSubscription, unsubscribeHendel,
     removeSubscription, disconnectHendel, sendRespond, Leaving
<1>2. ASSUME NEW label, GoTo(c, label), label \notin {"removeHandler", "terminate", "respond"}
      PROVE  Leaving(c)'
  BY <1>1, <1>2, ServesOn DEF GoTo, ThreadTypeOK
<1>3. ASSUME NEW r, Reply(c, r), r = "RECEIPT" => frame[c].commend # "DISCONNECT"
      PROVE  Leaving(c)'
  BY <1>1, <1>3, ServesOn DEF Reply, ThreadTypeOK
<1>4. CASE Crash(c) \/ BackToLoop(c)
  BY <1>1, <1>4, ServesOn DEF Crash, BackToLoop, ThreadTypeOK
<1>5. CASE ReadFrame(c)
  BY <1>1, <1>5, ServesOn DEF ReadFrame, ThreadTypeOK, Commend
<1>6. CASE Eof(c) \/ decodeFails(c)
  BY <1>2, <1>4, <1>6 DEF Eof, Close, decodeFails
<1>7. CASE \/ connectHendel(c) \/ getPasswordForUser(c) \/ addUser(c)
           \/ checkPassword(c) \/ setConnected(c) \/ sendHendel(c)
           \/ storeMessage(c) \/ getSubscribers(c) \/ nextSubscriber(c)
           \/ concurrentModification(c) \/ deliver(c) \/ endBroadcast(c)
  <2>1. \/ Reply(c, "ERROR") \/ Reply(c, "CONNECTED")
        \/ \E label \in {"getPassword", "addUser", "checkPassword", "setConnected",
                         "addMessage", "getSubscribers", "deliver", "write"} :
             GoTo(c, label)
        \/ Crash(c) \/ BackToLoop(c)
    BY <1>7 DEF connectHendel, getPasswordForUser, addUser, checkPassword,
       setConnected, sendHendel, storeMessage, getSubscribers, nextSubscriber,
       concurrentModification, deliver, endBroadcast
  <2>. QED
    BY <1>2, <1>3, <1>4, <2>1
<1>8. CASE \/ subscribeHendel(c) \/ addSubscription(c)
           \/ unsubscribeHendel(c) \/ removeSubscription(c)
  <2>1. frame[c].commend # "DISCONNECT"
    BY <1>8 DEF subscribeHendel, addSubscription, unsubscribeHendel,
       removeSubscription, FrameInHand, Commend
  <2>2. \/ \E r : Reply(c, r)
        \/ \E label \in {"addSubscription", "removeSubscription"} : GoTo(c, label)
        \/ Crash(c)
    BY <1>8 DEF subscribeHendel, addSubscription, unsubscribeHendel,
       removeSubscription
  <2>. QED
    BY <1>2, <1>3, <1>4, <2>1, <2>2
<1>9. CASE disconnectHendel(c)
  <2>1. CASE Reply(c, "ERROR")
    BY <1>3, <2>1
  <2>2. CASE dbDisconnect(c) /\ Reply(c, "RECEIPT")
    <3>1. HasNoEntry(c)'
      BY <2>2, DisconnectForgets
    <3>. QED
      BY <1>1, <2>2, <3>1 DEF Reply, ThreadTypeOK, Leaving
  <2>. QED
    BY <1>9, <2>1, <2>2 DEF disconnectHendel
<1>10. CASE sendRespond(c)
  <2>1. CASE GoTo(c, ErrorPath(frame[c]).respond)
    <3>1. /\ pc'[c] = IF frame[c].commend \in {"SEND", "OTHER"}
                      THEN "terminate" ELSE "dbDisconnect"
          /\ frame'[c] = frame[c]
      BY <2>1 DEF GoTo, ErrorPath, ThreadTypeOK
    <3>2. "OTHER" \notin Commend
      BY DEF Commend
    <3>. QED
      BY <1>1, <3>1, <3>2 DEF Leaving
  <2>. QED
    BY <1>4, <1>10, <2>1 DEF sendRespond
<1>. QED
  BY <1>5, <1>6, <1>7, <1>8, <1>9, <1>10

LEMMA LeavingNext ==
  ASSUME IInv, NotYetAccepted, ChannelsHoldOnlySubscribers, NEW c \in Conn,
         FrameInHand(c), Leaving(c), [Next]_vars
  PROVE  Leaving(c)'
<1>. TypeOK /\ ThreadTypeOK /\ NetTypeOK
  BY DEF IInv, TypeOK
<1>1. CASE UNCHANGED vars \/ AllGone \/ waitForWriteLock(c)
  <2>1. UNCHANGED <<threadVars, netVars, dbVars>>
    BY <1>1 DEF vars, AllGone, waitForWriteLock, queueForWriteLock
  <2>. QED
    BY <2>1, SameLeaving, StaysForgotten DEF threadVars, netVars, dbVars
<1>2. CASE Accept
  <2>1. CASE c = connectionsIdCuonter
    <3>1. pc[c] = "unborn"
      BY <2>1 DEF NotYetAccepted, NetTypeOK
    <3>2. ~isTerminate[c]
      BY <3>1 DEF Leaving
    <3>. QED
      BY <1>2, <2>1, <3>2, ServesOn DEF Accept, GoTo, ThreadTypeOK
  <2>2. CASE c # connectionsIdCuonter
    BY <1>2, <2>2, SameLeaving, StaysForgotten DEF Accept, GoTo, ThreadTypeOK, dbVars
  <2>. QED
    BY <2>1, <2>2
<1>3. ASSUME NEW d \in Conn, d # c, Step(d) \/ ReadFrame(d) \/ Eof(d) \/ decodeFails(d)
      PROVE  Leaving(c)'
  <2>1. SameThread(c) /\ SameSession(c) /\ respond'[c] = respond[c]
    BY <1>3, OtherThreads, OtherSessions, OthersLeaveRespond
  <2>2. HasNoEntry(c) => HasNoEntry(c)'
    BY <1>3, OthersLeaveForgotten
  <2>. QED
    BY <2>1, <2>2, SameLeaving DEF SameThread, SameSession
<1>4. CASE ExitLoop(c)
  <2>1. /\ pc[c] = "loop" /\ pc'[c] = "closed"
        /\ UNCHANGED <<frame, isTerminate, idToHendler>>
    BY <1>4 DEF ExitLoop, Close, GoTo, ThreadTypeOK
  <2>2. HasNoEntry(c) => HasNoEntry(c)'
    BY <1>4, StaysForgotten DEF ExitLoop, Close, dbVars
  <2>. QED
    BY <2>1, <2>2 DEF Leaving
<1>. QED
  BY <1>1, <1>2, <1>3, <1>4, ErrorPathLeaving, ServingLeaving DEF Next, Step

-----------------------------------------------------------------------------
(* The theorems.                                                            *)

LEMMA SubscriberInvariance ==
  ASSUME OneChannelPerId
  PROVE  Spec => []SubscriberInv
<1>1. Init => SubscriberInv
  BY DEF Init, DbInit, SubscriberInv, FrameInHand, SubscribedByFrame, Details,
     NoDetails, Leaving, ChannelsHoldOnlySubscribers, Commend
<1>2. IInv /\ NotYetAccepted /\ SubscriberInv /\ [Next]_vars => SubscriberInv'
  <2>. SUFFICES ASSUME IInv, NotYetAccepted, SubscriberInv, [Next]_vars
                PROVE  SubscriberInv'
    OBVIOUS
  <2>1. ChannelsHoldOnlySubscribers'
    BY OnlySubscribersNext
  <2>2. ASSUME NEW c \in Conn
        PROVE  (FrameInHand(c) /\ SubscribedByFrame(c) /\ Leaving(c))'
    BY FrameInHandNext, SubscribedByFrameNext, LeavingNext DEF SubscriberInv
  <2>. QED
    BY <2>1, <2>2 DEF SubscriberInv
<1>. QED
  BY <1>1, <1>2, ErrorInvariance, PTL DEF Spec

LEMMA LoginInvariance ==
  ASSUME OneUserPerConnection
  PROVE  Spec => []LoginInv
<1>1. Init => LoginInv
  BY DEF Init, DbInit, LoginInv, FrameInHand, LoggedInByFrame,
     ListedUsersHaveAConnection, Commend
<1>2. IInv /\ LoginInv /\ [Next]_vars => LoginInv'
  <2>. SUFFICES ASSUME IInv, LoginInv, [Next]_vars
                PROVE  LoginInv'
    OBVIOUS
  <2>1. ListedUsersHaveAConnection'
    BY ListedUsersNext
  <2>2. ASSUME NEW c \in Conn
        PROVE  (FrameInHand(c) /\ LoggedInByFrame(c))'
    BY FrameInHandNext, LoggedInByFrameNext DEF LoginInv
  <2>. QED
    BY <2>1, <2>2 DEF LoginInv
<1>. QED
  BY <1>1, <1>2, Invariance, PTL DEF Spec

(* The invariant of the sessions, for clients that keep to their ids and    *)
(* to one user per connection.                                              *)
THEOREM SessionInvariance ==
  ASSUME OneChannelPerId, OneUserPerConnection
  PROVE  Spec => []SessionInv
BY SubscriberInvariance, LoginInvariance, PTL DEF SessionInv

(* Who is broadcast to has a subscription, if an id means one channel: the  *)
(* other direction of SubscribersAreReached.                                *)
THEOREM OnlySubscribersAreReached ==
  ASSUME OneChannelPerId
  PROVE  Spec => []ChannelsHoldOnlySubscribers
BY SubscriberInvariance, PTL DEF SubscriberInv

(* A connection that its own thread ended, by a DISCONNECT or on one of the *)
(* error paths of the known commands, leaves nothing in the database, and   *)
(* in the second case nothing in ConnectionsImpl, if an id means one        *)
(* channel.  Nor does the name of a user of its stay listed as logged in    *)
(* for its sake, if no connection logs in as two users: a second login      *)
(* would hide the first name from dbDisconnect.                             *)
THEOREM LeaversForgotten ==
  ASSUME OneChannelPerId, OneUserPerConnection
  PROVE  Spec => []LeaversAreForgotten
<1>1. ASSUME TypeOK, ListedUsersHaveAConnection, NEW c \in Conn, HasNoEntry(c)
      PROVE  Forgotten(c)
  <2>1. ASSUME NEW f \in Frames[c], f.login \in connectedUsers
        PROVE  \E d \in Conn \ {c} : idToUser[d] = f.login
    <3>1. f.login \in User /\ f.login # Null
      BY <1>1, <2>1, DataBaseAssumption DEF TypeOK, DbTypeOK
    <3>2. PICK d \in Conn : idToUser[d] = f.login
      BY <1>1, <2>1 DEF ListedUsersHaveAConnection
    <3>. QED
      BY <1>1, <3>1, <3>2 DEF HasNoEntry
  <2>. QED
    BY <1>1, <2>1 DEF Forgotten
<1>2. TypeOK /\ LoginInv /\ SubscriberInv => LeaversAreForgotten
  BY <1>1 DEF LoginInv, SubscriberInv, Leaving, LeaversAreForgotten
<1>. QED
  BY <1>2, TypeCorrect, LoginInvariance, SubscriberInvariance, PTL

(* A user counts as logged in only while a connection is mapped to it, if   *)
(* no connection logs in as two users.                                      *)
THEOREM NoListedGhosts ==
  ASSUME OneUserPerConnection
  PROVE  Spec => []ListedUsersHaveAConnection
BY LoginInvariance, PTL DEF LoginInv

-----------------------------------------------------------------------------
(* What no step takes back.                                                 *)

(* A step of another thread leaves the loop of d as it is, but for elements *)
(* that it moves ...                                                        *)
SameLoop(d) ==
  /\ pc'[d] = pc[d]
  /\ framesRead'[d] = framesRead[d]
  /\ iter'[d].id = iter[d].id
  /\ iter'[d].target = iter[d].target
  /\ \E M : /\ iter'[d].done = iter[d].done \ M
            /\ iter'[d].moved = iter[d].moved \cup M

(* ... and its own one goes on with the frame in hand, or with a later one. *)
LoopGoesOn(c) ==
  /\ framesRead[c] <= framesRead'[c]
  /\ pc'[c] \in Sending =>
       \/ pc[c] \in Sending /\ Tried(c) \subseteq Tried(c)'
       \/ framesRead[c] < framesRead'[c]

MessagesStay ==
  \A i \in 1 .. Len(messages) :
    i \in 1 .. Len(messages') /\ messages'[i] = messages[i]

OutboxGrows ==
  \A d \in Conn : \A k \in DOMAIN outbox[d] :
    k \in DOMAIN outbox'[d] /\ outbox'[d][k] = outbox[d][k]

NobodyComesBack ==
  /\ connectionsIdCuonter <= connectionsIdCuonter'
  /\ \A d \in Conn : d < connectionsIdCuonter /\ sockOpen'[d] => sockOpen[d]

LEMMA MarkStaleLoop ==
  ASSUME ThreadTypeOK, MarkStale, NEW d \in Conn
  PROVE  /\ iter'[d].id = iter[d].id
         /\ iter'[d].target = iter[d].target
         /\ \E M : /\ iter'[d].done = iter[d].done \ M
                   /\ iter'[d].moved = iter[d].moved \cup M
<1>. DEFINE M == Moved(iter[d].channel)
<1>0. iter[d] \in Iterator
  BY DEF ThreadTypeOK
<1>1. CASE iter'[d] = iter[d]
  <2>1. /\ iter'[d].done = iter[d].done \ {}
        /\ iter'[d].moved = iter[d].moved \cup {}
    BY <1>1
  <2>. QED
    BY <1>1, <2>1
<1>2. CASE iter'[d] # iter[d]
  <2>1. iter'[d] = [iter[d] EXCEPT !.stale = TRUE, !.moved = @ \cup M,
                                   !.done = @ \ M]
    BY <1>2, OvertakenIterator
  <2>. HIDE DEF M
  <2>2. /\ iter'[d].id = iter[d].id
        /\ iter'[d].target = iter[d].target
        /\ iter'[d].done = iter[d].done \ M
        /\ iter'[d].moved = iter[d].moved \cup M
    BY <1>0, <2>1 DEF Iterator
  <2>. QED
    BY <2>2
<1>. QED
  BY <1>1, <1>2

LEMMA StillLoop ==
  ASSUME NEW d \in Conn, pc'[d] = pc[d], framesRead'[d] = framesRead[d],
         iter'[d] = iter[d]
  PROVE  SameLoop(d)
<1>1. /\ iter'[d].done = iter[d].done \ {}
      /\ iter'[d].moved = iter[d].moved \cup {}
  OBVIOUS
<1>. QED
  BY <1>1 DEF SameLoop

LEMMA OtherLoops ==
  ASSUME TypeOK, NEW c \in Conn,
         Step(c) \/ ReadFrame(c) \/ Eof(c) \/ decodeFails(c),
         NEW d \in Conn, d # c
  PROVE  SameLoop(d)
<1>. DEFINE Still == /\ pc'[d] = pc[d] /\ framesRead'[d] = framesRead[d]
                     /\ iter'[d] = iter[d]
<1>. ThreadTypeOK
  BY DEF TypeOK
<1>0. Still => SameLoop(d)
  BY StillLoop
<1>1. ASSUME \/ connectHendel(c) \/ getPasswordForUser(c) \/ addUser(c)
             \/ checkPassword(c) \/ setConnected(c) \/ sendHendel(c)
             \/ ReadFrame(c) \/ Eof(c) \/ ExitLoop(c)
             \/ removeHandler(c) \/ terminate(c) \/ waitForWriteLock(c)
      PROVE  Still
  BY <1>1 DEF connectHendel, getPasswordForUser, addUser, checkPassword,
       setConnected, sendHendel, ReadFrame, Eof, ExitLoop, Close,
       removeHandler, terminate, waitForWriteLock, threadVars, GoTo, Reply,
       ThreadTypeOK
<1>2. ASSUME \/ storeMessage(c) \/ getSubscribers(c) \/ nextSubscriber(c)
             \/ concurrentModification(c) \/ deliver(c) \/ endBroadcast(c)
             \/ sendRespond(c) \/ decodeFails(c)
      PROVE  Still
  BY <1>2 DEF storeMessage, getSubscribers, nextSubscriber, decodeFails,
       concurrentModification, deliver, endBroadcast, sendRespond,
       GoTo, BackToLoop, Crash, ThreadTypeOK
<1>3. ASSUME subscribeHendel(c) \/ unsubscribeHendel(c)
      PROVE  Still
  BY <1>3 DEF subscribeHendel, unsubscribeHendel, GoTo, Reply, Crash,
       ThreadTypeOK
<1>4. CASE \/ addSubscription(c) \/ removeSubscription(c)
           \/ disconnectHendel(c) \/ disconnectUser(c)
  <2>1. \/ \E label : GoTo(c, label)
        \/ \E r : Reply(c, r)
    BY <1>4 DEF addSubscription, removeSubscription, disconnectHendel,
         disconnectUser
  <2>2. MarkStale \/ UNCHANGED iter
    BY <1>4 DEF addSubscription, removeSubscription, disconnectHendel,
         disconnectUser
  <2>3. pc'[d] = pc[d] /\ framesRead'[d] = framesRead[d]
    BY <2>1 DEF GoTo, Reply, ThreadTypeOK
  <2>. QED
    BY <2>2, <2>3, MarkStaleLoop, StillLoop DEF SameLoop
<1>. QED
  BY <1>0, <1>1, <1>2, <1>3, <1>4 DEF Step

-----------------------------------------------------------------------------
(* Steps of a thread outside the loop of ConnectionsImpl.send, and those    *)
(* that leave it.                                                           *)
Outside(c) == pc'[c] \notin Broadcasting /\ iter'[c].done = {}

LEMMA MoveOutside ==
  ASSUME TypeOK, NEW c \in Conn, iter'[c].done = {},
         \/ \E label \in Labels \ Sending : GoTo(c, label)
         \/ \E r : Reply(c, r)
  PROVE  Outside(c) /\ LoopGoesOn(c)
BY DEF TypeOK, ThreadTypeOK, GoTo, Reply, Outside, LoopGoesOn, Sending, Broadcasting

LEMMA LeaveLoop ==
  ASSUME TypeOK, NEW c \in Conn, BackToLoop(c) \/ Crash(c)
  PROVE  Outside(c) /\ LoopGoesOn(c)
BY DEF TypeOK, ThreadTypeOK, BackToLoop, Crash, NoIter, Outside, LoopGoesOn,
       Sending, Broadcasting

LEMMA OutsideSteps ==
  ASSUME IInv, NEW c \in Conn, SendsItsMessage(c),
         \/ ReadFrame(c) \/ Eof(c) \/ decodeFails(c) \/ ExitLoop(c)
         \/ connectHendel(c) \/ getPasswordForUser(c) \/ addUser(c)
         \/ checkPassword(c) \/ setConnected(c)
         \/ sendHendel(c) \/ concurrentModification(c) \/ endBroadcast(c)
         \/ subscribeHendel(c) \/ addSubscription(c)
         \/ unsubscribeHendel(c) \/ removeSubscription(c)
         \/ disconnectHendel(c) \/ sendRespond(c) \/ disconnectUser(c)
         \/ removeHandler(c) \/ terminate(c)
  PROVE  Outside(c) /\ LoopGoesOn(c)
<1>. TypeOK /\ ThreadTypeOK /\ ErrorPathState(c)
  BY DEF IInv, ThreadInv, TypeOK
<1>. {"loop", "closed", "getPassword", "addUser", "checkPassword",
      "setConnected", "addSubscription", "removeSubscription", "dbDisconnect",
      "removeHandler", "terminate"} \subseteq Labels \ Sending
  BY DEF Labels, Sending
<1>1. CASE ReadFrame(c)
  <2>1. /\ framesRead'[c] = framesRead[c] + 1
        /\ pc'[c] \in Commend \cup {"respond"}
        /\ iter'[c].done = {}
    BY <1>1 DEF ReadFrame, ThreadTypeOK, SendsItsMessage
  <2>2. framesRead[c] \in Nat
    BY DEF ThreadTypeOK
  <2>. QED
    BY <2>1, <2>2 DEF Outside, LoopGoesOn, Broadcasting, Commend
<1>2. CASE Eof(c) \/ ExitLoop(c)
  <2>1. GoTo(c, "closed") /\ iter'[c].done = {}
    BY <1>2 DEF Eof, ExitLoop, Close, SendsItsMessage
  <2>. QED
    BY <2>1, MoveOutside
<1>3. CASE decodeFails(c) \/ concurrentModification(c) \/ endBroadcast(c)
  BY <1>3, LeaveLoop DEF decodeFails, concurrentModification, endBroadcast
<1>4. CASE \/ connectHendel(c) \/ getPasswordForUser(c) \/ addUser(c)
           \/ checkPassword(c) \/ setConnected(c)
  <2>1. iter'[c].done = {}
    BY <1>4 DEF connectHendel, getPasswordForUser, addUser, checkPassword,
       setConnected, SendsItsMessage
  <2>. QED
    BY <1>4, <2>1, MoveOutside DEF connectHendel, getPasswordForUser, addUser,
       checkPassword, setConnected
<1>5. CASE sendHendel(c)
  <2>1. iter'[c].done = {}
    BY <1>5 DEF sendHendel, SendsItsMessage
  <2>2. CASE GoTo(c, "addMessage")
    <3>1. /\ pc[c] = "SEND" /\ pc'[c] = "addMessage"
          /\ framesRead'[c] = framesRead[c] /\ framesRead[c] \in Nat
      BY <1>5, <2>2 DEF sendHendel, GoTo, ThreadTypeOK
    <3>. QED
      BY <2>1, <3>1 DEF Tried, Outside, LoopGoesOn, Sending, Broadcasting
  <2>. QED
    BY <1>5, <2>1, <2>2, MoveOutside DEF sendHendel
<1>6. CASE subscribeHendel(c) \/ unsubscribeHendel(c)
  <2>1. CASE Crash(c)
    BY <2>1, LeaveLoop
  <2>2. CASE ~Crash(c)
    <3>1. iter'[c].done = {}
      BY <1>6, <2>2 DEF subscribeHendel, unsubscribeHendel, SendsItsMessage
    <3>. QED
      BY <1>6, <2>2, <3>1, MoveOutside DEF subscribeHendel, unsubscribeHendel
  <2>. QED
    BY <2>1, <2>2
<1>7. CASE \/ addSubscription(c) \/ removeSubscription(c)
           \/ disconnectHendel(c) \/ disconnectUser(c)
  <2>1. iter[c].done = {} /\ (MarkStale \/ UNCHANGED iter)
    BY <1>7 DEF addSubscription, removeSubscription, disconnectHendel,
       disconnectUser, SendsItsMessage
  <2>2. iter'[c].done = {}
    BY <2>1, MarkStaleLoop
  <2>3. \/ \E r : Reply(c, r)
        \/ GoTo(c, ErrorPath(frame[c]).dbDisconnect) /\ pc[c] = "dbDisconnect"
    BY <1>7 DEF addSubscription, removeSubscription, disconnectHendel,
       disconnectUser
  <2>4. pc[c] = "dbDisconnect" =>
          ErrorPath(frame[c]).dbDisconnect \in {"removeHandler"}
    BY DEF ErrorPathState, ErrorPath
  <2>. QED
    BY <2>2, <2>3, <2>4, MoveOutside
<1>8. CASE sendRespond(c)
  <2>1. ErrorPath(frame[c]).respond \in {"terminate", "dbDisconnect"}
    BY DEF ErrorPath
  <2>2. CASE Crash(c) \/ BackToLoop(c)
    BY <2>2, LeaveLoop
  <2>3. CASE ~(Crash(c) \/ BackToLoop(c))
    <3>1. GoTo(c, ErrorPath(frame[c]).respond) /\ iter'[c].done = {}
      BY <1>8, <2>3 DEF sendRespond, SendsItsMessage
    <3>. QED
      BY <2>1, <3>1, MoveOutside
  <2>. QED
    BY <2>2, <2>3
<1>9. CASE removeHandler(c) \/ terminate(c)
  <2>1. iter'[c].done = {}
    BY <1>9 DEF removeHandler, terminate, SendsItsMessage
  <2>2. pc[c] = "removeHandler" =>
          ErrorPath(frame[c]).removeHandler \in {"terminate", "loop"}
    BY DEF ErrorPathState, ErrorPath
  <2>3. ErrorPath(frame[c]).terminate \in {"dbDisconnect", "loop"}
    BY DEF ErrorPath
  <2>. QED
    BY <1>9, <2>1, <2>2, <2>3, MoveOutside DEF removeHandler, terminate
<1>. QED
  BY <1>1, <1>2, <1>3, <1>4, <1>5, <1>6, <1>7, <1>8, <1>9

-----------------------------------------------------------------------------
(* Messages, outboxes and connections in every step.                        *)

LEMMA AppendStays ==
  ASSUME NEW S, NEW s \in Seq(S), NEW x \in S
  PROVE  /\ \A k \in 1 .. Len(s) : k \in 1 .. Len(Append(s, x)) /\ Append(s, x)[k] = s[k]
         /\ \A k \in DOMAIN s : k \in DOMAIN Append(s, x) /\ Append(s, x)[k] = s[k]
         /\ \A k \in DOMAIN Append(s, x) :
              \/ k \in DOMAIN s
              \/ k = Len(s) + 1 /\ Append(s, x)[k] = x
         /\ Len(s) + 1 \in DOMAIN Append(s, x) /\ Append(s, x)[Len(s) + 1] = x
         /\ \A k \in DOMAIN s : k < Len(s) + 1
OBVIOUS

(* Messages are stored by storeMessage only.                                *)
LEMMA WhoStores ==
  ASSUME [Next]_vars
  PROVE  UNCHANGED messages \/ \E c \in Conn : storeMessage(c)
<1>1. CASE Accept \/ AllGone \/ UNCHANGED vars
  BY <1>1 DEF Accept, AllGone, vars, dbVars
<1>2. ASSUME NEW c \in Conn,
             \/ ReadFrame(c) \/ Eof(c) \/ decodeFails(c) \/ ExitLoop(c)
             \/ connectHendel(c) \/ getPasswordForUser(c) \/ addUser(c)
             \/ checkPassword(c) \/ setConnected(c)
             \/ sendHendel(c) \/ getSubscribers(c) \/ nextSubscriber(c)
             \/ concurrentModification(c) \/ deliver(c) \/ endBroadcast(c)
             \/ waitForWriteLock(c)
      PROVE  UNCHANGED messages
  BY <1>2 DEF ReadFrame, Eof, decodeFails, ExitLoop, Close, connectHendel,
     getPasswordForUser, addUser, addOrUpdateUser, checkPassword, setConnected,
     setNewConnected, sendHendel, getSubscribers, nextSubscriber,
     concurrentModification, deliver, endBroadcast, waitForWriteLock,
     queueForWriteLock, dbVars
<1>3. ASSUME NEW c \in Conn,
             \/ subscribeHendel(c) \/ addSubscription(c)
             \/ unsubscribeHendel(c) \/ removeSubscription(c)
             \/ disconnectHendel(c) \/ sendRespond(c) \/ disconnectUser(c)
             \/ removeHandler(c) \/ terminate(c)
      PROVE  UNCHANGED messages
  BY <1>3 DEF subscribeHendel, addSubscription, addChannelSubscription,
     unsubscribeHendel, leakReadLock, removeSubscription,
     removeChannelSubscription, disconnectHendel, dbDisconnect, sendRespond,
     disconnectUser, removeHandler, terminate, dbVars
<1>. QED
  BY <1>1, <1>2, <1>3 DEF Next, Step

(* What storeMessage stores: the content at the next id.                    *)
LEMMA Stored ==
  ASSUME TypeOK, NEW c \in Conn, storeMessage(c)
  PROVE  /\ MessagesStay
         /\ iter'[c].id \in 1 .. Len(messages')
         /\ messages'[iter'[c].id] = [from |-> c, nth |-> framesRead[c]]
         /\ iter'[c].done = iter[c].done
<1>. DbTypeOK /\ ThreadTypeOK
  BY DEF TypeOK
<1>1. [from |-> c, nth |-> framesRead[c]] \in Content /\ messages \in Seq(Content)
  BY DEF ThreadTypeOK, DbTypeOK, Content
<1>2. messages' = Append(messages, [from |-> c, nth |-> framesRead[c]])
  BY DEF storeMessage, addMessage
<1>3. iter'[c].id = Len(messages') /\ iter'[c].done = iter[c].done
  BY DEF storeMessage, ThreadTypeOK, Iterator
<1>4. Len(messages') = Len(messages) + 1 /\ Len(messages) \in Nat
  BY <1>1, <1>2
<1>. QED
  BY <1>1, <1>2, <1>3, <1>4, AppendStays DEF MessagesStay

LEMMA MessagesNext ==
  ASSUME TypeOK, [Next]_vars
  PROVE  MessagesStay
BY WhoStores, Stored DEF MessagesStay

(* What deliver writes.                                                     *)
LEMMA Delivers ==
  ASSUME IInv, NEW c \in Conn, deliver(c)
  PROVE  /\ iter[c].target \in Conn
         /\ [commend |-> "MESSAGE", id |-> iter[c].id] \in OutFrame
         /\ handlerSend(c, iter[c].target, [commend |-> "MESSAGE", id |-> iter[c].id])
         /\ iter'[c].done = iter[c].done /\ iter'[c].moved = iter[c].moved
         /\ iter'[c].id = iter[c].id
         /\ pc[c] = "write" /\ pc'[c] = "deliver" /\ framesRead' = framesRead
         /\ UNCHANGED <<messages, connectionsIdCuonter>>
<1>. TypeOK /\ ThreadTypeOK
  BY DEF IInv, TypeOK
<1>1. iter[c].target \in Conn /\ iter[c].id \in Nat
  BY DEF deliver, IInv, ThreadInv, BroadcastState, ThreadTypeOK, Iterator
<1>2. [commend |-> "MESSAGE", id |-> iter[c].id] \in OutFrame
  BY <1>1 DEF OutFrame
<1>. QED
  <2>1. /\ iter' = [iter EXCEPT ![c].target = Null]
        /\ pc[c] = "write" /\ GoTo(c, "deliver")
        /\ UNCHANGED <<messages, connectionsIdCuonter>>
        /\ handlerSend(c, iter[c].target, [commend |-> "MESSAGE", id |-> iter[c].id])
    BY DEF deliver, dbVars
  <2>2. /\ iter'[c].done = iter[c].done /\ iter'[c].moved = iter[c].moved
        /\ iter'[c].id = iter[c].id
    BY <2>1 DEF ThreadTypeOK, Iterator
  <2>3. pc'[c] = "deliver" /\ framesRead' = framesRead
    BY <2>1 DEF GoTo, ThreadTypeOK
  <2>. QED
    BY <1>1, <1>2, <2>1, <2>2, <2>3

(* What sendRespond writes, if it writes: no message.                       *)
LEMMA Answers ==
  ASSUME IInv, NEW c \in Conn, sendRespond(c)
  PROVE  \/ UNCHANGED outbox
         \/ \E m \in OutFrame : m.commend # "MESSAGE" /\ handlerSend(c, c, m)
<1>1. CASE Crash(c)
  BY <1>1 DEF Crash
<1>2. CASE ~Crash(c)
  <2>1. respond[c] \in Respond
    BY <1>2 DEF sendRespond, IInv, TypeOK, ThreadTypeOK
  <2>2. [commend |-> respond[c], id |-> 0] \in OutFrame /\ respond[c] # "MESSAGE"
    BY <2>1 DEF OutFrame, Respond
  <2>. QED
    BY <1>2, <2>2 DEF sendRespond
<1>. QED
  BY <1>1, <1>2

LEMMA SendGrows ==
  ASSUME TypeOK, NEW c \in Conn, NEW d \in Conn, NEW m \in OutFrame,
         handlerSend(c, d, m)
  PROVE  OutboxGrows
<1>. \A e \in Conn : outbox[e] \in Seq(OutFrame)
  BY DEF TypeOK, NetTypeOK
<1>. QED
  BY SendEffect, AppendStays DEF OutboxGrows

LEMMA OutboxNext ==
  ASSUME IInv, [Next]_vars
  PROVE  OutboxGrows
<1>. TypeOK
  BY DEF IInv
<1>1. UNCHANGED outbox => OutboxGrows
  BY DEF OutboxGrows
<1>2. ASSUME NEW c \in Conn, deliver(c)
      PROVE  OutboxGrows
  BY <1>2, Delivers, SendGrows
<1>3. ASSUME NEW c \in Conn, sendRespond(c)
      PROVE  OutboxGrows
  BY <1>1, <1>3, Answers, SendGrows
<1>. QED
  BY <1>1, <1>2, <1>3, WhoSends

(* Sockets are opened by Accept only, for a number not used before.         *)
LEMMA NobodyComesBackNext ==
  ASSUME TypeOK, [Next]_vars
  PROVE  NobodyComesBack
<1>. NetTypeOK
  BY DEF TypeOK
<1>0. connectionsIdCuonter \in Nat
  BY DataBaseAssumption DEF NetTypeOK
<1>1. CASE Accept
  BY <1>0, <1>1 DEF Accept, NetTypeOK, NobodyComesBack
<1>2. CASE UNCHANGED connectionsIdCuonter /\ \A d \in Conn : sockOpen'[d] => sockOpen[d]
  BY <1>0, <1>2 DEF NobodyComesBack
<1>3. CASE AllGone \/ UNCHANGED vars
  BY <1>2, <1>3 DEF AllGone, vars, netVars
<1>4. ASSUME NEW c \in Conn, Step(c) \/ ReadFrame(c) \/ Eof(c) \/ decodeFails(c)
      PROVE  NobodyComesBack
  <2>1. CASE \/ ReadFrame(c) \/ connectHendel(c) \/ getPasswordForUser(c)
             \/ addUser(c) \/ checkPassword(c) \/ setConnected(c)
             \/ sendHendel(c) \/ storeMessage(c) \/ getSubscribers(c)
             \/ endBroadcast(c) \/ addSubscription(c) \/ removeSubscription(c)
             \/ disconnectHendel(c) \/ disconnectUser(c) \/ removeHandler(c)
             \/ terminate(c) \/ waitForWriteLock(c)
    BY <1>2, <2>1 DEF ReadFrame, connectHendel, getPasswordForUser, addUser,
       checkPassword, setConnected, sendHendel, storeMessage, getSubscribers,
       endBroadcast, addSubscription, removeSubscription, disconnectHendel,
       disconnectUser, removeHandler, terminate, waitForWriteLock, netVars
  <2>2. CASE \/ Eof(c) \/ ExitLoop(c) \/ decodeFails(c) \/ nextSubscriber(c)
             \/ concurrentModification(c) \/ subscribeHendel(c)
             \/ unsubscribeHendel(c)
    BY <1>2, <2>2 DEF Eof, ExitLoop, Close, decodeFails, nextSubscriber,
       concurrentModification, subscribeHendel, unsubscribeHendel, Crash,
       netVars, NetTypeOK
  <2>3. CASE deliver(c) \/ sendRespond(c)
    <3>1. /\ UNCHANGED connectionsIdCuonter
          /\ Crash(c) \/ \E d, m : handlerSend(c, d, m)
      BY <2>3 DEF deliver, sendRespond
    <3>2. \A d \in Conn : sockOpen'[d] => sockOpen[d]
      BY <3>1 DEF Crash, handlerSend, NetTypeOK
    <3>. QED
      BY <1>2, <3>1, <3>2
  <2>. QED
    BY <1>4, <2>1, <2>2, <2>3 DEF Step
<1>. QED
  BY <1>1, <1>3, <1>4 DEF Next

-----------------------------------------------------------------------------
(* What a step can mean for the loop of one thread.                         *)
LEMMA LoopCases ==
  ASSUME IInv, NotYetAccepted, NEW c \in Conn, SendsItsMessage(c), [Next]_vars
  PROVE  \/ SameLoop(c)
         \/ Outside(c) /\ LoopGoesOn(c)
         \/ storeMessage(c) \/ getSubscribers(c)
         \/ nextSubscriber(c) /\ ~Crash(c)
         \/ deliver(c)
<1>. TypeOK /\ ThreadTypeOK /\ NetTypeOK
  BY DEF IInv, TypeOK
<1>1. CASE UNCHANGED vars
  BY <1>1, StillLoop DEF vars, threadVars
<1>2. CASE Accept
  <2>1. CASE c = connectionsIdCuonter
    <3>1. pc[c] = "unborn" /\ iter[c].done = {}
      BY <2>1 DEF NotYetAccepted, SendsItsMessage, NetTypeOK
    <3>2. pc'[c] = "loop" /\ iter' = iter /\ framesRead' = framesRead
      BY <1>2, <2>1 DEF Accept, GoTo, ThreadTypeOK
    <3>. QED
      BY <3>1, <3>2 DEF Outside, LoopGoesOn, Broadcasting, Sending, ThreadTypeOK
  <2>2. CASE c # connectionsIdCuonter
    BY <1>2, <2>2, StillLoop DEF Accept, GoTo, ThreadTypeOK
  <2>. QED
    BY <2>1, <2>2
<1>3. ASSUME NEW d \in Conn, d # c, Step(d) \/ ReadFrame(d) \/ Eof(d) \/ decodeFails(d)
      PROVE  SameLoop(c)
  BY <1>3, OtherLoops
<1>4. CASE waitForWriteLock(c)
  BY <1>4, StillLoop DEF waitForWriteLock, threadVars
<1>5. CASE nextSubscriber(c) /\ Crash(c)
  BY <1>5, LeaveLoop
<1>6. CASE /\ Step(c) \/ ReadFrame(c) \/ Eof(c) \/ decodeFails(c)
           /\ ~(storeMessage(c) \/ getSubscribers(c) \/ nextSubscriber(c)
                \/ deliver(c) \/ waitForWriteLock(c))
  BY <1>6, OutsideSteps DEF Step
<1>. QED
  BY <1>1, <1>2, <1>3, <1>4, <1>5, <1>6 DEF Next, AllGone

(* The steps within the loop.                                               *)
LEMMA Iterates ==
  ASSUME IInv, NEW c \in Conn, getSubscribers(c)
  PROVE  /\ pc[c] = "getSubscribers" /\ pc'[c] = "deliver"
         /\ iter'[c].id = iter[c].id /\ iter'[c].done = iter[c].done
         /\ framesRead' = framesRead
BY DEF IInv, TypeOK, ThreadTypeOK, getSubscribers, GoTo, Iterator

LEMMA Chooses ==
  ASSUME IInv, NEW c \in Conn, nextSubscriber(c), ~Crash(c)
  PROVE  /\ pc[c] = "deliver" /\ pc'[c] = "write"
         /\ iter'[c].id = iter[c].id /\ iter'[c].moved = iter[c].moved
         /\ iter'[c].target \in idToHendler \ iter[c].done
         /\ iter'[c].done = iter[c].done \cup {iter'[c].target}
         /\ framesRead' = framesRead /\ outbox' = outbox
<1>. TypeOK /\ ThreadTypeOK
  BY DEF IInv, TypeOK
<1>1. PICK d \in Candidates(c) \cap idToHendler :
        /\ iter' = [iter EXCEPT ![c].target = d, ![c].done = @ \cup {d}]
        /\ GoTo(c, "write") /\ UNCHANGED netVars
  BY DEF nextSubscriber
<1>2. /\ iter'[c].target = d /\ iter'[c].id = iter[c].id
      /\ iter'[c].done = iter[c].done \cup {d}
      /\ iter'[c].moved = iter[c].moved
  BY <1>1 DEF ThreadTypeOK, Iterator
<1>3. d \notin iter[c].done
  BY <1>1 DEF Candidates
<1>. QED
  BY <1>1, <1>2, <1>3 DEF nextSubscriber, GoTo, ThreadTypeOK, netVars

LEMMA LoopNext ==
  ASSUME IInv, NotYetAccepted, NEW c \in Conn, SendsItsMessage(c), [Next]_vars
  PROVE  LoopGoesOn(c)
<1>. TypeOK /\ ThreadTypeOK
  BY DEF IInv, TypeOK
<1>. framesRead[c] \in Nat
  BY DEF ThreadTypeOK
<1>1. CASE SameLoop(c)
  <2>1. PICK M : /\ iter'[c].done = iter[c].done \ M
                 /\ iter'[c].moved = iter[c].moved \cup M
    BY <1>1 DEF SameLoop
  <2>2. pc'[c] = pc[c] /\ iter'[c].target = iter[c].target
        /\ framesRead'[c] = framesRead[c]
    BY <1>1 DEF SameLoop
  <2>3. Tried(c) \subseteq Tried(c)'
    BY <2>1, <2>2 DEF Tried, Reached
  <2>. QED
    BY <2>2, <2>3 DEF LoopGoesOn
<1>2. CASE storeMessage(c) \/ getSubscribers(c)
  <2>1. pc[c] \in {"addMessage", "getSubscribers"} /\ framesRead' = framesRead
    BY <1>2 DEF storeMessage, getSubscribers, GoTo
  <2>. QED
    BY <2>1 DEF LoopGoesOn, Sending, Tried
<1>3. CASE nextSubscriber(c) /\ ~Crash(c)
  <2>1. Tried(c) \subseteq Tried(c)'
    BY <1>3, Chooses DEF Tried, Reached
  <2>. QED
    BY <1>3, <2>1, Chooses DEF LoopGoesOn, Sending
<1>4. CASE deliver(c)
  <2>1. Tried(c) \subseteq Tried(c)'
    BY <1>4, Delivers DEF Tried, Reached
  <2>2. pc[c] = "write" /\ pc'[c] = "deliver" /\ framesRead'[c] = framesRead[c]
    BY <1>4, Delivers
  <2>. QED
    BY <2>1, <2>2 DEF LoopGoesOn, Sending
<1>5. \/ SameLoop(c) \/ LoopGoesOn(c) \/ storeMessage(c) \/ getSubscribers(c)
      \/ (nextSubscriber(c) /\ ~Crash(c)) \/ deliver(c)
  BY LoopCases
<1>. QED
  BY <1>1, <1>2, <1>3, <1>4, <1>5

LEMMA SendsItsMessageNext ==
  ASSUME IInv, NotYetAccepted, NEW c \in Conn, SendsItsMessage(c), [Next]_vars
  PROVE  SendsItsMessage(c)'
<1>. TypeOK /\ ThreadTypeOK
  BY DEF IInv, TypeOK
<1>0. MessagesStay
  BY MessagesNext
<1>1. CASE SameLoop(c)
  BY <1>0, <1>1 DEF SameLoop, SendsItsMessage, MessagesStay
<1>2. CASE Outside(c)
  BY <1>2 DEF Outside, Broadcasting, SendsItsMessage
<1>3. CASE storeMessage(c)
  <2>1. pc[c] = "addMessage" /\ pc'[c] = "getSubscribers" /\ framesRead' = framesRead
    BY <1>3 DEF storeMessage, GoTo, ThreadTypeOK
  <2>. QED
    BY <1>3, <2>1, Stored DEF SendsItsMessage
<1>4. CASE getSubscribers(c) \/ (nextSubscriber(c) /\ ~Crash(c))
  <2>1. /\ iter'[c].id = iter[c].id /\ framesRead' = framesRead
        /\ pc[c] \in Broadcasting /\ pc'[c] \in {"deliver", "write"}
        /\ pc'[c] = "write" => iter'[c].target \in iter'[c].done
    BY <1>4, Iterates, Chooses DEF Broadcasting
  <2>. QED
    BY <1>0, <2>1 DEF SendsItsMessage, Broadcasting, MessagesStay
<1>5. CASE deliver(c)
  BY <1>0, <1>5, Delivers DEF SendsItsMessage, Broadcasting, MessagesStay
<1>6. \/ SameLoop(c) \/ Outside(c) \/ storeMessage(c) \/ getSubscribers(c)
      \/ (nextSubscriber(c) /\ ~Crash(c)) \/ deliver(c)
  BY LoopCases
<1>. QED
  BY <1>1, <1>2, <1>3, <1>4, <1>5, <1>6

(* The message is in the outbox of its target now, if the socket is open.   *)
LEMMA Arrives ==
  ASSUME IInv, NEW c \in Conn, deliver(c), sockOpen[iter[c].target]
  PROVE  \E k \in DOMAIN outbox'[iter[c].target] :
           outbox'[iter[c].target][k] = [commend |-> "MESSAGE", id |-> iter[c].id]
<1>. TypeOK /\ NetTypeOK
  BY DEF IInv, TypeOK
<1>. PICK d \in Conn : d = iter[c].target
  BY Delivers
<1>. PICK m \in OutFrame : m = [commend |-> "MESSAGE", id |-> iter[c].id]
  BY Delivers
<1>1. outbox[d] \in Seq(OutFrame)
  BY DEF NetTypeOK
<1>2. outbox'[d] = Append(outbox[d], m)
  BY Delivers DEF handlerSend, NetTypeOK
<1>. QED
  BY <1>1, <1>2, AppendStays

LEMMA VisitedNext ==
  ASSUME IInv, NotYetAccepted, HandlersAreAccepted, NEW c \in Conn,
         SendsItsMessage(c), Visited(c), [Next]_vars
  PROVE  Visited(c)'
<1>. TypeOK /\ ThreadTypeOK /\ NetTypeOK
  BY DEF IInv, TypeOK
<1>0. OutboxGrows /\ NobodyComesBack
  BY OutboxNext, NobodyComesBackNext
<1>a. /\ connectionsIdCuonter \in Nat /\ connectionsIdCuonter' \in Nat
      /\ connectionsIdCuonter <= connectionsIdCuonter'
      /\ iter[c].done \subseteq Conn
  BY <1>0, TypeNext, DataBaseAssumption
  DEF TypeOK, NetTypeOK, ThreadTypeOK, Iterator, NobodyComesBack
<1>b. pc[c] = "write" => iter[c].target \in Conn
  BY DEF IInv, ThreadInv, BroadcastState
<1>c. ASSUME NEW d \in Reached(c), iter'[c].id = iter[c].id
      PROVE  /\ d < connectionsIdCuonter'
             /\ sockOpen'[d] => \E k \in DOMAIN outbox'[d] : outbox'[d][k] = Copy(c)'
  <2>1. d \in Conn /\ d < connectionsIdCuonter /\ d < connectionsIdCuonter'
    BY <1>a, DataBaseAssumption DEF Visited, Reached, Conn
  <2>2. sockOpen'[d] => sockOpen[d]
    BY <1>0, <2>1 DEF NobodyComesBack
  <2>3. Copy(c)' = Copy(c)
    BY <1>c DEF Copy
  <2>. QED
    BY <1>0, <2>1, <2>2, <2>3 DEF Visited, OutboxGrows
<1>1. CASE SameLoop(c)
  <2>1. pc'[c] = "write" => iter'[c].target < connectionsIdCuonter'
    BY <1>a, <1>b, <1>1, DataBaseAssumption DEF SameLoop, Visited, Conn
  <2>2. Reached(c)' \subseteq Reached(c)
    BY <1>1 DEF SameLoop, Reached
  <2>3. iter'[c].id = iter[c].id
    BY <1>1 DEF SameLoop
  <2>. QED
    BY <1>c, <2>1, <2>2, <2>3 DEF Visited
<1>2. CASE Outside(c)
  <2>1. Reached(c)' = {}
    BY <1>2 DEF Outside, Reached
  <2>. QED
    BY <1>2, <2>1 DEF Outside, Broadcasting, Visited
<1>3. CASE storeMessage(c)
  <2>1. pc[c] = "addMessage" /\ pc'[c] = "getSubscribers"
    BY <1>3 DEF storeMessage, GoTo, ThreadTypeOK
  <2>2. Reached(c)' = {}
    BY <1>3, <2>1, Stored DEF SendsItsMessage, Reached
  <2>. QED
    BY <2>1, <2>2 DEF Visited
<1>4. CASE getSubscribers(c)
  <2>1. Reached(c)' = {} /\ pc'[c] = "deliver"
    BY <1>4, Iterates DEF SendsItsMessage, Reached
  <2>. QED
    BY <2>1 DEF Visited
<1>5. CASE nextSubscriber(c) /\ ~Crash(c)
  <2>1. iter'[c].target < connectionsIdCuonter /\ iter'[c].target \in Conn
    BY <1>5, Chooses DEF HandlersAreAccepted, NetTypeOK
  <2>2. iter'[c].target < connectionsIdCuonter'
    BY <1>a, <2>1, DataBaseAssumption DEF Conn
  <2>3. Reached(c)' = Reached(c)
    BY <1>5, Chooses DEF Reached
  <2>. QED
    BY <1>5, <1>c, <2>2, <2>3, Chooses DEF Visited
<1>6. CASE deliver(c)
  <2>1. iter[c].target < connectionsIdCuonter' /\ iter[c].target < connectionsIdCuonter
    BY <1>6, Delivers DEF Visited
  <2>2. sockOpen'[iter[c].target] =>
          \E k \in DOMAIN outbox'[iter[c].target] :
            outbox'[iter[c].target][k] = Copy(c)'
    <3>1. iter[c].target \in Conn /\ Copy(c)' = [commend |-> "MESSAGE", id |-> iter[c].id]
      BY <1>6, Delivers DEF Copy
    <3>2. sockOpen'[iter[c].target] => sockOpen[iter[c].target]
      BY <1>0, <2>1, <3>1 DEF NobodyComesBack
    <3>. QED
      BY <1>6, <3>1, <3>2, Arrives
  <2>3. Reached(c)' \subseteq Reached(c) \cup {iter[c].target}
    BY <1>6, Delivers DEF Reached
  <2>4. iter'[c].id = iter[c].id /\ pc'[c] = "deliver"
    BY <1>6, Delivers
  <2>5. ASSUME NEW d \in Reached(c)'
        PROVE  /\ d < connectionsIdCuonter'
               /\ sockOpen'[d] => \E k \in DOMAIN outbox'[d] : outbox'[d][k] = Copy(c)'
    BY <1>c, <2>1, <2>2, <2>3, <2>4, <2>5
  <2>. QED
    BY <2>4, <2>5 DEF Visited
<1>. QED
  BY <1>1, <1>2, <1>3, <1>4, <1>5, <1>6, LoopCases

(* Handlers are entered by Accept only.                                     *)
LEMMA WhoEnters ==
  ASSUME [Next]_vars
  PROVE  Accept \/ idToHendler' \subseteq idToHendler
<1>1. CASE AllGone \/ UNCHANGED vars
  BY <1>1 DEF AllGone, vars, netVars
<1>2. ASSUME NEW c \in Conn,
             \/ ReadFrame(c) \/ Eof(c) \/ decodeFails(c) \/ ExitLoop(c)
             \/ connectHendel(c) \/ getPasswordForUser(c) \/ addUser(c)
             \/ checkPassword(c) \/ setConnected(c)
             \/ sendHendel(c) \/ storeMessage(c) \/ getSubscribers(c)
             \/ waitForWriteLock(c)
      PROVE  idToHendler' \subseteq idToHendler
  BY <1>2 DEF ReadFrame, Eof, decodeFails, ExitLoop, Close, Crash, connectHendel,
     getPasswordForUser, addUser, checkPassword, setConnected, sendHendel,
     storeMessage, getSubscribers, waitForWriteLock, netVars
<1>3. ASSUME NEW c \in Conn,
             \/ nextSubscriber(c) \/ concurrentModification(c) \/ deliver(c)
             \/ endBroadcast(c) \/ sendRespond(c)
      PROVE  idToHendler' \subseteq idToHendler
  BY <1>3 DEF nextSubscriber, concurrentModification, deliver, endBroadcast,
     sendRespond, handlerSend, Crash, netVars
<1>4. ASSUME NEW c \in Conn,
             \/ subscribeHendel(c) \/ addSubscription(c)
             \/ unsubscribeHendel(c) \/ removeSubscription(c)
             \/ disconnectHendel(c) \/ disconnectUser(c)
             \/ removeHandler(c) \/ terminate(c)
      PROVE  idToHendler' \subseteq idToHendler
  BY <1>4 DEF subscribeHendel, addSubscription, unsubscribeHendel,
     removeSubscription, disconnectHendel, disconnectUser, removeHandler,
     terminate, Crash, netVars
<1>. QED
  BY <1>1, <1>2, <1>3, <1>4 DEF Next, Step

LEMMA HandlersAreAcceptedNext ==
  ASSUME IInv, HandlersAreAccepted, [Next]_vars
  PROVE  HandlersAreAccepted'
<1>1. connectionsIdCuonter \in Nat /\ connectionsIdCuonter' \in Nat
  BY TypeNext, DataBaseAssumption DEF IInv, TypeOK, NetTypeOK
<1>2. idToHendler \subseteq Int
  BY DataBaseAssumption DEF IInv, TypeOK, NetTypeOK, Conn
<1>3. CASE Accept
  BY <1>1, <1>2, <1>3 DEF Accept, HandlersAreAccepted
<1>4. CASE idToHendler' \subseteq idToHendler
  <2>1. connectionsIdCuonter <= connectionsIdCuonter'
    BY NobodyComesBackNext DEF IInv, NobodyComesBack
  <2>. QED
    BY <1>1, <1>2, <1>4, <2>1 DEF HandlersAreAccepted
<1>. QED
  BY <1>3, <1>4, WhoEnters

-----------------------------------------------------------------------------
(* Order.                                                                   *)

(* A message that was early enough stays so.                                *)
LEMMA EarlierStays ==
  ASSUME TypeOK, TypeOK', MessagesStay, NEW d \in Conn, NEW i, Earlier(d, i),
         \A c \in Conn : LoopGoesOn(c)
  PROVE  Earlier(d, i)'
<1>1. /\ i \in 1 .. Len(messages) /\ messages[i] \in Content
      /\ i \in 1 .. Len(messages') /\ messages'[i] = messages[i]
  BY DEF Earlier, MessagesStay, TypeOK, DbTypeOK
<1>2. PICK c \in Conn : c = messages[i].from
  BY <1>1 DEF Content
<1>3. PICK n \in Nat : n = messages[i].nth
  BY <1>1 DEF Content
<1>4. framesRead[c] \in Nat /\ framesRead'[c] \in Nat /\ LoopGoesOn(c)
  BY DEF TypeOK, ThreadTypeOK
<1>5. n <= framesRead[c] /\ (pc[c] \in Sending /\ d \notin Tried(c) => n < framesRead[c])
  BY <1>2, <1>3 DEF Earlier
<1>6. n <= framesRead'[c] /\ (pc'[c] \in Sending /\ d \notin Tried(c)' => n < framesRead'[c])
  BY <1>4, <1>5 DEF LoopGoesOn
<1>. QED
  BY <1>1, <1>2, <1>3, <1>6 DEF Earlier

(* A row of frames is in order, as SenderOrder has it.                      *)
Ordered(msgs, s) ==
  \A j, k \in DOMAIN s :
    LET m == s[j]
        n == s[k] IN
    /\ j < k /\ m.commend = "MESSAGE" /\ n.commend = "MESSAGE"
    /\ msgs[m.id].from = msgs[n.id].from
    => msgs[m.id].nth <= msgs[n.id].nth

(* It stays in order when a frame is added that is no message, or one that   *)
(* is not before those of its sender already there.                             *)
LEMMA AppendOrdered ==
  ASSUME NEW s \in Seq(OutFrame), NEW msgs, Ordered(msgs, s), NEW m \in OutFrame,
         \A k \in DOMAIN s :
           /\ s[k].commend = "MESSAGE" /\ m.commend = "MESSAGE"
           /\ msgs[s[k].id].from = msgs[m.id].from
           => msgs[s[k].id].nth <= msgs[m.id].nth
  PROVE  Ordered(msgs, Append(s, m))
<1>. PICK t : t = Append(s, m)
  OBVIOUS
<1>1. /\ DOMAIN s = 1 .. Len(s) /\ DOMAIN t = 1 .. Len(s) + 1 /\ Len(s) \in Nat
      /\ \A k \in 1 .. Len(s) : t[k] = s[k]
      /\ t[Len(s) + 1] = m
  OBVIOUS
<1>2. \A j, k \in DOMAIN t : j < k => j \in DOMAIN s /\ (k \in DOMAIN s \/ k = Len(s) + 1)
  BY <1>1
<1>3. Ordered(msgs, t)
  BY <1>1, <1>2 DEF Ordered
<1>. QED
  BY <1>3

AllEarlier(d, s) ==
  \A k \in DOMAIN s : s[k].commend = "MESSAGE" => Earlier(d, s[k].id)

(* What d has been sent stays in order and early enough.                    *)
LEMMA OldFrames ==
  ASSUME IInv, IInv', DeliveryInv, MessagesStay, \A c \in Conn : LoopGoesOn(c),
         NEW d \in Conn, NEW s, s = outbox[d]
  PROVE  Ordered(messages', s) /\ AllEarlier(d, s)'
<1>1. \A k \in DOMAIN s : s[k].commend = "MESSAGE" =>
        Earlier(d, s[k].id) /\ messages'[s[k].id] = messages[s[k].id]
  BY DEF DeliveryInv, OnlyEarlierMessages, Earlier, MessagesStay
<1>2. Ordered(messages', s)
  BY <1>1 DEF DeliveryInv, SenderOrder, Ordered
<1>3. ASSUME NEW k \in DOMAIN s, s[k].commend = "MESSAGE"
      PROVE  Earlier(d, s[k].id)'
  BY <1>1, <1>3, EarlierStays DEF IInv
<1>. QED
  BY <1>2, <1>3 DEF AllEarlier

(* So does what it has been sent after one more frame, if that is no        *)
(* message, or if all of its sender's before it are earlier ones.           *)
LEMMA OneMoreFrame ==
  ASSUME IInv, IInv', DeliveryInv, UNCHANGED messages, \A c \in Conn : LoopGoesOn(c),
         NEW d \in Conn, NEW s, s = outbox[d], NEW m \in OutFrame,
         m.commend = "MESSAGE" =>
           /\ Earlier(d, m.id)'
           /\ \A k \in DOMAIN s :
                /\ s[k].commend = "MESSAGE"
                /\ messages[s[k].id].from = messages[m.id].from
                => messages[s[k].id].nth <= messages[m.id].nth,
         NEW t, t = Append(s, m)
  PROVE  Ordered(messages', t) /\ AllEarlier(d, t)'
<1>. s \in Seq(OutFrame) /\ MessagesStay
  BY DEF IInv, TypeOK, NetTypeOK, MessagesStay
<1>0. Ordered(messages', s) /\ AllEarlier(d, s)'
  BY OldFrames
<1>1. Ordered(messages', t)
  BY <1>0, AppendOrdered
<1>2. \A k \in DOMAIN t : (k \in DOMAIN s /\ t[k] = s[k]) \/ t[k] = m
  BY AppendStays
<1>. QED
  BY <1>0, <1>1, <1>2 DEF AllEarlier

(* deliver sends a message of which its target was not sent a later one by  *)
(* the same sender, nor, if it has kept its place, a copy.                  *)
LEMMA MayCome ==
  ASSUME IInv, DeliveryInv, NEW c \in Conn, deliver(c),
         NEW i, i = iter[c].id, NEW d \in Conn, d = iter[c].target
  PROVE  /\ Earlier(d, i)'
         /\ \A k \in DOMAIN outbox[d] :
              /\ outbox[d][k].commend = "MESSAGE"
              /\ messages[outbox[d][k].id].from = messages[i].from
              => /\ messages[outbox[d][k].id].nth <= messages[i].nth
                 /\ d \notin iter[c].moved => outbox[d][k].id # i
<1>. framesRead[c] \in Nat
  BY DEF IInv, TypeOK, ThreadTypeOK
<1>1. /\ pc[c] = "write" /\ pc'[c] = "deliver"
      /\ iter'[c].done = iter[c].done /\ iter'[c].moved = iter[c].moved
      /\ framesRead' = framesRead /\ messages' = messages
  BY Delivers
<1>2. /\ i \in 1 .. Len(messages)
      /\ messages[i] = [from |-> c, nth |-> framesRead[c]]
      /\ d \in iter[c].done \cup iter[c].moved
  BY <1>1 DEF DeliveryInv, SendsItsMessage, Broadcasting
<1>3. Earlier(d, i)'
  <2>1. d \in Tried(c)'
    BY <1>1, <1>2 DEF Tried, Reached
  <2>2. messages'[i].from = c /\ messages'[i].nth = framesRead'[c]
    BY <1>1, <1>2
  <2>. QED
    BY <1>1, <1>2, <2>1, <2>2 DEF Earlier
<1>4. ASSUME NEW k \in DOMAIN outbox[d], outbox[d][k].commend = "MESSAGE",
             messages[outbox[d][k].id].from = messages[i].from
      PROVE  /\ messages[outbox[d][k].id].nth <= messages[i].nth
             /\ d \notin iter[c].moved => outbox[d][k].id # i
  <2>1. Earlier(d, outbox[d][k].id)
    BY <1>4 DEF DeliveryInv, OnlyEarlierMessages
  <2>2. PICK m : m = messages[outbox[d][k].id]
    OBVIOUS
  <2>3. m.from = c
    BY <1>2, <1>4, <2>2
  <2>4. pc[c] \in Sending
    BY <1>1 DEF Sending
  <2>5. m.nth <= framesRead[c] /\ (d \notin Tried(c) => m.nth < framesRead[c])
    BY <2>1, <2>2, <2>3, <2>4 DEF Earlier
  <2>6. d \notin iter[c].moved => d \notin Tried(c)
    BY <1>1 DEF Tried, Reached
  <2>7. messages[i].nth = framesRead[c]
    BY <1>2
  <2>. QED
    BY <2>2, <2>5, <2>6, <2>7
<1>. QED
  BY <1>3, <1>4

LEMMA OrderNext ==
  ASSUME IInv, IInv', DeliveryInv, NotYetAccepted, [Next]_vars
  PROVE  OnlyEarlierMessages' /\ SenderOrder'
<1>. DEFINE Fine(d, t) == Ordered(messages', t) /\ AllEarlier(d, t)'
<1>. TypeOK
  BY DEF IInv
<1>0. MessagesStay /\ \A c \in Conn : LoopGoesOn(c)
  BY MessagesNext, LoopNext DEF DeliveryInv
<1>1. ASSUME NEW d \in Conn, outbox'[d] = outbox[d], NEW t, t = outbox'[d]
      PROVE  Fine(d, t)
  BY <1>0, <1>1, OldFrames
<1>2. ASSUME NEW c \in Conn, deliver(c), NEW d \in Conn, NEW t, t = outbox'[d]
      PROVE  Fine(d, t)
  <2>. PICK m \in OutFrame : m = [commend |-> "MESSAGE", id |-> iter[c].id]
    BY <1>2, Delivers
  <2>1. /\ iter[c].target \in Conn
        /\ handlerSend(c, iter[c].target, m)
        /\ messages' = messages
    BY <1>2, Delivers
  <2>2. CASE outbox'[d] = outbox[d]
    BY <1>1, <1>2, <2>2
  <2>3. CASE outbox'[d] # outbox[d]
    <3>1. d = iter[c].target /\ t = Append(outbox[d], m)
      BY <1>2, <2>1, <2>3, SendEffect
    <3>2. m.id = iter[c].id
      OBVIOUS
    <3>3. /\ Earlier(d, m.id)'
          /\ \A k \in DOMAIN outbox[d] :
               /\ outbox[d][k].commend = "MESSAGE"
               /\ messages[outbox[d][k].id].from = messages[m.id].from
               => messages[outbox[d][k].id].nth <= messages[m.id].nth
      BY <1>2, <3>1, <3>2, MayCome
    <3>. QED
      BY <1>0, <2>1, <3>1, <3>3, OneMoreFrame
  <2>. QED
    BY <2>2, <2>3
<1>3. ASSUME NEW c \in Conn, sendRespond(c), NEW d \in Conn, NEW t, t = outbox'[d]
      PROVE  Fine(d, t)
  <2>1. CASE outbox'[d] = outbox[d]
    BY <1>1, <1>3, <2>1
  <2>2. CASE outbox'[d] # outbox[d]
    <3>1. PICK m \in OutFrame : m.commend # "MESSAGE" /\ handlerSend(c, c, m)
      BY <1>3, <2>2, Answers
    <3>2. t = Append(outbox[d], m)
      BY <1>3, <2>2, <3>1, SendEffect
    <3>3. messages' = messages
      BY <1>3 DEF sendRespond, dbVars
    <3>. QED
      BY <1>0, <3>1, <3>2, <3>3, OneMoreFrame
  <2>. QED
    BY <2>1, <2>2
<1>4. ASSUME NEW d \in Conn, NEW t, t = outbox'[d]
      PROVE  Fine(d, t)
  BY <1>1, <1>2, <1>3, <1>4, WhoSends
<1>. QED
  BY <1>4 DEF OnlyEarlierMessages, SenderOrder, AllEarlier, Ordered

-----------------------------------------------------------------------------
(* Copies.                                                                  *)
OnceIn(x, s) == \A j, k \in DOMAIN s : s[j] = x /\ s[k] = x => j = k

LEMMA OnceStays ==
  ASSUME NEW s \in Seq(OutFrame), NEW m \in OutFrame, NEW x,
         \/ OnceIn(x, s) /\ m # x
         \/ \A k \in DOMAIN s : s[k] # x
  PROVE  OnceIn(x, Append(s, m))
<1>. PICK t : t = Append(s, m)
  OBVIOUS
<1>1. /\ DOMAIN s = 1 .. Len(s) /\ DOMAIN t = 1 .. Len(s) + 1 /\ Len(s) \in Nat
      /\ \A k \in 1 .. Len(s) : t[k] = s[k]
      /\ t[Len(s) + 1] = m
  OBVIOUS
<1>2. OnceIn(x, t)
  BY <1>1 DEF OnceIn
<1>. QED
  BY <1>2

(* A copy of the message of c is written by c only, and to its target.      *)
LEMMA WhoCopies ==
  ASSUME IInv, DeliveryInv, NEW c \in Conn, pc[c] \in Broadcasting, [Next]_vars,
         NEW d \in Conn, outbox'[d] # outbox[d]
  PROVE  \E m \in OutFrame :
           /\ outbox'[d] = Append(outbox[d], m)
           /\ m = Copy(c) => deliver(c) /\ d = iter[c].target
<1>. TypeOK
  BY DEF IInv
<1>1. ASSUME NEW e \in Conn, deliver(e)
      PROVE  \E m \in OutFrame :
               /\ outbox'[d] = Append(outbox[d], m)
               /\ m = Copy(c) => deliver(c) /\ d = iter[c].target
  <2>. PICK m \in OutFrame : m = [commend |-> "MESSAGE", id |-> iter[e].id]
    BY <1>1, Delivers
  <2>1. iter[e].target \in Conn /\ handlerSend(e, iter[e].target, m) /\ pc[e] = "write"
    BY <1>1, Delivers
  <2>2. d = iter[e].target /\ outbox'[d] = Append(outbox[d], m)
    BY <2>1, SendEffect
  <2>3. ASSUME m = Copy(c) PROVE c = e
    <3>1. iter[e].id = iter[c].id
      BY <2>3 DEF Copy
    <3>2. messages[iter[e].id].from = e
      <4>1. SendsItsMessage(e) /\ pc[e] \in Broadcasting
        BY <2>1 DEF DeliveryInv, Broadcasting
      <4>2. messages[iter[e].id] = [from |-> e, nth |-> framesRead[e]]
        BY <4>1 DEF SendsItsMessage
      <4>. QED
        BY <4>2
    <3>3. messages[iter[c].id].from = c
      <4>1. messages[iter[c].id] = [from |-> c, nth |-> framesRead[c]]
        BY DEF DeliveryInv, SendsItsMessage
      <4>. QED
        BY <4>1
    <3>. QED
      BY <3>1, <3>2, <3>3
  <2>. QED
    BY <1>1, <2>2, <2>3
<1>2. ASSUME NEW e \in Conn, sendRespond(e)
      PROVE  \E m \in OutFrame :
               /\ outbox'[d] = Append(outbox[d], m)
               /\ m = Copy(c) => deliver(c) /\ d = iter[c].target
  <2>1. PICK m \in OutFrame : m.commend # "MESSAGE" /\ handlerSend(e, e, m)
    BY <1>2, Answers
  <2>2. outbox'[d] = Append(outbox[d], m)
    BY <2>1, SendEffect
  <2>3. m # Copy(c)
    BY <2>1 DEF Copy
  <2>. QED
    BY <2>2, <2>3
<1>. QED
  BY <1>1, <1>2, WhoSends

LEMMA AtMostOnceNext ==
  ASSUME IInv, DeliveryInv, NotYetAccepted, NEW c \in Conn, [Next]_vars
  PROVE  AtMostOnce(c)'
<1>. TypeOK /\ NetTypeOK /\ SendsItsMessage(c)
  BY DEF IInv, TypeOK, DeliveryInv
<1>. SUFFICES ASSUME pc'[c] \in {"deliver", "write"},
                     NEW d \in Conn \ iter'[c].moved
              PROVE  OnceIn(Copy(c)', outbox'[d])
  BY DEF AtMostOnce, OnceIn
<1>0. outbox[d] \in Seq(OutFrame)
  BY DEF NetTypeOK
<1>1. ASSUME pc[c] \in Broadcasting, iter'[c].id = iter[c].id,
             ~deliver(c) \/ d # iter[c].target,
             OnceIn(Copy(c), outbox[d])
      PROVE  OnceIn(Copy(c)', outbox'[d])
  <2>1. Copy(c)' = Copy(c)
    BY <1>1 DEF Copy
  <2>2. CASE outbox'[d] = outbox[d]
    BY <1>1, <2>1, <2>2
  <2>3. CASE outbox'[d] # outbox[d]
    <3>1. PICK m \in OutFrame : outbox'[d] = Append(outbox[d], m) /\ m # Copy(c)
      BY <1>1, <2>3, WhoCopies
    <3>. QED
      BY <1>0, <1>1, <2>1, <3>1, OnceStays
  <2>. QED
    BY <2>2, <2>3
<1>2. ASSUME pc[c] \in {"deliver", "write"}, d \notin iter[c].moved
      PROVE  OnceIn(Copy(c), outbox[d])
  BY <1>2 DEF DeliveryInv, AtMostOnce, OnceIn
<1>3. CASE SameLoop(c)
  <2>1. pc'[c] = pc[c] /\ iter'[c].id = iter[c].id /\ d \notin iter[c].moved
    BY <1>3 DEF SameLoop
  <2>2. ~deliver(c)
    BY <2>1, Delivers
  <2>. QED
    BY <1>1, <1>2, <2>1, <2>2 DEF Broadcasting
<1>4. CASE getSubscribers(c)
  <2>1. pc[c] = "getSubscribers" /\ iter'[c].id = iter[c].id /\ ~deliver(c)
    BY <1>4, Iterates DEF deliver
  <2>2. ASSUME NEW k \in DOMAIN outbox[d], outbox[d][k] = Copy(c)
        PROVE  FALSE
    <3>1. outbox[d][k].commend = "MESSAGE" /\ outbox[d][k].id = iter[c].id
      BY <2>2 DEF Copy
    <3>2. Earlier(d, iter[c].id)
      BY <3>1 DEF DeliveryInv, OnlyEarlierMessages
    <3>3. messages[iter[c].id] = [from |-> c, nth |-> framesRead[c]]
      BY <2>1 DEF SendsItsMessage, Broadcasting
    <3>4. pc[c] \in Sending /\ Tried(c) = {}
      BY <2>1 DEF Sending, Tried
    <3>5. framesRead[c] < framesRead[c] /\ framesRead[c] \in Nat
      BY <3>2, <3>3, <3>4 DEF Earlier, TypeOK, ThreadTypeOK
    <3>. QED
      BY <3>5
  <2>3. OnceIn(Copy(c), outbox[d])
    BY <2>2 DEF OnceIn
  <2>. QED
    BY <1>1, <2>1, <2>3 DEF Broadcasting
<1>5. CASE nextSubscriber(c) /\ ~Crash(c)
  <2>1. /\ pc[c] = "deliver" /\ iter'[c].id = iter[c].id
        /\ d \notin iter[c].moved /\ ~deliver(c)
    BY <1>5, Chooses, Delivers
  <2>. QED
    BY <1>1, <1>2, <2>1 DEF Broadcasting
<1>6. CASE deliver(c)
  <2>1. /\ pc[c] = "write" /\ iter'[c].id = iter[c].id
        /\ d \notin iter[c].moved
    BY <1>6, Delivers
  <2>2. CASE d # iter[c].target
    BY <1>1, <1>2, <2>1, <2>2 DEF Broadcasting
  <2>3. CASE d = iter[c].target
    <3>1. ASSUME NEW k \in DOMAIN outbox[d], outbox[d][k] = Copy(c)
          PROVE  FALSE
      <4>1. outbox[d][k].commend = "MESSAGE" /\ outbox[d][k].id = iter[c].id
        BY <3>1 DEF Copy
      <4>. QED
        BY <1>6, <2>1, <2>3, <4>1, MayCome
    <3>2. Copy(c)' = Copy(c)
      BY <2>1 DEF Copy
    <3>3. PICK m \in OutFrame :
            outbox'[d] = outbox[d] \/ outbox'[d] = Append(outbox[d], m)
      <4>1. pc[c] \in Broadcasting
        BY <2>1 DEF Broadcasting
      <4>2. OutFrame # {}
        BY <1>6, Delivers
      <4>. QED
        BY <4>1, <4>2, WhoCopies
    <3>4. CASE outbox'[d] = outbox[d]
      BY <3>1, <3>2, <3>4 DEF OnceIn
    <3>5. CASE outbox'[d] = Append(outbox[d], m)
      BY <1>0, <3>1, <3>2, <3>5, OnceStays
    <3>. QED
      BY <3>3, <3>4, <3>5
  <2>. QED
    BY <2>2, <2>3
<1>7. CASE Outside(c) \/ storeMessage(c)
  <2>1. pc'[c] \notin {"deliver", "write"}
    BY <1>7 DEF Outside, Broadcasting, storeMessage, GoTo, TypeOK, ThreadTypeOK
  <2>. QED
    BY <2>1
<1>. QED
  BY <1>3, <1>4, <1>5, <1>6, <1>7, LoopCases

-----------------------------------------------------------------------------
(* The theorems.                                                            *)

(* The invariant of the broadcasts.                                         *)
THEOREM DeliveryInvariance == Spec => []DeliveryInv
<1>1. Init => DeliveryInv
  <2>. SUFFICES ASSUME Init PROVE DeliveryInv
    OBVIOUS
  <2>1. ASSUME NEW c \in Conn
        PROVE  SendsItsMessage(c) /\ Visited(c) /\ AtMostOnce(c)
    BY DEF Init, NoIter, SendsItsMessage, Visited, Reached, AtMostOnce, Broadcasting
  <2>2. \A d \in Conn : DOMAIN outbox[d] = {}
    BY DEF Init
  <2>. QED
    BY <2>1, <2>2 DEF Init, DeliveryInv, HandlersAreAccepted, OnlyEarlierMessages,
       SenderOrder
<1>2. IInv /\ IInv' /\ NotYetAccepted /\ DeliveryInv /\ [Next]_vars => DeliveryInv'
  BY SendsItsMessageNext, VisitedNext, AtMostOnceNext, HandlersAreAcceptedNext,
     OrderNext
  DEF DeliveryInv
<1>. QED
  BY <1>1, <1>2, ErrorInvariance, PTL DEF Spec

(* Per receiver, the messages of one sender arrive in order, although ids   *)
(* are drawn under the lock and frames are written without it.              *)
THEOREM MessagesInOrder == Spec => []SenderOrder
BY DeliveryInvariance, PTL DEF DeliveryInv

(* A broadcast that ends reached everyone who was subscribed from its       *)
(* beginning to its end, has kept its place in the table and whose socket   *)
(* is open, and exactly once: no other thread's steps, and none of its own, *)
(* undo a delivery or repeat it.  That the iterator returns whoever keeps   *)
(* its place is the model of HashSet (EndOfBroadcast).                      *)
THEOREM NobodyIsMissed == Spec => BroadcastReachesEveryone
<1>. DEFINE Once(c) ==
       /\ messages[iter[c].id] = [from |-> c, nth |-> framesRead[c]]
       /\ \A d \in (iter[c].start \cap channels[iter[c].channel]) \ iter[c].moved :
            sockOpen[d] =>
              \E k \in DOMAIN outbox[d] : \A j \in DOMAIN outbox[d] :
                outbox[d][j] = Copy(c) <=> j = k
<1>1. ASSUME IInv, DeliveryInv, NEW c \in Conn, endBroadcast(c)
      PROVE  Once(c)
  <2>1. pc[c] = "deliver"
    BY <1>1 DEF endBroadcast
  <2>2. messages[iter[c].id] = [from |-> c, nth |-> framesRead[c]]
    BY <1>1, <2>1 DEF DeliveryInv, SendsItsMessage, Broadcasting
  <2>3. ASSUME NEW d \in (iter[c].start \cap channels[iter[c].channel]) \ iter[c].moved,
               sockOpen[d]
        PROVE  \E k \in DOMAIN outbox[d] : \A j \in DOMAIN outbox[d] :
                 outbox[d][j] = Copy(c) <=> j = k
    <3>1. d \in Staying(c)
      BY DEF Staying
    <3>2. d \in Reached(c)
      BY <1>1, <2>1, <3>1 DEF endBroadcast, EndOfBroadcast, Reached
    <3>3. PICK k \in DOMAIN outbox[d] : outbox[d][k] = Copy(c)
      BY <1>1, <2>3, <3>2 DEF DeliveryInv, Visited
    <3>4. d \in Conn \ iter[c].moved
      BY <1>1 DEF IInv, TypeOK, ThreadTypeOK, Iterator
    <3>5. \A j \in DOMAIN outbox[d] : outbox[d][j] = Copy(c) => j = k
      BY <1>1, <2>1, <3>3, <3>4 DEF DeliveryInv, AtMostOnce
    <3>. QED
      BY <3>3, <3>5
  <2>. QED
    BY <2>2, <2>3
<1>2. IInv /\ DeliveryInv /\ [Next]_vars =>
        [\A c \in Conn : endBroadcast(c) => Once(c)]_vars
  BY <1>1
<1>. QED
  BY <1>2, DeliveryInvariance, Invariance, PTL DEF Spec, BroadcastReachesEveryone
=============================================================================
