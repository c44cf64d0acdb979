-------------------------- MODULE StompSystemProofs --------------------------
(***************************************************************************)
(* Proofs about StompSystem, for any number of lines, connections and      *)
(* messages, any channels and any input: the threads of the server do to   *)
(* their client what the client's environment Peer may do, and nothing     *)
(* else.                                                                   *)
(***************************************************************************)
EXTENDS StompSystem, StompClientProofs, SequenceTheorems

(* The theorems about the server, for the server of the system.             *)
SP == INSTANCE StompSessionProofs WITH
  SubId <- Ids, SmallSet <- 8, Deaf <- {},
  MaxFrames <- [n \in Conn |-> MaxSends * MaxLines],
  Frames <- [n \in Conn |-> {Parsed(f) : f \in SomeFrames}],
  StripSlash <- [ch \in Channel |-> ch],
  channels <- dbChannels, isTerminate <- hasTerminated

-----------------------------------------------------------------------------
(* What they assume of the constants holds.                                 *)

LEMMA ParsedTypes ==
  \A f \in SomeFrames : Parsed(f) \in SP!Frame
<1>1. \A i \in Ids : i # 0
  BY NumberTypes
<1>2. \A f \in SomeFrames :
        /\ f.command \in SP!Commend /\ f.destination \in Channel \cup {Null}
        /\ f.id \in Ids \cup {0}
  <2>1. TAKE f \in SomeFrames
  <2>2. CASE f \in {Plain("CONNECT"), Disconnect(1)}
    BY <2>2 DEF Plain, Disconnect, SP!Commend
  <2>3. CASE \E ch \in Channel : f = Send(ch)
    BY <2>3 DEF Send, Plain, SP!Commend
  <2>4. CASE \E ch \in Channel, i \in Ids : f = Subscribe(ch, i, 1)
    BY <2>4 DEF Subscribe, Plain, SP!Commend
  <2>5. CASE \E i \in Ids : f = Unsubscribe(i, 1)
    BY <2>5 DEF Unsubscribe, Plain, SP!Commend
  <2>. QED
    BY <2>1, <2>2, <2>3, <2>4, <2>5 DEF SomeFrames
<1>. QED
  BY <1>1, <1>2 DEF Parsed, SP!Frame, User, Password

LEMMA ServerAssumptions ==
  /\ /\ [n \in Conn |-> MaxSends * MaxLines] \in [SP!Conn -> Nat]
     /\ [n \in Conn |-> {Parsed(f) : f \in SomeFrames}]
           \in [SP!Conn -> SUBSET SP!Frame]
     /\ NotANumber \notin Ids
     /\ NotANumber # Null
     /\ [ch \in Channel |-> ch] \in [Channel -> Channel]
     /\ 8 \in Nat
     /\ {} \subseteq SP!Conn
  /\ /\ MaxConnections \in Nat
     /\ Ids \subseteq Int
     /\ Null \notin User \cup Password \cup Channel \cup Ids
     /\ Null \notin [Ids -> Channel \cup {Null}]
<1>1. Conn = SP!Conn
  BY DEF Conn, SP!Conn
<1>2. MaxSends * MaxLines \in Nat
  BY NumberTypes DEF MaxSends
<1>3. {Parsed(f) : f \in SomeFrames} \subseteq SP!Frame
  BY ParsedTypes
<1>4. Ids \subseteq Int
  BY NumberTypes DEF Ids
<1>. QED
  BY <1>1, <1>2, <1>3, <1>4, NumberTypes, ClientAssumption, SystemAssumption
  DEF User, Password

LEMMA ServerInvInit == SP!Init => SP!IInv
BY ServerAssumptions, SP!InvariantInit

LEMMA ServerInvNext == SP!IInv /\ [SP!Next]_SP!vars => SP!IInv'
BY ServerAssumptions, SP!InvariantNext

-----------------------------------------------------------------------------
(* The actions of the system are those that the theorems are about.         *)

LEMMA SameConnections ==
  /\ Server!Init <=> SP!Init
  /\ Server!Accept <=> SP!Accept
  /\ \A n \in Conn : /\ Server!ReadFrame(n) <=> SP!ReadFrame(n)
                     /\ Server!Eof(n) <=> SP!Eof(n)
<1>1. Server!Conn = SP!Conn /\ Server!Commend = SP!Commend
  BY DEF Server!Conn, SP!Conn, Server!Commend, SP!Commend
<1>2. Server!Init <=> SP!Init
  BY <1>1 DEF Server!Init, SP!Init, Server!DbInit, SP!DbInit, Server!NoFrame,
     SP!NoFrame, Server!NoIter, SP!NoIter
<1>3. Server!Accept <=> SP!Accept
  BY DEF Server!Accept, SP!Accept, Server!GoTo, SP!GoTo, Server!dbVars,
     SP!dbVars, Server!lockVars, SP!lockVars
<1>4. ASSUME NEW n \in Conn
      PROVE  /\ Server!ReadFrame(n) <=> SP!ReadFrame(n)
             /\ Server!Eof(n) <=> SP!Eof(n)
  BY <1>1 DEF Server!ReadFrame, SP!ReadFrame, Server!Eof, SP!Eof, Server!Close,
     SP!Close, Server!GoTo, SP!GoTo, Server!dbVars, SP!dbVars,
     Server!lockVars, SP!lockVars, Server!netVars, SP!netVars
<1>. QED
  BY <1>2, <1>3, <1>4

LEMMA SameLogin ==
  ASSUME NEW c \in Conn
  PROVE  /\ Server!connectHendel(c) <=> SP!connectHendel(c)
         /\ Server!getPasswordForUser(c) <=> SP!getPasswordForUser(c)
         /\ Server!addUser(c) <=> SP!addUser(c)
         /\ Server!checkPassword(c) <=> SP!checkPassword(c)
         /\ Server!setConnected(c) <=> SP!setConnected(c)
<1>. USE DEF Server!GoTo, SP!GoTo, Server!Reply, SP!Reply, Server!dbVars,
     SP!dbVars, Server!lockVars, SP!lockVars, Server!netVars, SP!netVars
<1>1. Server!connectHendel(c) <=> SP!connectHendel(c)
  BY DEF Server!connectHendel, SP!connectHendel
<1>2. Server!getPasswordForUser(c) <=> SP!getPasswordForUser(c)
  BY DEF Server!getPasswordForUser, SP!getPasswordForUser,
     Server!CanRead, SP!CanRead
<1>3. Server!addUser(c) <=> SP!addUser(c)
  BY DEF Server!addUser, SP!addUser, Server!addOrUpdateUser,
     SP!addOrUpdateUser, Server!CanWrite, SP!CanWrite
<1>4. Server!checkPassword(c) <=> SP!checkPassword(c)
  BY DEF Server!checkPassword, SP!checkPassword, Server!CanRead, SP!CanRead
<1>5. Server!setConnected(c) <=> SP!setConnected(c)
  BY DEF Server!setConnected, SP!setConnected, Server!setNewConnected,
     SP!setNewConnected, Server!CanWrite, SP!CanWrite
<1>. QED
  BY <1>1, <1>2, <1>3, <1>4, <1>5

(* What the readers of the database compute.                                *)
LEMMA SameReaders ==
  /\ Server!CanRead <=> SP!CanRead
  /\ Server!CanWrite <=> SP!CanWrite
  /\ \A c : /\ Server!Details(c) = SP!Details(c)
            /\ Server!SubscribedChannels(c) = SP!SubscribedChannels(c)
            /\ Server!ChannelsWithout(c) = SP!ChannelsWithout(c)
            /\ Server!Candidates(c) = SP!Candidates(c)
            /\ \A ch : Server!getSubscriptionIDForChannel(ch, c)
                         = SP!getSubscriptionIDForChannel(ch, c)
<1>1. \A c : /\ Server!Details(c) = SP!Details(c)
             /\ Server!SubscribedChannels(c) = SP!SubscribedChannels(c)
  BY DEF Server!Details, SP!Details, Server!NoDetails, SP!NoDetails,
     Server!SubscribedChannels, SP!SubscribedChannels
<1>2. \A c : Server!ChannelsWithout(c) = SP!ChannelsWithout(c)
  BY <1>1 DEF Server!ChannelsWithout, SP!ChannelsWithout
<1>3. \A c : Server!Candidates(c) = SP!Candidates(c)
  BY DEF Server!Candidates, SP!Candidates
<1>4. \A c, ch : Server!getSubscriptionIDForChannel(ch, c)
                   = SP!getSubscriptionIDForChannel(ch, c)
  BY <1>1 DEF Server!getSubscriptionIDForChannel,
     SP!getSubscriptionIDForChannel
<1>. QED
  BY <1>1, <1>2, <1>3, <1>4
  DEF Server!CanRead, SP!CanRead, Server!CanWrite, SP!CanWrite

LEMMA SameHelpers ==
  ASSUME NEW c \in Conn
  PROVE  /\ \A l : Server!GoTo(c, l) <=> SP!GoTo(c, l)
         /\ \A r : Server!Reply(c, r) <=> SP!Reply(c, r)
         /\ Server!BackToLoop(c) <=> SP!BackToLoop(c)
         /\ Server!Crash(c) <=> SP!Crash(c)
         /\ \A d, m : Server!handlerSend(c, d, m) <=> SP!handlerSend(c, d, m)
         /\ Server!MarkStale <=> SP!MarkStale
         /\ Server!dbDisconnect(c) <=> SP!dbDisconnect(c)
<1>1. Server!NoFrame = SP!NoFrame /\ Server!NoIter = SP!NoIter
  BY DEF Server!NoFrame, SP!NoFrame, Server!NoIter, SP!NoIter
<1>2. Server!MarkStale <=> SP!MarkStale
  <2>0. \A S : Server!Cardinality(S) = SP!Cardinality(S)
    BY DEF Server!Cardinality, SP!Cardinality
  <2>1. \A ch : Server!Moved(ch) = SP!Moved(ch)
    BY <2>0 DEF Server!Moved, SP!Moved, Server!Conn, SP!Conn
  <2>2. \A i : Server!Overtaken(i) = SP!Overtaken(i)
    BY <2>1 DEF Server!Overtaken, SP!Overtaken
  <2>. QED
    BY <2>2 DEF Server!MarkStale, SP!MarkStale, Server!Conn, SP!Conn
<1>3. Server!dbDisconnect(c) <=> SP!dbDisconnect(c)
  BY SameReaders DEF Server!dbDisconnect, SP!dbDisconnect, Server!lockVars,
     SP!lockVars
<1>4. \A d, m : Server!handlerSend(c, d, m) <=> SP!handlerSend(c, d, m)
  BY DEF Server!handlerSend, SP!handlerSend
<1>. QED
  BY <1>1, <1>2, <1>3, <1>4 DEF Server!GoTo, SP!GoTo, Server!Reply, SP!Reply,
     Server!BackToLoop, SP!BackToLoop, Server!Crash, SP!Crash

LEMMA SameSend ==
  ASSUME NEW c \in Conn
  PROVE  /\ Server!sendHendel(c) <=> SP!sendHendel(c)
         /\ Server!storeMessage(c) <=> SP!storeMessage(c)
         /\ Server!getSubscribers(c) <=> SP!getSubscribers(c)
         /\ Server!nextSubscriber(c) <=> SP!nextSubscriber(c)
         /\ Server!concurrentModification(c) <=> SP!concurrentModification(c)
         /\ Server!deliver(c) <=> SP!deliver(c)
         /\ Server!endBroadcast(c) <=> SP!endBroadcast(c)
<1>. USE SameReaders, SameHelpers DEF Server!dbVars, SP!dbVars,
     Server!lockVars, SP!lockVars, Server!netVars, SP!netVars
<1>0. Server!SendChannel(c) = SP!SendChannel(c)
  BY DEF Server!SendChannel, SP!SendChannel
<1>1. Server!sendHendel(c) <=> SP!sendHendel(c)
  BY <1>0 DEF Server!sendHendel, SP!sendHendel,
     Server!isSubscribersForChannel, SP!isSubscribersForChannel
<1>2. Server!storeMessage(c) <=> SP!storeMessage(c)
  BY <1>0 DEF Server!storeMessage, SP!storeMessage, Server!addMessage,
     SP!addMessage
<1>3. Server!getSubscribers(c) <=> SP!getSubscribers(c)
  BY DEF Server!getSubscribers, SP!getSubscribers
<1>4. Server!nextSubscriber(c) <=> SP!nextSubscriber(c)
  BY DEF Server!nextSubscriber, SP!nextSubscriber
<1>5. Server!concurrentModification(c) <=> SP!concurrentModification(c)
  BY DEF Server!concurrentModification, SP!concurrentModification
<1>6. Server!deliver(c) <=> SP!deliver(c)
  BY DEF Server!deliver, SP!deliver
<1>7. Server!endBroadcast(c) <=> SP!endBroadcast(c)
  BY DEF Server!endBroadcast, SP!endBroadcast, Server!EndOfBroadcast,
     SP!EndOfBroadcast, Server!Staying, SP!Staying
<1>. QED
  BY <1>1, <1>2, <1>3, <1>4, <1>5, <1>6, <1>7

LEMMA SameSubscription ==
  ASSUME NEW c \in Conn
  PROVE  /\ Server!subscribeHendel(c) <=> SP!subscribeHendel(c)
         /\ Server!addSubscription(c) <=> SP!addSubscription(c)
         /\ Server!unsubscribeHendel(c) <=> SP!unsubscribeHendel(c)
         /\ Server!removeSubscription(c) <=> SP!removeSubscription(c)
         /\ Server!disconnectHendel(c) <=> SP!disconnectHendel(c)
<1>. USE SameReaders, SameHelpers DEF Server!dbVars, SP!dbVars,
     Server!lockVars, SP!lockVars, Server!netVars, SP!netVars
<1>0. \A f : Server!ReceiptFor(f) = SP!ReceiptFor(f)
  BY DEF Server!ReceiptFor, SP!ReceiptFor
<1>1. Server!subscribeHendel(c) <=> SP!subscribeHendel(c)
  BY DEF Server!subscribeHendel, SP!subscribeHendel,
     Server!isSubscribersForChannel, SP!isSubscribersForChannel
<1>2. Server!addSubscription(c) <=> SP!addSubscription(c)
  BY <1>0 DEF Server!addSubscription, SP!addSubscription,
     Server!addChannelSubscription, SP!addChannelSubscription
<1>3. Server!unsubscribeHendel(c) <=> SP!unsubscribeHendel(c)
  BY DEF Server!unsubscribeHendel, SP!unsubscribeHendel, Server!isValidID,
     SP!isValidID, Server!leakReadLock, SP!leakReadLock
<1>4. Server!removeSubscription(c) <=> SP!removeSubscription(c)
  BY <1>0 DEF Server!removeSubscription, SP!removeSubscription,
     Server!removeChannelSubscription, SP!removeChannelSubscription
<1>5. Server!disconnectHendel(c) <=> SP!disconnectHendel(c)
  BY DEF Server!disconnectHendel, SP!disconnectHendel
<1>. QED
  BY <1>1, <1>2, <1>3, <1>4, <1>5

LEMMA SameStep ==
  ASSUME NEW c \in Conn
  PROVE  Server!Step(c) <=> SP!Step(c)
<1>. USE SameHelpers DEF Server!dbVars, SP!dbVars, Server!lockVars,
     SP!lockVars, Server!netVars, SP!netVars
<1>0. \A f : Server!ErrorPath(f) = SP!ErrorPath(f)
  BY DEF Server!ErrorPath, SP!ErrorPath
<1>1. Server!sendRespond(c) <=> SP!sendRespond(c)
  BY <1>0 DEF Server!sendRespond, SP!sendRespond
<1>2. /\ Server!disconnectUser(c) <=> SP!disconnectUser(c)
      /\ Server!removeHandler(c) <=> SP!removeHandler(c)
      /\ Server!terminate(c) <=> SP!terminate(c)
  BY <1>0 DEF Server!disconnectUser, SP!disconnectUser, Server!removeHandler,
     SP!removeHandler, Server!terminate, SP!terminate
<1>3. Server!waitForWriteLock(c) <=> SP!waitForWriteLock(c)
  BY DEF Server!waitForWriteLock, SP!waitForWriteLock, Server!NeedsWriteLock,
     SP!NeedsWriteLock, Server!queueForWriteLock, SP!queueForWriteLock,
     Server!threadVars, SP!threadVars
<1>4. Server!ExitLoop(c) <=> SP!ExitLoop(c)
  BY DEF Server!ExitLoop, SP!ExitLoop, Server!Close, SP!Close
<1>. QED
  BY <1>1, <1>2, <1>3, <1>4, SameLogin, SameSend, SameSubscription
  DEF Server!Step, SP!Step

-----------------------------------------------------------------------------
(* Sequences.                                                               *)

LEMMA SentNothing ==
  ASSUME NEW S, NEW s \in Seq(S)
  PROVE  SubSeq(s, Len(s) + 1, Len(s)) = <<>> /\ s \o <<>> = s
OBVIOUS

LEMMA SentOne ==
  ASSUME NEW S, NEW s \in Seq(S), NEW f, Append(s, f) \in Seq(S)
  PROVE  /\ f \in S
         /\ SubSeq(Append(s, f), Len(s) + 1, Len(Append(s, f))) = <<f>>
<1>1. f = Append(s, f)[Len(s) + 1] /\ Len(Append(s, f)) = Len(s) + 1
  OBVIOUS
<1>2. f \in S
  BY <1>1
<1>3. SubSeq(Append(s, f), Len(s) + 1, Len(s) + 1) = <<f>>
  <2>. DEFINE k == Len(s) + 1
              t == SubSeq(Append(s, f), k, k)
  <2>1. k \in Nat /\ k >= 1 /\ k <= Len(Append(s, f)) /\ k - k + 1 = 1
    BY <1>1
  <2>2. t \in Seq(S) /\ Len(t) = 1 /\ t[1] = f
    BY <1>1, <2>1
  <2>. HIDE DEF t
  <2>3. t = <<f>>
    BY <1>2, <2>2
  <2>. QED
    BY <2>3 DEF t
<1>. QED
  BY <1>1, <1>2, <1>3

LEMMA PushedAndPopped ==
  ASSUME NEW S, NEW s \in Seq(S), NEW h \in S
  PROVE  /\ <<h>> \o s \in Seq(S) /\ <<h>> \o s # <<>>
         /\ Head(<<h>> \o s) = h /\ Tail(<<h>> \o s) = s
         /\ SubSeq(<<h>> \o s, 2, Len(<<h>> \o s)) = s
         /\ s # <<>> => <<Head(s)>> \o Tail(s) = s /\ Head(s) \in S
<1>1. Len(<<h>> \o s) = Len(s) + 1 /\ <<h>> \o s \in Seq(S)
  OBVIOUS
<1>2. Head(<<h>> \o s) = h /\ Tail(<<h>> \o s) = s
  BY <1>1
<1>3. SubSeq(<<h>> \o s, 2, Len(<<h>> \o s)) = s
  BY <1>1
<1>4. s # <<>> => <<Head(s)>> \o Tail(s) = s /\ Head(s) \in S
  OBVIOUS
<1>. QED
  BY <1>1, <1>2, <1>3, <1>4

LEMMA PushedFirst ==
  ASSUME NEW S, NEW s \in Seq(S), NEW h \in S, NEW f \in S
  PROVE  (<<h>> \o s) \o <<f>> = <<h>> \o (s \o <<f>>)
OBVIOUS

LEMMA AppendedIsLast ==
  ASSUME NEW S, NEW s \in Seq(S), NEW f \in S
  PROVE  /\ Append(s, f) # s /\ Append(s, f)[Len(Append(s, f))] = f
         /\ Append(s, f) = s \o <<f>> /\ Append(s, f) \in Seq(S)
OBVIOUS

-----------------------------------------------------------------------------
(* The invariant is about the connection of the socket alone.               *)

LEMMA SameBothSides ==
  ASSUME NEW n \in Conn, BothSides(n),
         peer'[n] = peer[n], toServer'[n] = toServer[n], wire'[n] = wire[n],
         inHand'[n] = inHand[n], pc'[n] = pc[n], frame'[n] = frame[n],
         respond'[n] = respond[n], hasTerminated'[n] = hasTerminated[n],
         sockOpen'[n] = sockOpen[n]
  PROVE  BothSides(n)'
BY DEF BothSides, Serving, Refused, Handles

LEMMA WithSocket ==
  ASSUME NEW n \in Conn, sock' = n, BothSides(n)', NumberedAlike',
         (wire \in [Conn -> Seq(Frame)])', (inHand \in [Conn -> Frame])'
  PROVE  SidesInv'
BY DEF SidesInv, BothSides, Serving, Refused, Handles

LEMMA WithoutSocket ==
  ASSUME sock' = NoSocket, NumberedAlike',
         (wire \in [Conn -> Seq(Frame)])', (inHand \in [Conn -> Frame])'
  PROVE  SidesInv'
BY DEF SidesInv

LEMMA SocketStays ==
  ASSUME ClientInv, SidesInv, UNCHANGED sock, NumberedAlike',
         (wire \in [Conn -> Seq(Frame)])', (inHand \in [Conn -> Frame])',
         \A n \in Conn : n = sock /\ BothSides(n) => BothSides(n)'
  PROVE  SidesInv'
<1>1. CASE sock = NoSocket
  BY <1>1, WithoutSocket
<1>2. CASE sock # NoSocket
  <2>1. PICK n \in Conn : n = sock
    BY <1>2 DEF ClientInv, ClientTypeOK, SharedTypeOK
  <2>2. BothSides(n)
    BY <1>2, <2>1 DEF SidesInv
  <2>. QED
    BY <2>1, <2>2, WithSocket
<1>. QED
  BY <1>1, <1>2

-----------------------------------------------------------------------------
(* The client: it writes to its connection, makes one, or closes it.        *)

ClientWrites ==
  /\ UNCHANGED <<sock, peer, connections>>
  /\ \/ UNCHANGED toServer
     \/ /\ sock # NoSocket /\ peer[sock] = "serving"
        /\ \E f : toServer' = [toServer EXCEPT ![sock] = Append(@, f)]

ClientConnects ==
  /\ sock = NoSocket /\ connections < MaxConnections
  /\ sock' = connections /\ connections' = connections + 1
  /\ peer' = [peer EXCEPT ![connections] = "serving"]
  /\ UNCHANGED toServer

ClientCloses ==
  /\ sock # NoSocket /\ sock' = NoSocket
  /\ UNCHANGED connections

LEMMA WhatTheClientDoes ==
  ASSUME ClientInv, Keyboard \/ ServerThread \/ mainReturns
  PROVE  \/ ClientWrites
         \/ ClientConnects /\ connect
         \/ ClientCloses /\ (close \/ mainReturns)
<1>. USE DEF flags, sending
<1>1. CASE mainReturns
  BY <1>1 DEF mainReturns, CloseSocket, ClientCloses
<1>2. CASE close
  BY <1>2 DEF close, CloseSocket, ClientCloses, ClientInv, AnswerInHand
<1>3. CASE \/ handleServer \/ getFrameAscii \/ messageHendel \/ receiptHendel
           \/ loggedOut \/ clearConect \/ erorHendl \/ clearConnected
  BY <1>3 DEF handleServer, getFrameAscii, messageHendel, receiptHendel,
     loggedOut, clearConect, erorHendl, clearConnected, ClientWrites
<1>4. CASE connect
  BY <1>4 DEF connect, ClientConnects
<1>5. CASE \/ handleKeyboard \/ getline \/ badPort \/ connectFails \/ setConect
           \/ setConnected \/ recordJoin \/ bareExit \/ notSubscribed
           \/ exitHendel \/ logoutHendel \/ recordLogout \/ badFile
           \/ summaryHendel
  BY <1>5 DEF handleKeyboard, getline, badPort, connectFails, setConect,
     setConnected, recordJoin, bareExit, notSubscribed, exitHendel,
     logoutHendel, recordLogout, badFile, summaryHendel, ClientWrites
<1>6. CASE sendConnect \/ joinHendel \/ sendFrame \/ reportHendel
  BY <1>6 DEF sendConnect, joinHendel, sendFrame, reportHendel, Ask,
     sendFrameAscii, ClientWrites
<1>. QED
  BY <1>1, <1>2, <1>3, <1>4, <1>5, <1>6 DEF Keyboard, ServerThread

(* The server's side stays while the client takes a step.                   *)
LEMMA ServerStays ==
  ASSUME UNCHANGED serverVars
  PROVE  /\ UNCHANGED <<connectionsIdCuonter, pc, frame, respond,
                        hasTerminated, sockOpen>>
         /\ UNCHANGED SP!vars
BY DEF serverVars, SP!vars, SP!dbVars, SP!lockVars, SP!netVars, SP!threadVars

LEMMA ClientTypes ==
  ASSUME ClientInv
  PROVE  /\ connections \in 0 .. MaxConnections /\ connections \in Nat
         /\ sock # NoSocket => sock \in Conn /\ sock = connections - 1
         /\ NoSocket \notin Conn
         /\ \A n \in Conn : n \in Nat
         /\ toServer \in [Conn -> Seq(Frame)]
         /\ fromServer \in [Conn -> Seq(Answer)]
         /\ peer \in [Conn -> {"none", "serving", "refused", "gone"}]
         /\ \A n \in Conn : n # sock => toServer[n] = <<>>
BY NumberTypes, SocketIsLast
DEF ClientInv, ClientTypeOK, NetTypeOK, SharedTypeOK, SessionsApart,
    OneConnection

LEMMA NothingSent ==
  ASSUME ClientInv, SidesInv, UNCHANGED toServer,
         wire' = [n \in Conn |-> wire[n] \o Sent(n)]
  PROVE  wire' = wire
<1>1. \A n \in Conn : Sent(n) = <<>>
  BY ClientTypes, SentNothing DEF Sent
<1>2. \A n \in Conn : wire[n] \in Seq(Frame) /\ wire[n] \o <<>> = wire[n]
  BY SentNothing DEF SidesInv
<1>. QED
  BY <1>1, <1>2 DEF SidesInv

LEMMA ClientWritesKeeps ==
  ASSUME ClientInv, ClientInv', SidesInv, ClientWrites,
         wire' = [n \in Conn |-> wire[n] \o Sent(n)],
         UNCHANGED <<serverVars, inHand>>
  PROVE  SidesInv'
<1>1. CASE UNCHANGED toServer
  <2>1. UNCHANGED wire
    BY <1>1, NothingSent
  <2>2. NumberedAlike'
    BY <2>1, ServerStays DEF SidesInv, NumberedAlike, ClientWrites
  <2>3. CASE sock = NoSocket
    BY <2>1, <2>2, <2>3, WithoutSocket DEF SidesInv, ClientWrites
  <2>4. CASE sock # NoSocket
    <3>1. PICK n \in Conn : n = sock
      BY <2>4, ClientTypes
    <3>2. BothSides(n) /\ sock' = n
      BY <2>4, <3>1 DEF SidesInv, ClientWrites
    <3>3. BothSides(n)'
      BY <1>1, <2>1, <3>2, ServerStays, SameBothSides DEF ClientWrites
    <3>. QED
      BY <2>1, <2>2, <3>2, <3>3, WithSocket DEF SidesInv
  <2>. QED
    BY <2>3, <2>4
<1>2. CASE ~UNCHANGED toServer
  <2>1. PICK n \in Conn : n = sock
    BY <1>2, ClientTypes DEF ClientWrites
  <2>2. PICK f : toServer' = [toServer EXCEPT ![n] = Append(@, f)]
    BY <1>2, <2>1 DEF ClientWrites
  <2>3. toServer[n] \in Seq(Frame) /\ Append(toServer[n], f) \in Seq(Frame)
    <3>1. toServer' \in [Conn -> Seq(Frame)]
      BY DEF ClientInv, ClientTypeOK, NetTypeOK
    <3>. QED
      BY <2>2, <3>1, ClientTypes
  <2>4. f \in Frame /\ Sent(n) = <<f>>
    BY <2>2, <2>3, SentOne, ClientTypes DEF Sent
  <2>5. \A m \in Conn : m # n => Sent(m) = <<>>
    BY <2>2, ClientTypes, SentNothing DEF Sent
  <2>6. /\ wire' = [wire EXCEPT ![n] = @ \o <<f>>]
        /\ (wire \in [Conn -> Seq(Frame)])'
    <3>1. \A m \in Conn : wire[m] \in Seq(Frame) /\ wire[m] \o <<>> = wire[m]
      BY SentNothing DEF SidesInv
    <3>2. wire[n] \o <<f>> \in Seq(Frame)
      BY <2>4, <3>1
    <3>. QED
      BY <2>4, <2>5, <3>1, <3>2 DEF SidesInv
  <2>7. BothSides(n) /\ peer[n] = "serving"
    BY <1>2, <2>1 DEF SidesInv, ClientWrites
  <2>8. Serving(n)'
    <3>1. Serving(n)
      BY <2>7 DEF BothSides
    <3>2. toServer'[n] = toServer[n] \o <<f>> /\ wire'[n] = wire[n] \o <<f>>
      BY <2>2, <2>3, <2>4, <2>6, AppendedIsLast, ClientTypes DEF SidesInv
    <3>3. CASE /\ pc[n] = "unborn" \/ (sockOpen[n] /\ pc[n] = "loop")
               /\ toServer[n] = wire[n]
      BY <3>1, <3>2, <3>3, ServerStays DEF Serving
    <3>4. CASE /\ sockOpen[n] /\ Handles(n) /\ frame[n] = Parsed(inHand[n])
               /\ toServer[n] = <<inHand[n]>> \o wire[n]
      <4>0. wire[n] \in Seq(Frame) /\ inHand[n] \in Frame
        BY DEF SidesInv
      <4>2. (<<inHand[n]>> \o wire[n]) \o <<f>>
              = <<inHand[n]>> \o (wire[n] \o <<f>>)
        BY <2>4, <4>0, PushedFirst
      <4>1. toServer'[n] = <<inHand[n]>> \o wire'[n]
        BY <3>2, <3>4, <4>2
      <4>. QED
        BY <3>1, <3>2, <3>4, <4>1, ServerStays DEF Serving, Handles
    <3>. QED
      BY <3>1, <3>3, <3>4 DEF Serving
  <2>9. NumberedAlike'
    <3>1. n < connections
      BY <2>1, ClientTypes
    <3>. QED
      BY <2>6, <3>1, ServerStays, ClientTypes
      DEF SidesInv, NumberedAlike, ClientWrites
  <2>10. BothSides(n)'
    BY <2>1, <2>7, <2>8 DEF BothSides, ClientWrites
  <2>. QED
    BY <2>1, <2>6, <2>9, <2>10, WithSocket DEF SidesInv, ClientWrites
<1>. QED
  BY <1>1, <1>2

LEMMA ClientStepKeeps ==
  ASSUME ClientInv, ClientInv', SidesInv, SP!IInv, ClientStep
  PROVE  SidesInv'
<1>1. UNCHANGED <<serverVars, inHand>>
  BY DEF ClientStep
<1>2. CASE ClientWrites
  BY <1>1, <1>2, ClientWritesKeeps DEF ClientStep, ClientWrites
<1>3. CASE ClientConnects
  <2>1. wire' = wire
    BY <1>3, NothingSent DEF ClientStep, ClientConnects
  <2>2. PICK n \in Conn : n = connections
    BY <1>3, ClientTypes, NumberTypes DEF ClientConnects, Conn
  <2>3. /\ n >= connectionsIdCuonter /\ n >= connections
        /\ connectionsIdCuonter \in Nat
    BY <2>2, ClientTypes, NumberTypes
    DEF SidesInv, NumberedAlike, SP!IInv, SP!TypeOK, SP!NetTypeOK
  <2>4. Serving(n)'
    BY <1>1, <1>3, <2>1, <2>2, <2>3, ServerStays, ClientTypes
    DEF ClientConnects, SidesInv, NumberedAlike, Serving
  <2>5. BothSides(n)'
    BY <1>3, <2>2, <2>4, ClientTypes DEF ClientConnects, BothSides
  <2>6. NumberedAlike'
    BY <1>1, <1>3, <2>1, <2>3, ServerStays, ClientTypes
    DEF ClientConnects, SidesInv, NumberedAlike
  <2>. QED
    BY <1>1, <1>3, <2>1, <2>2, <2>5, <2>6, WithSocket
    DEF SidesInv, ClientConnects
<1>4. CASE ClientCloses
  <2>1. PICK n \in Conn : n = sock /\ n < connections
    BY <1>4, ClientTypes DEF ClientCloses
  <2>2. PICK k \in 0 .. Len(wire[n]) :
          wire' = [wire EXCEPT ![n] = SubSeq(@, 1, k)]
    BY <1>4, <2>1 DEF ClientStep, ClientCloses
  <2>3. wire[n] \in Seq(Frame) /\ SubSeq(wire[n], 1, k) \in Seq(Frame)
    BY DEF SidesInv
  <2>4. NumberedAlike'
    BY <1>1, <1>4, <2>1, <2>2, ServerStays
    DEF SidesInv, NumberedAlike, ClientCloses
  <2>. QED
    BY <1>1, <1>4, <2>2, <2>3, <2>4, WithoutSocket DEF SidesInv, ClientCloses
<1>. QED
  BY <1>2, <1>3, <1>4, WhatTheClientDoes DEF ClientStep

-----------------------------------------------------------------------------
(* The server: what it does without the client seeing it.                   *)

LEMMA ServerTypes ==
  ASSUME SP!IInv
  PROVE  /\ connectionsIdCuonter \in Nat
         /\ hasTerminated \in [Conn -> BOOLEAN]
         /\ sockOpen \in [Conn -> BOOLEAN]
         /\ outbox \in [Conn -> Seq(SP!OutFrame)]
         /\ pc \in [Conn -> SP!Labels]
         /\ frame \in [Conn -> SP!Frame]
         /\ respond \in [Conn -> SP!Respond \cup {Null}]
         /\ \A c \in Conn : iter[c].id \in Nat
<1>1. Conn = SP!Conn
  BY DEF Conn, SP!Conn
<1>. QED
  BY <1>1, NumberTypes
  DEF SP!IInv, SP!TypeOK, SP!NetTypeOK, SP!ThreadTypeOK, SP!Iterator

LEMMA ClientStays ==
  ASSUME UNCHANGED <<clientOnly, network>>
  PROVE  UNCHANGED vars
BY DEF clientOnly, network, maps, vars

LEMMA ClientStaysOnly ==
  ASSUME UNCHANGED clientOnly
  PROVE  /\ UNCHANGED <<sock, connections, aborted>>
         /\ UNCHANGED peerOnly
BY DEF clientOnly, peerOnly

LEMMA AcceptKeeps ==
  ASSUME ClientInv, SP!IInv, SidesInv, Accept, UNCHANGED clientOnly
  PROVE  SidesInv'
<1>1. PICK c \in Conn : c = connectionsIdCuonter /\ c < connections
  BY ClientTypes, ServerTypes, NumberTypes DEF Accept, Conn
<1>2. /\ connectionsIdCuonter' = c + 1
      /\ sockOpen' = [sockOpen EXCEPT ![c] = TRUE]
      /\ pc' = [pc EXCEPT ![c] = "loop"]
      /\ UNCHANGED <<frame, respond, hasTerminated>>
  BY <1>1, SameConnections DEF Accept, SP!Accept, SP!GoTo
<1>3. UNCHANGED <<peer, toServer, wire, inHand, sock, connections>>
  BY ClientStaysOnly DEF Accept, network
<1>4. pc[c] = "unborn" /\ ~sockOpen[c] /\ ~hasTerminated[c]
  BY <1>1, ClientTypes DEF SidesInv, NumberedAlike
<1>5. NumberedAlike'
  BY <1>1, <1>2, <1>3, ClientTypes, ServerTypes DEF SidesInv, NumberedAlike
<1>6. ASSUME NEW n \in Conn, BothSides(n)
      PROVE  BothSides(n)'
  <2>1. CASE n = c
    <3>1. peer[n] = "serving" => Serving(n)'
      <4>1. toServer[n] = wire[n] \/ ~Serving(n)
        <5>1. ~Handles(n)
          BY <1>4, <2>1 DEF Handles, HandlerOf
        <5>. QED
          BY <5>1 DEF Serving
      <4>. QED
        BY <1>2, <1>3, <1>4, <2>1, <4>1, <1>6, ServerTypes
        DEF Serving, BothSides, Refused
    <3>2. peer[n] # "refused"
      BY <1>4, <1>6, <2>1 DEF BothSides, Refused
    <3>. QED
      BY <1>3, <1>6, <3>1, <3>2 DEF BothSides
  <2>2. CASE n # c
    BY <1>2, <1>3, <1>6, <2>2, SameBothSides, ServerTypes
  <2>. QED
    BY <2>1, <2>2
<1>. QED
  BY <1>3, <1>5, <1>6, SocketStays DEF SidesInv

LEMMA EofKeeps ==
  ASSUME ClientInv, SP!IInv, SidesInv, UNCHANGED clientOnly,
         NEW c \in Conn, Eof(c)
  PROVE  SidesInv'
<1>1. /\ pc[c] = "loop" /\ c # sock
      /\ sockOpen' = [sockOpen EXCEPT ![c] = FALSE]
      /\ pc' = [pc EXCEPT ![c] = "closed"]
      /\ UNCHANGED <<frame, respond, hasTerminated, connectionsIdCuonter>>
  BY SameConnections DEF Eof, SP!Eof, SP!Close, SP!GoTo
<1>2. UNCHANGED <<peer, toServer, wire, inHand, sock, connections>>
  BY ClientStaysOnly DEF Eof, network
<1>3. NumberedAlike'
  BY <1>1, <1>2, ClientTypes, ServerTypes DEF SidesInv, NumberedAlike
<1>4. \A n \in Conn : n = sock /\ BothSides(n) => BothSides(n)'
  BY <1>1, <1>2, SameBothSides, ServerTypes
<1>. QED
  BY <1>2, <1>3, <1>4, SocketStays DEF SidesInv

LEMMA ReadKeeps ==
  ASSUME ClientInv, SP!IInv, SidesInv, UNCHANGED clientOnly,
         NEW c \in Conn, Read(c)
  PROVE  SidesInv'
<1>0. wire[c] \in Seq(Frame) /\ wire[c] # <<>>
  BY DEF SidesInv, Read
<1>1. PICK h \in Frame : h = Head(wire[c]) /\ wire[c] = <<h>> \o Tail(wire[c])
  BY <1>0
<1>2. /\ frame'[c] = Parsed(h)
      /\ inHand' = [inHand EXCEPT ![c] = h]
      /\ wire' = [wire EXCEPT ![c] = Tail(@)]
      /\ UNCHANGED <<toServer, peer, sock, connections>>
  BY <1>1, ClientStaysOnly DEF Read, network
<1>3. /\ pc[c] = "loop" /\ ~hasTerminated[c] /\ sockOpen[c]
      /\ UNCHANGED <<sockOpen, hasTerminated, connectionsIdCuonter>>
  BY SameConnections DEF Read, SP!ReadFrame, SP!netVars
<1>8. PICK f :
        /\ frame' = [frame EXCEPT ![c] = f]
        /\ IF f.commend \in SP!Commend
           THEN pc' = [pc EXCEPT ![c] = f.commend] /\ UNCHANGED respond
           ELSE /\ pc' = [pc EXCEPT ![c] = "respond"]
                /\ respond' = [respond EXCEPT ![c] = "ERROR"]
  BY SameConnections DEF Read, SP!ReadFrame
<1>9. \A n \in Conn : n # c => /\ pc'[n] = pc[n] /\ frame'[n] = frame[n]
                               /\ respond'[n] = respond[n]
  BY <1>8, ServerTypes
<1>4. pc'[c] = h.command /\ h.command \in Request
  <2>1. h.command \in Request /\ Parsed(h).commend = h.command
    BY DEF Frame, Parsed
  <2>2. f = Parsed(h)
    BY <1>2, <1>8, ServerTypes
  <2>. QED
    BY <1>8, <2>1, <2>2, ServerTypes DEF Request, SP!Commend
<1>5. NumberedAlike'
  <2>1. ASSUME NEW n \in Conn
        PROVE  /\ n >= connections => wire'[n] = <<>>
               /\ n >= connectionsIdCuonter
                    => pc'[n] = "unborn" /\ ~sockOpen[n] /\ ~hasTerminated[n]
    BY <1>0, <1>2, <1>3, <1>9 DEF SidesInv, NumberedAlike
  <2>. QED
    BY <1>2, <1>3, <2>1 DEF SidesInv, NumberedAlike
<1>6. /\ (wire \in [Conn -> Seq(Frame)])'
      /\ (inHand \in [Conn -> Frame])'
  <2>1. Tail(wire[c]) \in Seq(Frame)
    BY <1>0
  <2>. QED
    BY <1>2, <2>1 DEF SidesInv
<1>7. ASSUME NEW n \in Conn, BothSides(n)
      PROVE  BothSides(n)'
  <2>1. CASE n = c
    <3>1. peer[n] # "refused"
      BY <1>3, <1>7, <2>1 DEF BothSides, Refused
    <3>2. ~Handles(n)
      BY <1>3, <2>1 DEF Handles, HandlerOf
    <3>3. ASSUME Serving(n)
          PROVE  Serving(n)'
      <4>1. toServer[n] = wire[n]
        BY <1>3, <2>1, <3>2, <3>3 DEF Serving
      <4>2. toServer'[n] = <<inHand'[n]>> \o wire'[n]
        BY <1>1, <1>2, <2>1, <4>1 DEF SidesInv
      <4>3. Handles(n)'
        BY <1>2, <1>4, <2>1 DEF Handles, HandlerOf, Request, SidesInv
      <4>4. frame'[n] = Parsed(inHand'[n])
        BY <1>2, <2>1 DEF SidesInv
      <4>. QED
        BY <1>3, <2>1, <4>2, <4>3, <4>4 DEF Serving
    <3>. QED
      BY <1>2, <1>7, <3>1, <3>3 DEF BothSides
  <2>2. CASE n # c
    BY <1>2, <1>3, <1>7, <1>9, <2>2, SameBothSides DEF SidesInv
  <2>. QED
    BY <2>1, <2>2
<1>. QED
  BY <1>2, <1>5, <1>6, <1>7, SocketStays

-----------------------------------------------------------------------------
(* The server: what the client sees of its threads.                         *)

LEMMA ThreadSteps ==
  ASSUME SP!IInv, NEW c \in Conn, Server!Step(c)
  PROVE  /\ \/ SP!InHandler(c) \/ SP!Broadcasts(c) \/ SP!Finishes(c)
            \/ SP!Responds(c) \/ SP!Leaves(c) \/ SP!Dies(c) \/ SP!Waits(c)
         /\ pc[c] # "unborn" /\ UNCHANGED connectionsIdCuonter
         /\ \A d \in Conn : d # c =>
              /\ pc'[d] = pc[d] /\ frame'[d] = frame[d]
              /\ respond'[d] = respond[d]
              /\ hasTerminated'[d] = hasTerminated[d]
<1>1. SP!Step(c) /\ SP!TypeOK /\ Conn = SP!Conn
  BY SameStep DEF SP!IInv, Conn, SP!Conn
<1>2. \/ SP!InHandler(c) \/ SP!Broadcasts(c) \/ SP!Finishes(c)
      \/ SP!Responds(c) \/ SP!Leaves(c) \/ SP!Dies(c) \/ SP!Waits(c)
  BY <1>1, ServerAssumptions, SP!VisibleStep
<1>3. pc[c] # "unborn" /\ UNCHANGED connectionsIdCuonter
  BY <1>1, ServerAssumptions, SP!AcceptedStep
<1>4. \A d \in Conn : d # c =>
        /\ pc'[d] = pc[d] /\ frame'[d] = frame[d]
        /\ respond'[d] = respond[d]
        /\ hasTerminated'[d] = hasTerminated[d]
  BY <1>1, ServerAssumptions, SP!OthersStay
<1>. QED
  BY <1>2, <1>3, <1>4

(* A socket that is closed stays closed.                                    *)
LEMMA SocketsOnlyClose ==
  ASSUME SP!IInv, NEW c \in Conn, Server!Step(c), NEW n \in Conn, ~sockOpen[n]
  PROVE  ~sockOpen'[n] /\ outbox'[n] = outbox[n]
<1>1. ASSUME NEW d \in Conn, NEW m, SP!Sends(d, m)
      PROVE  ~sockOpen'[n] /\ outbox'[n] = outbox[n]
  BY <1>1, ServerTypes DEF SP!Sends
<1>2. CASE SP!InHandler(c) \/ SP!Finishes(c) \/ SP!Waits(c) \/ SP!Leaves(c)
  BY <1>2 DEF SP!InHandler, SP!Finishes, SP!Waits, SP!Leaves, SP!Silent
<1>3. CASE SP!Broadcasts(c)
  BY <1>1, <1>3 DEF SP!Broadcasts, Conn, SP!Conn
<1>4. CASE SP!Responds(c)
  BY <1>1, <1>4 DEF SP!Responds
<1>5. CASE SP!Dies(c)
  BY <1>5, ServerTypes DEF SP!Dies
<1>. QED
  BY <1>2, <1>3, <1>4, <1>5, ThreadSteps

LEMMA ThreadNumbers ==
  ASSUME SidesInv, SP!IInv, NEW c \in Conn, Server!Step(c),
         UNCHANGED <<connections, wire>>
  PROVE  NumberedAlike'
<1>1. ASSUME NEW n \in Conn, n >= connectionsIdCuonter
      PROVE  pc'[n] = "unborn" /\ ~sockOpen'[n] /\ ~hasTerminated'[n]
  <2>1. pc[n] = "unborn" /\ ~sockOpen[n] /\ ~hasTerminated[n] /\ n # c
    BY <1>1, ThreadSteps DEF SidesInv, NumberedAlike
  <2>. QED
    BY <2>1, ThreadSteps, SocketsOnlyClose
<1>. QED
  BY <1>1, ThreadSteps DEF SidesInv, NumberedAlike

(* Labels and answers belong to one command.                                *)
LEMMA OneHandler ==
  ASSUME NEW f \in Frame, NEW cmd \in SP!Commend, NEW l \in HandlerOf(f),
         l \in SP!HandlerLabels(cmd)
  PROVE  /\ SP!HandlerLabels(cmd) = HandlerOf(f)
         /\ SP!AnswersTo(cmd) = RespondTo(f)
<1>1. f.command \in Request
  BY DEF Frame
<1>. QED
  BY <1>1 DEF SP!Commend, HandlerOf, RespondTo, SP!HandlerLabels, SP!AnswersTo,
     Request

(* Nothing is passed on of a step that wrote nothing.                       *)
LEMMA PassNothing ==
  ASSUME ClientInv, NEW n \in Conn, NEW c, PassOn(c, n),
         outbox'[n] = outbox[n], sockOpen'[n] = sockOpen[n],
         ~IsDone(n) \/ toServer[n] = <<>>
  PROVE  UNCHANGED network
<1>1. ~Writes(n) /\ ~Closes(n) /\ ~Refuses(n)
  BY DEF Writes, Closes, Refuses
<1>2. IsDone(n) => SubSeq(toServer[n], 2, Len(toServer[n])) = toServer[n]
  <2>1. SubSeq(<<>>, 2, 0) = <<>> /\ Len(<<>>) = 0
    BY SubSeqEmpty
  <2>. QED
    BY <2>1
<1>. QED
  BY <1>1, <1>2, ClientTypes DEF PassOn, network

(* A step of thread c, with the client on connection n; and what the client *)
(* sees of it.                                                              *)
ThreadAt(c, n) ==
  /\ ClientInv /\ SP!IInv /\ SidesInv
  /\ BothSides(n) /\ peer[n] # "gone"
  /\ Server!Step(c) /\ PassOn(c, n)
  /\ UNCHANGED <<clientOnly, wire, inHand>>

PeerActs(n) ==
  \/ UNCHANGED network
  \/ peerAnswers(n) \/ peerRefuses(n) \/ peerBroadcasts(n)
  \/ peerGoes(n) \/ peerBroadcastsLast(n)

Seen(n) == PeerActs(n) /\ BothSides(n)'

LEMMA OthersUnseen ==
  ASSUME NEW c \in Conn, NEW n \in Conn, ThreadAt(c, n), c # n,
         outbox'[n] = outbox[n], sockOpen'[n] = sockOpen[n]
  PROVE  Seen(n)
<1>1. /\ pc'[n] = pc[n] /\ frame'[n] = frame[n]
      /\ respond'[n] = respond[n] /\ hasTerminated'[n] = hasTerminated[n]
  BY ThreadSteps DEF ThreadAt
<1>2. UNCHANGED network
  BY <1>1, PassNothing DEF ThreadAt, IsDone
<1>3. BothSides(n)'
  BY <1>1, <1>2, SameBothSides DEF ThreadAt, network
<1>. QED
  BY <1>2, <1>3 DEF Seen, PeerActs

LEMMA HandlerSeen ==
  ASSUME NEW c \in Conn, NEW n \in Conn, ThreadAt(c, n), SP!InHandler(c)
  PROVE  Seen(n)
<1>1. UNCHANGED <<outbox, sockOpen, hasTerminated>> /\ frame'[c] = frame[c]
  BY DEF SP!InHandler, SP!Silent
<1>2. CASE c = n
  <2>1. PICK cmd \in SP!Commend :
          /\ pc[n] \in SP!HandlerLabels(cmd)
          /\ \/ pc'[n] \in SP!HandlerLabels(cmd)
             \/ pc'[n] = "respond" /\ respond'[n] \in SP!AnswersTo(cmd)
    BY <1>2 DEF SP!InHandler
  <2>2. pc[n] \notin {"unborn", "loop", "respond", "terminate",
                      "dbDisconnect", "removeHandler"}
    BY <2>1 DEF SP!HandlerLabels, SP!Commend
  <2>3. peer[n] = "serving" /\ Serving(n) /\ Handles(n)
    BY <2>2 DEF ThreadAt, BothSides, Serving, Refused
  <2>4. inHand[n] \in Frame /\ inHand'[n] = inHand[n] /\ wire'[n] = wire[n]
    BY DEF ThreadAt, SidesInv
  <2>5. Handles(n)'
    <3>1. pc[n] \in HandlerOf(inHand[n])
      BY <2>2, <2>3 DEF Handles
    <3>2. /\ SP!HandlerLabels(cmd) = HandlerOf(inHand[n])
          /\ SP!AnswersTo(cmd) = RespondTo(inHand[n])
      BY <2>1, <2>4, <3>1, OneHandler
    <3>. QED
      BY <2>1, <2>4, <3>2 DEF Handles
  <2>6. UNCHANGED network
    <3>1. pc'[n] # "loop"
      BY <2>1 DEF SP!HandlerLabels, SP!Commend
    <3>. QED
      BY <1>1, <3>1, PassNothing DEF ThreadAt, IsDone
  <2>7. Serving(n)'
    BY <1>1, <1>2, <2>2, <2>3, <2>4, <2>5, <2>6 DEF Serving, network
  <2>. QED
    BY <2>3, <2>6, <2>7 DEF Seen, PeerActs, BothSides, network
<1>3. CASE c # n
  BY <1>1, <1>3, OthersUnseen
<1>. QED
  BY <1>2, <1>3

LEMMA WaitSeen ==
  ASSUME NEW c \in Conn, NEW n \in Conn, ThreadAt(c, n), SP!Waits(c)
  PROVE  Seen(n)
<1>1. UNCHANGED <<outbox, sockOpen, hasTerminated, pc, frame, respond>>
  BY DEF SP!Waits, SP!Silent, SP!threadVars
<1>2. UNCHANGED network
  BY <1>1, PassNothing DEF ThreadAt, IsDone
<1>3. BothSides(n)'
  BY <1>1, <1>2, SameBothSides DEF ThreadAt, network
<1>. QED
  BY <1>2, <1>3 DEF Seen, PeerActs

LEMMA LeaveSeen ==
  ASSUME NEW c \in Conn, NEW n \in Conn, ThreadAt(c, n), SP!Leaves(c)
  PROVE  Seen(n)
<1>1. UNCHANGED <<outbox, sockOpen>> /\ frame'[c] = frame[c]
  BY DEF SP!Leaves
<1>2. CASE c = n
  <2>1. pc[n] \in {"terminate", "dbDisconnect", "removeHandler"}
    BY <1>2 DEF SP!Leaves
  <2>2. peer[n] = "refused" /\ Refused(n)
    <3>1. inHand[n] \in Frame
      BY DEF ThreadAt, SidesInv
    <3>2. ~Handles(n)
      BY <2>1, <3>1 DEF Handles, HandlerOf, Frame, Request
    <3>. QED
      BY <2>1, <3>2 DEF ThreadAt, BothSides, Serving
  <2>3. UNCHANGED network
    BY <1>1, <2>2, PassNothing DEF ThreadAt, Refused
  <2>4. /\ inHand[n] \in Frame /\ inHand'[n] = inHand[n]
        /\ frame[n].commend = inHand[n].command
    BY <2>1, <2>2 DEF ThreadAt, SidesInv, Refused, Parsed
  <2>5. Refused(n)'
    <3>1. inHand[n].command \in Request
      BY <2>4 DEF Frame
    <3>2. CASE inHand[n].command = "SEND"
      <4>1. SP!ErrorPath(frame[n]) =
              [respond |-> "terminate", terminate |-> "dbDisconnect",
               dbDisconnect |-> "removeHandler", removeHandler |-> "loop"]
        BY <2>4, <3>2 DEF SP!ErrorPath
      <4>2. /\ pc[n] = "terminate" => pc'[n] = "dbDisconnect" /\ hasTerminated'[n]
            /\ pc[n] = "dbDisconnect" => pc'[n] = "removeHandler"
            /\ pc[n] = "removeHandler" => pc'[n] = "loop"
            /\ pc[n] # "terminate" => hasTerminated'[n] = hasTerminated[n]
        BY <1>2, <4>1, ServerTypes DEF SP!Leaves, ThreadAt
      <4>. QED
        BY <1>1, <1>2, <2>1, <2>2, <2>3, <2>4, <3>2, <4>2 DEF Refused, network
    <3>3. CASE inHand[n].command # "SEND"
      <4>1. SP!ErrorPath(frame[n]) =
              [respond |-> "dbDisconnect", dbDisconnect |-> "removeHandler",
               removeHandler |-> "terminate", terminate |-> "loop"]
        BY <2>4, <3>1, <3>3 DEF SP!ErrorPath, Request
      <4>2. /\ pc[n] = "terminate" => pc'[n] = "loop" /\ hasTerminated'[n]
            /\ pc[n] = "dbDisconnect" => pc'[n] = "removeHandler"
            /\ pc[n] = "removeHandler" => pc'[n] = "terminate"
        BY <1>2, <4>1, ServerTypes DEF SP!Leaves, ThreadAt
      <4>. QED
        BY <1>1, <1>2, <2>1, <2>2, <2>3, <2>4, <3>3, <4>2 DEF Refused, network
    <3>. QED
      BY <3>2, <3>3
  <2>. QED
    BY <2>2, <2>3, <2>5 DEF Seen, PeerActs, BothSides, network
<1>3. CASE c # n
  BY <1>1, <1>3, OthersUnseen
<1>. QED
  BY <1>2, <1>3

LEMMA DeathSeen ==
  ASSUME NEW c \in Conn, NEW n \in Conn, ThreadAt(c, n), SP!Dies(c)
  PROVE  Seen(n)
<1>1. /\ sockOpen' = [sockOpen EXCEPT ![c] = FALSE]
      /\ UNCHANGED <<outbox, hasTerminated>>
  BY DEF SP!Dies
<1>2. CASE c = n
  <2>1. sockOpen[n]
    BY <1>2, ThreadSteps DEF ThreadAt, BothSides, Serving, Refused
  <2>2. Closes(n) /\ ~Writes(n)
    BY <1>1, <1>2, <2>1, ServerTypes DEF Closes, Writes, ThreadAt
  <2>3. /\ peer' = [peer EXCEPT ![n] = "gone"]
        /\ toServer' = [toServer EXCEPT ![n] = <<>>]
        /\ UNCHANGED broadcasts
        /\ \E s \in WhatArrives(fromServer[n]) :
             fromServer' = [fromServer EXCEPT ![n] = s]
    BY <2>2 DEF ThreadAt, PassOn
  <2>4. peerGoes(n)
    BY <2>3, ClientStaysOnly, ClientTypes
    DEF ThreadAt, BothSides, peerGoes, Goes
  <2>5. peer'[n] = "gone"
    BY <2>3, ClientTypes DEF ThreadAt
  <2>. QED
    BY <2>4, <2>5 DEF Seen, PeerActs, BothSides
<1>3. CASE c # n
  BY <1>1, <1>3, OthersUnseen, ServerTypes DEF ThreadAt
<1>. QED
  BY <1>2, <1>3

(* The first frame that was not answered is answered, and the next one      *)
(* awaits its reader.                                                       *)
LEMMA FirstIsAnswered ==
  ASSUME NEW c \in Conn, NEW n \in Conn, ThreadAt(c, n),
         peer[n] = "serving", Serving(n), Handles(n), c = n,
         pc[n] \notin {"unborn", "loop"}, pc'[n] = "loop",
         UNCHANGED <<sockOpen, hasTerminated>>, ~Refuses(n),
         ~(Writes(n) /\ Written(n).commend = "MESSAGE"),
         fromServer[n] \o Answers(inHand[n])
           = IF Writes(n) THEN Append(fromServer[n], AsAnswer(c, n))
             ELSE fromServer[n]
  PROVE  Seen(n)
<1>1. /\ inHand[n] \in Frame /\ wire[n] \in Seq(Frame)
      /\ toServer[n] = <<inHand[n]>> \o wire[n]
  BY DEF ThreadAt, SidesInv, Serving
<1>2. /\ toServer[n] # <<>> /\ Head(toServer[n]) = inHand[n]
      /\ Tail(toServer[n]) = wire[n]
      /\ SubSeq(toServer[n], 2, Len(toServer[n])) = wire[n]
  BY <1>1, PushedAndPopped
<1>3. ~Closes(n) /\ IsDone(n)
  BY DEF Closes, IsDone
<1>4. /\ UNCHANGED <<peer, broadcasts>>
      /\ toServer' = [toServer EXCEPT ![n] = wire[n]]
      /\ fromServer' = [fromServer EXCEPT ![n] = @ \o Answers(inHand[n])]
  BY <1>2, <1>3, ClientTypes DEF ThreadAt, PassOn
<1>5. peerAnswers(n)
  BY <1>2, <1>4, ClientStaysOnly DEF ThreadAt, peerAnswers
<1>6. Serving(n)'
  BY <1>4, ClientTypes DEF ThreadAt, Serving
<1>. QED
  BY <1>4, <1>5, <1>6 DEF Seen, PeerActs, BothSides

LEMMA FinishSeen ==
  ASSUME NEW c \in Conn, NEW n \in Conn, ThreadAt(c, n), SP!Finishes(c)
  PROVE  Seen(n)
<1>1. UNCHANGED <<outbox, sockOpen, hasTerminated>>
  BY DEF SP!Finishes, SP!Silent
<1>2. CASE c = n
  <2>1. pc[n] = "deliver" /\ pc'[n] = "loop"
    BY <1>2 DEF SP!Finishes
  <2>2. peer[n] = "serving" /\ Serving(n) /\ Handles(n)
    BY <2>1 DEF ThreadAt, BothSides, Serving, Refused
  <2>3. inHand[n].command = "SEND"
    <3>1. inHand[n].command \in Request
      BY DEF ThreadAt, SidesInv, Frame
    <3>. QED
      BY <2>1, <2>2, <3>1 DEF Handles, HandlerOf, Request
  <2>4. fromServer[n] \o Answers(inHand[n]) = fromServer[n]
    BY <2>3, ClientTypes, SentNothing DEF Answers, ThreadAt
  <2>. QED
    BY <1>1, <1>2, <2>1, <2>2, <2>4, FirstIsAnswered DEF Writes, Refuses
<1>3. CASE c # n
  BY <1>1, <1>3, OthersUnseen
<1>. QED
  BY <1>2, <1>3

LEMMA OutFrames ==
  /\ \A r \in SP!Respond : [commend |-> r, id |-> 0] \in SP!OutFrame
  /\ \A i \in Nat : [commend |-> "MESSAGE", id |-> i] \in SP!OutFrame
BY DEF SP!OutFrame, SP!Respond

LEMMA ResponseSeen ==
  ASSUME NEW c \in Conn, NEW n \in Conn, ThreadAt(c, n), SP!Responds(c)
  PROVE  Seen(n)
<1>1. CASE c = n
  <2>. DEFINE m == [commend |-> respond[n], id |-> 0]
  <2>1. /\ pc[n] = "respond" /\ respond[n] \in SP!Respond \ {Null}
        /\ SP!Sends(n, m)
    BY <1>1 DEF SP!Responds
  <2>2. peer[n] = "serving" /\ Serving(n) /\ Handles(n)
    BY <2>1 DEF ThreadAt, BothSides, Serving, Refused
  <2>3. sockOpen[n] /\ ~hasTerminated[n]
    BY <2>1, <2>2 DEF Serving
  <2>4. /\ UNCHANGED <<sockOpen, hasTerminated>>
        /\ outbox'[n] = Append(outbox[n], m)
    BY <2>1, <2>3, ServerTypes DEF SP!Sends, ThreadAt
  <2>5. Writes(n) /\ Written(n) = m /\ ~Closes(n)
    <3>1. outbox[n] \in Seq(SP!OutFrame) /\ m \in SP!OutFrame
      BY <2>1, OutFrames, ServerTypes DEF ThreadAt
    <3>. QED
      BY <2>4, <3>1, AppendedIsLast DEF Writes, Written, Closes
  <2>6. /\ inHand[n] \in Frame /\ inHand[n].command \in Request
        /\ respond[n] \in RespondTo(inHand[n])
    <3>1. inHand[n] \in Frame /\ inHand[n].command \in Request
      BY DEF ThreadAt, SidesInv, Frame
    <3>. QED
      BY <2>1, <2>2, <3>1 DEF Handles, HandlerOf, Request
  <2>7. m.commend = respond[n]
    OBVIOUS
  <2>8. CASE respond[n] = "ERROR"
    <3>1. Refuses(n)
      BY <2>5, <2>7, <2>8 DEF Refuses
    <3>2. AsAnswer(c, n) = Bare("ERROR")
      BY <2>5, <2>7, <2>8 DEF AsAnswer
    <3>3. /\ peer' = [peer EXCEPT ![n] = "refused"]
          /\ toServer' = [toServer EXCEPT ![n] = <<>>]
          /\ fromServer' = [fromServer EXCEPT ![n] = Append(@, Bare("ERROR"))]
          /\ UNCHANGED broadcasts
      BY <2>5, <2>7, <2>8, <3>1, <3>2 DEF ThreadAt, PassOn
    <3>4. toServer[n] # <<>>
      <4>1. toServer[n] = <<inHand[n]>> \o wire[n] /\ wire[n] \in Seq(Frame)
        BY <2>1, <2>2 DEF Serving, ThreadAt, SidesInv
      <4>. QED
        BY <2>6, <4>1, PushedAndPopped
    <3>5. peerRefuses(n)
      BY <2>2, <3>3, <3>4, ClientStaysOnly DEF ThreadAt, peerRefuses
    <3>6. frame[n] = Parsed(inHand[n]) /\ frame'[n] = frame[n]
      BY <1>1, <2>1, <2>2, <2>8 DEF Serving, SP!Responds
    <3>7. pc'[n] = IF inHand[n].command = "SEND" THEN "terminate"
                   ELSE "dbDisconnect"
      BY <1>1, <2>6, <2>8, <3>6 DEF SP!Responds, SP!ErrorPath, Parsed, Request
    <3>8. Refused(n)'
      BY <2>3, <2>4, <3>3, <3>6, <3>7, ClientTypes DEF ThreadAt, Refused
    <3>9. peer'[n] = "refused"
      BY <3>3, ClientTypes DEF ThreadAt
    <3>. QED
      BY <3>5, <3>8, <3>9 DEF Seen, PeerActs, BothSides
  <2>9. CASE respond[n] # "ERROR"
    <3>1. pc'[n] = "loop"
      BY <1>1, <2>9 DEF SP!Responds
    <3>2. Answers(inHand[n]) = <<AsAnswer(c, n)>>
      <4>1. CASE respond[n] = "CONNECTED"
        BY <2>1, <2>5, <2>6, <2>7, <4>1
        DEF RespondTo, AsAnswer, Answers, Request
      <4>2. CASE respond[n] = "RECEIPT"
        BY <2>5, <2>6, <2>7, <4>2 DEF RespondTo, AsAnswer, Answers, Request
      <4>. QED
        BY <2>1, <2>9, <4>1, <4>2 DEF SP!Respond
    <3>3. fromServer[n] \o Answers(inHand[n])
            = Append(fromServer[n], AsAnswer(c, n))
      <4>1. AsAnswer(c, n) \in Answer
        <5>1. \A r \in {0} \cup Ids : Receipt(r) \in Answer
          BY DEF Receipt, Bare, Answer, EventKind
        <5>2. inHand[n].receipt \in {0} \cup Ids
          BY <2>6 DEF Frame
        <5>. QED
          BY <2>1, <2>5, <2>7, <2>9, <5>1, <5>2, AnswerTypes
          DEF AsAnswer, SP!Respond
      <4>. QED
        BY <3>2, <4>1, AppendedIsLast, ClientTypes DEF ThreadAt
    <3>4. ~Refuses(n) /\ Written(n).commend # "MESSAGE"
      BY <2>1, <2>5, <2>7, <2>9 DEF Refuses, SP!Respond
    <3>. QED
      BY <1>1, <2>1, <2>2, <2>4, <2>5, <3>1, <3>3, <3>4, FirstIsAnswered
  <2>. QED
    BY <2>8, <2>9
<1>2. CASE c # n
  <2>1. outbox'[n] = outbox[n] /\ sockOpen'[n] = sockOpen[n]
    BY <1>2, ServerTypes DEF SP!Responds, SP!Sends, ThreadAt
  <2>. QED
    BY <1>2, <2>1, OthersUnseen
<1>. QED
  BY <1>1, <1>2

(* A MESSAGE that is written to the client, by whatever thread.  Only a     *)
(* client that was refused may be disconnected by it.                       *)
LEMMA MessageSeen ==
  ASSUME NEW c \in Conn, NEW n \in Conn, ThreadAt(c, n), SP!Broadcasts(c),
         iter[c].target = n, sockOpen[n]
  PROVE  /\ PeerActs(n)
         /\ \/ peer'[n] = "gone"
            \/ sockOpen'[n] /\ UNCHANGED <<toServer, peer>>
<1>. DEFINE m == [commend |-> "MESSAGE", id |-> iter[c].id]
            ch == iter[c].channel
<1>1. /\ SP!Sends(n, m) /\ ch \in Channel
      /\ m \in SP!OutFrame /\ m.commend = "MESSAGE"
  BY OutFrames, ServerTypes DEF SP!Broadcasts, ThreadAt
<1>2. /\ outbox'[n] = Append(outbox[n], m)
      /\ sockOpen'[n] \/ hasTerminated[n]
  BY <1>1, ServerTypes DEF SP!Sends, ThreadAt
<1>3. Writes(n) /\ Written(n) = m
  BY <1>1, <1>2, AppendedIsLast, ServerTypes DEF Writes, Written, ThreadAt
<1>4. ~Refuses(n) /\ Written(n).commend = "MESSAGE"
  BY <1>1, <1>3 DEF Refuses
<1>5. AsAnswer(c, n) = Message(ch, "whole")
  BY <1>4 DEF AsAnswer
<1>6. ~IsDone(n)
  BY ThreadSteps DEF IsDone, SP!Broadcasts, ThreadAt
<1>7. peer[n] \in {"serving", "refused"}
  BY DEF ThreadAt, BothSides
<1>8. UNCHANGED peerOnly
  BY ClientStaysOnly DEF ThreadAt
<1>9. broadcasts < MaxBroadcasts /\ broadcasts' = broadcasts + 1
  BY <1>3, <1>4 DEF ThreadAt, PassOn
<1>. HIDE DEF m, ch
<1>10. CASE sockOpen'[n]
  <2>1. ~Closes(n)
    BY <1>10 DEF Closes
  <2>2. /\ fromServer' = [fromServer EXCEPT ![n] = Append(@, Message(ch, "whole"))]
        /\ UNCHANGED <<toServer, peer>>
    BY <1>3, <1>4, <1>5, <1>6, <2>1, ClientTypes DEF ThreadAt, PassOn
  <2>3. peerBroadcasts(n)
    BY <1>1, <1>7, <1>8, <1>9, <2>2, SystemAssumption DEF peerBroadcasts
  <2>. QED
    BY <1>10, <2>2, <2>3 DEF PeerActs
<1>11. CASE ~sockOpen'[n]
  <2>1. Closes(n)
    BY <1>11 DEF Closes
  <2>2. /\ peer' = [peer EXCEPT ![n] = "gone"]
        /\ toServer' = [toServer EXCEPT ![n] = <<>>]
        /\ \E s \in WhatArrives(Append(fromServer[n], Message(ch, "whole"))) :
             fromServer' = [fromServer EXCEPT ![n] = s]
    BY <1>3, <1>5, <2>1 DEF ThreadAt, PassOn
  <2>3. Goes(n, Append(fromServer[n], Message(ch, "whole")))
    BY <1>8, <2>2 DEF Goes
  <2>4. peer[n] = "refused"
    BY <1>2, <1>11 DEF ThreadAt, BothSides, Serving
  <2>5. peerBroadcastsLast(n)
    BY <1>1, <1>9, <2>3, <2>4, SystemAssumption DEF peerBroadcastsLast
  <2>6. peer'[n] = "gone"
    BY <2>2, ClientTypes DEF ThreadAt
  <2>. QED
    BY <1>11, <2>5, <2>6 DEF PeerActs
<1>. QED
  BY <1>10, <1>11

LEMMA BroadcastSeen ==
  ASSUME NEW c \in Conn, NEW n \in Conn, ThreadAt(c, n), SP!Broadcasts(c)
  PROVE  Seen(n)
<1>1. /\ pc[c] = "write" /\ pc'[c] = "deliver" /\ frame'[c] = frame[c]
      /\ UNCHANGED hasTerminated
  BY DEF SP!Broadcasts, SP!Sends
<1>2. /\ PeerActs(n)
      /\ \/ peer'[n] = "gone"
         \/ /\ peer'[n] = peer[n] /\ toServer'[n] = toServer[n]
            /\ sockOpen'[n] = sockOpen[n]
  <2>1. CASE iter[c].target = n /\ sockOpen[n]
    BY <2>1, MessageSeen
  <2>2. CASE iter[c].target # n \/ ~sockOpen[n]
    <3>1. outbox'[n] = outbox[n] /\ sockOpen'[n] = sockOpen[n]
      BY <2>2, ServerTypes, SocketsOnlyClose, ZenonT(60)
      DEF SP!Broadcasts, SP!Sends, ThreadAt, Conn, SP!Conn
    <3>2. ~IsDone(n)
      BY ThreadSteps DEF IsDone, SP!Broadcasts, ThreadAt
    <3>3. UNCHANGED network
      BY <3>1, <3>2, PassNothing DEF ThreadAt
    <3>. QED
      BY <3>1, <3>3 DEF PeerActs, network
  <2>. QED
    BY <2>1, <2>2
<1>3. CASE peer'[n] = "gone"
  BY <1>2, <1>3 DEF Seen, BothSides
<1>4. CASE peer'[n] # "gone" /\ c # n
  <2>1. BothSides(n)'
    BY <1>2, <1>4, ThreadSteps, SameBothSides DEF ThreadAt
  <2>. QED
    BY <1>2, <2>1 DEF Seen
<1>5. CASE peer'[n] # "gone" /\ c = n
  <2>1. peer[n] = "serving" /\ Serving(n) /\ Handles(n)
    BY <1>1, <1>5 DEF ThreadAt, BothSides, Serving, Refused
  <2>2. inHand[n].command = "SEND"
    <3>1. inHand[n].command \in Request
      BY DEF ThreadAt, SidesInv, Frame
    <3>. QED
      BY <1>1, <1>5, <2>1, <3>1 DEF Handles, HandlerOf, Request
  <2>3. Handles(n)'
    BY <1>1, <1>5, <2>2 DEF ThreadAt, Handles, HandlerOf
  <2>4. Serving(n)'
    BY <1>1, <1>2, <1>5, <2>1, <2>3 DEF ThreadAt, Serving
  <2>. QED
    BY <1>2, <1>5, <2>1, <2>4 DEF Seen, BothSides
<1>. QED
  BY <1>3, <1>4, <1>5

LEMMA ThreadSeen ==
  ASSUME NEW c \in Conn, NEW n \in Conn, ThreadAt(c, n)
  PROVE  Seen(n)
BY ThreadSteps, HandlerSeen, BroadcastSeen, FinishSeen, ResponseSeen, LeaveSeen,
   DeathSeen, WaitSeen DEF ThreadAt

LEMMA ThreadKeeps ==
  ASSUME ClientInv, SP!IInv, SidesInv, ~aborted, ~Ended,
         NEW c \in Conn, Thread(c), UNCHANGED clientOnly
  PROVE  [Next]_vars /\ SidesInv'
<1>1. /\ Server!Step(c) /\ UNCHANGED <<sock, connections, wire, inHand>>
  BY ClientStaysOnly DEF Thread
<1>2. NumberedAlike'
  BY <1>1, ThreadNumbers
<1>3. CASE sock # NoSocket /\ peer[sock] # "gone"
  <2>1. PICK n \in Conn : n = sock
    BY <1>3, ClientTypes
  <2>2. ThreadAt(c, n)
    BY <1>1, <1>3, <2>1 DEF Thread, ThreadAt, SidesInv
  <2>3. Seen(n)
    BY <2>2, ThreadSeen
  <2>4. [Next]_vars
    BY <2>3, ClientStays DEF Seen, PeerActs, Peer, Next
  <2>5. SidesInv'
    BY <1>1, <1>2, <2>1, <2>3, WithSocket DEF SidesInv, Seen
  <2>. QED
    BY <2>4, <2>5
<1>4. CASE sock = NoSocket \/ peer[sock] = "gone"
  <2>1. UNCHANGED network
    BY <1>4 DEF Thread
  <2>2. \A n \in Conn : n = sock /\ BothSides(n) => BothSides(n)'
    <3>1. \A n \in Conn : n = sock => n # NoSocket
      BY ClientTypes
    <3>. QED
      BY <1>4, <2>1, <3>1 DEF BothSides, network
  <2>3. SidesInv'
    BY <1>1, <1>2, <2>2, SocketStays DEF SidesInv
  <2>. QED
    BY <2>1, <2>3, ClientStays
<1>. QED
  BY <1>3, <1>4

-----------------------------------------------------------------------------
(* The invariant of the system, and the refinement.                         *)

SidesIInv == ClientInv /\ SP!IInv /\ SidesInv

LEMMA SidesInvInit == SystemInit => SidesIInv
<1>1. SUFFICES ASSUME SystemInit PROVE SidesIInv
  OBVIOUS
<1>2. ClientInv /\ SP!IInv
  BY <1>1, ClientInit, ServerInvInit, SameConnections DEF SystemInit
<1>3. SidesInv
  <2>1. /\ connectionsIdCuonter = 0
        /\ \A n \in Conn : pc[n] = "unborn" /\ ~sockOpen[n] /\ ~hasTerminated[n]
    BY <1>1, SameConnections DEF SystemInit, SP!Init, Conn, SP!Conn
  <2>2. sock = NoSocket /\ connections = 0
    BY <1>1 DEF SystemInit, Init
  <2>3. NoRequest \in Frame
    BY RequestTypes
  <2>. QED
    BY <1>1, <2>1, <2>2, <2>3 DEF SystemInit, SidesInv, NumberedAlike
<1>. QED
  BY <1>2, <1>3 DEF SidesIInv

(* Every step of the system is one of the client, one that its environment  *)
(* may take, or none that it sees.                                          *)
LEMMA SystemStep ==
  ASSUME SidesIInv, [SystemNext]_systemVars
  PROVE  [Next]_vars /\ SidesInv'
<1>. ClientInv /\ SP!IInv /\ SidesInv
  BY DEF SidesIInv
<1>1. CASE ClientStep
  <2>1. [Next]_vars
    BY <1>1 DEF ClientStep, Next
  <2>2. ClientInv'
    BY <2>1, NextKeeps
  <2>. QED
    BY <1>1, <2>1, <2>2, ClientStepKeeps
<1>2. CASE ServerStep
  <2>1. ~aborted /\ ~Ended /\ UNCHANGED clientOnly
    BY <1>2 DEF ServerStep
  <2>2. CASE Accept
    BY <2>1, <2>2, AcceptKeeps, ClientStays DEF Accept
  <2>3. CASE \E n \in Conn : Read(n)
    BY <2>1, <2>3, ReadKeeps, ClientStays DEF Read
  <2>4. CASE \E n \in Conn : Eof(n)
    BY <2>1, <2>4, EofKeeps, ClientStays DEF Eof
  <2>5. CASE \E n \in Conn : Thread(n)
    BY <2>1, <2>5, ThreadKeeps
  <2>. QED
    BY <1>2, <2>2, <2>3, <2>4, <2>5 DEF ServerStep
<1>3. CASE UNCHANGED systemVars
  <2>1. UNCHANGED <<vars, serverVars, wire, inHand>>
    BY <1>3 DEF systemVars
  <2>2. UNCHANGED <<sock, connections, peer, toServer>>
    BY <2>1 DEF vars
  <2>3. NumberedAlike'
    BY <2>1, <2>2, ServerStays DEF SidesInv, NumberedAlike
  <2>4. \A n \in Conn : n = sock /\ BothSides(n) => BothSides(n)'
    BY <2>1, <2>2, ServerStays, SameBothSides
  <2>. QED
    BY <2>1, <2>2, <2>3, <2>4, SocketStays DEF SidesInv
<1>. QED
  BY <1>1, <1>2, <1>3 DEF SystemNext, SystemOver

LEMMA SystemServerStep ==
  ASSUME [SystemNext]_systemVars
  PROVE  [SP!Next]_SP!vars
<1>1. Conn = SP!Conn
  BY DEF Conn, SP!Conn
<1>2. CASE ServerStep
  BY <1>1, <1>2, SameConnections, SameStep
  DEF ServerStep, Accept, Read, Eof, Thread, SP!Next
<1>3. CASE UNCHANGED serverVars
  BY <1>3, ServerStays
<1>. QED
  BY <1>2, <1>3 DEF SystemNext, ClientStep, SystemOver, systemVars

LEMMA SidesInvNext ==
  SidesIInv /\ [SystemNext]_systemVars => SidesIInv'
BY SystemStep, SystemServerStep, NextKeeps, ServerInvNext DEF SidesIInv

LEMMA SidesInvariance == SystemSpec => []SidesIInv
BY SidesInvInit, SidesInvNext, PTL DEF SystemSpec

(* What the two sides of the client's connection know of each other: the    *)
(* frame that a thread handles is the first that was not answered, and one  *)
(* that was refused reads nothing more.                                     *)
THEOREM SidesAgree == SystemSpec => []SidesInv
<1>1. SidesIInv => SidesInv
  BY DEF SidesIInv
<1>. QED
  BY <1>1, SidesInvariance, PTL

(* The server implements the environment that the client was checked        *)
(* against.                                                                 *)
THEOREM ServerImplementsPeer == SystemSpec => ServerIsAPeer
<1>1. SystemInit => Init
  BY DEF SystemInit
<1>2. SidesIInv /\ [SystemNext]_systemVars => [Next]_vars
  BY SystemStep
<1>. QED
  BY <1>1, <1>2, SidesInvariance, PTL DEF SystemSpec, ServerIsAPeer, Spec

(* So what was proved of the client holds against this server: it knows     *)
(* what each receipt is about, and only its own logout ends a connection.   *)
THEOREM ClientAgainstServer ==
  SystemSpec => [](EveryReceiptIsUnderstood /\ LoggedInHasSocket)
                  /\ OnlyItsLogoutCloses
BY ServerImplementsPeer, ReceiptsUnderstood, LoggedInConnected,
   LogoutClosesItsOwn, PTL DEF ServerIsAPeer

(* The threads of the system's server take no step that StompServer has     *)
(* not: what was proved of the server holds in the system as well.          *)
THEOREM ServerInSystem == SystemSpec => SP!Spec
<1>1. SystemInit => SP!Init
  BY SameConnections DEF SystemInit
<1>. QED
  BY <1>1, SystemServerStep, PTL DEF SystemSpec, SP!Spec
=============================================================================
