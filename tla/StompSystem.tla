----------------------------- MODULE StompSystem -----------------------------
(***************************************************************************)
(* One client program against the thread-per-client server.  Connection n  *)
(* of the client is connection n of the server: nobody else connects.      *)
(*                                                                         *)
(* The client is StompClient with its actions as they are; toServer,       *)
(* fromServer and peer are what it may assume of a server, namely frames   *)
(* that are not answered yet, answers not read yet, and whether the server *)
(* still answers.  Here the threads of StompServer decide on them: wire[n] *)
(* is what a thread has still to read, and every frame it writes, and the  *)
(* end of its socket, is passed on to the client.                          *)
(***************************************************************************)
EXTENDS StompClientProperties

CONSTANT NotANumber

VARIABLES
  usersPasswords, dbChannels, subscriptionsDetails, messages,
  connectedUsers, idToUser, leakedReaders, waitingWriters,
  connectionsIdCuonter, idToHendler, hasTerminated, sockOpen, outbox,
  framesRead, pc, frame, respond, iter,
  wire,         \* wire[n]: frames on their way to the thread of connection n
  inHand        \* inHand[n]: the one that it has read last

serverVars ==
  <<usersPasswords, dbChannels, subscriptionsDetails, messages,
    connectedUsers, idToUser, leakedReaders, waitingWriters,
    connectionsIdCuonter, idToHendler, hasTerminated, sockOpen, outbox,
    framesRead, pc, frame, respond, iter>>

systemVars == <<vars, serverVars, wire, inHand>>

(* The events of the client's own reports, which are broadcast to it, have  *)
(* all that a summary asks for.                                             *)
ASSUME SystemAssumption ==
  /\ "whole" \in Events
  /\ Null \notin {"user", "password"} /\ Null \notin Ids
  /\ Null # -1
  /\ NotANumber \notin Ids \cup {Null}
  /\ Null \notin [Ids -> Channel \cup {Null}]

(* The frames of the client as the server parses them.  Its one user has    *)
(* one password, and every frame but CONNECT and SEND asks for a receipt.   *)
User == {"user"}
Password == {"password"}

Parsed(f) ==
  [commend |-> f.command,
   login |-> IF f.command = "CONNECT" THEN "user" ELSE Null,
   passcode |-> IF f.command = "CONNECT" THEN "password" ELSE Null,
   destination |-> f.destination,
   id |-> IF f.id = 0 THEN Null ELSE f.id,
   receipt |-> f.receipt # 0,
   body |-> f.command = "SEND"]

SomeFrames ==
  {Plain("CONNECT"), Disconnect(1)} \cup {Send(ch) : ch \in Channel} \cup
  {Subscribe(ch, i, 1) : ch \in Channel, i \in Ids} \cup
  {Unsubscribe(i, 1) : i \in Ids}

MaxSends == 10   \* bound: no line of an instance sends more frames

Server == INSTANCE StompServerProperties WITH
  SubId <- Ids, SmallSet <- 8, Deaf <- {},
  MaxFrames <- [n \in Conn |-> MaxSends * MaxLines],
  Frames <- [n \in Conn |-> {Parsed(f) : f \in SomeFrames}],
  StripSlash <- [ch \in Channel |-> ch],
  channels <- dbChannels, isTerminate <- hasTerminated

SystemInit ==
  /\ Init /\ Server!Init
  /\ wire = [n \in Conn |-> <<>>]
  /\ inHand = [n \in Conn |-> NoRequest]

-----------------------------------------------------------------------------
(* The client.  What it sends is on the wire; what is there when it closes  *)
(* is still read by the server, unless the client had not read everything   *)
(* itself, which resets the connection.                                     *)
Sent(n) == SubSeq(toServer'[n], Len(toServer[n]) + 1, Len(toServer'[n]))

ClientStep ==
  /\ Keyboard \/ ServerThread \/ mainReturns
  /\ IF sock # NoSocket /\ sock' = NoSocket
     THEN \E k \in 0 .. Len(wire[sock]) :
            /\ fromServer[sock] = <<>> => k = Len(wire[sock])
            /\ wire' = [wire EXCEPT ![sock] = SubSeq(@, 1, k)]
     ELSE wire' = [n \in Conn |-> wire[n] \o Sent(n)]
  /\ UNCHANGED <<serverVars, inHand>>

-----------------------------------------------------------------------------
(* The server.                                                              *)
clientOnly == <<kpc, line, kframe, input, typed, spc, sframe, isTerminate,
                isConnected, maps, isConect, sock, connections, aborted, asked>>
network == <<toServer, fromServer, peer, broadcasts>>

Accept ==
  /\ connectionsIdCuonter < connections
  /\ Server!Accept
  /\ UNCHANGED <<network, wire, inHand>>

Read(n) ==
  /\ wire[n] # <<>>
  /\ Server!ReadFrame(n)
  /\ frame'[n] = Parsed(Head(wire[n]))
  /\ inHand' = [inHand EXCEPT ![n] = Head(wire[n])]
  /\ wire' = [wire EXCEPT ![n] = Tail(@)]
  /\ UNCHANGED network

(* The client has closed its end, and everything was read.                  *)
Eof(n) ==
  /\ n < connections /\ n # sock /\ wire[n] = <<>>
  /\ Server!Eof(n)
  /\ UNCHANGED <<network, wire, inHand>>

(* A step of thread c, and what the client will see of it: the frame that   *)
(* was written to it, the end of the frame of its own that was in hand, and *)
(* the end of its socket.                                                   *)
Writes(n) == outbox'[n] # outbox[n]
Written(n) == outbox'[n][Len(outbox'[n])]
AsAnswer(c, n) ==
  CASE Written(n).commend = "RECEIPT" -> Receipt(inHand[n].receipt)
    [] Written(n).commend = "MESSAGE" -> Message(iter[c].channel, "whole")
    [] OTHER -> Bare(Written(n).commend)
Refuses(n) == Writes(n) /\ Written(n).commend = "ERROR"
IsDone(n) == pc[n] # "loop" /\ pc'[n] = "loop"
Closes(n) == sockOpen[n] /\ ~sockOpen'[n]

PassOn(c, n) ==
  LET message == Writes(n) /\ Written(n).commend = "MESSAGE"
      got == IF Writes(n) THEN Append(fromServer[n], AsAnswer(c, n))
             ELSE fromServer[n] IN
  /\ \E s \in IF Closes(n) THEN WhatArrives(got) ELSE {got} :
       fromServer' = [fromServer EXCEPT ![n] = s]
  /\ peer' = [peer EXCEPT ![n] = IF Closes(n) THEN "gone"
                                 ELSE IF Refuses(n) THEN "refused" ELSE @]
  /\ toServer' = [toServer EXCEPT
       ![n] = IF Closes(n) \/ Refuses(n) THEN <<>>
              ELSE IF IsDone(n) THEN SubSeq(@, 2, Len(@)) ELSE @]
  /\ message => broadcasts < MaxBroadcasts
  /\ broadcasts' = IF message THEN broadcasts + 1 ELSE broadcasts

Thread(c) ==
  /\ Server!Step(c)
  /\ IF sock # NoSocket /\ peer[sock] # "gone"
     THEN PassOn(c, sock) ELSE UNCHANGED network
  /\ UNCHANGED <<wire, inHand>>

(* After the end of the program only the server goes on, with an end of     *)
(* file that StompServer has on any connection.                             *)
ServerStep ==
  /\ ~aborted /\ ~Ended
  /\ Accept \/ \E n \in Conn : Read(n) \/ Eof(n) \/ Thread(n)
  /\ UNCHANGED clientOnly

SystemOver == (aborted \/ Ended \/ AtBound) /\ UNCHANGED systemVars

SystemNext == ClientStep \/ ServerStep \/ SystemOver

SystemSpec == SystemInit /\ [][SystemNext]_systemVars

-----------------------------------------------------------------------------
(* The inductive invariant behind ServerIsAPeer: what the two sides of the  *)
(* client's connection know of each other.                                  *)

(* Where the thread of the server is with a frame, and what it answers.     *)
HandlerOf(f) ==
  CASE f.command = "CONNECT" -> {"CONNECT", "getPassword", "addUser",
                                 "checkPassword", "setConnected"}
    [] f.command = "SEND" -> {"SEND", "addMessage", "getSubscribers",
                              "deliver", "write"}
    [] f.command = "SUBSCRIBE" -> {"SUBSCRIBE", "addSubscription"}
    [] f.command = "UNSUBSCRIBE" -> {"UNSUBSCRIBE", "removeSubscription"}
    [] OTHER -> {"DISCONNECT"}
RespondTo(f) ==
  CASE f.command = "CONNECT" -> {"CONNECTED", "ERROR"}
    [] f.command = "SEND" -> {"ERROR"}
    [] OTHER -> {"RECEIPT", "ERROR", Null}

Handles(n) ==
  \/ pc[n] \in HandlerOf(inHand[n])
  \/ pc[n] = "respond" /\ respond[n] \in RespondTo(inHand[n])

(* The frame that is handled is the first that was not answered.            *)
Serving(n) ==
  /\ ~hasTerminated[n]
  /\ \/ pc[n] = "unborn" /\ toServer[n] = wire[n]
     \/ sockOpen[n] /\ pc[n] = "loop" /\ toServer[n] = wire[n]
     \/ /\ sockOpen[n] /\ Handles(n)
        /\ frame[n] = Parsed(inHand[n])
        /\ toServer[n] = <<inHand[n]>> \o wire[n]

(* After an ERROR the thread is on its way out, and reads nothing more.     *)
Refused(n) ==
  /\ sockOpen[n] /\ toServer[n] = <<>>
  /\ \/ pc[n] = "loop" /\ hasTerminated[n]
     \/ /\ pc[n] \in {"terminate", "dbDisconnect", "removeHandler"}
        /\ frame[n] = Parsed(inHand[n])
        /\ inHand[n].command = "SEND" /\ pc[n] # "terminate"
             => hasTerminated[n]

(* The server accepts the connections in the client's order.                *)
NumberedAlike ==
  /\ connectionsIdCuonter <= connections
  /\ \A n \in Conn :
       /\ n >= connections => wire[n] = <<>>
       /\ n >= connectionsIdCuonter
            => pc[n] = "unborn" /\ ~sockOpen[n] /\ ~hasTerminated[n]

BothSides(n) ==
  \/ peer[n] = "serving" /\ Serving(n)
  \/ peer[n] = "refused" /\ Refused(n)
  \/ peer[n] = "gone"

SidesInv ==
  /\ wire \in [Conn -> Seq(Frame)] /\ inHand \in [Conn -> Frame]
  /\ NumberedAlike
  /\ sock # NoSocket => BothSides(sock)

-----------------------------------------------------------------------------
(* The server is what the client takes it for: it answers the frames of a   *)
(* connection one by one and in order, each with the receipt it asked for,  *)
(* nothing but messages comes after an ERROR, and it stops reading there.   *)
(* What was checked and proved of the client holds against this server.     *)
ServerIsAPeer == Spec

(* Nothing is under way, and the client is logged in and has not asked to   *)
(* log out.                                                                 *)
Quiet ==
  /\ isConnected /\ sock # NoSocket /\ kpc \in {"loop", "getline"}
  /\ \A r \in Ids : asked[r] # [text |-> LoggedOut, conn |-> sock]
  /\ spc = "loop" /\ peer[sock] = "serving"
  /\ toServer[sock] = <<>> /\ fromServer[sock] = <<>>

(* Then both agree on who is logged in and on the subscriptions that were   *)
(* made over this connection: under the client's number, for the channel of *)
(* the client's map, and in the set that messages are broadcast to.         *)
JoinedHere(ch) ==
  channels[ch] # 0 /\ asked[channels[ch] + 1].conn = sock
SessionsAgree ==
  Quiet =>
    /\ idToUser[sock] = "user" /\ connectedUsers = {"user"}
    /\ \A ch \in Channel :
         /\ JoinedHere(ch) <=> sock \in dbChannels[ch]
         /\ \A i \in Ids : subscriptionsDetails[sock] # Null
              => (subscriptionsDetails[sock][i] = ch
                    <=> JoinedHere(ch) /\ channels[ch] = i)

-----------------------------------------------------------------------------
(* The inductive invariant behind SessionsAgree.                            *)

Serves == sock # NoSocket /\ peer[sock] = "serving"

(* The client has not asked to log out on this connection.                  *)
Live == Serves /\ \A r \in Ids : asked[r] # [text |-> LoggedOut, conn |-> sock]

(* The channel that subscription i of connection n is for.                  *)
ChannelOf(n, i) == Server!Details(n)[i]

(* Subscription i to ch is in the database, or its frame is under way.      *)
Subscribing(ch, i) ==
  \E k \in DOMAIN toServer[sock] :
    LET f == toServer[sock][k] IN
    f.command = "SUBSCRIBE" /\ f.destination = ch /\ f.id = i
Made(ch, i) == ChannelOf(sock, i) = ch \/ Subscribing(ch, i)

(* The client knows ch by i, or is about to.                                *)
Holds(ch, i) ==
  \/ channels[ch] = i
  \/ kpc = "recordJoin" /\ line.channel = ch /\ kframe.id = i

(* Or what ends subscription i is under way, or a second SUBSCRIBE, which   *)
(* the server refuses if it has still the first.                            *)
Ending(ch, i) ==
  \/ kpc = "sendFrame" /\ kframe.command = "UNSUBSCRIBE" /\ kframe.id = i
  \/ \E k \in DOMAIN toServer[sock] :
       toServer[sock][k].command = "UNSUBSCRIBE" /\ toServer[sock][k].id = i
  \/ \E j \in Ids : j > i /\ Subscribing(ch, j)

SubscriptionsAgree ==
  Live => \A ch \in Channel, i \in Ids :
    /\ Holds(ch, i) /\ asked[i + 1].conn = sock => Made(ch, i)
    /\ Made(ch, i) => /\ i < subscriptionId
                      /\ asked[i + 1] = [text |-> Joined(ch), conn |-> sock]
                      /\ Holds(ch, i) \/ Ending(ch, i)

(* No frame to come has the number of a subscription that was made, but the *)
(* one that made it while it is answered.  Who is broadcast to has made one. *)
Granted(n) == pc[n] = "respond" /\ respond[n] = "RECEIPT"
SubscribedOnce ==
  Live =>
    /\ \A j \in Ids : ChannelOf(sock, j) # Null =>
         \A k \in DOMAIN toServer[sock] :
           LET r == toServer[sock][k].receipt IN
           r # 0 => j + 1 < r \/ (k = 1 /\ j + 1 = r /\ Granted(sock))
    /\ \A ch \in Channel : sock \in dbChannels[ch]
         => \E i \in Ids : ChannelOf(sock, i) = ch

LoggedIn(n) == idToUser[n] = "user" /\ "user" \in connectedUsers

(* What a thread answers is done.                                           *)
Done ==
  Serves /\ pc[sock] = "respond" =>
    LET f == inHand[sock] IN
    /\ respond[sock] = "CONNECTED" /\ f.command = "CONNECT" => LoggedIn(sock)
    /\ Granted(sock) =>
         /\ f.command = "SUBSCRIBE" => ChannelOf(sock, f.id) = f.destination
         /\ f.command = "UNSUBSCRIBE" => ChannelOf(sock, f.id) = Null
         /\ f.command = "DISCONNECT" => idToUser[sock] = Null

(* No login of connection n is under way.                                   *)
NoLoginComes(n) ==
  /\ pc[n] \notin HandlerOf(Plain("CONNECT"))
  /\ \A k \in DOMAIN wire[n] : wire[n][k].command # "CONNECT"

(* A connection that has a receipt to read has its login behind it; and if  *)
(* it is the receipt of a logout, that was carried out.  Not so if the      *)
(* frame was cut within its number, and is the last of the connection.      *)
Confirms(a) ==
  /\ a.command = "RECEIPT" /\ a.receiptId # 0
  /\ asked[a.receiptId].text = LoggedOut
LogoutConfirmedOnlyIfDone ==
  sock # NoSocket =>
    /\ \A k \in DOMAIN fromServer[sock] :
         LET a == fromServer[sock][k] IN
         /\ a.command = "RECEIPT" => NoLoginComes(sock)
         /\ Confirms(a) => idToUser[sock] = Null
    /\ spc \in {"receipt", "loggedOut", "close"} =>
         /\ NoLoginComes(sock)
         /\ Confirms(sframe) => BrokenOff \/ idToUser[sock] = Null

(* One connection at a time is logged in, also after the client has closed  *)
(* a broken one that the server has listed still: then a new login is       *)
(* refused.                                                                 *)
PastTheCheck(n) == pc[n] \in HandlerOf(Plain("CONNECT")) \ {"CONNECT"}
OneLogin ==
  \A n \in Conn : idToUser[n] # Null =>
    /\ LoggedIn(n)
    /\ \A m \in Conn \ {n} : idToUser[m] = Null /\ ~PastTheCheck(m)

LoginsAgree ==
  /\ Live /\ kpc \notin {"setConect", "sendConnect"} =>
       \/ LoggedIn(sock)
       \/ \E k \in DOMAIN toServer[sock] : toServer[sock][k].command = "CONNECT"
  /\ ~Ended => \A n \in Conn : n # sock => NoLoginComes(n)
  /\ ~Ended => OneLogin

(* What was not accepted yet is not in the database.                        *)
UnbornAreUnknown == \A n \in Conn : pc[n] = "unborn" => Server!HasNoEntry(n)

AgreementInv ==
  /\ UnbornAreUnknown /\ Done
  /\ SubscribedOnce /\ SubscriptionsAgree
  /\ LogoutConfirmedOnlyIfDone /\ LoginsAgree

SystemInv == SidesInv /\ FramesInv /\ AgreementInv

(* Every reader of the server's database gives the lock back, as isValidID  *)
(* promises "true if valid, false otherwise" (StompDataBase.java:198), also *)
(* to a user who exits a channel that was joined in an earlier session.     *)
ReadersGiveTheLockBack == Server!ReadersGiveTheLockBack
=============================================================================
