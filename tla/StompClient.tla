----------------------------- MODULE StompClient -----------------------------
(***************************************************************************)
(* The C++ client: a keyboard thread that turns lines into frames, and a   *)
(* server thread that handles what comes back.  They share the flags and   *)
(* maps of StompProtocol and the socket of ConnectionHandler, and no lock. *)
(*                                                                         *)
(* A step of a thread is one access to what both use, or one write to the  *)
(* socket.  The flags are volatile and the program is compiled without     *)
(* optimisation, so an access to one of them is atomic; two accesses to    *)
(* one std::map at a time are undefined behaviour, and what can come of it *)
(* is a choice (the map's change is lost, the look-up misses, or the       *)
(* program dies).  The server is an environment (Peer): it answers the     *)
(* frames of a connection in order, refuses one and stops, sends messages  *)
(* of others, or goes away.                                                *)
(***************************************************************************)
EXTENDS Integers, Sequences

CONSTANTS
  MaxLines,         \* bound: how many lines the keyboard thread processes
  MaxConnections,   \* bound: how many connections are established
  MaxBroadcasts,    \* bound: how many messages of others are sent to it
  Channel,          \* channel names
  Events,           \* what the bodies of these messages are like
  Lines,            \* Lines[k]: the lines that the user may type as k-th
  Radix,            \* the base that numbers are written in: 10, or less so
                    \* that the few numbers of an instance have many digits
  Null

Conn == 0 .. MaxConnections - 1
NoSocket == -1
Ids == 1 .. 2 * MaxLines       \* a line draws two numbers at most

Command == {"login", "join", "exit", "report", "logout", "summary"}

(* A line of input.  args says whether its arguments are fine ("ok"), too   *)
(* few or too many ("usage"), or such that reading them throws: a port that *)
(* is no number, a file that is no event file.  events is how many events   *)
(* the file of a report has, channel the one it names.                      *)
Line == [command : Command \cup {"", "other"}, channel : Channel \cup {Null},
         args : {"ok", "usage", "throws"}, events : Nat]
NoLine == [command |-> "", channel |-> Null, args |-> "ok", events |-> 0]

(* Frames to the server; 0 stands for an absent number.                     *)
Request == {"CONNECT", "SUBSCRIBE", "UNSUBSCRIBE", "SEND", "DISCONNECT"}
Frame == [command : Request, destination : Channel \cup {Null},
          id : Nat, receipt : {0} \cup Ids]
Plain(cmd) ==
  [command |-> cmd, destination |-> Null, id |-> 0, receipt |-> 0]
NoRequest == Plain("SEND")
Send(ch) == [Plain("SEND") EXCEPT !.destination = ch]
Subscribe(ch, i, r) ==
  [Plain("SUBSCRIBE") EXCEPT !.destination = ch, !.id = i, !.receipt = r]
Unsubscribe(i, r) == [Plain("UNSUBSCRIBE") EXCEPT !.id = i, !.receipt = r]
Disconnect(r) == [Plain("DISCONNECT") EXCEPT !.receipt = r]

(* Frames from the server.  The event of a MESSAGE has all that a summary   *)
(* asks for ("whole"), or lacks "forces_arrival_at_scene" ("partial"), or   *)
(* its date is no number ("bad").  cut is a frame whose end never arrives.  *)
EventKind == {"whole", "partial", "bad"}
Answer == [command : {"CONNECTED", "RECEIPT", "ERROR", "MESSAGE", "OTHER"},
           receiptId : {0} \cup Ids, destination : Channel \cup {Null},
           event : EventKind, cut : BOOLEAN]
Bare(cmd) == [command |-> cmd, receiptId |-> 0, destination |-> Null,
              event |-> "whole", cut |-> FALSE]
Receipt(r) == [Bare("RECEIPT") EXCEPT !.receiptId = r]
Message(ch, e) == [Bare("MESSAGE") EXCEPT !.destination = ch, !.event = e]

(* What the client prints when a receipt comes.                             *)
Text == [what : {"", "Joined channel", "Exited channel", "Logged out"},
         channel : Channel \cup {Null}]
NoText == [what |-> "", channel |-> Null]
LoggedOut == [what |-> "Logged out", channel |-> Null]
TextOf(l) ==
  CASE l.command = "join" -> [what |-> "Joined channel", channel |-> l.channel]
    [] l.command = "exit" -> [what |-> "Exited channel", channel |-> l.channel]
    [] l.command = "logout" -> LoggedOut
    [] OTHER -> NoText

ASSUME ClientAssumption ==
  /\ MaxLines \in Nat /\ MaxConnections \in Nat /\ MaxBroadcasts \in Nat
  /\ Events \subseteq EventKind
  /\ Lines \in [1 .. MaxLines -> SUBSET Line]
  /\ Null \notin Channel
  /\ Radix \in Nat \ {0, 1}
  /\ \A k \in 1 .. MaxLines : \A l \in Lines[k] :
       /\ l.args = "throws" => l.command \in {"login", "report"}
       /\ l.command \in {"join", "exit", "report", "summary"} /\ l.args = "ok"
            => l.channel \in Channel

VARIABLES
  kpc, line, kframe,   \* keyboard thread: next step, its line and frame
  input, typed,        \* stdin is "open" or "ended"; lines processed so far
  spc, sframe,         \* server thread: next step and the frame in hand
  isTerminate, isConnected,                    \* StompProtocol
  channels, reciepts, eventsMap, subscriptionId,
  isConect, sock,      \* ConnectionHandler: its flag, and its connection
  toServer, fromServer, peer, connections,     \* the network and the server
  broadcasts,          \* messages of others so far
  aborted, raced,      \* the program has died; a map was corrupted
  asked                \* history: what a receipt was asked for, and where

vars == <<kpc, line, kframe, input, typed, spc, sframe, isTerminate,
          isConnected, channels, reciepts, eventsMap, subscriptionId,
          isConect, sock, toServer, fromServer, peer, connections,
          broadcasts, aborted, raced, asked>>

KeyboardLabels == Command \cup
  {"loop", "getline", "setConect", "sendConnect", "setConnected",
   "recordJoin", "recordLogout", "sendFrame", "ended"}
ServerLabels ==
  {"loop", "receipt", "message", "error", "clearConnected", "loggedOut",
   "close", "clearConect", "ended"}

ThreadTypeOK ==
  /\ kpc \in KeyboardLabels /\ line \in Line
  /\ kframe \in Frame
  /\ input \in {"open", "ended"} /\ typed \in 0 .. MaxLines
  /\ spc \in ServerLabels /\ sframe \in Answer

SharedTypeOK ==
  /\ isTerminate \in BOOLEAN /\ isConnected \in BOOLEAN /\ isConect \in BOOLEAN
  /\ channels \in [Channel -> {0} \cup Ids]
  /\ reciepts \in [Ids -> Text]
  /\ eventsMap \in [Channel -> SUBSET {"whole", "partial"}]
  /\ subscriptionId \in Nat
  /\ sock \in Conn \cup {NoSocket}
  /\ aborted \in BOOLEAN /\ raced \in BOOLEAN

NetTypeOK ==
  /\ connections \in 0 .. MaxConnections
  /\ broadcasts \in 0 .. MaxBroadcasts
  /\ toServer \in [Conn -> Seq(Frame)]
  /\ fromServer \in [Conn -> Seq(Answer)]
  /\ peer \in [Conn -> {"none", "serving", "refused", "gone"}]
  /\ asked \in [Ids -> [text : Text, conn : Conn \cup {NoSocket}]]

ClientTypeOK == ThreadTypeOK /\ SharedTypeOK /\ NetTypeOK

NotAsked == [text |-> NoText, conn |-> NoSocket]

Init ==
  /\ kpc = "loop" /\ line = NoLine /\ kframe = NoRequest
  /\ input = "open" /\ typed = 0
  /\ spc = "loop" /\ sframe = Bare("OTHER")
  /\ isTerminate = FALSE /\ isConnected = FALSE /\ isConect = FALSE
  /\ channels = [ch \in Channel |-> 0]
  /\ reciepts = [r \in Ids |-> NoText]
  /\ eventsMap = [ch \in Channel |-> {}]
  /\ subscriptionId = 0
  /\ sock = NoSocket /\ connections = 0 /\ broadcasts = 0
  /\ toServer = [n \in Conn |-> <<>>]
  /\ fromServer = [n \in Conn |-> <<>>]
  /\ peer = [n \in Conn |-> "none"]
  /\ aborted = FALSE /\ raced = FALSE
  /\ asked = [r \in Ids |-> NotAsked]

-----------------------------------------------------------------------------
(* The network.  write_some on a socket that is closed, or whose peer is    *)
(* gone, loses the frame, and nobody looks at the result of sendFrameAscii. *)
sendFrameAscii(f) ==
  toServer' = IF sock # NoSocket /\ peer[sock] = "serving"
              THEN [toServer EXCEPT ![sock] = Append(@, f)] ELSE toServer

(* A frame that asks for a receipt.                                         *)
Ask(f) ==
  /\ sendFrameAscii(f)
  /\ asked' = [asked EXCEPT ![f.receipt] = [text |-> TextOf(line),
                                           conn |-> sock]]

Abort == aborted' = TRUE

(* reciepts[r] = text by the keyboard thread; the server thread may be at   *)
(* its own access.                                                          *)
Record(r, text) ==
  \/ /\ reciepts' = [reciepts EXCEPT ![r] = text]
     /\ UNCHANGED <<raced, aborted>>
  \/ /\ spc = "receipt"
     /\ raced' = TRUE /\ aborted' \in BOOLEAN
     /\ UNCHANGED reciepts

AtReciepts == kpc \in {"recordJoin", "exit", "recordLogout"}

-----------------------------------------------------------------------------
(* The keyboard thread.  What it never touches is left out of the actions   *)
(* and unchanged in Keyboard.                                               *)
flags == <<isConnected, isConect, sock, peer, connections>>
maps == <<channels, reciepts, eventsMap, subscriptionId, raced>>
sending == <<toServer, asked>>

(* Faulty variant: the loop wants the session to be over too.               *)
FaultyHandleKeyboard ==
  /\ kpc = "loop"
  /\ kpc' = IF isTerminate /\ ~isConnected THEN "ended" ELSE "getline"
  /\ kframe' = NoRequest
  /\ UNCHANGED <<line, input, typed, flags, maps, sending, aborted>>

handleKeyboard ==
  /\ kpc = "loop"
  /\ kpc' = IF isTerminate THEN "ended" ELSE "getline"
  /\ kframe' = NoRequest
  /\ UNCHANGED <<line, input, typed, flags, maps, sending, aborted>>

(* Too few or too many arguments are a message for the user, but exit and   *)
(* logout do not look how many there are.                                   *)
HasArguments(l) == l.args # "usage" \/ l.command \in {"exit", "logout"}

(* The command that processKeybord calls the handler of, or "loop".         *)
processKeybord(l) ==
  IF /\ l.command \in Command /\ HasArguments(l)
     /\ isConnected <=> l.command # "login"
  THEN l.command ELSE "loop"

(* std::getline: the user types a line, or ends the input, after nothing    *)
(* (the string is erased) or after a line without a newline.  At an input   *)
(* that has ended the string stays as it is, so that this last line is      *)
(* processed again and again.                                               *)
getline ==
  /\ kpc = "getline"
  /\ IF input = "open"
     THEN /\ line' \in {NoLine} \cup
                      (IF typed < MaxLines THEN Lines[typed + 1] ELSE {})
          /\ input' \in {"open", "ended"}
     ELSE UNCHANGED <<line, input>>
  /\ IF line' = NoLine
     THEN kpc' = "loop" /\ UNCHANGED typed
     ELSE /\ kpc' = processKeybord(line')
          /\ typed < MaxLines /\ typed' = typed + 1
  /\ UNCHANGED <<kframe, flags, maps, sending, aborted>>

(* logingHendel: stoi of the port may throw, and nobody catches it.         *)
badPort ==
  /\ kpc = "login" /\ line.args = "throws"
  /\ Abort
  /\ UNCHANGED <<kpc, line, kframe, input, typed, flags, maps, sending>>

(* connect fails when nobody listens, and on a socket that is connected.    *)
connectFails ==
  /\ kpc = "login" /\ line.args # "throws"
  /\ kpc' = "loop"
  /\ UNCHANGED <<line, kframe, input, typed, flags, maps, sending, aborted>>

connect ==
  /\ kpc = "login" /\ line.args # "throws"
  /\ sock = NoSocket /\ connections < MaxConnections
  /\ sock' = connections /\ connections' = connections + 1
  /\ peer' = [peer EXCEPT ![connections] = "serving"]
  /\ kpc' = "setConect"
  /\ UNCHANGED <<line, kframe, input, typed, isConnected, isConect, maps,
                 sending, aborted>>

setConect ==
  /\ kpc = "setConect"
  /\ isConect' = TRUE
  /\ kpc' = "sendConnect"
  /\ UNCHANGED <<line, kframe, input, typed, isConnected, sock, peer,
                 connections, maps, sending, aborted>>

sendConnect ==
  /\ kpc = "sendConnect"
  /\ sendFrameAscii(Plain("CONNECT"))
  /\ kpc' = "setConnected"
  /\ UNCHANGED <<line, kframe, input, typed, flags, maps, asked, aborted>>

(* Faulty variant: every session counts its numbers from the start.         *)
FaultySetConnected ==
  /\ kpc = "setConnected"
  /\ isConnected' = TRUE /\ subscriptionId' = 0
  /\ kpc' = "loop"
  /\ UNCHANGED <<line, kframe, input, typed, isConect, sock, peer, connections,
                 channels, reciepts, eventsMap, raced, sending, aborted>>

setConnected ==
  /\ kpc = "setConnected"
  /\ isConnected' = TRUE
  /\ kpc' = "loop"
  /\ UNCHANGED <<line, kframe, input, typed, isConect, sock, peer,
                 connections, maps, sending, aborted>>

(* joinHendel sends first and records afterwards.                           *)
joinHendel ==
  /\ kpc = "join"
  /\ subscriptionId' = subscriptionId + 2
  /\ kframe' = Subscribe(line.channel, subscriptionId + 1, subscriptionId + 2)
  /\ Ask(kframe')
  /\ kpc' = "recordJoin"
  /\ UNCHANGED <<line, input, typed, flags, channels, reciepts, eventsMap,
                 raced, aborted>>

(* Faulty variant: recorded under the number of the subscription.           *)
FaultyRecordJoin ==
  /\ kpc = "recordJoin"
  /\ channels' = [channels EXCEPT ![line.channel] = kframe.id]
  /\ Record(kframe.id, TextOf(line))
  /\ kpc' = "loop"
  /\ UNCHANGED <<line, kframe, input, typed, flags, eventsMap, subscriptionId,
                 sending>>

recordJoin ==
  /\ kpc = "recordJoin"
  /\ channels' = [channels EXCEPT ![line.channel] = kframe.id]
  /\ Record(kframe.receipt, TextOf(line))
  /\ kpc' = "loop"
  /\ UNCHANGED <<line, kframe, input, typed, flags, eventsMap, subscriptionId,
                 sending>>

(* A bare "exit" reads past the end of the vector: the program dies, or     *)
(* what it read there is no channel of the map.                             *)
bareExit ==
  /\ kpc = "exit" /\ line.args = "usage"
  /\ kpc' = "loop" /\ aborted' \in BOOLEAN
  /\ UNCHANGED <<line, kframe, input, typed, flags, maps, sending>>

notSubscribed ==
  /\ kpc = "exit" /\ line.args # "usage" /\ channels[line.channel] = 0
  /\ kpc' = "loop"
  /\ UNCHANGED <<line, kframe, input, typed, flags, maps, sending, aborted>>

exitHendel ==
  /\ kpc = "exit" /\ line.args # "usage" /\ channels[line.channel] # 0
  /\ subscriptionId' = subscriptionId + 1
  /\ kframe' = Unsubscribe(channels[line.channel], subscriptionId + 1)
  /\ Record(subscriptionId + 1, TextOf(line))
  /\ channels' = [channels EXCEPT ![line.channel] = 0]
  /\ kpc' = "sendFrame"
  /\ UNCHANGED <<line, input, typed, flags, eventsMap, sending>>

(* logoutHendel looks at isConnected once more.                             *)
logoutHendel ==
  /\ kpc = "logout"
  /\ kpc' = IF isConnected THEN "recordLogout" ELSE "loop"
  /\ UNCHANGED <<line, kframe, input, typed, flags, maps, sending, aborted>>

(* Faulty variant: what the receipt is about is not recorded.               *)
FaultyRecordLogout ==
  /\ kpc = "recordLogout"
  /\ subscriptionId' = subscriptionId + 1
  /\ kframe' = Disconnect(subscriptionId + 1)
  /\ kpc' = "sendFrame"
  /\ UNCHANGED <<line, input, typed, flags, channels, reciepts, eventsMap,
                 raced, sending, aborted>>

recordLogout ==
  /\ kpc = "recordLogout"
  /\ subscriptionId' = subscriptionId + 1
  /\ kframe' = Disconnect(subscriptionId + 1)
  /\ Record(subscriptionId + 1, LoggedOut)
  /\ kpc' = "sendFrame"
  /\ UNCHANGED <<line, input, typed, flags, channels, eventsMap, sending>>

sendFrame ==
  /\ kpc = "sendFrame"
  /\ Ask(kframe)
  /\ kpc' = "loop"
  /\ UNCHANGED <<line, kframe, input, typed, flags, maps, aborted>>

(* reportHendel: a frame per event of the file; kframe.id counts them.      *)
badFile ==
  /\ kpc = "report" /\ line.args = "throws"
  /\ Abort
  /\ UNCHANGED <<kpc, line, kframe, input, typed, flags, maps, sending>>

reportHendel ==
  /\ kpc = "report" /\ line.args # "throws"
  /\ IF kframe.id = line.events
     THEN kpc' = "loop" /\ UNCHANGED <<kframe, toServer>>
     ELSE /\ sendFrameAscii(Send(line.channel))
          /\ kframe' = [kframe EXCEPT !.id = @ + 1]
          /\ UNCHANGED kpc
  /\ UNCHANGED <<line, input, typed, flags, maps, asked, aborted>>

(* summaryHendel copies the events of a channel.  forcesArrivalAtScene of a *)
(* partial one throws, if it is an event of the user that is asked about;   *)
(* so may the copy while the server thread inserts.                         *)
summaryHendel ==
  /\ kpc = "summary"
  /\ kpc' = "loop"
  /\ \/ UNCHANGED <<raced, aborted>>
     \/ "partial" \in eventsMap[line.channel] /\ Abort /\ UNCHANGED raced
     \/ spc = "message" /\ raced' = TRUE /\ aborted' \in BOOLEAN
  /\ UNCHANGED <<line, kframe, input, typed, flags, channels, reciepts,
                 eventsMap, subscriptionId, sending>>

Keyboard ==
  /\ ~aborted
  /\ \/ handleKeyboard \/ getline
     \/ badPort \/ connectFails \/ connect \/ setConect \/ sendConnect
     \/ setConnected \/ joinHendel \/ recordJoin
     \/ bareExit \/ notSubscribed \/ exitHendel
     \/ logoutHendel \/ recordLogout \/ sendFrame
     \/ badFile \/ reportHendel \/ summaryHendel
  /\ UNCHANGED <<spc, sframe, isTerminate, fromServer, broadcasts>>

-----------------------------------------------------------------------------
(* The server thread.  Its loop waits for isConect and then in the read;    *)
(* nobody else makes isTerminate true or isConect false, so the two looks   *)
(* at them are one step with what comes of them.                            *)
handleServer ==
  /\ spc = "loop"
  /\ isTerminate
  /\ spc' = "ended"
  /\ sframe' = Bare("OTHER")
  /\ UNCHANGED <<flags, maps, isTerminate, sending, fromServer, aborted>>

(* A frame that was cut is parsed and processed as it is.  The command may  *)
(* be none any more.  Of the number of a receipt stoi reads the digits that *)
(* are there; without any (0) it throws.  A destination may be the name of  *)
(* another channel, or of none, and an event may have lost its last lines,  *)
(* or the digits of its date (of one that lost some only the value is       *)
(* wrong).                                                                  *)
Prefixes(n) == {p \in 0 .. n : \E j \in 0 .. n : p = n \div Radix ^ j}

CutReceipts(a) == {[a EXCEPT !.receiptId = p] : p \in Prefixes(a.receiptId)}
CutMessages(a) ==
  {[a EXCEPT !.event = e] : e \in {a.event, "partial", "bad"}} \cup
  {[a EXCEPT !.destination = ch, !.event = "partial"] : ch \in Channel \cup {Null}}

Readings(a) ==
  IF a.cut
  THEN {Bare("OTHER")} \cup
       (CASE a.command = "RECEIPT" -> CutReceipts(a)
          [] a.command = "MESSAGE" -> CutMessages(a)
          [] OTHER -> {a})
  ELSE {a}

processServer(a) ==
  CASE a.command = "RECEIPT" -> "receipt"
    [] a.command = "MESSAGE" -> "message"
    [] a.command = "ERROR" -> "error"
    [] OTHER -> "loop"

(* A read that fails gives an empty frame, and the loop tries again.        *)
getFrameAscii ==
  /\ spc = "loop" /\ ~isTerminate
  /\ isConect /\ sock # NoSocket /\ fromServer[sock] # <<>>
  /\ fromServer' = [fromServer EXCEPT ![sock] = Tail(@)]
  /\ sframe' \in Readings(Head(fromServer[sock]))
  /\ spc' = processServer(sframe')
  /\ UNCHANGED <<flags, maps, isTerminate, sending, aborted>>

(* The Event of the body: stoi of its date may throw.  What goes to a name  *)
(* that is no channel (Null) is never asked for.                            *)
messageHendel ==
  /\ spc = "message"
  /\ IF sframe.event = "bad"
     THEN Abort /\ UNCHANGED <<spc, eventsMap, raced>>
     ELSE /\ spc' = "loop"
          /\ eventsMap' = [ch \in Channel |->
               IF ch = sframe.destination THEN eventsMap[ch] \cup {sframe.event}
               ELSE eventsMap[ch]]
          /\ \/ UNCHANGED <<raced, aborted>>
             \/ kpc = "summary" /\ raced' = TRUE /\ aborted' \in BOOLEAN
  /\ UNCHANGED <<sframe, flags, channels, reciepts, subscriptionId,
                 isTerminate, sending, fromServer>>

(* Faulty variant: whatever is no join ends the session.                    *)
FaultyEndsTheSession(text) == text.what # "Joined channel"

EndsTheSession(text) == text = LoggedOut

(* receiptHendel: stoi of an id that is not there throws; the look-up may   *)
(* miss while the keyboard thread inserts.                                  *)
receiptHendel ==
  /\ spc = "receipt"
  /\ \/ /\ sframe.receiptId = 0
        /\ Abort /\ UNCHANGED <<spc, raced>>
     \/ /\ sframe.receiptId # 0
        /\ spc' = IF EndsTheSession(reciepts[sframe.receiptId])
                  THEN "loggedOut" ELSE "loop"
        /\ UNCHANGED <<raced, aborted>>
     \/ /\ sframe.receiptId # 0 /\ AtReciepts
        /\ spc' = "loop"
        /\ raced' = TRUE /\ aborted' \in BOOLEAN
  /\ UNCHANGED <<sframe, flags, channels, reciepts, eventsMap, subscriptionId,
                 isTerminate, sending, fromServer>>

(* Faulty variant: the flag is left as it is.                               *)
FaultyLoggedOut ==
  /\ spc = "loggedOut"
  /\ spc' = "close"
  /\ UNCHANGED <<sframe, flags, maps, isTerminate, sending, fromServer,
                 aborted>>

loggedOut ==
  /\ spc = "loggedOut"
  /\ isConnected' = FALSE
  /\ spc' = "close"
  /\ UNCHANGED <<sframe, isConect, sock, peer, connections, maps, isTerminate,
                 sending, fromServer, aborted>>

(* ConnectionHandler::close: the socket, then the flag.  What is under way  *)
(* on the connection does not concern this client any more.                 *)
CloseSocket ==
  /\ sock' = NoSocket
  /\ toServer' = [toServer EXCEPT ![sock] = <<>>]
  /\ fromServer' = [fromServer EXCEPT ![sock] = <<>>]
  /\ peer' = [peer EXCEPT ![sock] = "gone"]

close ==
  /\ spc = "close"
  /\ CloseSocket
  /\ spc' = "clearConect"
  /\ UNCHANGED <<sframe, isConnected, isConect, connections, maps, isTerminate,
                 asked, aborted>>

clearConect ==
  /\ spc = "clearConect"
  /\ isConect' = FALSE
  /\ spc' = "loop"
  /\ UNCHANGED <<sframe, isConnected, sock, peer, connections, maps,
                 isTerminate, sending, fromServer, aborted>>

(* erorHendl: the flags, and not the socket.                                *)
erorHendl ==
  /\ spc = "error"
  /\ isTerminate' = TRUE
  /\ spc' = "clearConnected"
  /\ UNCHANGED <<sframe, flags, maps, sending, fromServer, aborted>>

clearConnected ==
  /\ spc = "clearConnected"
  /\ isConnected' = FALSE
  /\ spc' = "loop"
  /\ UNCHANGED <<sframe, isConect, sock, peer, connections, maps, isTerminate,
                 sending, fromServer, aborted>>

ServerThread ==
  /\ ~aborted
  /\ \/ handleServer \/ getFrameAscii
     \/ messageHendel \/ receiptHendel \/ loggedOut \/ close \/ clearConect
     \/ erorHendl \/ clearConnected
  /\ UNCHANGED <<kpc, line, kframe, input, typed, broadcasts>>

(* main joins both threads and destroys the handler, which closes.          *)
Ended == kpc = "ended" /\ spc = "ended"

mainReturns ==
  /\ ~aborted /\ Ended /\ sock # NoSocket
  /\ CloseSocket /\ isConect' = FALSE
  /\ UNCHANGED <<kpc, line, kframe, input, typed, spc, sframe, isTerminate,
                 isConnected, maps, connections, broadcasts, aborted, asked>>

-----------------------------------------------------------------------------
(* The server, as much of it as a client can see.                           *)
peerOnly == <<kpc, line, kframe, input, typed, spc, sframe, isTerminate,
              isConnected, maps, isConect, sock, connections, aborted, asked>>

Answers(f) ==
  CASE f.command = "CONNECT" -> <<Bare("CONNECTED")>>
    [] f.command = "SEND" -> <<>>
    [] OTHER -> <<Receipt(f.receipt)>>

peerAnswers(n) ==
  /\ peer[n] = "serving" /\ toServer[n] # <<>>
  /\ toServer' = [toServer EXCEPT ![n] = Tail(@)]
  /\ fromServer' = [fromServer EXCEPT ![n] = @ \o Answers(Head(toServer[n]))]
  /\ UNCHANGED <<peer, broadcasts, peerOnly>>

(* An ERROR is the last answer of a connection.                             *)
peerRefuses(n) ==
  /\ peer[n] = "serving" /\ toServer[n] # <<>>
  /\ toServer' = [toServer EXCEPT ![n] = <<>>]
  /\ fromServer' = [fromServer EXCEPT ![n] = Append(@, Bare("ERROR"))]
  /\ peer' = [peer EXCEPT ![n] = "refused"]
  /\ UNCHANGED <<broadcasts, peerOnly>>

peerBroadcasts(n) ==
  /\ peer[n] \in {"serving", "refused"}
  /\ broadcasts < MaxBroadcasts /\ broadcasts' = broadcasts + 1
  /\ \E ch \in Channel, e \in Events :
       fromServer' = [fromServer EXCEPT ![n] = Append(@, Message(ch, e))]
  /\ UNCHANGED <<toServer, peer, peerOnly>>

(* It closes the connection, or dies.  What it has not read is lost, which  *)
(* resets the connection, and then what it wrote may not arrive either, up  *)
(* to any byte.                                                             *)
WhatArrives(s) ==
  {SubSeq(s, 1, k) : k \in 0 .. Len(s)} \cup
  {Append(SubSeq(s, 1, k - 1), [s[k] EXCEPT !.cut = TRUE]) : k \in DOMAIN s}

Goes(n, answers) ==
  /\ peer' = [peer EXCEPT ![n] = "gone"]
  /\ toServer' = [toServer EXCEPT ![n] = <<>>]
  /\ \E s \in WhatArrives(answers) :
       fromServer' = [fromServer EXCEPT ![n] = s]
  /\ UNCHANGED peerOnly

peerGoes(n) ==
  /\ peer[n] \in {"serving", "refused"}
  /\ Goes(n, fromServer[n])
  /\ UNCHANGED broadcasts

(* A broadcast of another thread closes the socket of a client that was     *)
(* refused as soon as it has written to it.                                 *)
peerBroadcastsLast(n) ==
  /\ peer[n] = "refused"
  /\ broadcasts < MaxBroadcasts /\ broadcasts' = broadcasts + 1
  /\ \E ch \in Channel, e \in Events :
       Goes(n, Append(fromServer[n], Message(ch, e)))

Peer ==
  /\ ~aborted /\ ~Ended
  /\ \E n \in Conn :
       \/ peerAnswers(n) \/ peerRefuses(n) \/ peerBroadcasts(n)
       \/ peerGoes(n) \/ peerBroadcastsLast(n)

-----------------------------------------------------------------------------
(* The program is over, or MaxLines ends the repetition of a last line.     *)
AtBound ==
  /\ kpc = "getline" /\ input = "ended" /\ line # NoLine
  /\ typed = MaxLines

Over == (aborted \/ Ended \/ AtBound) /\ UNCHANGED vars

Next == Keyboard \/ ServerThread \/ mainReturns \/ Peer \/ Over

Spec == Init /\ [][Next]_vars

(* The threads are scheduled, and main goes on when they ended.  The user   *)
(* need not type, and the server need not answer.                           *)
AwaitsInput == kpc = "getline" /\ input = "open"

Fairness ==
  /\ WF_vars(Keyboard /\ ~AwaitsInput)
  /\ WF_vars(ServerThread)
  /\ WF_vars(mainReturns)

FairSpec == Spec /\ Fairness
=============================================================================
