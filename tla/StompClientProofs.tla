-------------------------- MODULE StompClientProofs --------------------------
(***************************************************************************)
(* Proofs about StompClient, for any number of lines, connections and      *)
(* messages, any channels and any input: ClientInv is an invariant, and    *)
(* what follows from it.                                                   *)
(*                                                                         *)
(* The argument.  Numbers are drawn from a counter that nobody resets, so  *)
(* a receipt belongs to one frame and one connection (NumbersAreFresh,     *)
(* InHand).  What is on the wire, or in the server thread's hand, was      *)
(* asked for on the connection of the socket (Wire).  So the receipt of a  *)
(* logout cannot meet a session that is just beginning: no number was      *)
(* asked for on its connection yet (SessionsApart).                        *)
(***************************************************************************)
EXTENDS StompClientProperties, TLAPS

(* ClientInv, grouped by what an action disturbs.                           *)
Records == NumbersAreFresh /\ InHand /\ EveryReceiptIsUnderstood
Wire == /\ OneConnection /\ Requests /\ AnswersToCome /\ OnlyTheLastIsCut
        /\ AnswerInHand
Sessions == SessionsApart /\ LoggedInHasSocket

LEMMA ClientInvParts ==
  ClientInv <=> ClientTypeOK /\ LineLabels /\ Records /\ Wire /\ Sessions
BY DEF ClientInv, Records, Wire, Sessions

USE DEF flags, maps, sending, Abort

-----------------------------------------------------------------------------
(* Lines, frames and texts are what their sets say.                         *)

LEMMA NumberTypes ==
  /\ MaxLines \in Nat /\ MaxConnections \in Nat
  /\ \A r \in Ids : r \in Nat /\ r # 0
  /\ \A n \in Conn : n \in Nat
BY ClientAssumption DEF Ids, Conn

LEMMA ChannelNumbers ==
  ASSUME SharedTypeOK
  PROVE  subscriptionId \in Nat /\ \A ch \in Channel : channels[ch] \in Nat
BY NumberTypes DEF SharedTypeOK

LEMMA SocketIsLast ==
  ASSUME ClientTypeOK, SessionsApart
  PROVE  /\ connections \in Nat /\ sock \in Int /\ sock < connections
         /\ NoSocket \notin Conn
<1>1. connections \in Nat /\ NoSocket = -1
  BY NumberTypes DEF ClientTypeOK, NetTypeOK, NoSocket
<1>. QED
  BY <1>1, NumberTypes DEF SessionsApart

(* A line draws at most two numbers.                                        *)
LEMMA TwoPerLine ==
  \A t, u, s \in Nat : s <= 2 * t =>
    /\ u >= t => s <= 2 * u
    /\ u = t + 1 => s + 2 <= 2 * u
OBVIOUS

LEMMA LineTypes ==
  /\ NoLine \in Line
  /\ \A k \in 1 .. MaxLines : Lines[k] \subseteq Line
BY ClientAssumption DEF NoLine, Line, Command

LEMMA TextTypes ==
  /\ NoText \in Text /\ LoggedOut \in Text
  /\ \A l \in Line : TextOf(l) \in Text
BY DEF NoText, LoggedOut, TextOf, Line, Text

LEMMA RequestTypes ==
  /\ NoRequest \in Frame
  /\ \A cmd \in Request : Plain(cmd) \in Frame /\ Plain(cmd).command = cmd
BY DEF NoRequest, Plain, Request, Frame

LEMMA AnswerTypes ==
  /\ \A cmd \in {"OTHER", "ERROR", "CONNECTED"} :
       /\ Bare(cmd) \in Answer
       /\ Bare(cmd).command = cmd /\ Bare(cmd).receiptId = 0
       /\ ~Bare(cmd).cut
  /\ \A r \in Ids : /\ Receipt(r) \in Answer
                    /\ Receipt(r).command = "RECEIPT"
                    /\ Receipt(r).receiptId = r /\ ~Receipt(r).cut
  /\ \A ch \in Channel, e \in Events :
       /\ Message(ch, e) \in Answer
       /\ Message(ch, e).command = "MESSAGE" /\ Message(ch, e).receiptId = 0
       /\ Message(ch, e).destination = ch /\ ~Message(ch, e).cut
BY ClientAssumption DEF Bare, Receipt, Message, Answer, EventKind

(* The frames of the session.                                               *)
LEMMA SessionFrames ==
  /\ \A ch \in Channel : Send(ch) \in Frame /\ Send(ch).command = "SEND"
  /\ \A ch \in Channel, i \in Nat, r \in Ids :
       /\ Subscribe(ch, i, r) \in Frame
       /\ Subscribe(ch, i, r).id = i /\ Subscribe(ch, i, r).receipt = r
  /\ \A i \in Nat, r \in Ids :
       Unsubscribe(i, r) \in Frame /\ Unsubscribe(i, r).receipt = r
  /\ \A r \in Ids :
       Disconnect(r) \in Frame /\ Disconnect(r).receipt = r
<1>1. \A cmd \in Request : Plain(cmd) \in Frame /\ Plain(cmd).command = cmd
  BY RequestTypes
<1>. QED
  BY <1>1 DEF Send, Subscribe, Unsubscribe, Disconnect, Plain, Request, Frame

(* A command with its arguments names a channel.                            *)
LEMMA LineChannel ==
  ASSUME ClientTypeOK, LineLabels, kpc \in {"join", "exit", "report", "summary"},
         line.args # "usage", kpc = "report" => line.args # "throws"
  PROVE  line.channel \in Channel /\ line.command = kpc
<1>1. line.command = kpc /\ line.args \in {"ok", "throws"}
  BY DEF ClientTypeOK, ThreadTypeOK, Line, LineLabels, Command
<1>2. line # NoLine
  <2>1. NoLine.command = ""
    BY DEF NoLine
  <2>. QED
    BY <1>1, <2>1
<1>3. typed \in 0 .. MaxLines /\ line \in UNION {Lines[k] : k \in 1 .. typed}
  BY <1>2 DEF LineLabels, ClientTypeOK, ThreadTypeOK
<1>4. PICK k \in 1 .. MaxLines : line \in Lines[k]
  BY <1>3, NumberTypes
<1>. QED
  BY <1>1, <1>4, ClientAssumption

-----------------------------------------------------------------------------
(* What the operators that the actions share keep.                          *)

LEMMA WireUntouched ==
  ASSUME Wire, UNCHANGED <<sock, toServer, fromServer, peer, connections,
                           asked, spc, sframe>>
  PROVE  Wire'
BY DEF Wire, OneConnection, Requests, RequestOf, AnswersToCome, AnswerOf,
       OnlyTheLastIsCut, AnswerInHand, Expected, SomethingAsked, BrokenOff

(* No number is drawn or recorded, and the keyboard thread is nowhere where *)
(* one matters.                                                             *)
Numbering == {"join", "exit", "logout", "recordJoin", "recordLogout",
              "sendFrame"}

LEMMA RecordsUntouched ==
  ASSUME Records, kpc \notin {"recordJoin", "sendFrame"},
         kpc' \notin Numbering, raced => raced',
         UNCHANGED <<typed, subscriptionId, channels, reciepts, asked>>
  PROVE  Records'
BY DEF Records, NumbersAreFresh, InHand, EveryReceiptIsUnderstood, Numbering

(* reciepts[r] = text: done, or lost in a race.                             *)
LEMMA RecordKeeps ==
  ASSUME SharedTypeOK, NEW r \in Ids, NEW text \in Text, Record(r, text)
  PROVE  /\ reciepts' \in [Ids -> Text]
         /\ raced' \in BOOLEAN /\ aborted' \in BOOLEAN /\ (raced => raced')
         /\ \A q \in Ids : q # r => reciepts'[q] = reciepts[q]
         /\ \/ reciepts'[r] = text
            \/ raced' /\ reciepts'[r] = reciepts[r]
<1>. raced \in BOOLEAN /\ aborted \in BOOLEAN /\ reciepts \in [Ids -> Text]
  BY DEF SharedTypeOK
<1>1. CASE /\ reciepts' = [reciepts EXCEPT ![r] = text]
           /\ UNCHANGED <<raced, aborted>>
  BY <1>1
<1>2. CASE raced' = TRUE /\ aborted' \in BOOLEAN /\ UNCHANGED reciepts
  BY <1>2
<1>. QED
  BY <1>1, <1>2 DEF Record

(* A frame joins the end of what is under way on the socket's connection,   *)
(* or is lost.                                                              *)
LEMMA SendKeeps ==
  ASSUME ClientTypeOK, NEW f \in Frame, sendFrameAscii(f)
  PROVE  /\ toServer' \in [Conn -> Seq(Frame)]
         /\ \A n \in Conn : toServer'[n] # toServer[n]
              => n = sock /\ peer[n] = "serving"
         /\ \A n \in Conn : \A k \in DOMAIN toServer'[n] :
              \/ k \in DOMAIN toServer[n] /\ toServer'[n][k] = toServer[n][k]
              \/ n = sock /\ toServer'[n][k] = f
<1>. toServer \in [Conn -> Seq(Frame)] /\ sock \in Conn \cup {NoSocket}
  BY DEF ClientTypeOK, NetTypeOK, SharedTypeOK
<1>1. CASE sock # NoSocket /\ peer[sock] = "serving"
  <2>1. toServer' = [toServer EXCEPT ![sock] = Append(toServer[sock], f)]
    BY <1>1 DEF sendFrameAscii
  <2>2. sock \in Conn /\ toServer[sock] \in Seq(Frame)
    BY <1>1
  <2>3. /\ Append(toServer[sock], f) \in Seq(Frame)
        /\ \A k \in DOMAIN Append(toServer[sock], f) :
             \/ /\ k \in DOMAIN toServer[sock]
                /\ Append(toServer[sock], f)[k] = toServer[sock][k]
             \/ Append(toServer[sock], f)[k] = f
    BY <2>2
  <2>. HIDE DEF sendFrameAscii
  <2>. QED
    BY <1>1, <2>1, <2>2, <2>3
<1>2. CASE ~(sock # NoSocket /\ peer[sock] = "serving")
  BY <1>2 DEF sendFrameAscii
<1>. QED
  BY <1>1, <1>2

(* Sending a frame that asks for no receipt.                                *)
LEMMA SendKeepsWire ==
  ASSUME ClientTypeOK, Wire, NEW f \in Frame, sendFrameAscii(f),
         f.command \in {"CONNECT", "SEND"},
         UNCHANGED <<sock, fromServer, peer, connections, asked, spc, sframe>>
  PROVE  Wire'
<1>1. OneConnection'
  BY SendKeeps DEF Wire, OneConnection
<1>2. Requests'
  BY SendKeeps DEF Wire, Requests, RequestOf, Expected
<1>3. AnswersToCome' /\ OnlyTheLastIsCut'
  BY DEF Wire, AnswersToCome, AnswerOf, OnlyTheLastIsCut, Expected
<1>4. AnswerInHand'
  BY DEF Wire, AnswerInHand, Expected, SomethingAsked, BrokenOff
<1>. QED
  BY <1>1, <1>2, <1>3, <1>4 DEF Wire

(* Sending one that asks for a receipt, under a number never asked for.     *)
LEMMA AskKeeps ==
  ASSUME ClientTypeOK, Wire, NEW f \in Frame, Ask(f), f.receipt \in Ids,
         asked[f.receipt] = NotAsked,
         UNCHANGED <<sock, fromServer, peer, connections, spc, sframe>>
  PROVE  /\ Wire'
         /\ toServer' \in [Conn -> Seq(Frame)]
         /\ asked' \in [Ids -> [text : Text, conn : Conn \cup {NoSocket}]]
         /\ asked'[f.receipt] = [text |-> TextOf(line), conn |-> sock]
         /\ \A r \in Ids : r # f.receipt => asked'[r] = asked[r]
<1>. DEFINE new == [text |-> TextOf(line), conn |-> sock]
<1>1. new \in [text : Text, conn : Conn \cup {NoSocket}]
  BY TextTypes DEF ClientTypeOK, ThreadTypeOK, SharedTypeOK
<1>2. asked \in [Ids -> [text : Text, conn : Conn \cup {NoSocket}]]
  BY DEF ClientTypeOK, NetTypeOK
<1>3. asked' = [asked EXCEPT ![f.receipt] = new] /\ sendFrameAscii(f)
  BY DEF Ask
<1>4. NotAsked.conn \notin Conn /\ new.conn = sock
  BY NumberTypes DEF NotAsked, NoSocket
<1>. HIDE DEF new
<1>5. /\ asked' \in [Ids -> [text : Text, conn : Conn \cup {NoSocket}]]
      /\ asked'[f.receipt] = new
      /\ \A r \in Ids : r # f.receipt => asked'[r] = asked[r]
  BY <1>1, <1>2, <1>3
<1>6. \A r \in Ids, n \in Conn : Expected(r, n) => Expected(r, n)'
  BY <1>4, <1>5 DEF Expected
<1>7. OneConnection'
  BY <1>3, SendKeeps DEF Wire, OneConnection
<1>8. Requests'
  <2>. SUFFICES ASSUME NEW n \in Conn, NEW k \in DOMAIN toServer'[n]
                PROVE  RequestOf(toServer[n][k], n)'
    BY DEF Requests
  <2>1. toServer \in [Conn -> Seq(Frame)]
    BY DEF ClientTypeOK, NetTypeOK
  <2>2. CASE k \in DOMAIN toServer[n] /\ toServer'[n][k] = toServer[n][k]
    <3>1. RequestOf(toServer[n][k], n) /\ toServer[n][k] \in Frame
      BY <2>1, <2>2 DEF Wire, Requests
    <3>. QED
      BY <1>6, <2>2, <3>1, NumberTypes DEF RequestOf, Frame, Expected
  <2>3. CASE n = sock /\ toServer'[n][k] = f
    BY <1>4, <1>5, <2>3, NumberTypes DEF RequestOf, Expected
  <2>. QED
    BY <1>3, <2>2, <2>3, SendKeeps
<1>9. AnswersToCome'
  <2>. SUFFICES ASSUME NEW n \in Conn, NEW k \in DOMAIN fromServer'[n]
                PROVE  AnswerOf(fromServer[n][k], n)'
    BY DEF AnswersToCome
  <2>1. fromServer[n][k] \in Answer
    BY DEF ClientTypeOK, NetTypeOK
  <2>. QED
    BY <1>6, <2>1 DEF Wire, AnswersToCome, AnswerOf, Expected, Answer
<1>10. OnlyTheLastIsCut'
  BY DEF Wire, OnlyTheLastIsCut
<1>11. AnswerInHand'
  <2>1. BrokenOff' <=> BrokenOff
    BY DEF BrokenOff
  <2>2. sock # NoSocket /\ SomethingAsked(sock) => SomethingAsked(sock)'
    BY <1>6, NumberTypes
    DEF SomethingAsked, Expected, ClientTypeOK, SharedTypeOK
  <2>3. \A r \in Ids : asked[r].conn \in Conn => asked'[r] = asked[r]
    BY <1>4, <1>5
  <2>4. sock # NoSocket => sock \in Conn
    BY DEF ClientTypeOK, SharedTypeOK
  <2>5. sframe.receiptId \in {0} \cup Ids
    BY DEF ClientTypeOK, ThreadTypeOK, Answer
  <2>6. /\ spc \in {"receipt", "loggedOut", "close"} =>
             sock # NoSocket /\ SomethingAsked(sock)
        /\ spc = "receipt" =>
             BrokenOff \/ (sframe.receiptId # 0 => Expected(sframe.receiptId, sock))
        /\ spc \in {"loggedOut", "close"} =>
             /\ sframe.receiptId \in Ids
             /\ \/ BrokenOff
                \/ asked[sframe.receiptId] = [text |-> LoggedOut, conn |-> sock]
    BY DEF Wire, AnswerInHand
  <2>7. [text |-> LoggedOut, conn |-> sock].conn = sock
    OBVIOUS
  <2>. QED
    BY <1>6, <2>1, <2>2, <2>3, <2>4, <2>5, <2>6, <2>7 DEF AnswerInHand
<1>. QED
  BY <1>3, <1>5, <1>7, <1>8, <1>9, <1>10, <1>11, SendKeeps DEF Wire, new

-----------------------------------------------------------------------------
LEMMA ClientInit == Init => ClientInv
<1>. SUFFICES ASSUME Init PROVE ClientInv
  OBVIOUS
<1>1. ThreadTypeOK
  BY RequestTypes, AnswerTypes, LineTypes, ClientAssumption
  DEF Init, ThreadTypeOK, KeyboardLabels, ServerLabels
<1>2. SharedTypeOK
  BY TextTypes DEF Init, SharedTypeOK
<1>3. NetTypeOK
  BY TextTypes, ClientAssumption DEF Init, NetTypeOK, NotAsked
<1>4. LineLabels /\ NumbersAreFresh /\ InHand
  BY DEF Init, LineLabels, NumbersAreFresh, InHand, Command
<1>5. /\ OneConnection /\ Requests /\ AnswersToCome /\ OnlyTheLastIsCut
      /\ AnswerInHand
  BY DEF Init, OneConnection, Requests, AnswersToCome, OnlyTheLastIsCut,
         CutAtTheEnd, AnswerInHand
<1>6. SessionsApart
  BY DEF Init, SessionsApart, LoggingIn, NotAsked, NoSocket
<1>7. EveryReceiptIsUnderstood /\ LoggedInHasSocket
  BY DEF Init, EveryReceiptIsUnderstood, LoggedInHasSocket, NotAsked
<1>. QED
  BY <1>1, <1>2, <1>3, <1>4, <1>5, <1>6, <1>7 DEF ClientInv, ClientTypeOK

(* A step that only kills the program.                                      *)
LEMMA AbortKeeps ==
  ASSUME ClientInv, Abort,
         UNCHANGED <<kpc, line, kframe, input, typed, spc, sframe, isTerminate,
                     flags, maps, sending, fromServer, broadcasts>>
  PROVE  ClientInv'
<1>1. ClientTypeOK'
  BY DEF ClientInv, ClientTypeOK, ThreadTypeOK, SharedTypeOK, NetTypeOK
<1>2. LineLabels'
  BY DEF ClientInv, LineLabels
<1>3. Records'
  BY DEF ClientInv, Records, NumbersAreFresh, InHand, EveryReceiptIsUnderstood
<1>4. Wire'
  BY WireUntouched, ClientInvParts
<1>5. Sessions'
  BY DEF ClientInv, Sessions, SessionsApart, LoggingIn, LoggedInHasSocket, Ended
<1>. QED
  BY <1>1, <1>2, <1>3, <1>4, <1>5 DEF ClientInv, Records, Wire, Sessions

-----------------------------------------------------------------------------
(* The keyboard thread.                                                     *)

ByKeyboard == UNCHANGED <<spc, sframe, isTerminate, fromServer, broadcasts>>

USE DEF ByKeyboard

(* A step that leaves all that is shared as it is, and is done with the     *)
(* line.                                                                    *)
LEMMA MoveKeeps ==
  ASSUME ClientInv, ByKeyboard,
         kpc \notin {"recordJoin", "sendFrame", "ended"},
         kpc' \in {"loop", "getline"} \/ (kpc' = "ended" /\ isTerminate),
         kframe' \in Frame, raced' \in BOOLEAN, raced => raced',
         aborted' \in BOOLEAN,
         UNCHANGED <<line, input, typed, flags, channels, reciepts, eventsMap,
                     subscriptionId, sending>>
  PROVE  ClientInv'
<1>1. ClientTypeOK'
  BY DEF ClientInv, ClientTypeOK, ThreadTypeOK, SharedTypeOK, NetTypeOK,
         KeyboardLabels
<1>2. LineLabels'
  BY DEF ClientInv, LineLabels, Command
<1>3. Records'
  BY RecordsUntouched, ClientInvParts DEF Numbering
<1>4. Wire'
  BY WireUntouched, ClientInvParts
<1>5. Sessions'
  BY DEF ClientInv, Sessions, SessionsApart, LoggingIn, LoggedInHasSocket, Ended
<1>. QED
  BY <1>1, <1>2, <1>3, <1>4, <1>5 DEF ClientInv, Records, Wire, Sessions

LEMMA SimpleSteps ==
  ASSUME ClientInv, ByKeyboard,
         \/ handleKeyboard \/ badPort \/ connectFails \/ bareExit
         \/ notSubscribed \/ badFile \/ summaryHendel
  PROVE  ClientInv'
<1>. kframe \in Frame /\ raced \in BOOLEAN /\ aborted \in BOOLEAN
  BY DEF ClientInv, ClientTypeOK, ThreadTypeOK, SharedTypeOK
<1>1. CASE handleKeyboard
  BY <1>1, MoveKeeps, RequestTypes DEF handleKeyboard
<1>2. CASE badPort
  BY <1>2, AbortKeeps DEF badPort
<1>3. CASE connectFails
  BY <1>3, MoveKeeps DEF connectFails
<1>4. CASE bareExit
  BY <1>4, MoveKeeps DEF bareExit
<1>5. CASE notSubscribed
  BY <1>5, MoveKeeps DEF notSubscribed
<1>6. CASE badFile
  BY <1>6, AbortKeeps DEF badFile
<1>7. CASE summaryHendel
  BY <1>7, MoveKeeps DEF summaryHendel
<1>. QED
  BY <1>1, <1>2, <1>3, <1>4, <1>5, <1>6, <1>7

LEMMA GetlineKeeps ==
  ASSUME ClientInv, getline, ByKeyboard
  PROVE  ClientInv'
<1>1. /\ kpc = "getline" /\ typed \in 0 .. MaxLines /\ line \in Line
      /\ input' \in {"open", "ended"}
      /\ UNCHANGED <<kframe, flags, maps, sending, aborted>>
  BY DEF getline, ClientInv, ClientTypeOK, ThreadTypeOK
<1>2. \/ line' = NoLine /\ kpc' = "loop" /\ typed' = typed
      \/ /\ line' # NoLine /\ kpc' = processKeybord(line')
         /\ typed < MaxLines /\ typed' = typed + 1
  BY DEF getline
<1>3. line' # NoLine => line' \in UNION {Lines[k] : k \in 1 .. typed'}
  <2>1. \/ line' = NoLine
        \/ typed < MaxLines /\ line' \in Lines[typed + 1]
        \/ line' = line
    BY DEF getline
  <2>2. line # NoLine => typed > 0 /\ line \in UNION {Lines[k] : k \in 1 .. typed}
    BY DEF ClientInv, LineLabels
  <2>3. typed' \in {typed, typed + 1} /\ (line' # NoLine => typed' = typed + 1)
    BY <1>2
  <2>. QED
    BY <1>1, <2>1, <2>2, <2>3
<1>4. line' \in Line
  BY <1>1, <1>2, <1>3, LineTypes, NumberTypes
<1>5. \/ kpc' = "loop"
      \/ /\ kpc' \in Command /\ kpc' = line'.command /\ HasArguments(line')
         /\ (isConnected <=> kpc' # "login") /\ line' # NoLine
         /\ typed' = typed + 1
  BY <1>2 DEF processKeybord
<1>6. ClientTypeOK'
  BY <1>1, <1>2, <1>4, <1>5, NumberTypes
  DEF ClientInv, ClientTypeOK, ThreadTypeOK, SharedTypeOK, NetTypeOK,
      KeyboardLabels
<1>7. LineLabels'
  BY <1>1, <1>2, <1>3, <1>5 DEF LineLabels, Command, HasArguments
<1>8. Records'
  <2>1. SharedTypeOK /\ typed \in Nat /\ typed' \in Nat /\ typed' >= typed
    BY <1>1, <1>2, NumberTypes DEF ClientInv, ClientTypeOK
  <2>2. NumbersAreFresh'
    <3>1. subscriptionId \in Nat /\ subscriptionId <= 2 * typed
      BY <2>1 DEF ClientInv, SharedTypeOK, NumbersAreFresh
    <3>2. subscriptionId' = subscriptionId
      BY <1>1
    <3>3. subscriptionId' <= 2 * typed'
      BY <2>1, <3>1, <3>2, TwoPerLine
    <3>4. kpc' # "loop" => subscriptionId' + 2 <= 2 * typed'
      BY <1>5, <2>1, <3>1, <3>2, TwoPerLine
    <3>. QED
      BY <1>1, <1>5, <3>3, <3>4 DEF ClientInv, NumbersAreFresh, Command
  <2>3. kpc' \notin {"sendFrame", "recordJoin"}
    BY <1>5 DEF Command
  <2>. QED
    BY <1>1, <2>2, <2>3
    DEF ClientInv, Records, InHand, EveryReceiptIsUnderstood
<1>9. Wire'
  BY <1>1, WireUntouched, ClientInvParts
<1>10. Sessions'
  BY <1>1, <1>5
  DEF ClientInv, Sessions, SessionsApart, LoggingIn, LoggedInHasSocket, Ended,
      Command
<1>. QED
  BY <1>6, <1>7, <1>8, <1>9, <1>10 DEF ClientInv, Records, Wire, Sessions

LEMMA ConnectKeeps ==
  ASSUME ClientInv, connect, ByKeyboard
  PROVE  ClientInv'
<1>1. /\ connections \in Conn /\ connections \in Nat /\ connections' \in Nat
      /\ connections' \in 0 .. MaxConnections
  BY NumberTypes DEF ClientInv, ClientTypeOK, NetTypeOK, connect, Conn
<1>2. ClientTypeOK'
  BY <1>1 DEF ClientInv, ClientTypeOK, ThreadTypeOK, SharedTypeOK, NetTypeOK,
              connect, KeyboardLabels
<1>3. LineLabels'
  BY DEF ClientInv, LineLabels, connect, Command
<1>4. Records'
  BY RecordsUntouched, ClientInvParts DEF connect, Numbering
<1>5. Wire'
  <2>1. OneConnection'
    <3>1. /\ peer' = [peer EXCEPT ![connections] = "serving"]
          /\ peer \in [Conn -> {"none", "serving", "refused", "gone"}]
          /\ sock = NoSocket /\ sock' = connections
          /\ connections' = connections + 1
          /\ UNCHANGED <<toServer, fromServer>>
      BY DEF ClientInv, ClientTypeOK, NetTypeOK, connect
    <3>2. /\ \A n \in Conn : /\ toServer[n] = <<>> /\ fromServer[n] = <<>>
                            /\ peer[n] \in {"none", "gone"}
          /\ \A n \in Conn : n >= connections => peer[n] = "none"
      <4>1. NoSocket \notin Conn
        BY NumberTypes DEF NoSocket
      <4>. QED
        BY <3>1, <4>1 DEF ClientInv, OneConnection
    <3>3. /\ peer'[connections] = "serving"
          /\ \A n \in Conn : n # connections => peer'[n] = peer[n]
      BY <1>1, <3>1
    <3>4. ASSUME NEW n \in Conn, n >= connections + 1
          PROVE  n >= connections /\ n # connections
      BY <1>1, <3>4, NumberTypes
    <3>. QED
      BY <3>1, <3>2, <3>3, <3>4 DEF OneConnection
  <2>2. Requests' /\ AnswersToCome' /\ OnlyTheLastIsCut'
    <3>1. \A n \in Conn : n # sock
      BY NumberTypes DEF connect, NoSocket
    <3>2. \A n \in Conn : toServer'[n] = <<>> /\ fromServer'[n] = <<>>
      BY <3>1 DEF ClientInv, OneConnection, connect
    <3>. QED
      BY <3>2 DEF Requests, AnswersToCome, OnlyTheLastIsCut, CutAtTheEnd
  <2>3. AnswerInHand'
    BY DEF ClientInv, AnswerInHand, connect
  <2>. QED
    BY <2>1, <2>2, <2>3 DEF Wire
<1>6. Sessions'
  <2>1. \A r \in Ids : asked[r].conn < connections
    BY DEF ClientInv, SessionsApart
  <2>2. \A r \in Ids : asked[r].conn \in Conn \cup {NoSocket}
    BY DEF ClientInv, ClientTypeOK, NetTypeOK
  <2>3. \A r \in Ids : asked[r].conn < connections + 1 /\ asked[r].conn # connections
    <3>. SUFFICES ASSUME NEW r \in Ids
                  PROVE  /\ asked[r].conn < connections + 1
                         /\ asked[r].conn # connections
      OBVIOUS
    <3>. DEFINE n == asked[r].conn
    <3>1. n \in Int
      <4>1. n \in Conn \/ n = -1
        BY <2>2 DEF NoSocket
      <4>. HIDE DEF n
      <4>. QED
        BY <4>1, NumberTypes
    <3>2. n < connections
      BY <2>1
    <3>. HIDE DEF n
    <3>3. n < connections + 1 /\ n # connections
      BY <1>1, <3>1, <3>2
    <3>. QED
      BY <3>3 DEF n
  <2>. QED
    BY <1>1, <2>3, NumberTypes
    DEF ClientInv, Sessions, SessionsApart, LoggingIn, LoggedInHasSocket, Ended,
        connect, NoSocket
<1>. QED
  BY <1>2, <1>3, <1>4, <1>5, <1>6 DEF ClientInv, Records, Wire, Sessions

LEMMA SetConectKeeps ==
  ASSUME ClientInv, setConect, ByKeyboard
  PROVE  ClientInv'
<1>1. ClientTypeOK' /\ LineLabels'
  BY DEF ClientInv, ClientTypeOK, ThreadTypeOK, SharedTypeOK, NetTypeOK,
         LineLabels, setConect, KeyboardLabels, Command
<1>2. Records'
  BY RecordsUntouched, ClientInvParts DEF setConect, Numbering
<1>3. Wire'
  BY WireUntouched, ClientInvParts DEF setConect
<1>4. Sessions'
  BY DEF ClientInv, Sessions, SessionsApart, LoggingIn, LoggedInHasSocket, Ended,
         setConect
<1>. QED
  BY <1>1, <1>2, <1>3, <1>4 DEF ClientInv, Records, Wire, Sessions

LEMMA SendConnectKeeps ==
  ASSUME ClientInv, sendConnect, ByKeyboard
  PROVE  ClientInv'
<1>1. /\ Plain("CONNECT") \in Frame /\ Plain("CONNECT").command = "CONNECT"
      /\ sendFrameAscii(Plain("CONNECT"))
  BY RequestTypes DEF Request, sendConnect
<1>2. ClientTypeOK' /\ LineLabels'
  BY <1>1, SendKeeps
  DEF ClientInv, ClientTypeOK, ThreadTypeOK, SharedTypeOK, NetTypeOK,
      LineLabels, sendConnect, KeyboardLabels, Command
<1>3. Records'
  BY RecordsUntouched, ClientInvParts DEF sendConnect, Numbering
<1>4. Wire'
  BY <1>1, SendKeepsWire, ClientInvParts DEF sendConnect
<1>5. Sessions'
  BY DEF ClientInv, Sessions, SessionsApart, LoggingIn, LoggedInHasSocket, Ended,
         sendConnect
<1>. QED
  BY <1>2, <1>3, <1>4, <1>5 DEF ClientInv, Records, Wire, Sessions

(* The session begins.  The server thread cannot be closing: what it holds  *)
(* would have been asked for on this connection.                            *)
LEMMA SetConnectedKeeps ==
  ASSUME ClientInv, setConnected, ByKeyboard
  PROVE  ClientInv'
<1>1. ClientTypeOK' /\ LineLabels'
  BY DEF ClientInv, ClientTypeOK, ThreadTypeOK, SharedTypeOK, NetTypeOK,
         LineLabels, setConnected, KeyboardLabels, Command
<1>2. Records'
  BY RecordsUntouched, ClientInvParts DEF setConnected, Numbering
<1>3. Wire'
  BY WireUntouched, ClientInvParts DEF setConnected
<1>4. spc # "close" /\ sock # NoSocket
  BY DEF ClientInv, SessionsApart, LoggingIn, AnswerInHand, SomethingAsked,
         setConnected
<1>5. Sessions'
  BY <1>4 DEF ClientInv, Sessions, SessionsApart, LoggingIn, LoggedInHasSocket,
              setConnected
<1>. QED
  BY <1>1, <1>2, <1>3, <1>5 DEF ClientInv, Records, Wire, Sessions

(* The number that a step draws next.                                       *)
LEMMA NextNumber ==
  ASSUME ClientInv, kpc \in {"join", "exit", "recordLogout"}
  PROVE  /\ subscriptionId \in Nat /\ subscriptionId + 2 <= 2 * typed
         /\ subscriptionId + 1 \in Ids /\ subscriptionId + 2 \in Ids
         /\ \A r \in {subscriptionId + 1, subscriptionId + 2} :
              asked[r] = NotAsked /\ reciepts[r] = NoText
<1>1. subscriptionId \in Nat /\ subscriptionId + 2 <= 2 * typed
  BY DEF ClientInv, ClientTypeOK, SharedTypeOK, NumbersAreFresh
<1>2. typed \in Nat /\ typed <= MaxLines
  BY NumberTypes DEF ClientInv, ClientTypeOK, ThreadTypeOK
<1>3. subscriptionId + 1 \in Ids /\ subscriptionId + 2 \in Ids
  <2>1. subscriptionId + 2 \in Nat /\ subscriptionId + 2 <= 2 * MaxLines
    BY <1>1, <1>2, TwoPerLine, NumberTypes
  <2>. QED
    BY <1>1, <2>1, NumberTypes DEF Ids
<1>. QED
  BY <1>1, <1>3 DEF ClientInv, NumbersAreFresh

LEMMA JoinHendelKeeps ==
  ASSUME ClientInv, joinHendel, ByKeyboard
  PROVE  ClientInv'
<1>. DEFINE s == subscriptionId
<1>1. /\ kpc = "join" /\ kpc' = "recordJoin" /\ s' = s + 2
      /\ UNCHANGED <<line, input, typed, flags, channels, reciepts, eventsMap,
                     raced, aborted>>
  BY DEF joinHendel
<1>2. /\ s \in Nat /\ s + 2 <= 2 * typed
      /\ s + 1 \in Ids /\ s + 2 \in Ids /\ asked[s + 2] = NotAsked
      /\ reciepts[s + 2] = NoText
  BY <1>1, NextNumber
<1>3. /\ kframe' \in Frame /\ kframe'.id = s + 1 /\ kframe'.receipt = s + 2
      /\ Ask(kframe')
  <2>1. line.args # "usage"
    BY <1>1 DEF ClientInv, LineLabels, HasArguments, Command
  <2>2. line.channel \in Channel
    BY <1>1, <2>1, LineChannel DEF ClientInv
  <2>3. kframe' = Subscribe(line.channel, s + 1, s + 2) /\ Ask(kframe')
    BY DEF joinHendel
  <2>. QED
    BY <1>2, <2>2, <2>3, SessionFrames
<1>. HIDE DEF s
<1>4. /\ Wire' /\ toServer' \in [Conn -> Seq(Frame)]
      /\ asked' \in [Ids -> [text : Text, conn : Conn \cup {NoSocket}]]
      /\ asked'[s + 2] = [text |-> TextOf(line), conn |-> sock]
      /\ \A r \in Ids : r # s + 2 => asked'[r] = asked[r]
  BY <1>1, <1>2, <1>3, AskKeeps, ClientInvParts
<1>5. ClientTypeOK' /\ LineLabels'
  BY <1>1, <1>2, <1>3, <1>4
  DEF ClientInv, ClientTypeOK, ThreadTypeOK, SharedTypeOK, NetTypeOK,
      LineLabels, KeyboardLabels, Command, s
<1>6. Records'
  <2>1. NumbersAreFresh'
    <3>1. \A ch \in Channel : channels'[ch] \in Nat /\ channels'[ch] <= s
      BY <1>1, ChannelNumbers DEF ClientInv, ClientTypeOK, NumbersAreFresh, s
    <3>2. \A r \in Ids : r > s => asked[r] = NotAsked /\ reciepts[r] = NoText
      BY DEF ClientInv, NumbersAreFresh, s
    <3>3. \A r \in Ids : r > s + 2 => r > s /\ r # s + 2
      BY <1>2, NumberTypes
    <3>4. \A ch \in Channel : channels'[ch] <= s + 2
      BY <1>2, <3>1
    <3>. QED
      BY <1>1, <1>2, <1>4, <3>2, <3>3, <3>4 DEF NumbersAreFresh, s
  <2>2. s + 1 \in 1 .. s' /\ s + 2 \in 1 .. s'
    BY <1>1, <1>2
  <2>3. asked'[s + 2].text = TextOf(line) /\ reciepts'[s + 2] = NoText
    BY <1>1, <1>2, <1>4
  <2>4. \A r \in Ids : r # s + 2 =>
          reciepts'[r] = reciepts[r] /\ asked'[r] = asked[r]
    BY <1>1, <1>4
  <2>5. InHand'
    BY <1>1, <1>3, <2>2, <2>3, <2>4 DEF ClientInv, InHand, s
  <2>6. EveryReceiptIsUnderstood'
    BY <1>1, <1>3, <2>4 DEF ClientInv, EveryReceiptIsUnderstood
  <2>. QED
    BY <2>1, <2>5, <2>6 DEF Records
<1>7. Sessions'
  <2>1. \A r \in Ids : asked'[r].conn < connections
    BY <1>4, SocketIsLast DEF ClientInv, SessionsApart
  <2>. QED
    BY <1>1, <2>1
    DEF ClientInv, Sessions, SessionsApart, LoggingIn, LoggedInHasSocket,
        Ended
<1>. QED
  BY <1>4, <1>5, <1>6, <1>7 DEF ClientInv, Records, Wire, Sessions

(* The text of the receipt follows its frame.                               *)
LEMMA RecordJoinKeeps ==
  ASSUME ClientInv, recordJoin, ByKeyboard
  PROVE  ClientInv'
<1>. DEFINE r == kframe.receipt
<1>1. /\ kpc = "recordJoin" /\ kpc' = "loop"
      /\ channels' = [channels EXCEPT ![line.channel] = kframe.id]
      /\ Record(r, TextOf(line))
      /\ UNCHANGED <<line, kframe, input, typed, flags, eventsMap,
                     subscriptionId, sending>>
  BY DEF recordJoin
<1>2. /\ r \in 1 .. subscriptionId /\ kframe.id \in 1 .. subscriptionId
      /\ asked[r].text = TextOf(line) /\ reciepts[r] = NoText
  BY <1>1 DEF ClientInv, InHand
<1>3. SharedTypeOK /\ r \in Nat /\ r <= subscriptionId
      /\ kframe.id \in Nat /\ kframe.id <= subscriptionId
  BY <1>2 DEF ClientInv, ClientTypeOK, SharedTypeOK
<1>4. r \in Ids /\ kframe.id \in Ids
  <2>1. subscriptionId <= 2 * MaxLines
    <3>1. typed \in Nat /\ typed <= MaxLines /\ subscriptionId <= 2 * typed
      BY NumberTypes DEF ClientInv, ClientTypeOK, ThreadTypeOK, NumbersAreFresh
    <3>. QED
      BY <1>3, <3>1, TwoPerLine, NumberTypes, ChannelNumbers
  <2>2. subscriptionId \in Nat /\ 2 * MaxLines \in Nat
    BY <1>3, NumberTypes DEF SharedTypeOK
  <2>. QED
    BY <1>2, <1>3, <2>1, <2>2 DEF Ids
<1>. HIDE DEF r
<1>5. /\ reciepts' \in [Ids -> Text] /\ raced' \in BOOLEAN
      /\ aborted' \in BOOLEAN /\ (raced => raced')
      /\ \A q \in Ids : q # r => reciepts'[q] = reciepts[q]
      /\ reciepts'[r] = TextOf(line) \/ (raced' /\ reciepts'[r] = reciepts[r])
  <2>1. TextOf(line) \in Text
    BY TextTypes DEF ClientInv, ClientTypeOK, ThreadTypeOK
  <2>. QED
    BY <1>1, <1>3, <1>4, <2>1, RecordKeeps
<1>6. /\ channels' \in [Channel -> {0} \cup Ids]
      /\ \A ch \in Channel : channels'[ch] \in {channels[ch], kframe.id}
  BY <1>1, <1>3, <1>4 DEF SharedTypeOK
<1>7. ClientTypeOK' /\ LineLabels'
  BY <1>1, <1>5, <1>6
  DEF ClientInv, ClientTypeOK, ThreadTypeOK, SharedTypeOK, NetTypeOK,
      LineLabels, KeyboardLabels, Command
<1>8. Records'
  <2>1. \A q \in Ids : q > subscriptionId => q # r
    BY <1>3, ChannelNumbers, NumberTypes
  <2>2. NumbersAreFresh'
    BY <1>1, <1>3, <1>5, <1>6, <2>1 DEF ClientInv, NumbersAreFresh
  <2>3. InHand'
    BY <1>1, <1>2, <1>5 DEF ClientInv, InHand
  <2>4. EveryReceiptIsUnderstood'
    BY <1>1, <1>2, <1>5 DEF ClientInv, EveryReceiptIsUnderstood, r
  <2>. QED
    BY <2>2, <2>3, <2>4 DEF Records
<1>9. Wire'
  BY <1>1, WireUntouched, ClientInvParts
<1>10. Sessions'
  BY <1>1
  DEF ClientInv, Sessions, SessionsApart, LoggingIn, LoggedInHasSocket, Ended
<1>. QED
  BY <1>7, <1>8, <1>9, <1>10 DEF ClientInv, Records, Wire, Sessions

(* exit and logout record first and send afterwards.                        *)
LEMMA RecordFirstKeeps ==
  ASSUME ClientInv, ByKeyboard, NEW l \in {"exit", "recordLogout"},
         kpc = l, kpc' = "sendFrame",
         l = "exit" => line.command = "exit",
         subscriptionId' = subscriptionId + 1,
         kframe' \in Frame, kframe'.receipt = subscriptionId + 1,
         Record(subscriptionId + 1, TextOf(line)),
         channels' \in [Channel -> {0} \cup Ids],
         \A ch \in Channel : channels'[ch] \in {0, channels[ch]},
         UNCHANGED <<line, input, typed, flags, eventsMap, sending>>
  PROVE  ClientInv'
<1>. DEFINE s == subscriptionId
<1>1. /\ s \in Nat /\ s + 2 <= 2 * typed /\ s + 1 \in Ids
      /\ asked[s + 1] = NotAsked /\ reciepts[s + 1] = NoText
  BY NextNumber
<1>2. /\ reciepts' \in [Ids -> Text] /\ raced' \in BOOLEAN
      /\ aborted' \in BOOLEAN /\ (raced => raced')
      /\ \A q \in Ids : q # s + 1 => reciepts'[q] = reciepts[q]
      /\ \/ reciepts'[s + 1] = TextOf(line)
         \/ raced' /\ reciepts'[s + 1] = reciepts[s + 1]
  <2>1. TextOf(line) \in Text /\ SharedTypeOK
    BY TextTypes DEF ClientInv, ClientTypeOK, ThreadTypeOK
  <2>. QED
    BY <1>1, <2>1, RecordKeeps
<1>3. s' = s + 1 /\ kframe'.receipt = s + 1
  OBVIOUS
<1>. HIDE DEF s
<1>4. ClientTypeOK'
  BY <1>1, <1>2, <1>3
  DEF ClientInv, ClientTypeOK, ThreadTypeOK, SharedTypeOK, NetTypeOK,
      KeyboardLabels, s
<1>5. LineLabels'
  BY DEF ClientInv, LineLabels, Command
<1>6. Records'
  <2>1. \A ch \in Channel : channels[ch] \in Nat /\ channels[ch] <= s
    BY ChannelNumbers DEF ClientInv, ClientTypeOK, NumbersAreFresh, s
  <2>2. \A q \in Ids : q > s => asked[q] = NotAsked /\ reciepts[q] = NoText
    BY DEF ClientInv, NumbersAreFresh, s
  <2>3. \A q \in Ids : q > s + 1 => q > s /\ q # s + 1
    BY <1>1, NumberTypes
  <2>4. \A ch \in Channel : channels'[ch] <= s + 1
    BY <1>1, <2>1
  <2>5. s + 1 <= 2 * typed
    <3>1. typed \in Nat
      BY NumberTypes DEF ClientInv, ClientTypeOK, ThreadTypeOK
    <3>2. 2 * typed \in Nat
      BY <3>1
    <3>. QED
      BY <1>1, <3>2
  <2>6. NumbersAreFresh'
    BY <1>1, <1>2, <1>3, <2>2, <2>3, <2>4, <2>5 DEF NumbersAreFresh, s
  <2>7. s + 1 \in 1 .. s'
    BY <1>1, <1>3
  <2>8. NoText = NotAsked.text
    BY DEF NotAsked
  <2>9. InHand'
    BY <1>1, <1>2, <1>3, <2>7 DEF ClientInv, InHand, s
  <2>10. EveryReceiptIsUnderstood'
    BY <1>1, <1>2, <1>3, <2>8 DEF ClientInv, EveryReceiptIsUnderstood
  <2>. QED
    BY <2>6, <2>9, <2>10 DEF Records
<1>7. Wire'
  BY WireUntouched, ClientInvParts
<1>8. Sessions'
  BY DEF ClientInv, Sessions, SessionsApart, LoggingIn, LoggedInHasSocket, Ended
<1>. QED
  BY <1>4, <1>5, <1>6, <1>7, <1>8 DEF ClientInv, Records, Wire, Sessions

LEMMA ExitHendelKeeps ==
  ASSUME ClientInv, exitHendel, ByKeyboard
  PROVE  ClientInv'
<1>1. line.channel \in Channel /\ line.command = "exit"
  BY LineChannel DEF exitHendel, ClientInv
<1>2. channels[line.channel] \in Nat /\ subscriptionId + 1 \in Ids
  BY <1>1, NextNumber, ChannelNumbers DEF exitHendel, ClientInv, ClientTypeOK
<1>3. kframe' \in Frame /\ kframe'.receipt = subscriptionId + 1
  BY <1>2, SessionFrames DEF exitHendel
<1>4. /\ channels' \in [Channel -> {0} \cup Ids]
      /\ \A ch \in Channel : channels'[ch] \in {0, channels[ch]}
  BY DEF exitHendel, ClientInv, ClientTypeOK, SharedTypeOK
<1>. QED
  BY <1>1, <1>3, <1>4, RecordFirstKeeps DEF exitHendel

LEMMA LogoutHendelKeeps ==
  ASSUME ClientInv, logoutHendel, ByKeyboard
  PROVE  ClientInv'
<1>1. CASE ~isConnected
  BY <1>1, MoveKeeps DEF logoutHendel, ClientInv, ClientTypeOK, ThreadTypeOK,
                         SharedTypeOK
<1>2. CASE isConnected
  <2>1. ClientTypeOK' /\ LineLabels'
    BY <1>2 DEF ClientInv, ClientTypeOK, ThreadTypeOK, SharedTypeOK, NetTypeOK,
                LineLabels, logoutHendel, KeyboardLabels, Command
  <2>2. Records'
    BY <1>2 DEF ClientInv, Records, NumbersAreFresh, InHand,
                EveryReceiptIsUnderstood, logoutHendel
  <2>3. Wire'
    BY WireUntouched, ClientInvParts DEF logoutHendel
  <2>4. Sessions'
    BY <1>2 DEF ClientInv, Sessions, SessionsApart, LoggingIn,
                LoggedInHasSocket, Ended, logoutHendel
  <2>. QED
    BY <2>1, <2>2, <2>3, <2>4 DEF ClientInv, Records, Wire, Sessions
<1>. QED
  BY <1>1, <1>2

LEMMA RecordLogoutKeeps ==
  ASSUME ClientInv, recordLogout, ByKeyboard
  PROVE  ClientInv'
<1>1. line.command = "logout" /\ TextOf(line) = LoggedOut
  BY DEF ClientInv, LineLabels, recordLogout, TextOf
<1>2. subscriptionId + 1 \in Ids
  BY NextNumber DEF recordLogout
<1>3. kframe' \in Frame /\ kframe'.receipt = subscriptionId + 1
  BY <1>2, SessionFrames DEF recordLogout
<1>4. channels \in [Channel -> {0} \cup Ids]
  BY DEF ClientInv, ClientTypeOK, SharedTypeOK
<1>. QED
  BY <1>1, <1>3, <1>4, RecordFirstKeeps DEF recordLogout

LEMMA SendFrameKeeps ==
  ASSUME ClientInv, sendFrame, ByKeyboard
  PROVE  ClientInv'
<1>. DEFINE r == kframe.receipt
<1>1. /\ kpc = "sendFrame" /\ kpc' = "loop" /\ Ask(kframe)
      /\ UNCHANGED <<line, kframe, input, typed, flags, maps, aborted>>
  BY DEF sendFrame
<1>2. /\ r \in 1 .. subscriptionId /\ asked[r] = NotAsked
      /\ reciepts[r] = TextOf(line) \/ (raced /\ reciepts[r] = NoText)
  BY <1>1 DEF ClientInv, InHand
<1>3. kframe \in Frame /\ r \in Ids /\ subscriptionId \in Nat
      /\ r \in Nat /\ r <= subscriptionId
  <2>1. kframe \in Frame /\ subscriptionId \in Nat
    BY DEF ClientInv, ClientTypeOK, ThreadTypeOK, SharedTypeOK
  <2>2. r \in Nat /\ r # 0 /\ r <= subscriptionId
    BY <1>2, <2>1
  <2>. QED
    BY <2>1, <2>2 DEF Frame
<1>4. /\ Wire' /\ toServer' \in [Conn -> Seq(Frame)]
      /\ asked' \in [Ids -> [text : Text, conn : Conn \cup {NoSocket}]]
      /\ asked'[r] = [text |-> TextOf(line), conn |-> sock]
      /\ \A q \in Ids : q # r => asked'[q] = asked[q]
  BY <1>1, <1>2, <1>3, AskKeeps, ClientInvParts
<1>. HIDE DEF r
<1>5. ClientTypeOK' /\ LineLabels'
  BY <1>1, <1>4
  DEF ClientInv, ClientTypeOK, ThreadTypeOK, SharedTypeOK, NetTypeOK,
      LineLabels, KeyboardLabels, Command
<1>6. Records'
  <2>1. \A q \in Ids : q > subscriptionId => q # r
    BY <1>3, NumberTypes
  <2>2. NumbersAreFresh'
    BY <1>1, <1>4, <2>1 DEF ClientInv, NumbersAreFresh
  <2>3. asked'[r].text = TextOf(line)
    BY <1>4
  <2>4. EveryReceiptIsUnderstood'
    BY <1>1, <1>2, <1>4, <2>3 DEF ClientInv, EveryReceiptIsUnderstood, r
  <2>5. \A q \in Ids : reciepts[q] = NoText \/ reciepts[q] = asked'[q].text
    <3>1. NotAsked.text = NoText
      BY DEF NotAsked
    <3>. QED
      BY <1>1, <1>2, <1>4, <2>3, <3>1 DEF ClientInv, InHand, r
  <2>6. InHand'
    BY <1>1, <2>5 DEF InHand
  <2>. QED
    BY <2>2, <2>4, <2>6 DEF Records
<1>7. Sessions'
  <2>1. \A q \in Ids : asked'[q].conn < connections
    BY <1>4, SocketIsLast DEF ClientInv, SessionsApart
  <2>. QED
    BY <1>1, <2>1
    DEF ClientInv, Sessions, SessionsApart, LoggingIn, LoggedInHasSocket,
        Ended
<1>. QED
  BY <1>4, <1>5, <1>6, <1>7 DEF ClientInv, Records, Wire, Sessions

LEMMA ReportHendelKeeps ==
  ASSUME ClientInv, reportHendel, ByKeyboard
  PROVE  ClientInv'
<1>1. CASE kframe.id = line.events
  BY <1>1, MoveKeeps DEF reportHendel, ClientInv, ClientTypeOK, ThreadTypeOK,
                         SharedTypeOK
<1>2. CASE kframe.id # line.events
  <2>1. Send(line.channel) \in Frame /\ Send(line.channel).command = "SEND"
    <3>1. line.args # "usage"
      BY DEF ClientInv, LineLabels, HasArguments, Command, reportHendel
    <3>. QED
      BY <3>1, LineChannel, SessionFrames DEF reportHendel, ClientInv
  <2>2. /\ sendFrameAscii(Send(line.channel))
        /\ kframe' = [kframe EXCEPT !.id = kframe.id + 1]
        /\ kpc = "report"
        /\ UNCHANGED <<kpc, line, input, typed, flags, maps, asked, aborted>>
    BY <1>2 DEF reportHendel
  <2>3. kframe' \in Frame
    BY <2>2 DEF ClientInv, ClientTypeOK, ThreadTypeOK, Frame
  <2>4. ClientTypeOK' /\ LineLabels'
    BY <2>1, <2>2, <2>3, SendKeeps
    DEF ClientInv, ClientTypeOK, ThreadTypeOK, SharedTypeOK, NetTypeOK,
        LineLabels
  <2>5. Records'
    BY <2>2, RecordsUntouched, ClientInvParts DEF Numbering
  <2>6. Wire'
    BY <2>1, <2>2, SendKeepsWire, ClientInvParts
  <2>7. Sessions'
    BY <2>2 DEF ClientInv, Sessions, SessionsApart, LoggingIn,
                LoggedInHasSocket, Ended
  <2>. QED
    BY <2>4, <2>5, <2>6, <2>7 DEF ClientInv, Records, Wire, Sessions
<1>. QED
  BY <1>1, <1>2

LEMMA KeyboardKeeps == ClientInv /\ Keyboard => ClientInv'
<1>. SUFFICES ASSUME ClientInv, Keyboard PROVE ClientInv'
  OBVIOUS
<1>1. ByKeyboard
  BY DEF Keyboard
<1>. QED
  BY <1>1, SimpleSteps, GetlineKeeps, ConnectKeeps, SetConectKeeps,
     SendConnectKeeps, SetConnectedKeeps, JoinHendelKeeps, RecordJoinKeeps,
     ExitHendelKeeps, LogoutHendelKeeps, RecordLogoutKeeps, SendFrameKeeps,
     ReportHendelKeeps
  DEF Keyboard

-----------------------------------------------------------------------------
(* The server thread.                                                       *)

ByServer == UNCHANGED <<kpc, line, kframe, input, typed, broadcasts>>

USE DEF ByServer

LEMMA HandleServerKeeps ==
  ASSUME ClientInv, handleServer, ByServer
  PROVE  ClientInv'
<1>1. ClientTypeOK' /\ LineLabels'
  BY AnswerTypes
  DEF ClientInv, ClientTypeOK, ThreadTypeOK, SharedTypeOK, NetTypeOK,
      LineLabels, handleServer, ServerLabels
<1>2. Records'
  BY DEF ClientInv, Records, NumbersAreFresh, InHand, EveryReceiptIsUnderstood,
         handleServer
<1>3. Wire'
  BY DEF ClientInv, Wire, OneConnection, Requests, RequestOf, AnswersToCome,
         AnswerOf, OnlyTheLastIsCut, AnswerInHand, Expected, handleServer
<1>4. Sessions'
  BY DEF ClientInv, Sessions, SessionsApart, LoggingIn, LoggedInHasSocket,
         Ended, handleServer
<1>. QED
  BY <1>1, <1>2, <1>3, <1>4 DEF ClientInv, Records, Wire, Sessions

(* What a cut frame is read as: nothing, or something with its command.     *)
LEMMA ReadingsKeep ==
  ASSUME NEW a \in Answer, NEW b \in Readings(a)
  PROVE  /\ b \in Answer
         /\ b.command \in {"MESSAGE", "RECEIPT"} => b.command = a.command
         /\ ~a.cut => b = a
         /\ a.cut /\ b.command = "RECEIPT" => b.cut
<1>1. CASE b = a
  BY <1>1
<1>2. CASE b = Bare("OTHER") /\ a.cut
  BY <1>2, AnswerTypes
<1>3. CASE a.cut /\ a.command = "RECEIPT" /\ b \in CutReceipts(a)
  <2>1. PICK p \in Prefixes(a.receiptId) : b = [a EXCEPT !.receiptId = p]
    BY <1>3 DEF CutReceipts
  <2>2. p \in 0 .. a.receiptId /\ a.receiptId \in {0} \cup Ids
    BY DEF Prefixes, Answer
  <2>3. p \in {0} \cup Ids
    BY <2>2, NumberTypes DEF Ids
  <2>. QED
    BY <1>3, <2>1, <2>3 DEF Answer
<1>4. CASE a.cut /\ a.command = "MESSAGE" /\ b \in CutMessages(a)
  <2>1. PICK ch \in Channel \cup {Null}, e \in {a.event, "partial", "bad"} :
          b = [a EXCEPT !.destination = ch, !.event = e]
    <3>1. a = [a EXCEPT !.destination = a.destination]
      BY DEF Answer
    <3>2. CASE \E e \in {a.event, "partial", "bad"} : b = [a EXCEPT !.event = e]
      BY <3>2 DEF Answer
    <3>3. CASE \E ch \in Channel \cup {Null} :
                 b = [a EXCEPT !.destination = ch, !.event = "partial"]
      BY <3>3
    <3>. QED
      BY <1>4, <3>2, <3>3 DEF CutMessages
  <2>. QED
    BY <1>4, <2>1 DEF Answer, EventKind
<1>. QED
  BY <1>1, <1>2, <1>3, <1>4 DEF Readings

LEMMA GetFrameAsciiKeeps ==
  ASSUME ClientInv, getFrameAscii, ByServer
  PROVE  ClientInv'
<1>. DEFINE h == Head(fromServer[sock])
<1>1. /\ spc = "loop" /\ sock \in Conn /\ fromServer[sock] # <<>>
      /\ fromServer \in [Conn -> Seq(Answer)]
      /\ fromServer' = [fromServer EXCEPT ![sock] = Tail(fromServer[sock])]
      /\ sframe' \in Readings(h) /\ spc' = processServer(sframe')
      /\ UNCHANGED <<flags, maps, isTerminate, sending, aborted>>
  BY DEF getFrameAscii, ClientInv, ClientTypeOK, SharedTypeOK, NetTypeOK
<1>2. /\ h \in Answer /\ h = fromServer[sock][1]
      /\ 1 \in DOMAIN fromServer[sock]
      /\ Tail(fromServer[sock]) \in Seq(Answer)
      /\ \A k \in DOMAIN Tail(fromServer[sock]) :
           /\ k + 1 \in DOMAIN fromServer[sock]
           /\ Tail(fromServer[sock])[k] = fromServer[sock][k + 1]
  BY <1>1
<1>3. AnswerOf(h, sock)
  BY <1>1, <1>2 DEF ClientInv, AnswersToCome
<1>4. /\ sframe' \in Answer
      /\ sframe'.command \in {"MESSAGE", "RECEIPT"} => sframe'.command = h.command
      /\ ~h.cut => sframe' = h
      /\ h.cut /\ sframe'.command = "RECEIPT" => sframe'.cut
  BY <1>1, <1>2, ReadingsKeep
<1>5. /\ spc' \in {"loop", "receipt", "message", "error"}
      /\ spc' = "receipt" => sframe'.command = "RECEIPT"
  BY <1>1 DEF processServer
<1>. HIDE DEF h
<1>6. ClientTypeOK' /\ LineLabels'
  BY <1>1, <1>2, <1>4, <1>5
  DEF ClientInv, ClientTypeOK, ThreadTypeOK, SharedTypeOK, NetTypeOK,
      LineLabels, ServerLabels
<1>7. Records'
  BY <1>1 DEF ClientInv, Records, NumbersAreFresh, InHand,
              EveryReceiptIsUnderstood
<1>8. Wire'
  <2>1. OneConnection' /\ Requests'
    BY <1>1 DEF ClientInv, OneConnection, Requests, RequestOf, Expected
  <2>2. AnswersToCome'
    BY <1>1, <1>2 DEF ClientInv, AnswersToCome, AnswerOf, Expected
  <2>3. OnlyTheLastIsCut'
    <3>. SUFFICES ASSUME NEW n \in Conn
                  PROVE  CutAtTheEnd(fromServer'[n], peer'[n])
      BY DEF OnlyTheLastIsCut
    <3>1. CutAtTheEnd(fromServer[n], peer[n]) /\ peer'[n] = peer[n]
      BY <1>1 DEF ClientInv, OnlyTheLastIsCut
    <3>2. CASE n # sock
      BY <1>1, <3>1, <3>2
    <3>3. CASE n = sock
      <4>1. fromServer'[n] = Tail(fromServer[n])
        BY <1>1, <3>3
      <4>2. Len(Tail(fromServer[n])) = Len(fromServer[n]) - 1
        BY <1>1, <3>3
      <4>3. \A k \in DOMAIN Tail(fromServer[n]) : k \in Nat
        BY <1>1, <1>2, <3>3
      <4>4. Len(fromServer[n]) \in Nat
        BY <1>1, <3>3
      <4>. QED
        BY <1>2, <3>1, <3>3, <4>1, <4>2, <4>3, <4>4 DEF CutAtTheEnd
    <3>. QED
      BY <3>2, <3>3
  <2>4. AnswerInHand'
    <3>1. sock # NoSocket
      BY <1>1, NumberTypes DEF NoSocket
    <3>2. h.cut => BrokenOff' \/ sframe'.command # "RECEIPT"
      <4>1. h.cut => 1 = Len(fromServer[sock]) /\ peer[sock] = "gone"
        BY <1>1, <1>2 DEF ClientInv, OnlyTheLastIsCut, CutAtTheEnd
      <4>2. 1 = Len(fromServer[sock]) => Tail(fromServer[sock]) = <<>>
        BY <1>1
      <4>. QED
        BY <1>1, <1>4, <4>1, <4>2 DEF BrokenOff
    <3>3. h.command = "RECEIPT" => Expected(h.receiptId, sock)
      BY <1>3 DEF AnswerOf
    <3>4. h.command = "RECEIPT" => SomethingAsked(sock)
      BY <1>2, <3>3 DEF Expected, SomethingAsked, Answer
    <3>. QED
      BY <1>1, <1>4, <1>5, <3>1, <3>2, <3>3, <3>4
      DEF AnswerInHand, Expected, SomethingAsked
  <2>. QED
    BY <2>1, <2>2, <2>3, <2>4 DEF Wire
<1>9. Sessions'
  BY <1>1, <1>5
  DEF ClientInv, Sessions, SessionsApart, LoggingIn, LoggedInHasSocket, Ended
<1>. QED
  BY <1>6, <1>7, <1>8, <1>9 DEF ClientInv, Records, Wire, Sessions

LEMMA MessageHendelKeeps ==
  ASSUME ClientInv, messageHendel, ByServer
  PROVE  ClientInv'
<1>1. CASE sframe.event = "bad"
  BY <1>1, AbortKeeps DEF messageHendel
<1>2. CASE sframe.event # "bad"
  <2>1. /\ spc = "message" /\ spc' = "loop"
        /\ eventsMap' = [ch \in Channel |->
             IF ch = sframe.destination THEN eventsMap[ch] \cup {sframe.event}
             ELSE eventsMap[ch]]
        /\ UNCHANGED <<sframe, flags, channels, reciepts, subscriptionId,
                       isTerminate, sending, fromServer>>
    BY <1>2 DEF messageHendel
  <2>2. raced' \in BOOLEAN /\ aborted' \in BOOLEAN /\ (raced => raced')
    BY <1>2 DEF messageHendel, ClientInv, ClientTypeOK, SharedTypeOK
  <2>3. eventsMap' \in [Channel -> SUBSET {"whole", "partial"}]
    <3>1. sframe.event \in {"whole", "partial"}
      BY <1>2 DEF ClientInv, ClientTypeOK, ThreadTypeOK, Answer, EventKind
    <3>2. eventsMap \in [Channel -> SUBSET {"whole", "partial"}]
      BY DEF ClientInv, ClientTypeOK, SharedTypeOK
    <3>3. \A ch \in Channel :
            eventsMap[ch] \cup {sframe.event} \in SUBSET {"whole", "partial"}
      BY <3>1, <3>2
    <3>. QED
      BY <2>1, <3>2, <3>3
  <2>4. ClientTypeOK' /\ LineLabels'
    BY <2>1, <2>2, <2>3
    DEF ClientInv, ClientTypeOK, ThreadTypeOK, SharedTypeOK, NetTypeOK,
        LineLabels, ServerLabels
  <2>5. Records'
    BY <2>1, <2>2 DEF ClientInv, Records, NumbersAreFresh, InHand,
                      EveryReceiptIsUnderstood
  <2>6. Wire'
    BY <2>1 DEF ClientInv, Wire, OneConnection, Requests, RequestOf,
                AnswersToCome, AnswerOf, OnlyTheLastIsCut, AnswerInHand, Expected
  <2>7. Sessions'
    BY <2>1 DEF ClientInv, Sessions, SessionsApart, LoggingIn,
                LoggedInHasSocket, Ended
  <2>. QED
    BY <2>4, <2>5, <2>6, <2>7 DEF ClientInv, Records, Wire, Sessions
<1>. QED
  BY <1>1, <1>2

(* Only the text of a logout leads to the end of the session, and by        *)
(* InHand it is what was asked for.                                         *)
LEMMA ReceiptHendelKeeps ==
  ASSUME ClientInv, receiptHendel, ByServer
  PROVE  ClientInv'
<1>1. CASE sframe.receiptId = 0
  BY <1>1, AbortKeeps DEF receiptHendel
<1>2. CASE sframe.receiptId # 0
  <2>. DEFINE r == sframe.receiptId
  <2>1. /\ spc = "receipt"
        /\ \/ spc' = "loop"
           \/ spc' = "loggedOut" /\ reciepts[r] = LoggedOut
        /\ UNCHANGED <<sframe, flags, channels, reciepts, eventsMap,
                       subscriptionId, isTerminate, sending, fromServer>>
    BY <1>2 DEF receiptHendel, EndsTheSession
  <2>2. raced' \in BOOLEAN /\ aborted' \in BOOLEAN /\ (raced => raced')
    BY <1>2 DEF receiptHendel, ClientInv, ClientTypeOK, SharedTypeOK
  <2>3. /\ sock # NoSocket /\ sock \in Conn /\ r \in Ids
        /\ SomethingAsked(sock) /\ (BrokenOff \/ asked[r].conn = sock)
        /\ asked[r] \in [text : Text, conn : Conn \cup {NoSocket}]
    BY <1>2, <2>1
    DEF ClientInv, ClientTypeOK, ThreadTypeOK, SharedTypeOK, NetTypeOK, Answer,
        AnswerInHand, Expected
  <2>4. reciepts[r] = LoggedOut =>
          BrokenOff \/ asked[r] = [text |-> LoggedOut, conn |-> sock]
    <3>1. NotAsked.conn = NoSocket /\ NoText # LoggedOut
      BY DEF NotAsked, NoText, LoggedOut
    <3>2. reciepts[r] = LoggedOut /\ ~BrokenOff => asked[r].text = LoggedOut
      <4>1. sock # NotAsked.conn /\ kpc \in KeyboardLabels
        BY <2>3, <3>1 DEF ClientInv, ClientTypeOK, ThreadTypeOK
      <4>. QED
        BY <2>3, <3>1, <4>1 DEF ClientInv, InHand
    <3>. QED
      BY <2>3, <3>2
  <2>. HIDE DEF r
  <2>5. ClientTypeOK' /\ LineLabels'
    BY <2>1, <2>2
    DEF ClientInv, ClientTypeOK, ThreadTypeOK, SharedTypeOK, NetTypeOK,
        LineLabels, ServerLabels
  <2>6. Records'
    BY <2>1, <2>2 DEF ClientInv, Records, NumbersAreFresh, InHand,
                      EveryReceiptIsUnderstood
  <2>7. Wire'
    <3>1. OneConnection' /\ Requests' /\ AnswersToCome' /\ OnlyTheLastIsCut'
      BY <2>1 DEF ClientInv, OneConnection, Requests, RequestOf,
                  AnswersToCome, AnswerOf, OnlyTheLastIsCut, Expected
    <3>2. AnswerInHand'
      <4>1. (BrokenOff' <=> BrokenOff) /\ (SomethingAsked(sock) => SomethingAsked(sock)')
        BY <2>1 DEF BrokenOff, SomethingAsked
      <4>. QED
        BY <2>1, <2>3, <2>4, <4>1 DEF AnswerInHand, r
    <3>. QED
      BY <3>1, <3>2 DEF Wire
  <2>8. Sessions'
    BY <2>1 DEF ClientInv, Sessions, SessionsApart, LoggingIn,
                LoggedInHasSocket, Ended
  <2>. QED
    BY <2>5, <2>6, <2>7, <2>8 DEF ClientInv, Records, Wire, Sessions
<1>. QED
  BY <1>1, <1>2

(* A step of the server thread on a flag that nothing else is about.        *)
LEMMA FlagKeeps ==
  ASSUME ClientInv, ByServer,
         \/ spc = "loggedOut" /\ spc' = "close" /\ ~isConnected'
         \/ spc = "clearConect" /\ spc' = "loop"
         \/ spc = "error" /\ spc' = "clearConnected" /\ isTerminate'
         \/ spc = "clearConnected" /\ spc' = "loop",
         isConnected' \in BOOLEAN, isConnected' => isConnected,
         isConect' \in BOOLEAN, isConect' => isConect /\ spc # "clearConect",
         isTerminate' \in BOOLEAN, isTerminate => isTerminate',
         UNCHANGED <<sframe, sock, peer, connections, maps, sending,
                     fromServer, aborted>>
  PROVE  ClientInv'
<1>1. ClientTypeOK' /\ LineLabels'
  BY DEF ClientInv, ClientTypeOK, ThreadTypeOK, SharedTypeOK, NetTypeOK,
         LineLabels, ServerLabels
<1>2. Records'
  BY DEF ClientInv, Records, NumbersAreFresh, InHand, EveryReceiptIsUnderstood
<1>3. Wire'
  <2>1. OneConnection' /\ Requests' /\ AnswersToCome' /\ OnlyTheLastIsCut'
    BY DEF ClientInv, OneConnection, Requests, RequestOf, AnswersToCome,
           AnswerOf, OnlyTheLastIsCut, Expected
  <2>2. AnswerInHand'
    BY DEF ClientInv, AnswerInHand, SomethingAsked, BrokenOff
  <2>. QED
    BY <2>1, <2>2 DEF Wire
<1>4. Sessions'
  BY DEF ClientInv, Sessions, SessionsApart, LoggingIn, LoggedInHasSocket, Ended
<1>. QED
  BY <1>1, <1>2, <1>3, <1>4 DEF ClientInv, Records, Wire, Sessions

LEMMA FlagSteps ==
  ASSUME ClientInv, ByServer,
         loggedOut \/ clearConect \/ erorHendl \/ clearConnected
  PROVE  ClientInv'
<1>. isConnected \in BOOLEAN /\ isConect \in BOOLEAN /\ isTerminate \in BOOLEAN
  BY DEF ClientInv, ClientTypeOK, SharedTypeOK
<1>1. CASE loggedOut
  BY <1>1, FlagKeeps DEF loggedOut
<1>2. CASE clearConect
  BY <1>2, FlagKeeps DEF clearConect
<1>3. CASE erorHendl
  BY <1>3, FlagKeeps DEF erorHendl
<1>4. CASE clearConnected
  BY <1>4, FlagKeeps DEF clearConnected
<1>. QED
  BY <1>1, <1>2, <1>3, <1>4

(* The end of a connection empties it.                                      *)
LEMMA CloseSocketKeeps ==
  ASSUME ClientInv, sock # NoSocket, CloseSocket, UNCHANGED <<connections, asked>>
  PROVE  /\ OneConnection' /\ Requests' /\ AnswersToCome' /\ OnlyTheLastIsCut'
         /\ sock' = NoSocket
         /\ toServer' \in [Conn -> Seq(Frame)]
         /\ fromServer' \in [Conn -> Seq(Answer)]
         /\ peer' \in [Conn -> {"none", "serving", "refused", "gone"}]
<1>1. /\ sock \in Conn
      /\ toServer \in [Conn -> Seq(Frame)] /\ fromServer \in [Conn -> Seq(Answer)]
      /\ peer \in [Conn -> {"none", "serving", "refused", "gone"}]
  BY DEF ClientInv, ClientTypeOK, SharedTypeOK, NetTypeOK
<1>2. /\ toServer'[sock] = <<>> /\ fromServer'[sock] = <<>>
      /\ peer'[sock] = "gone"
      /\ \A n \in Conn : n # sock =>
           /\ toServer'[n] = toServer[n] /\ fromServer'[n] = fromServer[n]
           /\ peer'[n] = peer[n]
      /\ sock' = NoSocket
  BY <1>1 DEF CloseSocket
<1>3. /\ toServer' \in [Conn -> Seq(Frame)] /\ fromServer' \in [Conn -> Seq(Answer)]
      /\ peer' \in [Conn -> {"none", "serving", "refused", "gone"}]
  BY <1>1 DEF CloseSocket
<1>4. OneConnection'
  <2>1. \A n \in Conn : n >= connections => n # sock
    BY SocketIsLast, NumberTypes DEF ClientInv
  <2>. QED
    BY <1>2, <2>1 DEF ClientInv, OneConnection
<1>5. \A n \in Conn : toServer'[n] = <<>> /\ fromServer'[n] = <<>>
  BY <1>2 DEF ClientInv, OneConnection
<1>6. Requests' /\ AnswersToCome' /\ OnlyTheLastIsCut'
  BY <1>5 DEF Requests, AnswersToCome, OnlyTheLastIsCut, CutAtTheEnd
<1>. QED
  BY <1>2, <1>3, <1>4, <1>6

(* The connection that is closed is the one of the logout: no session is    *)
(* beginning on it.                                                         *)
LEMMA CloseKeeps ==
  ASSUME ClientInv, close, ByServer
  PROVE  ClientInv'
<1>1. /\ spc = "close" /\ spc' = "clearConect" /\ CloseSocket
      /\ UNCHANGED <<sframe, isConnected, isConect, connections, maps,
                     isTerminate, asked, aborted>>
  BY DEF close
<1>2. /\ sock # NoSocket /\ ~isConnected /\ sframe.receiptId \in Ids
      /\ SomethingAsked(sock)
  BY <1>1 DEF ClientInv, AnswerInHand, SessionsApart
<1>3. ~LoggingIn
  BY <1>2 DEF ClientInv, SessionsApart, SomethingAsked
<1>4. /\ OneConnection' /\ Requests' /\ AnswersToCome' /\ OnlyTheLastIsCut'
      /\ sock' = NoSocket
      /\ toServer' \in [Conn -> Seq(Frame)]
      /\ fromServer' \in [Conn -> Seq(Answer)]
      /\ peer' \in [Conn -> {"none", "serving", "refused", "gone"}]
  BY <1>1, <1>2, CloseSocketKeeps
<1>5. ClientTypeOK' /\ LineLabels'
  BY <1>1, <1>4
  DEF ClientInv, ClientTypeOK, ThreadTypeOK, SharedTypeOK, NetTypeOK,
      LineLabels, ServerLabels
<1>6. Records'
  BY <1>1 DEF ClientInv, Records, NumbersAreFresh, InHand,
              EveryReceiptIsUnderstood
<1>7. Wire'
  BY <1>1, <1>4 DEF Wire, AnswerInHand
<1>8. Sessions'
  BY <1>1, <1>2, <1>3, <1>4
  DEF ClientInv, Sessions, SessionsApart, LoggingIn, LoggedInHasSocket, Ended
<1>. QED
  BY <1>5, <1>6, <1>7, <1>8 DEF ClientInv, Records, Wire, Sessions

LEMMA ServerThreadKeeps == ClientInv /\ ServerThread => ClientInv'
<1>. SUFFICES ASSUME ClientInv, ServerThread PROVE ClientInv'
  OBVIOUS
<1>1. ByServer
  BY DEF ServerThread
<1>. QED
  BY <1>1, HandleServerKeeps, GetFrameAsciiKeeps, MessageHendelKeeps,
     ReceiptHendelKeeps, FlagSteps, CloseKeeps
  DEF ServerThread

LEMMA MainReturnsKeeps == ClientInv /\ mainReturns => ClientInv'
<1>. SUFFICES ASSUME ClientInv, mainReturns PROVE ClientInv'
  OBVIOUS
<1>1. /\ kpc = "ended" /\ spc = "ended" /\ sock # NoSocket /\ CloseSocket
      /\ isConect' = FALSE
      /\ UNCHANGED <<kpc, line, kframe, input, typed, spc, sframe, isTerminate,
                     isConnected, maps, connections, broadcasts, aborted, asked>>
  BY DEF mainReturns, Ended
<1>2. /\ OneConnection' /\ Requests' /\ AnswersToCome' /\ OnlyTheLastIsCut'
      /\ sock' = NoSocket
      /\ toServer' \in [Conn -> Seq(Frame)]
      /\ fromServer' \in [Conn -> Seq(Answer)]
      /\ peer' \in [Conn -> {"none", "serving", "refused", "gone"}]
  BY <1>1, CloseSocketKeeps
<1>3. ClientTypeOK' /\ LineLabels'
  BY <1>1, <1>2
  DEF ClientInv, ClientTypeOK, ThreadTypeOK, SharedTypeOK, NetTypeOK,
      LineLabels
<1>4. Records'
  BY <1>1 DEF ClientInv, Records, NumbersAreFresh, InHand,
              EveryReceiptIsUnderstood
<1>5. Wire'
  BY <1>1, <1>2 DEF Wire, AnswerInHand
<1>6. Sessions'
  BY <1>1, <1>2
  DEF ClientInv, Sessions, SessionsApart, LoggingIn, LoggedInHasSocket, Ended
<1>. QED
  BY <1>3, <1>4, <1>5, <1>6 DEF ClientInv, Records, Wire, Sessions

-----------------------------------------------------------------------------
(* The server.  It moves only what is on the wire of the socket.            *)

LEMMA PeerMoves ==
  ASSUME ClientInv, NEW n \in Conn, peer[n] \in {"serving", "refused"},
         toServer' \in [Conn -> Seq(Frame)],
         fromServer' \in [Conn -> Seq(Answer)],
         peer' \in [Conn -> {"none", "serving", "refused", "gone"}],
         broadcasts' \in 0 .. MaxBroadcasts,
         \A m \in Conn : m # n =>
           /\ toServer'[m] = toServer[m] /\ fromServer'[m] = fromServer[m]
           /\ peer'[m] = peer[m],
         \A k \in DOMAIN toServer'[n] : RequestOf(toServer'[n][k], n),
         \A k \in DOMAIN fromServer'[n] : AnswerOf(fromServer'[n][k], n),
         CutAtTheEnd(fromServer'[n], peer'[n]),
         UNCHANGED peerOnly
  PROVE  ClientInv'
<1>. USE DEF peerOnly
<1>1. n = sock /\ ~(n >= connections)
  BY DEF ClientInv, OneConnection
<1>2. ClientTypeOK' /\ LineLabels'
  BY DEF ClientInv, ClientTypeOK, ThreadTypeOK, SharedTypeOK, NetTypeOK,
         LineLabels
<1>3. Records'
  BY DEF ClientInv, Records, NumbersAreFresh, InHand, EveryReceiptIsUnderstood
<1>4. Wire'
  <2>1. OneConnection'
    BY <1>1 DEF ClientInv, OneConnection
  <2>2. asked' = asked
    OBVIOUS
  <2>3. Requests'
    <3>. SUFFICES ASSUME NEW m \in Conn, NEW k \in DOMAIN toServer'[m]
                  PROVE  RequestOf(toServer[m][k], m)'
      BY DEF Requests
    <3>1. RequestOf(toServer'[m][k], m)
      BY DEF ClientInv, Requests
    <3>. QED
      BY <2>2, <3>1 DEF RequestOf, Expected
  <2>4. AnswersToCome'
    <3>. SUFFICES ASSUME NEW m \in Conn, NEW k \in DOMAIN fromServer'[m]
                  PROVE  AnswerOf(fromServer[m][k], m)'
      BY DEF AnswersToCome
    <3>1. AnswerOf(fromServer'[m][k], m)
      BY DEF ClientInv, AnswersToCome
    <3>. QED
      BY <2>2, <3>1 DEF AnswerOf, Expected
  <2>5. OnlyTheLastIsCut'
    BY DEF ClientInv, OnlyTheLastIsCut
  <2>6. AnswerInHand'
    <3>1. ~BrokenOff
      BY <1>1 DEF BrokenOff
    <3>. QED
      BY <3>1 DEF ClientInv, AnswerInHand, SomethingAsked, Expected
  <2>. QED
    BY <2>1, <2>3, <2>4, <2>5, <2>6 DEF Wire
<1>5. Sessions'
  BY DEF ClientInv, Sessions, SessionsApart, LoggingIn, LoggedInHasSocket, Ended
<1>. QED
  BY <1>2, <1>3, <1>4, <1>5 DEF ClientInv, Records, Wire, Sessions

LEMMA ConnectionTypes ==
  ASSUME ClientInv, NEW n \in Conn
  PROVE  /\ toServer \in [Conn -> Seq(Frame)]
         /\ fromServer \in [Conn -> Seq(Answer)]
         /\ peer \in [Conn -> {"none", "serving", "refused", "gone"}]
         /\ broadcasts \in 0 .. MaxBroadcasts
         /\ \A k \in DOMAIN toServer[n] : RequestOf(toServer[n][k], n)
         /\ \A k \in DOMAIN fromServer[n] : AnswerOf(fromServer[n][k], n)
         /\ \A k \in DOMAIN fromServer[n] : fromServer[n][k].cut => peer[n] = "gone"
BY DEF ClientInv, ClientTypeOK, NetTypeOK, Requests, AnswersToCome,
       OnlyTheLastIsCut, CutAtTheEnd

(* As long as the server has not gone nothing is cut.                       *)
Whole(a, n) == AnswerOf(a, n) /\ ~a.cut

LEMMA AllWhole ==
  ASSUME ClientInv, NEW n \in Conn, peer[n] \in {"serving", "refused"}
  PROVE  \A k \in DOMAIN fromServer[n] : Whole(fromServer[n][k], n)
BY ConnectionTypes DEF Whole

LEMMA WholeIsFine ==
  ASSUME NEW n, NEW s, NEW p, \A k \in DOMAIN s : Whole(s[k], n)
  PROVE  (\A k \in DOMAIN s : AnswerOf(s[k], n)) /\ CutAtTheEnd(s, p)
BY DEF Whole, CutAtTheEnd

(* What an answer adds is an answer to a frame of this connection.          *)
LEMMA PeerAnswersKeeps ==
  ASSUME ClientInv, NEW n \in Conn, peerAnswers(n)
  PROVE  ClientInv'
<1>. DEFINE s == toServer[n]
            f == Head(toServer[n])
            a == fromServer[n]
<1>1. /\ s \in Seq(Frame) /\ s # <<>> /\ a \in Seq(Answer) /\ peer[n] = "serving"
      /\ toServer' = [toServer EXCEPT ![n] = Tail(s)]
      /\ fromServer' = [fromServer EXCEPT ![n] = a \o Answers(f)]
      /\ UNCHANGED <<peer, broadcasts, peerOnly>>
  BY ConnectionTypes DEF peerAnswers
<1>2. f \in Frame /\ RequestOf(f, n)
  <2>1. f = s[1] /\ 1 \in DOMAIN s /\ s[1] \in Frame
    BY <1>1
  <2>. QED
    BY <2>1, ConnectionTypes
<1>3. /\ Tail(s) \in Seq(Frame)
      /\ \A k \in DOMAIN Tail(s) : RequestOf(Tail(s)[k], n)
  <2>1. /\ Tail(s) \in Seq(Frame)
        /\ \A k \in DOMAIN Tail(s) : k + 1 \in DOMAIN s /\ Tail(s)[k] = s[k + 1]
    BY <1>1
  <2>. QED
    BY <2>1, ConnectionTypes
<1>4. \/ Answers(f) = <<>>
      \/ \E b \in Answer : Answers(f) = <<b>> /\ Whole(b, n)
  <2>1. CASE f.command = "CONNECT"
    <3>1. Answers(f) = <<Bare("CONNECTED")>>
      BY <2>1 DEF Answers
    <3>2. Whole(Bare("CONNECTED"), n)
      BY AnswerTypes DEF Whole, AnswerOf
    <3>. QED
      BY <3>1, <3>2, AnswerTypes
  <2>2. CASE f.command = "SEND"
    BY <2>2 DEF Answers
  <2>3. CASE f.command \notin {"CONNECT", "SEND"}
    <3>1. Answers(f) = <<Receipt(f.receipt)>>
      BY <2>3 DEF Answers
    <3>2. f.receipt \in Ids /\ Expected(f.receipt, n)
      BY <1>2, <2>3 DEF RequestOf, Expected, Frame
    <3>3. Receipt(f.receipt) \in Answer /\ Whole(Receipt(f.receipt), n)
      BY <3>2, AnswerTypes DEF Whole, AnswerOf
    <3>. QED
      BY <3>1, <3>3
  <2>. QED
    BY <2>1, <2>2, <2>3
<1>. DEFINE b == a \o Answers(f)
<1>5. b \in Seq(Answer) /\ \A k \in DOMAIN b : Whole(b[k], n)
  <2>1. \A k \in DOMAIN a : Whole(a[k], n)
    BY <1>1, AllWhole
  <2>2. CASE Answers(f) = <<>>
    <3>. HIDE DEF a
    <3>1. b = a \o <<>>
      BY <2>2
    <3>2. /\ a \o <<>> \in Seq(Answer)
          /\ \A k \in DOMAIN (a \o <<>>) :
               k \in DOMAIN a /\ (a \o <<>>)[k] = a[k]
      BY <1>1
    <3>. QED
      BY <2>1, <3>1, <3>2
  <2>3. CASE \E c \in Answer : Answers(f) = <<c>> /\ Whole(c, n)
    <3>1. PICK c \in Answer : Answers(f) = <<c>> /\ Whole(c, n)
      BY <2>3
    <3>. HIDE DEF a
    <3>2. b = a \o <<c>>
      BY <3>1
    <3>3. /\ a \o <<c>> \in Seq(Answer)
          /\ \A k \in DOMAIN (a \o <<c>>) :
               \/ k \in DOMAIN a /\ (a \o <<c>>)[k] = a[k]
               \/ (a \o <<c>>)[k] = c
      BY <1>1, <3>1
    <3>. QED
      BY <2>1, <3>1, <3>2, <3>3
  <2>. QED
    BY <1>4, <2>2, <2>3
<1>. HIDE DEF s, f, a, b
<1>6. /\ toServer' = [toServer EXCEPT ![n] = Tail(s)]
      /\ fromServer' = [fromServer EXCEPT ![n] = b]
      /\ peer' = peer /\ broadcasts' = broadcasts /\ UNCHANGED peerOnly
  BY <1>1 DEF b
<1>7. /\ toServer' \in [Conn -> Seq(Frame)] /\ fromServer' \in [Conn -> Seq(Answer)]
      /\ toServer'[n] = Tail(s) /\ fromServer'[n] = b
      /\ \A m \in Conn : m # n =>
           toServer'[m] = toServer[m] /\ fromServer'[m] = fromServer[m]
  BY <1>3, <1>5, <1>6, ConnectionTypes
<1>8. /\ \A k \in DOMAIN toServer'[n] : RequestOf(toServer'[n][k], n)
      /\ \A k \in DOMAIN fromServer'[n] : AnswerOf(fromServer'[n][k], n)
      /\ CutAtTheEnd(fromServer'[n], peer'[n])
  BY <1>3, <1>5, <1>7, WholeIsFine
<1>9. peer[n] = "serving" /\ peer' = peer
  BY <1>1
<1>. QED
  BY <1>6, <1>7, <1>8, <1>9, PeerMoves, ConnectionTypes, ZenonT(60)

(* One more answer that no receipt is about.                                *)
LEMMA OneMoreAnswer ==
  ASSUME ClientInv, NEW n \in Conn, peer[n] \in {"serving", "refused"},
         NEW b \in Answer, Whole(b, n)
  PROVE  /\ Append(fromServer[n], b) \in Seq(Answer)
         /\ \A k \in DOMAIN Append(fromServer[n], b) :
              Whole(Append(fromServer[n], b)[k], n)
<1>. DEFINE a == fromServer[n]
<1>1. a \in Seq(Answer) /\ \A k \in DOMAIN a : Whole(a[k], n)
  BY ConnectionTypes, AllWhole
<1>. HIDE DEF a
<1>2. /\ Append(a, b) \in Seq(Answer)
      /\ \A k \in DOMAIN Append(a, b) :
           (k \in DOMAIN a /\ Append(a, b)[k] = a[k]) \/ Append(a, b)[k] = b
  BY <1>1
<1>3. Append(a, b) \in Seq(Answer)
      /\ \A k \in DOMAIN Append(a, b) : Whole(Append(a, b)[k], n)
  BY <1>1, <1>2
<1>. QED
  BY <1>3 DEF a

LEMMA PeerRefusesKeeps ==
  ASSUME ClientInv, NEW n \in Conn, peerRefuses(n)
  PROVE  ClientInv'
<1>. DEFINE b == Append(fromServer[n], Bare("ERROR"))
<1>1. b \in Seq(Answer) /\ \A k \in DOMAIN b : Whole(b[k], n)
  <2>1. Bare("ERROR") \in Answer /\ Whole(Bare("ERROR"), n)
    BY AnswerTypes DEF Whole, AnswerOf
  <2>. QED
    BY <2>1, OneMoreAnswer DEF peerRefuses
<1>2. /\ peer[n] = "serving"
      /\ toServer' = [toServer EXCEPT ![n] = <<>>]
      /\ fromServer' = [fromServer EXCEPT ![n] = b]
      /\ peer' = [peer EXCEPT ![n] = "refused"]
      /\ UNCHANGED <<broadcasts, peerOnly>>
  BY DEF peerRefuses
<1>. HIDE DEF b
<1>3. /\ toServer' \in [Conn -> Seq(Frame)] /\ fromServer' \in [Conn -> Seq(Answer)]
      /\ peer' \in [Conn -> {"none", "serving", "refused", "gone"}]
      /\ toServer'[n] = <<>> /\ fromServer'[n] = b
      /\ \A m \in Conn : m # n =>
           /\ toServer'[m] = toServer[m] /\ fromServer'[m] = fromServer[m]
           /\ peer'[m] = peer[m]
  BY <1>1, <1>2, ConnectionTypes
<1>4. \A k \in DOMAIN toServer'[n] : RequestOf(toServer'[n][k], n)
  BY <1>3
<1>5. /\ \A k \in DOMAIN fromServer'[n] : AnswerOf(fromServer'[n][k], n)
      /\ CutAtTheEnd(fromServer'[n], peer'[n])
  BY <1>1, <1>3, WholeIsFine
<1>. QED
  BY <1>2, <1>3, <1>4, <1>5, PeerMoves, ConnectionTypes

LEMMA PeerBroadcastsKeeps ==
  ASSUME ClientInv, NEW n \in Conn, peerBroadcasts(n)
  PROVE  ClientInv'
<1>1. PICK ch \in Channel, e \in Events :
        fromServer' = [fromServer EXCEPT ![n] =
                         Append(fromServer[n], Message(ch, e))]
  BY DEF peerBroadcasts
<1>. DEFINE b == Append(fromServer[n], Message(ch, e))
<1>2. b \in Seq(Answer) /\ \A k \in DOMAIN b : Whole(b[k], n)
  <2>1. Message(ch, e) \in Answer /\ Whole(Message(ch, e), n)
    BY AnswerTypes DEF Whole, AnswerOf
  <2>. QED
    BY <2>1, OneMoreAnswer DEF peerBroadcasts
<1>3. /\ peer[n] \in {"serving", "refused"} /\ broadcasts < MaxBroadcasts
      /\ broadcasts' = broadcasts + 1
      /\ UNCHANGED <<toServer, peer, peerOnly>>
  BY DEF peerBroadcasts
<1>4. broadcasts' \in 0 .. MaxBroadcasts
  BY <1>3, ConnectionTypes, ClientAssumption
<1>5. fromServer' = [fromServer EXCEPT ![n] = b]
  BY <1>1
<1>. HIDE DEF b
<1>6. /\ fromServer' \in [Conn -> Seq(Answer)] /\ fromServer'[n] = b
      /\ \A m \in Conn : m # n => fromServer'[m] = fromServer[m]
  BY <1>2, <1>5, ConnectionTypes
<1>7. /\ \A k \in DOMAIN fromServer'[n] : AnswerOf(fromServer'[n][k], n)
      /\ CutAtTheEnd(fromServer'[n], peer'[n])
  BY <1>2, <1>6, WholeIsFine
<1>. QED
  BY <1>3, <1>4, <1>6, <1>7, PeerMoves, ConnectionTypes

(* A prefix of the answers, and perhaps the beginning of one more.          *)
LEMMA PrefixesKeep ==
  ASSUME NEW n \in Conn, NEW a \in Seq(Answer),
         \A k \in DOMAIN a : Whole(a[k], n),
         NEW s \in WhatArrives(a)
  PROVE  /\ s \in Seq(Answer) /\ \A k \in DOMAIN s : AnswerOf(s[k], n)
         /\ CutAtTheEnd(s, "gone")
<1>1. a \in Seq(Answer) /\ \A k \in DOMAIN a : Whole(a[k], n)
  OBVIOUS
<1>2. s \in WhatArrives(a)
  OBVIOUS
<1>3. ASSUME NEW j \in 0 .. Len(a)
      PROVE  /\ SubSeq(a, 1, j) \in Seq(Answer)
             /\ DOMAIN SubSeq(a, 1, j) = 1 .. j
             /\ \A k \in 1 .. j : SubSeq(a, 1, j)[k] = a[k] /\ k \in DOMAIN a
  BY <1>1
<1>4. CASE \E j \in 0 .. Len(a) : s = SubSeq(a, 1, j)
  <2>1. s \in Seq(Answer) /\ \A k \in DOMAIN s : Whole(s[k], n)
    BY <1>1, <1>3, <1>4
  <2>. QED
    BY <2>1, WholeIsFine
<1>5. CASE \E j \in DOMAIN a :
             s = Append(SubSeq(a, 1, j - 1), [a[j] EXCEPT !.cut = TRUE])
  <2>1. PICK j \in DOMAIN a :
          s = Append(SubSeq(a, 1, j - 1), [a[j] EXCEPT !.cut = TRUE])
    BY <1>5
  <2>. DEFINE p == SubSeq(a, 1, j - 1)
              c == [a[j] EXCEPT !.cut = TRUE]
  <2>2. j - 1 \in 0 .. Len(a)
    BY <1>1
  <2>3. p \in Seq(Answer) /\ \A k \in DOMAIN p : Whole(p[k], n)
    BY <1>1, <1>3, <2>2
  <2>4. c \in Answer /\ AnswerOf(c, n)
    <3>1. a[j] \in Answer /\ AnswerOf(a[j], n)
      BY <1>1 DEF Whole
    <3>. QED
      BY <3>1 DEF Answer, AnswerOf
  <2>. HIDE DEF p, c
  <2>5. /\ Append(p, c) \in Seq(Answer)
        /\ \A k \in DOMAIN Append(p, c) :
             \/ k \in DOMAIN p /\ Append(p, c)[k] = p[k]
             \/ Append(p, c)[k] = c /\ k = Len(Append(p, c))
    BY <2>3, <2>4
  <2>6. s = Append(p, c)
    BY <2>1 DEF p, c
  <2>. QED
    BY <2>3, <2>4, <2>5, <2>6 DEF Whole, CutAtTheEnd
<1>. QED
  BY <1>2, <1>4, <1>5 DEF WhatArrives

LEMMA GoesKeeps ==
  ASSUME ClientInv, NEW n \in Conn, peer[n] \in {"serving", "refused"},
         NEW a \in Seq(Answer), \A k \in DOMAIN a : Whole(a[k], n),
         Goes(n, a), broadcasts' \in 0 .. MaxBroadcasts
  PROVE  ClientInv'
<1>1. PICK s \in WhatArrives(a) : fromServer' = [fromServer EXCEPT ![n] = s]
  BY DEF Goes
<1>2. /\ s \in Seq(Answer) /\ \A k \in DOMAIN s : AnswerOf(s[k], n)
      /\ CutAtTheEnd(s, "gone")
  BY PrefixesKeep
<1>3. /\ peer' = [peer EXCEPT ![n] = "gone"]
      /\ toServer' = [toServer EXCEPT ![n] = <<>>]
      /\ UNCHANGED peerOnly
  BY DEF Goes
<1>4. /\ toServer' \in [Conn -> Seq(Frame)] /\ fromServer' \in [Conn -> Seq(Answer)]
      /\ peer' \in [Conn -> {"none", "serving", "refused", "gone"}]
      /\ toServer'[n] = <<>> /\ fromServer'[n] = s /\ peer'[n] = "gone"
      /\ \A m \in Conn : m # n =>
           /\ toServer'[m] = toServer[m] /\ fromServer'[m] = fromServer[m]
           /\ peer'[m] = peer[m]
  BY <1>1, <1>2, <1>3, ConnectionTypes
<1>5. /\ \A k \in DOMAIN toServer'[n] : RequestOf(toServer'[n][k], n)
      /\ \A k \in DOMAIN fromServer'[n] : AnswerOf(fromServer'[n][k], n)
      /\ CutAtTheEnd(fromServer'[n], peer'[n])
  BY <1>2, <1>4
<1>. QED
  BY <1>3, <1>4, <1>5, PeerMoves

LEMMA PeerGoesKeeps ==
  ASSUME ClientInv, NEW n \in Conn, peerGoes(n)
  PROVE  ClientInv'
<1>1. /\ peer[n] \in {"serving", "refused"} /\ broadcasts' = broadcasts
      /\ Goes(n, fromServer[n])
  BY DEF peerGoes
<1>2. /\ fromServer[n] \in Seq(Answer) /\ broadcasts' \in 0 .. MaxBroadcasts
      /\ \A k \in DOMAIN fromServer[n] : Whole(fromServer[n][k], n)
  BY <1>1, ConnectionTypes, AllWhole
<1>. QED
  BY <1>1, <1>2, GoesKeeps

LEMMA PeerBroadcastsLastKeeps ==
  ASSUME ClientInv, NEW n \in Conn, peerBroadcastsLast(n)
  PROVE  ClientInv'
<1>1. PICK ch \in Channel, e \in Events :
        Goes(n, Append(fromServer[n], Message(ch, e)))
  BY DEF peerBroadcastsLast
<1>. DEFINE b == Append(fromServer[n], Message(ch, e))
<1>2. b \in Seq(Answer) /\ \A k \in DOMAIN b : Whole(b[k], n)
  <2>1. Message(ch, e) \in Answer /\ Whole(Message(ch, e), n)
    BY AnswerTypes DEF Whole, AnswerOf
  <2>. QED
    BY <2>1, OneMoreAnswer DEF peerBroadcastsLast
<1>3. /\ peer[n] = "refused" /\ broadcasts < MaxBroadcasts
      /\ broadcasts' = broadcasts + 1
  BY DEF peerBroadcastsLast
<1>4. broadcasts' \in 0 .. MaxBroadcasts
  BY <1>3, ConnectionTypes, ClientAssumption
<1>5. Goes(n, b)
  BY <1>1
<1>. HIDE DEF b
<1>. QED
  BY <1>2, <1>3, <1>4, <1>5, GoesKeeps

LEMMA PeerKeeps == ClientInv /\ Peer => ClientInv'
<1>. SUFFICES ASSUME ClientInv, Peer PROVE ClientInv'
  OBVIOUS
<1>1. PICK n \in Conn :
        \/ peerAnswers(n) \/ peerRefuses(n) \/ peerBroadcasts(n)
        \/ peerGoes(n) \/ peerBroadcastsLast(n)
  BY DEF Peer
<1>. QED
  BY <1>1, PeerAnswersKeeps, PeerRefusesKeeps, PeerBroadcastsKeeps,
     PeerGoesKeeps, PeerBroadcastsLastKeeps

-----------------------------------------------------------------------------
(* The theorems.                                                            *)

LEMMA StutterKeeps == ClientInv /\ UNCHANGED vars => ClientInv'
<1>. SUFFICES ASSUME ClientInv, UNCHANGED vars PROVE ClientInv'
  OBVIOUS
<1>. USE DEF vars
<1>1. ClientTypeOK' /\ LineLabels'
  BY DEF ClientInv, ClientTypeOK, ThreadTypeOK, SharedTypeOK, NetTypeOK,
         LineLabels
<1>2. Records'
  BY DEF ClientInv, Records, NumbersAreFresh, InHand, EveryReceiptIsUnderstood
<1>3. Wire'
  BY WireUntouched, ClientInvParts
<1>4. Sessions'
  BY DEF ClientInv, Sessions, SessionsApart, LoggingIn, LoggedInHasSocket, Ended
<1>. QED
  BY <1>1, <1>2, <1>3, <1>4 DEF ClientInv, Records, Wire, Sessions

LEMMA NextKeeps == ClientInv /\ [Next]_vars => ClientInv'
BY KeyboardKeeps, ServerThreadKeeps, MainReturnsKeeps, PeerKeeps, StutterKeeps
DEF Next, Over

(* The types of the client's state, and that numbers, records, wire and     *)
(* sessions fit together, always, whatever the two threads, the user and    *)
(* the server do.                                                           *)
THEOREM ClientInvariance == Spec => []ClientInv
<1>1. Init => ClientInv
  BY ClientInit
<1>2. ClientInv /\ [Next]_vars => ClientInv'
  BY NextKeeps
<1>. QED
  BY <1>1, <1>2, PTL DEF Spec

(* StompProtocol::receiptHendel finds for every receipt what it was asked   *)
(* for, in every session of the program, as long as no two accesses to      *)
(* reciepts met.                                                            *)
THEOREM ReceiptsUnderstood == Spec => []EveryReceiptIsUnderstood
<1>1. ClientInv => EveryReceiptIsUnderstood
  BY DEF ClientInv
<1>. QED
  BY <1>1, ClientInvariance, PTL

(* Whenever StompProtocol::isConnected is set the socket is there, so that  *)
(* no frame of a logged-in user goes to a closed one.                       *)
THEOREM LoggedInConnected == Spec => []LoggedInHasSocket
<1>1. ClientInv => LoggedInHasSocket
  BY DEF ClientInv
<1>. QED
  BY <1>1, ClientInvariance, PTL

(* ConnectionHandler::close ends the connection of the logout that was      *)
(* confirmed and no other, though the server thread decides on it long      *)
(* before, from a map both threads use; unless the server has broken the    *)
(* connection off and cut the last receipt within its number.               *)
THEOREM LogoutClosesItsOwn == Spec => OnlyItsLogoutCloses
<1>1. ASSUME ClientInv, [Next]_vars
      PROVE  [sock # NoSocket /\ sock' # sock =>
                \/ Ended
                \/ asked[sframe.receiptId] =
                     [text |-> LoggedOut, conn |-> sock]
                \/ BrokenOff]_vars
  <2>. SUFFICES ASSUME Next, sock # NoSocket, sock' # sock
                PROVE  \/ Ended
                       \/ asked[sframe.receiptId] =
                            [text |-> LoggedOut, conn |-> sock]
                       \/ BrokenOff
    BY <1>1 DEF vars
  <2>1. CASE Keyboard
    BY <2>1 DEF Keyboard, handleKeyboard, getline, badPort, connectFails,
       connect, setConect, sendConnect, setConnected, joinHendel, recordJoin,
       bareExit, notSubscribed, exitHendel, logoutHendel, recordLogout,
       sendFrame, badFile, reportHendel, summaryHendel
  <2>2. CASE ServerThread
    <3>1. close
      BY <2>2 DEF ServerThread, handleServer, getFrameAscii, messageHendel,
         receiptHendel, loggedOut, clearConect, erorHendl, clearConnected
    <3>. QED
      BY <1>1, <3>1 DEF close, ClientInv, AnswerInHand
  <2>3. CASE mainReturns
    BY <2>3 DEF mainReturns
  <2>4. CASE Peer
    BY <2>4 DEF Peer, peerAnswers, peerRefuses, peerBroadcasts, peerGoes,
                peerBroadcastsLast, Goes, peerOnly
  <2>5. CASE Over
    BY <2>5 DEF Over, vars
  <2>. QED
    BY <2>1, <2>2, <2>3, <2>4, <2>5 DEF Next
<1>. QED
  BY <1>1, ClientInvariance, PTL DEF Spec, OnlyItsLogoutCloses

-----------------------------------------------------------------------------
(* What the frames under way are about (FramesInv).                         *)

LEMMA FrameOnTheWire ==
  ASSUME ClientInv, NEW n \in Conn, NEW k \in DOMAIN toServer[n],
         NEW f, f = toServer[n][k], Fits(f)
  PROVE  /\ f \in Frame
         /\ f.command \notin {"CONNECT", "SEND"} => f.receipt # 0
         /\ f.receipt # 0 => /\ f.receipt \in Ids /\ f.receipt <= subscriptionId
                             /\ asked[f.receipt] # NotAsked
<1>1. toServer[n] \in Seq(Frame) /\ f \in Frame
  BY DEF ClientInv, ClientTypeOK, NetTypeOK
<1>2. RequestOf(f, n)
  BY DEF ClientInv, Requests
<1>3. f.receipt \in {0} \cup Ids
  BY <1>1 DEF Frame
<1>4. n # NoSocket
  BY NumberTypes DEF NoSocket
<1>5. f.receipt # 0 => Expected(f.receipt, n)
  BY <1>2 DEF RequestOf, Fits, Expected
<1>6. f.receipt # 0 => asked[f.receipt] # NotAsked
  BY <1>4, <1>5 DEF Expected, NotAsked
<1>7. f.receipt # 0 => ~(f.receipt > subscriptionId)
  BY <1>3, <1>6 DEF ClientInv, NumbersAreFresh
<1>8. subscriptionId \in Nat
  BY DEF ClientInv, ClientTypeOK, SharedTypeOK
<1>9. f.receipt # 0 => f.receipt <= subscriptionId
  BY <1>3, <1>7, <1>8, NumberTypes
<1>. QED
  BY <1>1, <1>2, <1>3, <1>6, <1>9 DEF RequestOf, Expected

LEMMA SameFits ==
  ASSUME NEW f, Fits(f), asked'[f.receipt] = asked[f.receipt],
         f.command = "UNSUBSCRIBE" => GivenUp(f.id)'
  PROVE  Fits(f)'
BY DEF Fits

LEMMA TailInOrder ==
  ASSUME NEW S, NEW s \in Seq(S), s # <<>>, InOrder(s)
  PROVE  InOrder(Tail(s))
<1>1. \A k \in DOMAIN Tail(s) :
        k \in Nat /\ k + 1 \in DOMAIN s /\ Tail(s)[k] = s[k + 1] /\ k >= 1
  OBVIOUS
<1>. DEFINE t == Tail(s)
<1>2. \A k \in DOMAIN t :
        k \in Nat /\ k + 1 \in DOMAIN s /\ t[k] = s[k + 1] /\ k >= 1
  BY <1>1
<1>. HIDE DEF t
<1>3. ASSUME NEW k \in DOMAIN t
      PROVE  /\ t[k].command = "CONNECT" => k = 1
             /\ \A j \in DOMAIN t :
                  j < k /\ t[j].receipt # 0 /\ t[k].receipt # 0
                    => t[j].receipt < t[k].receipt
  BY <1>2 DEF InOrder
<1>. QED
  BY <1>3 DEF InOrder, t

LEMMA AppendInOrder ==
  ASSUME NEW S, NEW s \in Seq(S), NEW f \in S, InOrder(s),
         f.command = "CONNECT" => s = <<>>,
         f.receipt # 0 => \A k \in DOMAIN s :
           s[k].receipt # 0 => s[k].receipt < f.receipt
  PROVE  InOrder(Append(s, f))
<1>. DEFINE t == Append(s, f)
<1>1. /\ \A k \in DOMAIN t : \/ k \in DOMAIN s /\ t[k] = s[k]
                             \/ k = Len(s) + 1 /\ t[k] = f
      /\ \A k \in DOMAIN s : k \in Nat /\ k < Len(s) + 1
      /\ s = <<>> => Len(s) + 1 = 1
      /\ Len(s) \in Nat
  OBVIOUS
<1>. HIDE DEF t
<1>2. ASSUME NEW k \in DOMAIN t, NEW j \in DOMAIN t, j < k,
             t[j].receipt # 0, t[k].receipt # 0
      PROVE  t[j].receipt < t[k].receipt
  <2>1. CASE k \in DOMAIN s /\ t[k] = s[k]
    <3>1. j \in DOMAIN s /\ t[j] = s[j]
      BY <1>1, <1>2, <2>1
    <3>. QED
      BY <1>2, <2>1, <3>1 DEF InOrder
  <2>2. CASE k = Len(s) + 1 /\ t[k] = f
    <3>1. j \in DOMAIN s /\ t[j] = s[j]
      BY <1>1, <1>2, <2>2
    <3>. QED
      BY <1>2, <2>2, <3>1
  <2>. QED
    BY <1>1, <2>1, <2>2
<1>3. \A k \in DOMAIN t : t[k].command = "CONNECT" => k = 1
  BY <1>1 DEF InOrder
<1>. QED
  BY <1>2, <1>3 DEF InOrder, t

(* What is under way becomes less.                                          *)
Shrinks(n) ==
  \/ toServer'[n] = toServer[n] \/ toServer'[n] = <<>>
  \/ toServer[n] # <<>> /\ toServer'[n] = Tail(toServer[n])

LEMMA ShrunkWire ==
  ASSUME NEW s \in Seq(Frame), NEW t, InOrder(s),
         t = s \/ t = <<>> \/ (s # <<>> /\ t = Tail(s))
  PROVE  /\ InOrder(t)
         /\ \A k \in DOMAIN t : \E j \in DOMAIN s : t[k] = s[j]
         /\ s = <<>> => t = <<>>
<1>1. CASE t = s
  BY <1>1
<1>2. CASE t = <<>>
  <2>1. DOMAIN t = {}
    BY <1>2
  <2>. QED
    BY <1>2, <2>1 DEF InOrder
<1>3. CASE s # <<>> /\ t = Tail(s)
  <2>1. \A k \in DOMAIN Tail(s) : k + 1 \in DOMAIN s /\ Tail(s)[k] = s[k + 1]
    BY <1>3
  <2>. QED
    BY <1>3, <2>1, TailInOrder
<1>. QED
  BY <1>1, <1>2, <1>3

LEMMA NewWire ==
  ASSUME \A n \in Conn : InOrder(toServer'[n]),
         \A n \in Conn : \A k \in DOMAIN toServer'[n] : \A f :
           f = toServer'[n][k] => Fits(f)',
         kpc' \in {"setConect", "sendConnect"} => toServer'[sock'] = <<>>
  PROVE  OnTheWire'
<1>1. ASSUME NEW n \in Conn, NEW k \in DOMAIN toServer'[n]
      PROVE  Fits(toServer[n][k])'
  <2>1. PICK f : f = toServer'[n][k]
    OBVIOUS
  <2>2. Fits(f)'
    BY <2>1
  <2>. QED
    BY <2>1, <2>2 DEF Fits, GivenUp
<1>. QED
  BY <1>1 DEF OnTheWire

LEMMA WireShrinks ==
  ASSUME ClientInv, FramesInv, \A n \in Conn : Shrinks(n),
         UNCHANGED <<channels, asked>>,
         kpc' = "recordJoin" => kpc = "recordJoin" /\ kframe' = kframe,
         kpc' \in {"setConect", "sendConnect"} => toServer'[sock'] = <<>>
  PROVE  OnTheWire'
<1>1. ASSUME NEW n \in Conn
      PROVE  /\ InOrder(toServer'[n])
             /\ \A k \in DOMAIN toServer'[n] :
                  \E j \in DOMAIN toServer[n] : toServer'[n][k] = toServer[n][j]
  <2>. PICK s : s = toServer[n]
    OBVIOUS
  <2>. PICK t : t = toServer'[n]
    OBVIOUS
  <2>1. s \in Seq(Frame) /\ InOrder(s)
    BY DEF ClientInv, ClientTypeOK, NetTypeOK, FramesInv, OnTheWire
  <2>2. t = s \/ t = <<>> \/ (s # <<>> /\ t = Tail(s))
    BY DEF Shrinks
  <2>3. InOrder(t) /\ (\A k \in DOMAIN t : \E j \in DOMAIN s : t[k] = s[j])
    BY ONLY <2>1, <2>2, ShrunkWire
  <2>. QED
    BY <2>3
<1>2. \A i : GivenUp(i) => GivenUp(i)'
  BY DEF GivenUp
<1>3. \A f : Fits(f) => Fits(f)'
  BY <1>2 DEF Fits
<1>4. \A n \in Conn : \A k \in DOMAIN toServer'[n] : \A f :
        f = toServer'[n][k] => Fits(f)'
  <2>. SUFFICES ASSUME NEW n \in Conn, NEW k \in DOMAIN toServer'[n], NEW f,
                       f = toServer'[n][k]
                PROVE  Fits(f)'
    OBVIOUS
  <2>1. PICK j \in DOMAIN toServer[n] : f = toServer[n][j]
    BY <1>1
  <2>2. Fits(f)
    BY <2>1 DEF FramesInv, OnTheWire
  <2>. QED
    BY <1>3, <2>2
<1>. QED
  BY <1>1, <1>4, NewWire

(* A frame is sent: it fits, and its number is the greatest.                *)
LEMMA WireGrows ==
  ASSUME ClientInv, FramesInv, NEW f \in Frame, sendFrameAscii(f), Fits(f)',
         f.command = "CONNECT" => sock = NoSocket \/ toServer[sock] = <<>>,
         \A n \in Conn : \A k \in DOMAIN toServer[n] :
           toServer[n][k].receipt # 0 /\ f.receipt # 0
             => toServer[n][k].receipt < f.receipt,
         \A n \in Conn : \A k \in DOMAIN toServer[n] : \A g :
           g = toServer[n][k] => Fits(g)',
         kpc' \notin {"setConect", "sendConnect"}
  PROVE  OnTheWire'
<1>1. ASSUME NEW n \in Conn
      PROVE  InOrder(toServer'[n])
  <2>. PICK s : s = toServer[n]
    OBVIOUS
  <2>. PICK t : t = toServer'[n]
    OBVIOUS
  <2>1. /\ s \in Seq(Frame) /\ InOrder(s)
        /\ toServer \in [Conn -> Seq(Frame)] /\ n # NoSocket
    BY NumberTypes DEF ClientInv, ClientTypeOK, NetTypeOK, FramesInv, OnTheWire,
       NoSocket
  <2>2. t = s \/ (n = sock /\ t = Append(s, f))
    BY <2>1 DEF sendFrameAscii
  <2>3. CASE n = sock /\ t = Append(s, f)
    <3>1. f.command = "CONNECT" => s = <<>>
      BY <2>1, <2>3
    <3>2. f.receipt # 0 => \A k \in DOMAIN s :
            s[k].receipt # 0 => s[k].receipt < f.receipt
      OBVIOUS
    <3>3. InOrder(Append(s, f))
      BY ONLY <2>1, <3>1, <3>2, f \in Frame, AppendInOrder
    <3>. QED
      BY <2>3, <3>3
  <2>. QED
    BY <2>1, <2>2, <2>3
<1>2. ASSUME NEW n \in Conn, NEW k \in DOMAIN toServer'[n], NEW g,
             g = toServer'[n][k]
      PROVE  Fits(g)'
  <2>1. \/ k \in DOMAIN toServer[n] /\ g = toServer[n][k]
        \/ g = f
    BY <1>2, SendKeeps DEF ClientInv
  <2>. QED
    BY <2>1
<1>. QED
  BY <1>1, <1>2, NewWire

(* The keyboard thread is nowhere where it drew a number.                   *)
LEMMA NothingDrawn ==
  ASSUME FramesInv, kpc' \notin {"recordJoin", "sendFrame"},
         UNCHANGED <<channels, subscriptionId, asked>>
  PROVE  Drawn'
BY DEF FramesInv, Drawn

LEMMA DrawnStays ==
  ASSUME FramesInv, sock' \in {sock, NoSocket},
         UNCHANGED <<kpc, line, kframe, channels, subscriptionId, asked>>
  PROVE  Drawn'
BY DEF FramesInv, Drawn, GivenUp

(* Steps that send nothing and draw no number.                              *)
LEMMA IdleFrames ==
  ASSUME ClientInv, ClientInv', FramesInv, \A n \in Conn : Shrinks(n),
         UNCHANGED <<channels, subscriptionId, asked>>,
         sock' \in {sock, NoSocket},
         \/ UNCHANGED <<kpc, line, kframe>>
         \/ kpc' \notin {"recordJoin", "sendFrame", "setConect", "sendConnect"}
  PROVE  FramesInv'
<1>1. kpc' \in {"setConect", "sendConnect"} => toServer'[sock'] = <<>>
  <2>. SUFFICES ASSUME kpc' \in {"setConect", "sendConnect"}
                PROVE  toServer'[sock'] = <<>>
    OBVIOUS
  <2>1. sock' # NoSocket /\ sock' \in Conn \cup {NoSocket}
    BY DEF ClientInv, SessionsApart, LoggingIn, ClientTypeOK, SharedTypeOK
  <2>2. toServer[sock] = <<>> /\ sock' = sock /\ sock \in Conn
    BY <2>1 DEF FramesInv, OnTheWire
  <2>. QED
    BY <2>2 DEF Shrinks
<1>2. OnTheWire'
  BY <1>1, WireShrinks
<1>3. Drawn'
  BY NothingDrawn, DrawnStays
<1>. QED
  BY <1>2, <1>3 DEF FramesInv

LEMMA NothingShrinks ==
  ASSUME UNCHANGED toServer
  PROVE  \A n \in Conn : Shrinks(n)
BY DEF Shrinks

-----------------------------------------------------------------------------
LEMMA FramesInit == Init => FramesInv
BY DEF Init, FramesInv, OnTheWire, Drawn, InOrder

LEMMA ServerThreadFrames ==
  ASSUME ClientInv, ClientInv', FramesInv, ServerThread \/ mainReturns
  PROVE  FramesInv'
<1>1. UNCHANGED <<channels, subscriptionId, asked, kpc, line, kframe>>
  BY DEF ServerThread, handleServer, getFrameAscii, messageHendel,
     receiptHendel, loggedOut, close, clearConect, erorHendl, clearConnected,
     mainReturns
<1>2. CASE UNCHANGED <<sock, toServer>>
  BY <1>1, <1>2, IdleFrames, NothingShrinks
<1>3. CASE CloseSocket
  <2>1. \A n \in Conn : Shrinks(n)
    BY <1>3 DEF CloseSocket, Shrinks, ClientInv, ClientTypeOK, NetTypeOK
  <2>. QED
    BY <1>1, <1>3, <2>1, IdleFrames DEF CloseSocket
<1>. QED
  BY <1>2, <1>3 DEF ServerThread, handleServer, getFrameAscii, messageHendel,
     receiptHendel, loggedOut, close, clearConect, erorHendl, clearConnected,
     mainReturns

LEMMA PeerFrames ==
  ASSUME ClientInv, ClientInv', FramesInv, Peer
  PROVE  FramesInv'
<1>1. UNCHANGED <<channels, subscriptionId, asked, kpc, line, kframe, sock>>
  BY DEF Peer, peerAnswers, peerRefuses, peerBroadcasts, peerGoes,
     peerBroadcastsLast, Goes, peerOnly
<1>2. \A n \in Conn : Shrinks(n)
  <2>1. toServer \in [Conn -> Seq(Frame)]
    BY DEF ClientInv, ClientTypeOK, NetTypeOK
  <2>2. PICK m \in Conn :
          \/ UNCHANGED toServer
          \/ toServer' = [toServer EXCEPT ![m] = <<>>]
          \/ toServer[m] # <<>> /\ toServer' = [toServer EXCEPT ![m] = Tail(@)]
    BY DEF Peer, peerAnswers, peerRefuses, peerBroadcasts, peerGoes,
       peerBroadcastsLast, Goes
  <2>. QED
    BY <2>1, <2>2 DEF Shrinks
<1>. QED
  BY <1>1, <1>2, IdleFrames

-----------------------------------------------------------------------------
(* The keyboard thread.                                                     *)

LEMMA IdleKeyboardFrames ==
  ASSUME ClientInv, ClientInv', FramesInv,
         \/ handleKeyboard \/ getline \/ badPort \/ connectFails
         \/ setConnected \/ bareExit \/ notSubscribed \/ logoutHendel
         \/ badFile \/ summaryHendel
  PROVE  FramesInv'
<1>1. UNCHANGED <<channels, subscriptionId, asked, toServer, sock>>
  BY DEF handleKeyboard, getline, badPort, connectFails, setConnected,
     bareExit, notSubscribed, logoutHendel, badFile, summaryHendel
<1>2. \/ UNCHANGED <<kpc, line, kframe>>
      \/ kpc' \notin {"recordJoin", "sendFrame", "setConect", "sendConnect"}
  BY DEF handleKeyboard, getline, badPort, connectFails, setConnected,
     bareExit, notSubscribed, logoutHendel, badFile, summaryHendel,
     processKeybord, Command
<1>. QED
  BY <1>1, <1>2, IdleFrames, NothingShrinks

LEMMA ConnectFrames ==
  ASSUME ClientInv, ClientInv', FramesInv, connect \/ setConect
  PROVE  FramesInv'
<1>1. /\ UNCHANGED <<channels, subscriptionId, asked, toServer, kframe, line>>
      /\ kpc' \in {"setConect", "sendConnect"}
  BY DEF connect, setConect
<1>2. toServer'[sock'] = <<>>
  <2>1. CASE connect
    <3>1. sock = NoSocket /\ sock' = connections /\ connections < MaxConnections
      BY <2>1 DEF connect
    <3>2. connections \in Conn /\ connections # NoSocket
      BY <3>1, NumberTypes
      DEF ClientInv, ClientTypeOK, NetTypeOK, Conn, NoSocket
    <3>. QED
      BY <1>1, <3>1, <3>2 DEF ClientInv, OneConnection
  <2>2. CASE setConect
    BY <1>1, <2>2 DEF setConect, FramesInv, OnTheWire
  <2>. QED
    BY <2>1, <2>2
<1>3. OnTheWire'
  BY <1>1, <1>2, WireShrinks, NothingShrinks
<1>4. Drawn'
  BY <1>1, NothingDrawn
<1>. QED
  BY <1>3, <1>4 DEF FramesInv

(* A frame without a receipt.                                               *)
LEMMA PlainFrames ==
  ASSUME ClientInv, FramesInv, NEW f \in Frame, sendFrameAscii(f),
         f.command \in {"CONNECT", "SEND"}, f.receipt = 0,
         f.command = "CONNECT" => kpc = "sendConnect",
         kpc' \notin {"recordJoin", "sendFrame", "setConect", "sendConnect"},
         UNCHANGED <<channels, subscriptionId, asked>>
  PROVE  FramesInv'
<1>1. \A i : GivenUp(i) => GivenUp(i)'
  BY DEF GivenUp
<1>2. Fits(f)'
  BY DEF Fits
<1>3. ASSUME NEW n \in Conn, NEW k \in DOMAIN toServer[n], NEW g,
             g = toServer[n][k]
      PROVE  Fits(g)'
  <2>1. Fits(g)
    BY <1>3 DEF FramesInv, OnTheWire
  <2>. QED
    BY <1>1, <2>1 DEF Fits
<1>4. f.command = "CONNECT" => sock = NoSocket \/ toServer[sock] = <<>>
  BY DEF FramesInv, OnTheWire
<1>5. OnTheWire'
  BY <1>2, <1>3, <1>4, WireGrows
<1>6. Drawn'
  BY NothingDrawn
<1>. QED
  BY <1>5, <1>6 DEF FramesInv

LEMMA SendConnectFrames ==
  ASSUME ClientInv, FramesInv, sendConnect
  PROVE  FramesInv'
<1>1. /\ Plain("CONNECT") \in Frame /\ Plain("CONNECT").command = "CONNECT"
      /\ Plain("CONNECT").receipt = 0
  BY RequestTypes DEF Plain, Request
<1>. QED
  BY <1>1, PlainFrames DEF sendConnect

LEMMA ReportFrames ==
  ASSUME ClientInv, ClientInv', FramesInv, reportHendel
  PROVE  FramesInv'
<1>1. CASE kframe.id = line.events
  <2>1. UNCHANGED <<channels, subscriptionId, asked, toServer, sock>>
        /\ kpc' = "loop"
    BY <1>1 DEF reportHendel
  <2>. QED
    BY <2>1, IdleFrames, NothingShrinks
<1>2. CASE kframe.id # line.events
  <2>1. line.args # "usage"
    BY DEF ClientInv, LineLabels, HasArguments, Command, reportHendel
  <2>2. /\ Send(line.channel) \in Frame /\ Send(line.channel).command = "SEND"
        /\ Send(line.channel).receipt = 0
    BY <2>1, LineChannel, SessionFrames DEF reportHendel, ClientInv, Send, Plain
  <2>3. /\ sendFrameAscii(Send(line.channel)) /\ kpc' = "report"
        /\ UNCHANGED <<channels, subscriptionId, asked>>
    BY <1>2 DEF reportHendel
  <2>. QED
    BY <2>2, <2>3, PlainFrames
<1>. QED
  BY <1>1, <1>2

(* A frame that asks for a receipt under a number that is new.              *)
LEMMA AskFrames ==
  ASSUME ClientInv, FramesInv, NEW f \in Frame, Ask(f), Fits(f)',
         f.command # "CONNECT", f.receipt \in Ids,
         \A n \in Conn : \A k \in DOMAIN toServer[n] :
           toServer[n][k].receipt # 0 => toServer[n][k].receipt < f.receipt,
         \A n \in Conn : \A k \in DOMAIN toServer[n] : \A g :
           g = toServer[n][k] /\ g.command = "UNSUBSCRIBE" => GivenUp(g.id)',
         asked[f.receipt] = NotAsked,
         kpc' \notin {"setConect", "sendConnect"}
  PROVE  OnTheWire'
<1>1. \A r \in Ids : r # f.receipt => asked'[r] = asked[r]
  BY DEF Ask, ClientInv, ClientTypeOK, NetTypeOK
<1>2. ASSUME NEW n \in Conn, NEW k \in DOMAIN toServer[n], NEW g,
             g = toServer[n][k]
      PROVE  Fits(g)'
  <2>1. Fits(g)
    BY <1>2 DEF FramesInv, OnTheWire
  <2>2. /\ g \in Frame
        /\ g.command \notin {"CONNECT", "SEND"} => g.receipt # 0
        /\ g.receipt # 0 => g.receipt \in Ids /\ asked[g.receipt] # NotAsked
    BY ONLY ClientInv, n \in Conn, k \in DOMAIN toServer[n],
       g = toServer[n][k], <2>1, FrameOnTheWire
  <2>3. g.receipt # 0 => asked'[g.receipt] = asked[g.receipt]
    BY <1>1, <2>2
  <2>4. g.command = "UNSUBSCRIBE" => GivenUp(g.id)'
    BY <1>2
  <2>5. CASE g.receipt # 0
    BY <2>1, <2>3, <2>4, <2>5, SameFits
  <2>6. CASE g.receipt = 0
    <3>1. g.command \in {"CONNECT", "SEND"}
      BY <2>2, <2>6
    <3>. QED
      BY <2>6, <3>1 DEF Fits
  <2>. QED
    BY <2>5, <2>6
<1>3. sendFrameAscii(f)
  BY DEF Ask
<1>. QED
  BY <1>2, <1>3, WireGrows

(* What is under way has a smaller number than one that was not asked for.  *)
LEMMA NumbersUnderWay ==
  ASSUME ClientInv, FramesInv, NEW n \in Conn, NEW k \in DOMAIN toServer[n]
  PROVE  /\ toServer[n][k] \in Frame
         /\ toServer[n][k].receipt # 0 =>
              /\ toServer[n][k].receipt \in Ids
              /\ toServer[n][k].receipt <= subscriptionId
              /\ asked[toServer[n][k].receipt] # NotAsked
<1>. PICK g : g = toServer[n][k]
  OBVIOUS
<1>1. Fits(g)
  BY DEF FramesInv, OnTheWire
<1>2. /\ g \in Frame
      /\ g.receipt # 0 => /\ g.receipt \in Ids /\ g.receipt <= subscriptionId
                          /\ asked[g.receipt] # NotAsked
  BY <1>1, FrameOnTheWire
<1>. QED
  BY <1>2

LEMMA JoinHendelFrames ==
  ASSUME ClientInv, FramesInv, joinHendel
  PROVE  FramesInv'
<1>. DEFINE s == subscriptionId
<1>1. /\ kpc = "join" /\ kpc' = "recordJoin" /\ s' = s + 2
      /\ kframe' = Subscribe(line.channel, s + 1, s + 2) /\ Ask(kframe')
      /\ UNCHANGED <<line, flags, channels>>
  BY DEF joinHendel
<1>2. line.channel \in Channel /\ line.command = "join"
  <2>1. line.args # "usage"
    BY <1>1 DEF ClientInv, LineLabels, HasArguments, Command
  <2>. QED
    BY <1>1, <2>1, LineChannel DEF ClientInv
<1>3. s \in Nat /\ s + 1 \in Ids /\ s + 2 \in Ids /\ asked[s + 2] = NotAsked
  BY <1>1, NextNumber
<1>4. TextOf(line) = Joined(line.channel)
  BY <1>2 DEF TextOf, Joined
<1>. PICK f : f = kframe'
  OBVIOUS
<1>5. /\ f \in Frame /\ f.command = "SUBSCRIBE" /\ f.id = s + 1
      /\ f.receipt = s + 2 /\ f.destination = line.channel
  <2>. HIDE DEF s
  <2>1. f = Subscribe(line.channel, s + 1, s + 2)
    BY <1>1
  <2>2. f.command = "SUBSCRIBE" /\ f.destination = line.channel
    BY <2>1 DEF Subscribe, Plain
  <2>3. s + 1 \in Nat
    BY <1>3
  <2>4. f \in Frame /\ f.id = s + 1 /\ f.receipt = s + 2
    BY ONLY <1>2, <1>3, <2>1, <2>3, SessionFrames
  <2>. QED
    BY <1>2, <2>2, <2>4
<1>6. /\ asked'[s + 2] = [text |-> Joined(line.channel), conn |-> sock]
      /\ \A r \in Ids : r # s + 2 => asked'[r] = asked[r]
  BY <1>1, <1>3, <1>4, <1>5 DEF Ask, ClientInv, ClientTypeOK, NetTypeOK
<1>7. \A ch \in Channel : channels[ch] \in Nat /\ channels[ch] <= s
  BY ChannelNumbers DEF ClientInv, ClientTypeOK, NumbersAreFresh
<1>8. Fits(f)'
  BY <1>2, <1>3, <1>5, <1>6 DEF Fits
<1>9. ASSUME NEW n \in Conn, NEW k \in DOMAIN toServer[n], NEW g,
             g = toServer[n][k], g.command = "UNSUBSCRIBE"
      PROVE  GivenUp(g.id)'
  <2>1. Fits(g)
    BY <1>9 DEF FramesInv, OnTheWire
  <2>2. g \in Frame /\ (g.receipt # 0 => g.receipt <= s)
    BY <1>9, NumbersUnderWay
  <2>. HIDE DEF s
  <2>3. GivenUp(g.id) /\ g.id + 1 < g.receipt
    BY <1>9, <2>1 DEF Fits
  <2>4. g.id \in Nat /\ g.receipt \in Nat
    BY <2>2, NumberTypes DEF Frame
  <2>5. g.receipt <= s
    BY <2>2, <2>3, <2>4
  <2>6. g.id < s + 1
    BY <1>3, <2>3, <2>4, <2>5
  <2>. QED
    BY <1>1, <1>3, <1>5, <2>3, <2>6 DEF GivenUp
<1>10. OnTheWire'
  <2>1. \A n \in Conn : \A k \in DOMAIN toServer[n] :
          toServer[n][k].receipt # 0 => toServer[n][k].receipt < f.receipt
    BY <1>3, <1>5, NumbersUnderWay, NumberTypes
  <2>. QED
    BY <1>1, <1>3, <1>5, <1>8, <1>9, <2>1, AskFrames
<1>11. Drawn'
  <2>. HIDE DEF s
  <2>1. \A ch \in Channel : channels'[ch] # 0 =>
          /\ channels'[ch] + 1 <= s + 2
          /\ asked'[channels'[ch] + 1].text = Joined(ch)
    <3>. SUFFICES ASSUME NEW ch \in Channel, channels[ch] # 0
                  PROVE  /\ channels[ch] + 1 <= s + 2
                         /\ asked'[channels[ch] + 1].text = Joined(ch)
      BY <1>1
    <3>1. channels[ch] + 1 <= s /\ asked[channels[ch] + 1].text = Joined(ch)
      BY DEF FramesInv, Drawn, s
    <3>2. channels[ch] \in Ids
      BY DEF ClientInv, ClientTypeOK, SharedTypeOK
    <3>3. channels[ch] + 1 \in Ids /\ channels[ch] + 1 # s + 2
      BY <1>3, <1>7, <3>1, <3>2, NumberTypes DEF Ids
    <3>. QED
      BY <1>3, <1>6, <1>7, <3>1, <3>3
  <2>2. \A ch \in Channel : channels'[ch] < s + 1
    BY <1>1, <1>3, <1>7
  <2>. QED
    BY <1>1, <1>2, <1>3, <1>5, <1>6, <2>1, <2>2 DEF Drawn, s
<1>. QED
  BY <1>10, <1>11 DEF FramesInv

LEMMA RecordJoinFrames ==
  ASSUME ClientInv, ClientInv', FramesInv, recordJoin
  PROVE  FramesInv'
<1>1. /\ kpc = "recordJoin" /\ kpc' = "loop"
      /\ channels' = [channels EXCEPT ![line.channel] = kframe.id]
      /\ UNCHANGED <<kframe, subscriptionId, toServer, asked>>
  BY DEF recordJoin
<1>2. /\ kframe.receipt = kframe.id + 1 /\ line.channel \in Channel
      /\ kframe.receipt \in 1 .. subscriptionId /\ subscriptionId \in Nat
      /\ asked[kframe.receipt].text = Joined(line.channel)
  BY <1>1 DEF FramesInv, Drawn, ClientInv, InHand, LineLabels, TextOf, Joined,
              ClientTypeOK, SharedTypeOK
<1>3. \A ch \in Channel :
        channels'[ch] = IF ch = line.channel THEN kframe.id ELSE channels[ch]
  BY <1>1 DEF ClientInv, ClientTypeOK, SharedTypeOK
<1>4. \A i : GivenUp(i) => GivenUp(i)'
  BY <1>1, <1>3 DEF GivenUp
<1>5. \A f : Fits(f) => Fits(f)'
  BY <1>1, <1>4 DEF Fits
<1>6. OnTheWire'
  <2>1. \A n \in Conn : InOrder(toServer'[n])
    BY <1>1 DEF FramesInv, OnTheWire
  <2>2. \A n \in Conn : \A k \in DOMAIN toServer'[n] : \A f :
          f = toServer'[n][k] => Fits(f)'
    BY <1>1, <1>5 DEF FramesInv, OnTheWire
  <2>. QED
    BY <1>1, <2>1, <2>2, NewWire
<1>7. \A ch \in Channel : channels'[ch] # 0 =>
        /\ channels'[ch] + 1 <= subscriptionId
        /\ asked[channels'[ch] + 1].text = Joined(ch)
  BY <1>2, <1>3 DEF FramesInv, Drawn
<1>8. Drawn'
  BY <1>1, <1>7 DEF Drawn
<1>. QED
  BY <1>6, <1>8 DEF FramesInv

(* exitHendel and recordLogout draw a number and send nothing yet.          *)
LEMMA DrawFrames ==
  ASSUME ClientInv, FramesInv, kpc' = "sendFrame", kpc # "recordJoin",
         subscriptionId' = subscriptionId + 1,
         kframe'.receipt = subscriptionId + 1,
         \A ch \in Channel : channels'[ch] \in {0, channels[ch]},
         \/ kframe'.command = "DISCONNECT" /\ line.command = "logout"
         \/ /\ kframe'.command = "UNSUBSCRIBE" /\ line.command = "exit"
            /\ kframe'.id # 0 /\ kframe'.id + 1 < subscriptionId + 1
            /\ GivenUp(kframe.id)',
         UNCHANGED <<line, toServer, asked>>
  PROVE  FramesInv'
<1>0. subscriptionId \in Nat
  BY DEF ClientInv, ClientTypeOK, SharedTypeOK
<1>1. ASSUME NEW f, Fits(f)
      PROVE  Fits(f)'
  <2>1. GivenUp(f.id) /\ f.id # 0 => GivenUp(f.id)'
    BY DEF GivenUp
  <2>. QED
    BY <1>1, <2>1 DEF Fits
<1>2. OnTheWire'
  <2>1. \A n \in Conn : InOrder(toServer'[n])
    BY DEF FramesInv, OnTheWire
  <2>2. \A n \in Conn : \A k \in DOMAIN toServer'[n] : \A f :
          f = toServer'[n][k] => Fits(f)'
    BY <1>1 DEF FramesInv, OnTheWire
  <2>. QED
    BY <2>1, <2>2, NewWire
<1>3. \A ch \in Channel : channels'[ch] # 0 =>
        /\ channels'[ch] + 1 <= subscriptionId + 1
        /\ asked[channels'[ch] + 1].text = Joined(ch)
  BY <1>0 DEF FramesInv, Drawn, ClientInv, ClientTypeOK, SharedTypeOK, Ids
<1>4. Drawn'
  BY <1>3 DEF Drawn
<1>. QED
  BY <1>2, <1>4 DEF FramesInv

LEMMA ExitHendelFrames ==
  ASSUME ClientInv, FramesInv, exitHendel
  PROVE  FramesInv'
<1>. DEFINE i == channels[line.channel]
<1>1. /\ kpc = "exit" /\ kpc' = "sendFrame" /\ i # 0
      /\ subscriptionId' = subscriptionId + 1
      /\ kframe' = Unsubscribe(i, subscriptionId + 1)
      /\ channels' = [channels EXCEPT ![line.channel] = 0]
      /\ UNCHANGED <<line, toServer, asked>>
  BY DEF exitHendel
<1>2. line.channel \in Channel /\ line.command = "exit"
  BY LineChannel DEF exitHendel, ClientInv
<1>3. channels \in [Channel -> {0} \cup Ids] /\ subscriptionId \in Nat
  BY DEF ClientInv, ClientTypeOK, SharedTypeOK
<1>4. i \in Nat /\ i + 1 <= subscriptionId
      /\ asked[i + 1].text = Joined(line.channel)
  BY <1>1, <1>2, <1>3, NumberTypes DEF FramesInv, Drawn
<1>5. \A ch \in Channel :
        channels'[ch] = IF ch = line.channel THEN 0 ELSE channels[ch]
  BY <1>1, <1>3
<1>6. \A ch \in Channel : channels'[ch] # i
  <2>. SUFFICES ASSUME NEW ch \in Channel, channels'[ch] = i
                PROVE  FALSE
    OBVIOUS
  <2>1. ch # line.channel /\ channels[ch] = i
    BY <1>1, <1>5
  <2>2. asked[i + 1].text = Joined(ch)
    BY <1>1, <2>1 DEF FramesInv, Drawn
  <2>3. Joined(ch).channel = ch /\ Joined(line.channel).channel = line.channel
    BY DEF Joined
  <2>. QED
    BY <1>4, <2>1, <2>2, <2>3
<1>7. /\ kframe'.command = "UNSUBSCRIBE" /\ kframe'.id = i
      /\ kframe'.receipt = subscriptionId + 1
  BY <1>1 DEF Unsubscribe, Plain
<1>8. GivenUp(kframe.id)'
  BY <1>1, <1>6, <1>7 DEF GivenUp
<1>9. kframe'.id + 1 < subscriptionId + 1
  BY <1>3, <1>4, <1>7
<1>. HIDE DEF i
<1>. QED
  BY <1>1, <1>2, <1>5, <1>7, <1>8, <1>9, DrawFrames

LEMMA RecordLogoutFrames ==
  ASSUME ClientInv, FramesInv, recordLogout
  PROVE  FramesInv'
<1>1. line.command = "logout"
  BY DEF ClientInv, LineLabels, recordLogout
<1>2. /\ kframe' = Disconnect(subscriptionId + 1)
      /\ Disconnect(subscriptionId + 1).command = "DISCONNECT"
      /\ Disconnect(subscriptionId + 1).receipt = subscriptionId + 1
  BY DEF recordLogout, Disconnect, Plain
<1>. QED
  BY <1>1, <1>2, DrawFrames DEF recordLogout

LEMMA SendFrameFrames ==
  ASSUME ClientInv, FramesInv, sendFrame
  PROVE  FramesInv'
<1>. DEFINE r == kframe.receipt
<1>1. /\ kpc = "sendFrame" /\ kpc' = "loop" /\ Ask(kframe)
      /\ UNCHANGED <<line, kframe, channels, subscriptionId>>
  BY DEF sendFrame
<1>2. /\ kframe \in Frame /\ r = subscriptionId /\ r \in Ids
      /\ asked[r] = NotAsked
      /\ subscriptionId \in Nat
  <2>1. r \in 1 .. subscriptionId /\ asked[r] = NotAsked
    BY <1>1 DEF ClientInv, InHand
  <2>2. kframe \in Frame /\ subscriptionId \in Nat
    BY DEF ClientInv, ClientTypeOK, ThreadTypeOK, SharedTypeOK
  <2>3. r # 0
    BY <2>1, <2>2
  <2>. QED
    BY <1>1, <2>1, <2>2, <2>3 DEF FramesInv, Drawn, Frame
<1>3. \/ kframe.command = "DISCONNECT" /\ line.command = "logout"
      \/ /\ kframe.command = "UNSUBSCRIBE" /\ line.command = "exit"
         /\ kframe.id # 0 /\ kframe.id + 1 < r /\ GivenUp(kframe.id)
  BY <1>1, <1>2 DEF FramesInv, Drawn
<1>4. /\ asked'[r] = [text |-> TextOf(line), conn |-> sock]
      /\ \A q \in Ids : q # r => asked'[q] = asked[q]
  BY <1>1, <1>2 DEF Ask, ClientInv, ClientTypeOK, NetTypeOK
<1>5. \A i : GivenUp(i) => GivenUp(i)'
  BY <1>1 DEF GivenUp
<1>. PICK f : f = kframe
  OBVIOUS
<1>6. f.receipt = r /\ f.receipt \in Ids /\ asked[f.receipt] = NotAsked
  BY <1>2
<1>7. Fits(f)'
  <2>1. CASE kframe.command = "DISCONNECT" /\ line.command = "logout"
    <3>1. TextOf(line) = LoggedOut
      BY <2>1 DEF TextOf
    <3>. QED
      BY <1>4, <2>1, <3>1 DEF Fits
  <2>2. CASE /\ kframe.command = "UNSUBSCRIBE" /\ line.command = "exit"
             /\ kframe.id # 0 /\ kframe.id + 1 < r /\ GivenUp(kframe.id)
    <3>1. TextOf(line).what = "Exited channel"
      BY <2>2 DEF TextOf
    <3>2. GivenUp(f.id)'
      BY <1>5, <2>2
    <3>3. asked'[f.receipt].text.what = "Exited channel"
      <4>1. asked'[f.receipt].text = TextOf(line)
        BY <1>4, <1>6
      <4>. QED
        BY <3>1, <4>1
    <3>4. /\ f.command = "UNSUBSCRIBE" /\ f.id # 0 /\ f.id + 1 < f.receipt
      BY <2>2
    <3>. QED
      BY ONLY <3>2, <3>3, <3>4 DEF Fits
  <2>. QED
    BY <1>3, <2>1, <2>2
<1>8. \A n \in Conn : \A k \in DOMAIN toServer[n] :
        toServer[n][k].receipt # 0 => toServer[n][k].receipt < f.receipt
  <2>. SUFFICES ASSUME NEW n \in Conn, NEW k \in DOMAIN toServer[n],
                       toServer[n][k].receipt # 0
                PROVE  toServer[n][k].receipt < f.receipt
    OBVIOUS
  <2>1. /\ toServer[n][k].receipt \in Nat
        /\ toServer[n][k].receipt <= subscriptionId
        /\ toServer[n][k].receipt # r
    BY <1>2, NumbersUnderWay, NumberTypes
  <2>. QED
    BY <1>2, <1>6, <2>1
<1>9. \A n \in Conn : \A k \in DOMAIN toServer[n] : \A g :
        g = toServer[n][k] /\ g.command = "UNSUBSCRIBE" => GivenUp(g.id)'
  BY <1>5 DEF FramesInv, OnTheWire, Fits
<1>10. OnTheWire'
  <2>1. f.command # "CONNECT" /\ f \in Frame /\ Ask(f)
    BY <1>1, <1>2, <1>3
  <2>. HIDE DEF r
  <2>. QED
    BY <1>1, <1>6, <1>7, <1>8, <1>9, <2>1, AskFrames
<1>11. Drawn'
  <2>1. \A ch \in Channel : channels[ch] # 0 =>
          /\ channels[ch] + 1 \in Ids /\ channels[ch] + 1 # r
          /\ channels[ch] + 1 <= subscriptionId
          /\ asked[channels[ch] + 1].text = Joined(ch)
    <3>. SUFFICES ASSUME NEW ch \in Channel, channels[ch] # 0
                  PROVE  /\ channels[ch] + 1 \in Ids /\ channels[ch] + 1 # r
                         /\ channels[ch] + 1 <= subscriptionId
                         /\ asked[channels[ch] + 1].text = Joined(ch)
      OBVIOUS
    <3>1. /\ channels[ch] + 1 <= subscriptionId
          /\ asked[channels[ch] + 1].text = Joined(ch)
          /\ channels[ch] \in Ids
      BY DEF FramesInv, Drawn, ClientInv, ClientTypeOK, SharedTypeOK
    <3>2. Joined(ch).what # NotAsked.text.what
      BY DEF Joined, NotAsked, NoText
    <3>3. channels[ch] + 1 \in Ids
      BY <1>2, <3>1, NumberTypes DEF Ids
    <3>. QED
      BY <1>2, <3>1, <3>2, <3>3
  <2>2. \A ch \in Channel : channels'[ch] # 0 =>
          /\ channels'[ch] + 1 <= subscriptionId'
          /\ asked'[channels'[ch] + 1].text = Joined(ch)
    BY <1>1, <1>4, <2>1
  <2>. QED
    BY <1>1, <2>2 DEF Drawn
<1>. QED
  BY <1>10, <1>11 DEF FramesInv

LEMMA KeyboardFrames ==
  ASSUME ClientInv, ClientInv', FramesInv, Keyboard
  PROVE  FramesInv'
BY IdleKeyboardFrames, ConnectFrames, SendConnectFrames, ReportFrames,
   JoinHendelFrames, RecordJoinFrames, ExitHendelFrames, RecordLogoutFrames,
   SendFrameFrames DEF Keyboard

LEMMA FramesNext ==
  ASSUME ClientInv, ClientInv', FramesInv, [Next]_vars
  PROVE  FramesInv'
<1>1. CASE UNCHANGED vars
  <2>1. UNCHANGED <<channels, subscriptionId, asked, toServer, sock,
                    kpc, line, kframe>>
    BY <1>1 DEF vars
  <2>. QED
    BY <2>1, IdleFrames, NothingShrinks
<1>. QED
  BY <1>1, KeyboardFrames, ServerThreadFrames, PeerFrames DEF Next, Over

(* What StompProtocol has sent and not had answered fits what it keeps: a   *)
(* SUBSCRIBE its record of the receipt, an UNSUBSCRIBE a channel that is    *)
(* no more in channels, and all numbers are in the order they were drawn.   *)
THEOREM FramesFit == Spec => []FramesInv
<1>1. Init => FramesInv
  BY FramesInit
<1>2. ClientInv /\ ClientInv' /\ FramesInv /\ [Next]_vars => FramesInv'
  BY FramesNext
<1>. QED
  BY <1>1, <1>2, ClientInvariance, PTL DEF Spec
=============================================================================
