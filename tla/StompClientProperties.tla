------------------------ MODULE StompClientProperties ------------------------
(***************************************************************************)
(* What makes the client correct, although its two threads share           *)
(* everything without a lock, and the inductive invariant of the proofs.   *)
(***************************************************************************)
EXTENDS StompClient

-----------------------------------------------------------------------------
(* Safety.                                                                  *)

(* Whatever the server confirms, the client knows what it asked for, over   *)
(* all its sessions: the text of a receipt is recorded when its frame is on *)
(* the wire, but while joinHendel is between the two, and unless two        *)
(* accesses to the map met.                                                 *)
EveryReceiptIsUnderstood ==
  \A r \in Ids :
    \/ asked[r].text = NoText
    \/ reciepts[r] = asked[r].text
    \/ kpc = "recordJoin" /\ kframe.receipt = r
    \/ raced

(* Who counts as logged in has a connection: logingHendel sets the flag     *)
(* after connecting and the server thread clears it before closing, and no  *)
(* order of the two lets an old logout close a new session.                 *)
LoggedInHasSocket == isConnected => sock # NoSocket \/ Ended

(* What ends a connection, but for the end of the program, is the receipt   *)
(* of a logout that was asked for on this very connection.  Of one that the *)
(* server has broken off the last frame may be cut within its number, which *)
(* then can be an earlier logout's: the client closes what is broken.       *)
BrokenOff == sframe.cut /\ peer[sock] = "gone" /\ fromServer[sock] = <<>>

OnlyItsLogoutCloses ==
  [][sock # NoSocket /\ sock' # sock =>
       \/ Ended
       \/ asked[sframe.receiptId] = [text |-> LoggedOut, conn |-> sock]
       \/ BrokenOff]_vars

-----------------------------------------------------------------------------
(* Liveness, under Fairness.                                                *)

(* An ERROR ends the program, both threads and the connection, as soon as   *)
(* the keyboard thread is not waiting for the user.                         *)
ErrorEndsTheProgram ==
  isTerminate /\ ~AwaitsInput ~>
    aborted \/ AtBound \/ (Ended /\ sock = NoSocket)

LogoutConfirmed(n) ==
  /\ sock = n /\ isConect /\ ~isTerminate
  /\ \E k \in DOMAIN fromServer[n] :
       LET a == fromServer[n][k] IN
       /\ a.command = "RECEIPT" /\ ~a.cut
       /\ a.receiptId # 0 /\ asked[a.receiptId].text = LoggedOut

(* A logout that the server confirmed is noticed, unless the connection or  *)
(* the program ended first, two accesses to the map met, or this session    *)
(* began while the last one was being closed, whose end then clears         *)
(* isConect: such a client never reads.                                     *)
LogoutEndsTheSession ==
  \A n \in Conn :
    LogoutConfirmed(n) ~>
      ~isConnected \/ peer[n] = "gone" \/ isTerminate \/ aborted \/ raced
        \/ ~isConect

-----------------------------------------------------------------------------
(* The inductive invariant.                                                 *)

LoggingIn == kpc \in {"setConect", "sendConnect", "setConnected"}
LineLabels ==
  /\ kpc \in Command => line.command = kpc /\ HasArguments(line)
  /\ kpc = "recordJoin" => line.command = "join"
  /\ kpc = "recordLogout" => line.command = "logout"
  /\ kpc = "sendFrame" => line.command \in {"exit", "logout"}
  /\ line # NoLine => typed > 0 /\ line \in UNION {Lines[k] : k \in 1 .. typed}

(* Numbers are drawn from a counter that no session resets.                 *)
NumbersAreFresh ==
  /\ subscriptionId <= 2 * typed
  /\ kpc \in {"join", "exit", "logout", "recordLogout"}
       => subscriptionId + 2 <= 2 * typed
  /\ \A ch \in Channel : channels[ch] <= subscriptionId
  /\ \A r \in Ids : r > subscriptionId
       => asked[r] = NotAsked /\ reciepts[r] = NoText

(* What the keyboard thread has recorded and not sent, or sent and not      *)
(* recorded.                                                                *)
InHand ==
  /\ kpc = "sendFrame" =>
       /\ kframe.receipt \in 1 .. subscriptionId
       /\ asked[kframe.receipt] = NotAsked
       /\ \/ reciepts[kframe.receipt] = TextOf(line)
          \/ raced /\ reciepts[kframe.receipt] = NoText
  /\ kpc = "recordJoin" =>
       /\ kframe.receipt \in 1 .. subscriptionId
       /\ kframe.id \in 1 .. subscriptionId
       /\ asked[kframe.receipt].text = TextOf(line)
       /\ reciepts[kframe.receipt] = NoText
  /\ \A r \in Ids :
       \/ reciepts[r] = NoText
       \/ reciepts[r] = asked[r].text
       \/ kpc = "sendFrame" /\ kframe.receipt = r

(* What is under way belongs to the connection of the socket.               *)
Expected(r, n) == r # 0 /\ asked[r].conn = n
RequestOf(f, n) == f.command \in {"CONNECT", "SEND"} \/ Expected(f.receipt, n)
AnswerOf(a, n) ==
  /\ a.receiptId # 0 \/ a.command = "RECEIPT" => Expected(a.receiptId, n)
  /\ a.command = "MESSAGE" => a.destination \in Channel

OneConnection ==
  /\ \A n \in Conn : n # sock =>
       toServer[n] = <<>> /\ fromServer[n] = <<>> /\ peer[n] \in {"none", "gone"}
  /\ \A n \in Conn : n >= connections => peer[n] = "none"
Requests == \A n \in Conn : \A k \in DOMAIN toServer[n] :
              RequestOf(toServer[n][k], n)
AnswersToCome == \A n \in Conn : \A k \in DOMAIN fromServer[n] :
                   AnswerOf(fromServer[n][k], n)
CutAtTheEnd(s, p) == \A k \in DOMAIN s : s[k].cut => k = Len(s) /\ p = "gone"
OnlyTheLastIsCut == \A n \in Conn : CutAtTheEnd(fromServer[n], peer[n])
SomethingAsked(n) == \E r \in Ids : asked[r].conn = n
AnswerInHand ==
  /\ spc \in {"receipt", "loggedOut", "close"} =>
       sock # NoSocket /\ SomethingAsked(sock)
  /\ spc = "receipt" =>
       BrokenOff \/ (sframe.receiptId # 0 => Expected(sframe.receiptId, sock))
  /\ spc \in {"loggedOut", "close"} =>
       /\ sframe.receiptId \in Ids
       /\ \/ BrokenOff
          \/ asked[sframe.receiptId] = [text |-> LoggedOut, conn |-> sock]

(* Login against logout.                                                    *)
SessionsApart ==
  /\ sock # NoSocket => sock = connections - 1
  /\ \A r \in Ids : asked[r].conn < connections
  /\ LoggingIn =>
       /\ sock # NoSocket /\ ~isConnected
       /\ \A r \in Ids : asked[r].conn # sock
  /\ kpc = "login" => ~isConnected
  /\ spc = "close" => ~isConnected
  /\ isConect => sock # NoSocket \/ spc = "clearConect"
  /\ spc = "ended" => isTerminate
  /\ kpc = "ended" => isTerminate

ClientInv ==
  /\ ClientTypeOK
  /\ LineLabels /\ NumbersAreFresh /\ InHand
  /\ OneConnection /\ Requests /\ AnswersToCome /\ OnlyTheLastIsCut
  /\ AnswerInHand /\ SessionsApart
  /\ EveryReceiptIsUnderstood
  /\ LoggedInHasSocket

-----------------------------------------------------------------------------
(* What the frames under way are about, for those who ask what the server   *)
(* makes of them.                                                           *)

Joined(ch) == [what |-> "Joined channel", channel |-> ch]

(* No channel of the map has subscription i, or is about to have it.        *)
GivenUp(i) ==
  /\ \A ch \in Channel : channels[ch] # i
  /\ kpc = "recordJoin" => kframe.id # i

(* A subscription is i and its receipt i + 1, drawn for one channel; it is  *)
(* given up before the frame that ends it.                                  *)
Fits(f) ==
  /\ f.command \in {"CONNECT", "SEND"} => f.receipt = 0
  /\ f.command = "SUBSCRIBE" =>
       /\ f.id # 0 /\ f.receipt = f.id + 1 /\ f.destination \in Channel
       /\ asked[f.receipt].text = Joined(f.destination)
  /\ f.command = "UNSUBSCRIBE" =>
       /\ f.id # 0 /\ f.id + 1 < f.receipt /\ GivenUp(f.id)
       /\ asked[f.receipt].text.what = "Exited channel"
  /\ f.command = "DISCONNECT" => asked[f.receipt].text = LoggedOut

(* The numbers of frames under way grow, and CONNECT is the first of all.   *)
InOrder(s) ==
  \A k \in DOMAIN s :
    /\ s[k].command = "CONNECT" => k = 1
    /\ \A j \in DOMAIN s :
         j < k /\ s[j].receipt # 0 /\ s[k].receipt # 0
           => s[j].receipt < s[k].receipt

OnTheWire ==
  /\ \A n \in Conn : /\ InOrder(toServer[n])
                     /\ \A k \in DOMAIN toServer[n] : Fits(toServer[n][k])
  /\ kpc \in {"setConect", "sendConnect"} => toServer[sock] = <<>>

(* What the keyboard thread has drawn, and where it noted it.               *)
Drawn ==
  /\ kpc = "recordJoin" =>
       /\ kframe.receipt = kframe.id + 1 /\ line.channel \in Channel
       /\ \A ch \in Channel : channels[ch] < kframe.id
       /\ sock # NoSocket => asked[kframe.receipt].conn = sock
  /\ kpc = "sendFrame" =>
       /\ kframe.receipt = subscriptionId
       /\ \/ kframe.command = "DISCONNECT" /\ line.command = "logout"
          \/ /\ kframe.command = "UNSUBSCRIBE" /\ line.command = "exit"
             /\ kframe.id # 0 /\ kframe.id + 1 < subscriptionId
             /\ GivenUp(kframe.id)
  /\ \A ch \in Channel : channels[ch] # 0 =>
       /\ channels[ch] + 1 <= subscriptionId
       /\ asked[channels[ch] + 1].text = Joined(ch)

FramesInv == OnTheWire /\ Drawn
=============================================================================
