---------------------------- MODULE MCStompServer ----------------------------
(***************************************************************************)
(* Instances of StompServer for TLC: how many frames each client may send, *)
(* and which ones.                                                         *)
(***************************************************************************)
EXTENDS StompServerProperties

Connect(u, p) ==
  [NoFrame EXCEPT !.commend = "CONNECT", !.login = u, !.passcode = p]
Send(ch) ==
  [NoFrame EXCEPT !.commend = "SEND", !.destination = ch, !.body = TRUE]
Subscribe(ch, i, r) ==
  [NoFrame EXCEPT !.commend = "SUBSCRIBE", !.destination = ch, !.id = i,
                  !.receipt = r]
Unsubscribe(i, r) ==
  [NoFrame EXCEPT !.commend = "UNSUBSCRIBE", !.id = i, !.receipt = r]
Disconnect == [NoFrame EXCEPT !.commend = "DISCONNECT", !.receipt = TRUE]
NoHeaders(cmd) == [NoFrame EXCEPT !.commend = cmd]
Unknown == NoFrame

(* An id that always means the same channel, as a client numbers them.      *)
IdOf == CHOOSE f \in [Channel -> SubId \ {-1}] :
          \A ch, dh \in Channel : f[ch] = f[dh] => ch = dh

NoSlash == [ch \in Channel |-> ch]
ToBareName == [ch \in Channel |-> CHOOSE bare \in Channel : TRUE]

IsLast(c) == c = MaxConnections - 1

OneFrame == [c \in Conn |-> 1]
TwoFrames == [c \in Conn |-> 2]
ThreeFrames == [c \in Conn |-> 3]
LastSendsTwo == [c \in Conn |-> IF IsLast(c) THEN 2 ELSE 3]
LastSendsFour == [c \in Conn |-> IF IsLast(c) THEN 4 ELSE 3]
AndMinusOne == {-1, 1, 2}

(* Logging in and out, and frames that end the session.                     *)
SessionFrames ==
  [c \in Conn |-> {Connect(u, p) : u \in User, p \in Password}
                    \cup {Disconnect, Unknown, NoHeaders("DISCONNECT")}]

(* Publishing and subscribing by clients that use an id for one channel.    *)
PubSubFrames ==
  [c \in Conn |->
     UNION {{Send(ch), Subscribe(ch, IdOf[ch], TRUE),
             Unsubscribe(IdOf[ch], TRUE)} : ch \in Channel}
       \cup {Connect(u, p) : u \in User, p \in Password} \cup {Disconnect}]

(* Publishers on the same channels, the last of whom also leaves and comes  *)
(* back.                                                                    *)
BroadcastFrames ==
  [c \in Conn |->
     UNION {{Subscribe(ch, IdOf[ch], TRUE), Send(ch)}
              \cup (IF IsLast(c) THEN {Unsubscribe(IdOf[ch], TRUE)} ELSE {}) :
            ch \in Channel}]

(* Every way a frame about channels can be wrong or careless: frames that   *)
(* lack something come from the first client, the id -1 from the last.      *)
IdsOf(c) == IF -1 \in SubId /\ IsLast(c) THEN {-1, 1} ELSE SubId \ {-1}

CarelessFrames ==
  [c \in Conn |->
     {Send(ch) : ch \in Channel}
       \cup {Subscribe(ch, i, TRUE) : ch \in Channel, i \in IdsOf(c)}
       \cup {Unsubscribe(i, TRUE) : i \in IdsOf(c)}
       \cup {Unknown, Disconnect}
       \cup IF IsLast(c) THEN {}
            ELSE {Subscribe(ch, IdOf[ch], FALSE) : ch \in Channel}
                   \cup {Subscribe(CHOOSE ch \in Channel : TRUE, NotANumber, TRUE),
                         Unsubscribe(NotANumber, TRUE)}
                   \cup {NoHeaders(cmd) : cmd \in Commend}]
=============================================================================
