---------------------------- MODULE MCStompSystem ----------------------------
(***************************************************************************)
(* Instances of StompSystem for TLC: the lines that the user may type.     *)
(***************************************************************************)
EXTENDS StompSystem

Typed(cmd, ch) == [NoLine EXCEPT !.command = cmd, !.channel = ch]
Login == Typed("login", Null)
Logout == Typed("logout", Null)
Report(ch) == [Typed("report", ch) EXCEPT !.events = 1]

(* A first session, what may still be sent before its logout is confirmed,  *)
(* a second one, in which receipts have numbers that begin like the logout  *)
(* before, and what may end that: a broadcast while the thread of the first *)
(* connection still serves.                                                 *)
FirstChannel == CHOOSE ch \in Channel : TRUE

TwoSessions ==
  [k \in 1 .. MaxLines |->
     CASE k = 1 -> {Login}
       [] k = 2 -> {Typed("join", FirstChannel), Logout}
       [] k = 3 -> {Logout, Typed("exit", FirstChannel), Typed("join", FirstChannel)}
                   \cup {Report(ch) : ch \in Channel \ {FirstChannel}}
       [] k = 4 -> {Login}
       [] k = 5 -> {Typed("exit", FirstChannel)} \cup
                   {Typed("join", ch) : ch \in Channel}
       [] OTHER -> {Report(FirstChannel)}]
=============================================================================
