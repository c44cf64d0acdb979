---------------------------- MODULE MCStompClient ----------------------------
(***************************************************************************)
(* An instance of StompClient for TLC: the lines that the user may type.   *)
(***************************************************************************)
EXTENDS StompClientProperties

Typed(cmd, ch) == [NoLine EXCEPT !.command = cmd, !.channel = ch]

Login == Typed("login", Null)
Logout == Typed("logout", Null)

(* A session, what may come after its logout, and lines gone wrong.         *)
Sessions ==
  [k \in 1 .. MaxLines |->
     CASE k = 1 -> {Login, [Login EXCEPT !.args = "throws"]}
       [] k = 2 -> {Typed("join", ch) : ch \in Channel} \cup
                   {[Typed("report", ch) EXCEPT !.events = 1] : ch \in Channel}
       [] k = 3 -> {Logout, [Typed("exit", Null) EXCEPT !.args = "usage"],
                    [Typed("report", Null) EXCEPT !.args = "throws"]} \cup
                   {Typed("summary", ch) : ch \in Channel}
       [] k = 4 -> {Login}
       [] OTHER -> {Typed("exit", ch) : ch \in Channel} \cup {Logout}]

=============================================================================
