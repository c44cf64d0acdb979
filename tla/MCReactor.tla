------------------------------ MODULE MCReactor ------------------------------
(***************************************************************************)
(* Instances of Reactor for TLC.                                           *)
(***************************************************************************)
EXTENDS ReactorProperties

TwoOfAnyKind == [c \in Conn |-> <<Kind, Kind>>]
ThreeReads == [c \in Conn |-> <<1 .. 4, 1 .. 4, 1 .. 4>>]

(* A client that publishes, and one that subscribes and then sends what is  *)
(* no command, while the first one's message is on its way; or that makes   *)
(* the first one wait for the lock of the database for ever.                *)
PublishAndListen ==
  [c \in Conn |-> IF c = 0 THEN <<{"SUBSCRIBE"}, {"SEND"}>>
                  ELSE <<{"SUBSCRIBE", "UNSUBSCRIBE"}, {"Unknown"}>>]
OneRead == [c \in Conn |-> <<{2 * Len(Kinds[c])}>>]
=============================================================================
