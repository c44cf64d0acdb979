---------------------------- MODULE ActorMailbox ----------------------------
(***************************************************************************)
(* What the ActorThreadPool promises the Reactor: every actor has a        *)
(* mailbox, and its tasks run one at a time, in the order in which they    *)
(* were submitted, whatever the tasks of the other actors do.              *)
(***************************************************************************)
EXTENDS Integers

CONSTANT Act      \* the actors: the connection handlers of the reactor

VARIABLES
  submitted,      \* submitted[a]: how many tasks a was given, 1, 2, ...
  started,        \* started[a]: how many of them were begun
  active          \* active[a]: the tasks of a that are running now

mailboxVars == <<submitted, started, active>>

Init ==
  /\ submitted = [a \in Act |-> 0]
  /\ started = [a \in Act |-> 0]
  /\ active = [a \in Act |-> {}]

Submit(a) ==
  /\ submitted' = [submitted EXCEPT ![a] = @ + 1]
  /\ UNCHANGED <<started, active>>

Start(a) ==
  /\ active[a] = {}
  /\ started[a] < submitted[a]
  /\ started' = [started EXCEPT ![a] = @ + 1]
  /\ active' = [active EXCEPT ![a] = {started[a] + 1}]
  /\ UNCHANGED submitted

Finish(a) ==
  /\ active[a] # {}
  /\ active' = [active EXCEPT ![a] = {}]
  /\ UNCHANGED <<submitted, started>>

Next == \E a \in Act : Submit(a) \/ Start(a) \/ Finish(a)

Spec == Init /\ [][Next]_mailboxVars
=============================================================================
