-------------------------- MODULE ActorThreadPool --------------------------
(***************************************************************************)
(* The ActorThreadPool of the reactor server.  The selector thread submits *)
(* the tasks of the connection handlers, which are its actors; a fixed     *)
(* number of worker threads, those of an ExecutorService, runs them.       *)
(* A set playingNow and a queue of pending tasks per actor see to it that  *)
(* the executor never has two tasks of one actor; both are guarded by the  *)
(* monitor of the actor (synchronized (act)).                              *)
(*                                                                         *)
(* A step is one access to shared state; pc[t] names the next one of       *)
(* thread t.  A task is the number it has among those of its actor.        *)
(***************************************************************************)
EXTENDS Integers, Sequences

CONSTANTS
  Act,        \* the actors
  Worker,     \* the threads of the executor
  Submitter,  \* the threads that submit: the selector thread
  Nobody,     \* owner of a free monitor
  MaxTasks    \* bound: how many tasks each actor is given

Thread == Worker \cup Submitter

ASSUME PoolAssumption ==
  /\ Worker \cap Submitter = {}
  /\ Nobody \notin Thread \cup Act
  /\ MaxTasks \in Nat

VARIABLES
  acts,        \* acts[a]: the pending tasks of a
  playingNow,  \* the actors that have a task in the executor
  monitor,     \* monitor[a]: the thread inside synchronized (a), or Nobody
  queue,       \* the jobs that the executor has not begun
  isShutdown,  \* shutdownNow was called
  pc, act, r,  \* per thread: next step, and the actor and task it deals with
  submitted,   \* submitted[a]: how many tasks a was given
  started      \* started[a]: how many of them a worker began

vars == <<acts, playingNow, monitor, queue, isShutdown, pc, act, r,
          submitted, started>>

(* The program points within a synchronized block.                          *)
Inside == {"contains", "add", "pending", "isEmpty", "remove", "poll",
           "execute", "exit"}

Job == [act : Act, task : Nat]

TypeOK ==
  /\ acts \in [Act -> Seq(Nat)]
  /\ playingNow \subseteq Act
  /\ monitor \in [Act -> Thread \cup {Nobody}]
  /\ queue \subseteq Job
  /\ isShutdown \in BOOLEAN
  /\ pc \in [Thread -> Inside \cup {"outside", "run", "complete"}]
  /\ act \in [Thread -> Act \cup {Nobody}]
  /\ r \in [Thread -> Nat]
  /\ submitted \in [Act -> Nat]
  /\ started \in [Act -> Nat]

Init ==
  /\ acts = [a \in Act |-> <<>>]
  /\ playingNow = {}
  /\ monitor = [a \in Act |-> Nobody]
  /\ queue = {}
  /\ isShutdown = FALSE
  /\ pc = [t \in Thread |-> "outside"]
  /\ act = [t \in Thread |-> Nobody]
  /\ r = [t \in Thread |-> 0]
  /\ submitted = [a \in Act |-> 0]
  /\ started = [a \in Act |-> 0]

GoTo(t, label) == pc' = [pc EXCEPT ![t] = label]

-----------------------------------------------------------------------------
(* Faulty variant: the block is not synchronized.                           *)
FaultyEnter(t, a, label) == UNCHANGED monitor /\ GoTo(t, label)

(* synchronized (act) { ... }                                               *)
enter(t, a, label) ==
  /\ monitor[a] = Nobody
  /\ monitor' = [monitor EXCEPT ![a] = t]
  /\ GoTo(t, label)

exit(t) ==
  /\ pc[t] = "exit"
  /\ monitor' = [monitor EXCEPT ![act[t]] = Nobody]
  /\ GoTo(t, "outside")
  /\ UNCHANGED <<acts, playingNow, queue, isShutdown, act, r, submitted,
                 started>>

-----------------------------------------------------------------------------
(* submit(act, r)                                                           *)
submit(t, a) ==
  /\ pc[t] = "outside"
  /\ ~isShutdown
  /\ submitted[a] < MaxTasks
  /\ enter(t, a, "contains")
  /\ act' = [act EXCEPT ![t] = a]
  /\ UNCHANGED <<acts, playingNow, queue, isShutdown, r, submitted, started>>

contains(t) ==
  /\ pc[t] = "contains"
  /\ GoTo(t, IF act[t] \in playingNow THEN "pending" ELSE "add")
  /\ UNCHANGED <<acts, playingNow, monitor, queue, isShutdown, act, r,
                 submitted, started>>

add(t) ==
  LET a == act[t] IN
  /\ pc[t] = "add"
  /\ playingNow' = playingNow \cup {a}
  /\ submitted' = [submitted EXCEPT ![a] = @ + 1]
  /\ r' = [r EXCEPT ![t] = submitted[a] + 1]
  /\ GoTo(t, "execute")
  /\ UNCHANGED <<acts, monitor, queue, isShutdown, act, started>>

(* pendingRunnablesOf(act).add(r): the map's own lock is held within.       *)
addPending(t) ==
  LET a == act[t] IN
  /\ pc[t] = "pending"
  /\ submitted' = [submitted EXCEPT ![a] = @ + 1]
  /\ acts' = [acts EXCEPT ![a] = Append(@, submitted[a] + 1)]
  /\ GoTo(t, "exit")
  /\ UNCHANGED <<playingNow, monitor, queue, isShutdown, act, r, started>>

(* threads.execute: a RejectedExecutionException after the shutdown, which  *)
(* leaves the synchronized block all the same.                              *)
execute(t) ==
  /\ pc[t] = "execute"
  /\ queue' = IF isShutdown THEN queue
              ELSE queue \cup {[act |-> act[t], task |-> r[t]]}
  /\ GoTo(t, "exit")
  /\ UNCHANGED <<acts, playingNow, monitor, isShutdown, act, r, submitted,
                 started>>

-----------------------------------------------------------------------------
(* A worker takes a job: the oldest, or the one it was started for when the *)
(* executor replaces a thread that died of an exception, so that jobs of    *)
(* different actors can overtake each other.                                *)
take(w) ==
  \E j \in queue :
    /\ pc[w] = "outside"
    /\ queue' = queue \ {j}
    /\ act' = [act EXCEPT ![w] = j.act]
    /\ r' = [r EXCEPT ![w] = j.task]
    /\ started' = [started EXCEPT ![j.act] = @ + 1]
    /\ GoTo(w, "run")
    /\ UNCHANGED <<acts, playingNow, monitor, isShutdown, submitted>>

(* The task returns or throws; complete is in the finally clause.           *)
run(w) ==
  /\ pc[w] = "run"
  /\ GoTo(w, "complete")
  /\ UNCHANGED <<acts, playingNow, monitor, queue, isShutdown, act, r,
                 submitted, started>>

complete(w) ==
  /\ pc[w] = "complete"
  /\ enter(w, act[w], "isEmpty")
  /\ UNCHANGED <<acts, playingNow, queue, isShutdown, act, r, submitted,
                 started>>

isEmpty(w) ==
  /\ pc[w] = "isEmpty"
  /\ GoTo(w, IF acts[act[w]] = <<>> THEN "remove" ELSE "poll")
  /\ UNCHANGED <<acts, playingNow, monitor, queue, isShutdown, act, r,
                 submitted, started>>

remove(w) ==
  /\ pc[w] = "remove"
  /\ playingNow' = playingNow \ {act[w]}
  /\ GoTo(w, "exit")
  /\ UNCHANGED <<acts, monitor, queue, isShutdown, act, r, submitted, started>>

(* Faulty variant: the youngest task is taken instead of the oldest.        *)
FaultyPoll(w) ==
  LET p == acts[act[w]] IN
  /\ pc[w] = "poll"
  /\ r' = [r EXCEPT ![w] = p[Len(p)]]
  /\ acts' = [acts EXCEPT ![act[w]] = SubSeq(p, 1, Len(p) - 1)]
  /\ GoTo(w, "execute")
  /\ UNCHANGED <<playingNow, monitor, queue, isShutdown, act, submitted, started>>

poll(w) ==
  LET p == acts[act[w]] IN
  /\ pc[w] = "poll"
  /\ r' = [r EXCEPT ![w] = Head(p)]
  /\ acts' = [acts EXCEPT ![act[w]] = Tail(p)]
  /\ GoTo(w, "execute")
  /\ UNCHANGED <<playingNow, monitor, queue, isShutdown, act, submitted, started>>

-----------------------------------------------------------------------------
(* shutdownNow, the last thing that the selector thread does: what is in    *)
(* the queue is dropped, what is running goes on.                           *)
shutdown ==
  /\ ~isShutdown
  /\ \A t \in Submitter : pc[t] = "outside"
  /\ isShutdown' = TRUE
  /\ queue' = {}
  /\ UNCHANGED <<acts, playingNow, monitor, pc, act, r, submitted, started>>

InSubmit(t) == contains(t) \/ add(t) \/ addPending(t) \/ execute(t) \/ exit(t)

Work(w) ==
  \/ take(w) \/ run(w) \/ complete(w) \/ isEmpty(w) \/ remove(w) \/ poll(w)
  \/ execute(w) \/ exit(w)

(* Within the bound MaxTasks: everything was submitted and run, or dropped. *)
AllDone ==
  /\ \A t \in Thread : pc[t] = "outside"
  /\ queue = {}
  /\ isShutdown \/ \A a \in Act : submitted[a] = MaxTasks
  /\ UNCHANGED vars

Next ==
  \/ \E t \in Submitter : InSubmit(t) \/ \E a \in Act : submit(t, a)
  \/ \E w \in Worker : Work(w)
  \/ shutdown
  \/ AllDone

Spec == Init /\ [][Next]_vars

(* Every thread is scheduled and every task ends; nobody has to submit.     *)
(* Weak fairness is enough for the monitors: an actor is given MaxTasks     *)
(* tasks at most, so nobody can be overtaken for ever.                      *)
Fairness ==
  /\ \A w \in Worker : WF_vars(Work(w))
  /\ \A t \in Submitter : WF_vars(InSubmit(t))

FairSpec == Spec /\ Fairness
=============================================================================
