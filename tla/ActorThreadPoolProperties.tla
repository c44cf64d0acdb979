---------------------- MODULE ActorThreadPoolProperties ----------------------
(***************************************************************************)
(* What makes the ActorThreadPool correct: it implements ActorMailbox, and *)
(* no task is ever left pending with nobody to take it up.                 *)
(***************************************************************************)
EXTENDS ActorThreadPool

(* The refinement mapping: the tasks that workers are running, per actor.   *)
Running(a) == {r[w] : w \in {x \in Worker : pc[x] = "run" /\ act[x] = a}}

Mailbox == INSTANCE ActorMailbox WITH active <- [a \in Act |-> Running(a)]

(* The tasks of an actor run one at a time and in the order of submit's     *)
(* calls, although several workers run them and they pass through two       *)
(* queues (ActorThreadPool.java:28-76).                                     *)
ImplementsMailbox == Mailbox!Spec

(* The threads that have the one task of their actor which is in the        *)
(* executor: from execute to complete, on either side of its queue.         *)
HasTask(t) ==
  pc[t] \in {"execute", "run", "complete", "isEmpty", "remove", "poll"}

InExecutor(a) ==
  \/ \E t \in Thread : HasTask(t) /\ act[t] = a
  \/ \E j \in queue : j.act = a

(* No lost wake-up: while an actor has pending tasks, or only counts as     *)
(* playing, one of its tasks is on its way to complete, which takes the     *)
(* next one up (complete's check races submit's).                           *)
NobodyIsForgotten ==
  \A a \in Act : acts[a] # <<>> \/ a \in playingNow => isShutdown \/ InExecutor(a)

-----------------------------------------------------------------------------
(* The inductive invariant behind both.                                     *)

MonitorsAreHeld == \A t \in Thread : pc[t] \in Inside => monitor[act[t]] = t

(* The executor has one task of an actor at most.                           *)
OneTaskEach ==
  /\ \A s, t \in Thread : HasTask(s) /\ HasTask(t) /\ act[s] = act[t] => s = t
  /\ \A i, j \in queue : i.act = j.act => i = j
  /\ \A t \in Thread : \A j \in queue : HasTask(t) => act[t] # j.act

PlayersArePlaying ==
  /\ \A t \in Thread : HasTask(t) \/ pc[t] = "pending" => act[t] \in playingNow
  /\ \A j \in queue : j.act \in playingNow
  /\ \A t \in Thread : pc[t] = "add" => act[t] \notin playingNow

(* Task k of a is in the executor: what is pending are the tasks after it.  *)
PendingAfter(a, k) ==
  /\ Len(acts[a]) = submitted[a] - k
  /\ \A i \in 1 .. Len(acts[a]) : acts[a][i] = k + i

InOrder ==
  /\ \A j \in queue : started[j.act] = j.task - 1 /\ PendingAfter(j.act, j.task)
  /\ \A t \in Thread : HasTask(t) =>
       /\ PendingAfter(act[t], r[t])
       /\ started[act[t]] = IF pc[t] = "execute" THEN r[t] - 1 ELSE r[t]
       /\ pc[t] = "remove" => acts[act[t]] = <<>>
       /\ pc[t] = "poll" => acts[act[t]] # <<>>
  /\ \A a \in Act \ playingNow : acts[a] = <<>> /\ started[a] = submitted[a]

(* Who is where: the paths of submit are the submitters', those of complete *)
(* the workers', and no submit is under way at the shutdown.                *)
Roles ==
  /\ \A t \in Thread : pc[t] # "outside" => act[t] \in Act
  /\ \A t \in Submitter :
       /\ pc[t] \in {"outside", "contains", "add", "pending", "execute", "exit"}
       /\ isShutdown => pc[t] = "outside"
  /\ \A w \in Worker : pc[w] \notin {"contains", "add", "pending"}
  /\ \A j \in queue : ~isShutdown

PoolInv ==
  /\ TypeOK
  /\ Roles
  /\ MonitorsAreHeld
  /\ OneTaskEach
  /\ PlayersArePlaying
  /\ InOrder
  /\ NobodyIsForgotten

-----------------------------------------------------------------------------
(* Liveness, under Fairness.                                                *)

(* Whatever is submitted is eventually run, if the pool is not shut down.   *)
EveryTaskRuns ==
  \A a \in Act : \A k \in 1 .. MaxTasks :
    submitted[a] >= k ~> started[a] >= k \/ isShutdown
=============================================================================
