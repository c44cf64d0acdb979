------------------------ MODULE ActorThreadPoolProofs ------------------------
(***************************************************************************)
(* Proofs about the ActorThreadPool, for any sets of actors, workers and   *)
(* submitters.                                                             *)
(***************************************************************************)
EXTENDS ActorThreadPoolProperties, TLAPS

LEMMA SubmitInv ==
  ASSUME PoolInv, NEW t \in Submitter, NEW a \in Act, submit(t, a)
  PROVE  PoolInv'
<1>. USE PoolAssumption DEF GoTo, Thread, Inside, HasTask, submit, enter
<1>. TypeOK /\ Roles /\ MonitorsAreHeld /\ OneTaskEach /\ PlayersArePlaying
       /\ InOrder /\ NobodyIsForgotten
  BY DEF PoolInv
<1>1. TypeOK'
  BY DEF TypeOK, Job, Roles
<1>2. Roles'
  BY DEF Roles, TypeOK
<1>3. MonitorsAreHeld'
  BY DEF MonitorsAreHeld, Roles, TypeOK
<1>4. OneTaskEach'
  BY DEF OneTaskEach, MonitorsAreHeld, PlayersArePlaying, Roles, TypeOK
<1>5. PlayersArePlaying'
  BY DEF PlayersArePlaying, OneTaskEach, MonitorsAreHeld, Roles, TypeOK
<1>6. InOrder'
  BY DEF InOrder, PendingAfter, OneTaskEach, PlayersArePlaying, Roles, TypeOK
<1>7. NobodyIsForgotten'
  BY DEF NobodyIsForgotten, InExecutor, PlayersArePlaying, Roles, TypeOK
<1>. QED
  BY <1>1, <1>2, <1>3, <1>4, <1>5, <1>6, <1>7 DEF PoolInv

LEMMA ContainsInv ==
  ASSUME PoolInv, NEW t \in Submitter, contains(t)
  PROVE  PoolInv'
<1>. USE PoolAssumption DEF GoTo, Thread, Inside, HasTask, contains
<1>. TypeOK /\ Roles /\ MonitorsAreHeld /\ OneTaskEach /\ PlayersArePlaying
       /\ InOrder /\ NobodyIsForgotten
  BY DEF PoolInv
<1>1. TypeOK'
  BY DEF TypeOK, Job, Roles
<1>2. Roles'
  BY DEF Roles, TypeOK
<1>3. MonitorsAreHeld'
  BY DEF MonitorsAreHeld, Roles, TypeOK
<1>4. OneTaskEach'
  BY DEF OneTaskEach, MonitorsAreHeld, PlayersArePlaying, Roles, TypeOK
<1>5. PlayersArePlaying'
  BY DEF PlayersArePlaying, OneTaskEach, MonitorsAreHeld, Roles, TypeOK
<1>6. InOrder'
  BY DEF InOrder, PendingAfter, OneTaskEach, PlayersArePlaying, Roles, TypeOK
<1>7. NobodyIsForgotten'
  BY DEF NobodyIsForgotten, InExecutor, PlayersArePlaying, Roles, TypeOK
<1>. QED
  BY <1>1, <1>2, <1>3, <1>4, <1>5, <1>6, <1>7 DEF PoolInv

LEMMA AddInv ==
  ASSUME PoolInv, NEW t \in Submitter, add(t)
  PROVE  PoolInv'
<1>. USE PoolAssumption DEF GoTo, Thread, Inside, HasTask, add
<1>. TypeOK /\ Roles /\ MonitorsAreHeld /\ OneTaskEach /\ PlayersArePlaying
       /\ InOrder /\ NobodyIsForgotten
  BY DEF PoolInv
<1>1. TypeOK'
  BY DEF TypeOK, Job, Roles
<1>2. Roles'
  BY DEF Roles, TypeOK
<1>3. MonitorsAreHeld'
  BY DEF MonitorsAreHeld, Roles, TypeOK
<1>4. OneTaskEach'
  BY DEF OneTaskEach, MonitorsAreHeld, PlayersArePlaying, Roles, TypeOK
<1>5. PlayersArePlaying'
  BY DEF PlayersArePlaying, OneTaskEach, MonitorsAreHeld, Roles, TypeOK
<1>6. InOrder'
  <2>. DEFINE a == act[t]
  <2>1. /\ a \in Act \ playingNow /\ submitted[a] \in Nat
        /\ acts[a] = <<>> /\ started[a] = submitted[a]
    BY DEF PlayersArePlaying, Roles, InOrder, TypeOK
  <2>2. /\ submitted'[a] = submitted[a] + 1 /\ r'[t] = submitted[a] + 1
        /\ pc'[t] = "execute"
        /\ \A b \in Act \ {a} : submitted'[b] = submitted[b]
        /\ \A s \in Thread \ {t} : r'[s] = r[s] /\ pc'[s] = pc[s]
    BY <2>1 DEF TypeOK
  <2>3. PendingAfter(a, r[t])'
    BY <2>1, <2>2 DEF PendingAfter
  <2>4. \A b \in Act \ {a}, k \in Nat : PendingAfter(b, k) => PendingAfter(b, k)'
    BY <2>2 DEF PendingAfter
  <2>5. \A j \in queue : j.act \in Act \ {a} /\ j.task \in Nat
    BY <2>1 DEF PlayersArePlaying, TypeOK, Job
  <2>6. \A s \in Thread \ {t} : HasTask(s) => act[s] \in Act \ {a} /\ r[s] \in Nat
    BY <2>1 DEF PlayersArePlaying, TypeOK
  <2>7. \A j \in queue' : /\ started'[j.act] = j.task - 1
                          /\ PendingAfter(j.act, j.task)'
    BY <2>4, <2>5 DEF InOrder
  <2>8. \A s \in Thread \ {t} : HasTask(s)' =>
          /\ PendingAfter(act[s], r[s])'
          /\ started'[act'[s]] = IF pc'[s] = "execute" THEN r'[s] - 1 ELSE r'[s]
          /\ pc'[s] = "remove" => acts'[act'[s]] = <<>>
          /\ pc'[s] = "poll" => acts'[act'[s]] # <<>>
    BY <2>2, <2>4, <2>6 DEF InOrder
  <2>9. \A b \in Act \ playingNow' : acts'[b] = <<>> /\ started'[b] = submitted'[b]
    BY <2>2 DEF InOrder
  <2>. QED
    BY <2>1, <2>2, <2>3, <2>7, <2>8, <2>9 DEF InOrder
<1>7. NobodyIsForgotten'
  BY DEF NobodyIsForgotten, InExecutor, PlayersArePlaying, Roles, TypeOK
<1>. QED
  BY <1>1, <1>2, <1>3, <1>4, <1>5, <1>6, <1>7 DEF PoolInv

LEMMA AddPendingInv ==
  ASSUME PoolInv, NEW t \in Submitter, addPending(t)
  PROVE  PoolInv'
<1>. USE PoolAssumption DEF GoTo, Thread, Inside, HasTask, addPending
<1>. TypeOK /\ Roles /\ MonitorsAreHeld /\ OneTaskEach /\ PlayersArePlaying
       /\ InOrder /\ NobodyIsForgotten
  BY DEF PoolInv
<1>1. TypeOK'
  BY SMTT(30) DEF TypeOK, Job, Roles
<1>2. Roles'
  BY DEF Roles, TypeOK
<1>3. MonitorsAreHeld'
  BY DEF MonitorsAreHeld, Roles, TypeOK
<1>4. OneTaskEach'
  BY DEF OneTaskEach, MonitorsAreHeld, PlayersArePlaying, Roles, TypeOK
<1>5. PlayersArePlaying'
  BY DEF PlayersArePlaying, OneTaskEach, MonitorsAreHeld, Roles, TypeOK
<1>6. InOrder'
  <2>0. PICK a \in Act : a = act[t]
    BY DEF Roles
  <2>1. /\ a \in playingNow /\ a \in Act /\ submitted[a] \in Nat
        /\ acts[a] \in Seq(Nat)
    BY <2>0 DEF PlayersArePlaying, Roles, TypeOK
  <2>2. /\ submitted'[a] = submitted[a] + 1
        /\ acts'[a] = Append(acts[a], submitted[a] + 1)
        /\ \A b \in Act \ {a} : submitted'[b] = submitted[b] /\ acts'[b] = acts[b]
        /\ pc'[t] = "exit"
        /\ \A s \in Thread \ {t} : pc'[s] = pc[s]
    BY <2>0, <2>1 DEF TypeOK
  <2>3. \A k \in Nat : PendingAfter(a, k) => PendingAfter(a, k)'
    <3>1. SUFFICES ASSUME NEW k \in Nat, PendingAfter(a, k)
                   PROVE  PendingAfter(a, k)'
      OBVIOUS
    <3>2. /\ Len(acts'[a]) = Len(acts[a]) + 1
          /\ \A i \in 1 .. Len(acts[a]) : acts'[a][i] = acts[a][i]
          /\ acts'[a][Len(acts[a]) + 1] = submitted[a] + 1
      BY <2>1, <2>2
    <3>. QED
      BY <2>1, <2>2, <3>1, <3>2, SMTT(30) DEF PendingAfter
  <2>4. \A b \in Act, k \in Nat : PendingAfter(b, k) => PendingAfter(b, k)'
    BY <2>2, <2>3, SMTT(30) DEF PendingAfter
  <2>5. \A j \in queue : j.act \in Act /\ j.task \in Nat
    BY DEF TypeOK, Job
  <2>6. \A s \in Thread : HasTask(s) => act[s] \in Act /\ r[s] \in Nat
    BY DEF Roles, TypeOK
  <2>7. \A j \in queue' : /\ started'[j.act] = j.task - 1
                          /\ PendingAfter(j.act, j.task)'
    BY <2>4, <2>5 DEF InOrder
  <2>8. \A s \in Thread : HasTask(s) /\ pc[s] \in Inside => act[s] # a \/ pc[s] = "pending"
    BY <2>0 DEF MonitorsAreHeld
  <2>9. \A s \in Thread : HasTask(s)' =>
          /\ PendingAfter(act[s], r[s])'
          /\ started'[act'[s]] = IF pc'[s] = "execute" THEN r'[s] - 1 ELSE r'[s]
          /\ pc'[s] = "remove" => acts'[act'[s]] = <<>>
          /\ pc'[s] = "poll" => acts'[act'[s]] # <<>>
    BY <2>0, <2>2, <2>4, <2>6, <2>8 DEF InOrder
  <2>10. \A b \in Act \ playingNow' : acts'[b] = <<>> /\ started'[b] = submitted'[b]
    BY <2>1, <2>2 DEF InOrder
  <2>. QED
    BY <2>7, <2>9, <2>10 DEF InOrder
<1>7. NobodyIsForgotten'
  BY ZenonT(60) DEF NobodyIsForgotten, InExecutor, PlayersArePlaying, Roles, TypeOK
<1>. QED
  BY <1>1, <1>2, <1>3, <1>4, <1>5, <1>6, <1>7 DEF PoolInv

LEMMA ExecuteInv ==
  ASSUME PoolInv, NEW t \in Thread, execute(t)
  PROVE  PoolInv'
<1>. USE PoolAssumption DEF GoTo, Thread, Inside, HasTask, execute
<1>. TypeOK /\ Roles /\ MonitorsAreHeld /\ OneTaskEach /\ PlayersArePlaying
       /\ InOrder /\ NobodyIsForgotten
  BY DEF PoolInv
<1>1. TypeOK'
  BY DEF TypeOK, Job, Roles
<1>2. Roles'
  BY DEF Roles, TypeOK
<1>3. MonitorsAreHeld'
  BY DEF MonitorsAreHeld, Roles, TypeOK
<1>4. OneTaskEach'
  BY DEF OneTaskEach, MonitorsAreHeld, PlayersArePlaying, Roles, TypeOK
<1>5. PlayersArePlaying'
  BY DEF PlayersArePlaying, OneTaskEach, MonitorsAreHeld, Roles, TypeOK
<1>6. InOrder'
  BY SMTT(30)
  DEF InOrder, PendingAfter, OneTaskEach, PlayersArePlaying, Roles, TypeOK
<1>7. NobodyIsForgotten'
  <2>1. CASE isShutdown
    BY <2>1 DEF NobodyIsForgotten
  <2>2. CASE ~isShutdown
    <3>1. InExecutor(act[t])'
      <4>1. [act |-> act[t], task |-> r[t]] \in queue' /\ act' = act
        BY <2>2
      <4>. QED
        BY <4>1 DEF InExecutor
    <3>2. ASSUME NEW b \in Act, b # act[t], InExecutor(b)
          PROVE  InExecutor(b)'
      BY <2>2, <3>2 DEF InExecutor, TypeOK
    <3>. QED
      BY <3>1, <3>2 DEF NobodyIsForgotten
  <2>. QED
    BY <2>1, <2>2
<1>. QED
  BY <1>1, <1>2, <1>3, <1>4, <1>5, <1>6, <1>7 DEF PoolInv

LEMMA ExitInv ==
  ASSUME PoolInv, NEW t \in Thread, exit(t)
  PROVE  PoolInv'
<1>. USE PoolAssumption DEF GoTo, Thread, Inside, HasTask, exit
<1>. TypeOK /\ Roles /\ MonitorsAreHeld /\ OneTaskEach /\ PlayersArePlaying
       /\ InOrder /\ NobodyIsForgotten
  BY DEF PoolInv
<1>1. TypeOK'
  BY DEF TypeOK, Job, Roles
<1>2. Roles'
  BY DEF Roles, TypeOK
<1>3. MonitorsAreHeld'
  BY DEF MonitorsAreHeld, Roles, TypeOK
<1>4. OneTaskEach'
  BY DEF OneTaskEach, MonitorsAreHeld, PlayersArePlaying, Roles, TypeOK
<1>5. PlayersArePlaying'
  BY DEF PlayersArePlaying, OneTaskEach, MonitorsAreHeld, Roles, TypeOK
<1>6. InOrder'
  BY DEF InOrder, PendingAfter, OneTaskEach, PlayersArePlaying, Roles, TypeOK
<1>7. NobodyIsForgotten'
  BY DEF NobodyIsForgotten, InExecutor, PlayersArePlaying, Roles, TypeOK
<1>. QED
  BY <1>1, <1>2, <1>3, <1>4, <1>5, <1>6, <1>7 DEF PoolInv

LEMMA TakeInv ==
  ASSUME PoolInv, NEW w \in Worker, take(w)
  PROVE  PoolInv'
<1>. USE PoolAssumption DEF GoTo, Thread, Inside, HasTask
<1>. TypeOK /\ Roles /\ MonitorsAreHeld /\ OneTaskEach /\ PlayersArePlaying
       /\ InOrder /\ NobodyIsForgotten
  BY DEF PoolInv
<1>0. PICK j \in queue :
        /\ pc[w] = "outside"
        /\ queue' = queue \ {j}
        /\ act' = [act EXCEPT ![w] = j.act]
        /\ r' = [r EXCEPT ![w] = j.task]
        /\ started' = [started EXCEPT ![j.act] = @ + 1]
        /\ pc' = [pc EXCEPT ![w] = "run"]
        /\ UNCHANGED <<acts, playingNow, monitor, isShutdown, submitted>>
  BY DEF take
<1>a. j.act \in Act /\ j.task \in Nat
  BY DEF TypeOK, Job
<1>b. /\ pc'[w] = "run" /\ act'[w] = j.act /\ r'[w] = j.task
      /\ \A s \in Thread \ {w} : pc'[s] = pc[s] /\ act'[s] = act[s] /\ r'[s] = r[s]
  BY <1>0 DEF TypeOK
<1>c. /\ \A s \in Thread : HasTask(s) => act[s] \in Act /\ act[s] # j.act
      /\ \A i \in queue' : i \in queue /\ i.act \in Act /\ i.act # j.act
  BY <1>0 DEF OneTaskEach, Roles, TypeOK, Job
<1>1. TypeOK'
  BY <1>0, <1>a DEF TypeOK
<1>2. Roles'
  BY <1>0, <1>a, <1>b DEF Roles
<1>3. MonitorsAreHeld'
  BY <1>0, <1>b DEF MonitorsAreHeld
<1>4. OneTaskEach'
  BY <1>0, <1>b, <1>c DEF OneTaskEach
<1>5. PlayersArePlaying'
  BY <1>0, <1>b DEF PlayersArePlaying
<1>6. InOrder'
  <2>1. /\ started'[j.act] = j.task
        /\ \A b \in Act \ {j.act} : started'[b] = started[b]
    BY <1>0, <1>a DEF InOrder, TypeOK
  <2>2. \A b, k : PendingAfter(b, k)' <=> PendingAfter(b, k)
    BY <1>0 DEF PendingAfter
  <2>3. \A i \in queue' : started'[i.act] = i.task - 1 /\ PendingAfter(i.act, i.task)'
    BY <1>0, <1>c, <2>1, <2>2 DEF InOrder
  <2>4. \A s \in Thread \ {w} : HasTask(s)' =>
          /\ PendingAfter(act[s], r[s])'
          /\ started'[act'[s]] = IF pc'[s] = "execute" THEN r'[s] - 1 ELSE r'[s]
          /\ pc'[s] = "remove" => acts'[act'[s]] = <<>>
          /\ pc'[s] = "poll" => acts'[act'[s]] # <<>>
    BY <1>0, <1>b, <1>c, <2>1, <2>2 DEF InOrder
  <2>5. PendingAfter(act[w], r[w])'
    BY <1>0, <1>b, <2>2 DEF InOrder, PendingAfter
  <2>6. \A b \in Act \ playingNow' : acts'[b] = <<>> /\ started'[b] = submitted'[b]
    BY <1>0, <2>1 DEF InOrder, PlayersArePlaying
  <2>. QED
    BY <1>b, <2>1, <2>3, <2>4, <2>5, <2>6 DEF InOrder
<1>7. NobodyIsForgotten'
  <2>1. \A b \in Act : InExecutor(b) => InExecutor(b)'
    <3>1. InExecutor(j.act)'
      BY <1>b DEF InExecutor
    <3>2. ASSUME NEW b \in Act \ {j.act}, InExecutor(b)
          PROVE  InExecutor(b)'
      BY <1>0, <1>b, <3>2 DEF InExecutor
    <3>. QED
      BY <3>1, <3>2
  <2>. QED
    BY <1>0, <2>1 DEF NobodyIsForgotten
<1>. QED
  BY <1>1, <1>2, <1>3, <1>4, <1>5, <1>6, <1>7 DEF PoolInv

LEMMA RunInv ==
  ASSUME PoolInv, NEW w \in Worker, run(w)
  PROVE  PoolInv'
<1>. USE PoolAssumption DEF GoTo, Thread, Inside, HasTask, run
<1>. TypeOK /\ Roles /\ MonitorsAreHeld /\ OneTaskEach /\ PlayersArePlaying
       /\ InOrder /\ NobodyIsForgotten
  BY DEF PoolInv
<1>1. TypeOK'
  BY DEF TypeOK, Job, Roles
<1>2. Roles'
  BY DEF Roles, TypeOK
<1>3. MonitorsAreHeld'
  BY DEF MonitorsAreHeld, Roles, TypeOK
<1>4. OneTaskEach'
  BY DEF OneTaskEach, MonitorsAreHeld, PlayersArePlaying, Roles, TypeOK
<1>5. PlayersArePlaying'
  BY DEF PlayersArePlaying, OneTaskEach, MonitorsAreHeld, Roles, TypeOK
<1>6. InOrder'
  BY SMTT(30)
  DEF InOrder, PendingAfter, OneTaskEach, PlayersArePlaying, Roles, TypeOK
<1>7. NobodyIsForgotten'
  BY DEF NobodyIsForgotten, InExecutor, PlayersArePlaying, Roles, TypeOK
<1>. QED
  BY <1>1, <1>2, <1>3, <1>4, <1>5, <1>6, <1>7 DEF PoolInv

LEMMA CompleteInv ==
  ASSUME PoolInv, NEW w \in Worker, complete(w)
  PROVE  PoolInv'
<1>. USE PoolAssumption DEF GoTo, Thread, Inside, HasTask, complete, enter
<1>. TypeOK /\ Roles /\ MonitorsAreHeld /\ OneTaskEach /\ PlayersArePlaying
       /\ InOrder /\ NobodyIsForgotten
  BY DEF PoolInv
<1>1. TypeOK'
  BY DEF TypeOK, Job, Roles
<1>2. Roles'
  BY DEF Roles, TypeOK
<1>3. MonitorsAreHeld'
  BY DEF MonitorsAreHeld, Roles, TypeOK
<1>4. OneTaskEach'
  BY DEF OneTaskEach, MonitorsAreHeld, PlayersArePlaying, Roles, TypeOK
<1>5. PlayersArePlaying'
  BY DEF PlayersArePlaying, OneTaskEach, MonitorsAreHeld, Roles, TypeOK
<1>6. InOrder'
  BY SMTT(30)
  DEF InOrder, PendingAfter, OneTaskEach, PlayersArePlaying, Roles, TypeOK
<1>7. NobodyIsForgotten'
  BY DEF NobodyIsForgotten, InExecutor, PlayersArePlaying, Roles, TypeOK
<1>. QED
  BY <1>1, <1>2, <1>3, <1>4, <1>5, <1>6, <1>7 DEF PoolInv

LEMMA IsEmptyInv ==
  ASSUME PoolInv, NEW w \in Worker, isEmpty(w)
  PROVE  PoolInv'
<1>. USE PoolAssumption DEF GoTo, Thread, Inside, HasTask, isEmpty
<1>. TypeOK /\ Roles /\ MonitorsAreHeld /\ OneTaskEach /\ PlayersArePlaying
       /\ InOrder /\ NobodyIsForgotten
  BY DEF PoolInv
<1>1. TypeOK'
  BY DEF TypeOK, Job, Roles
<1>2. Roles'
  BY DEF Roles, TypeOK
<1>3. MonitorsAreHeld'
  BY DEF MonitorsAreHeld, Roles, TypeOK
<1>4. OneTaskEach'
  BY DEF OneTaskEach, MonitorsAreHeld, PlayersArePlaying, Roles, TypeOK
<1>5. PlayersArePlaying'
  BY DEF PlayersArePlaying, OneTaskEach, MonitorsAreHeld, Roles, TypeOK
<1>6. InOrder'
  BY DEF InOrder, PendingAfter, OneTaskEach, PlayersArePlaying, Roles, TypeOK
<1>7. NobodyIsForgotten'
  BY DEF NobodyIsForgotten, InExecutor, PlayersArePlaying, Roles, TypeOK
<1>. QED
  BY <1>1, <1>2, <1>3, <1>4, <1>5, <1>6, <1>7 DEF PoolInv

LEMMA RemoveInv ==
  ASSUME PoolInv, NEW w \in Worker, remove(w)
  PROVE  PoolInv'
<1>. USE PoolAssumption DEF GoTo, Thread, Inside, HasTask, remove
<1>. TypeOK /\ Roles /\ MonitorsAreHeld /\ OneTaskEach /\ PlayersArePlaying
       /\ InOrder /\ NobodyIsForgotten
  BY DEF PoolInv
<1>1. TypeOK'
  BY DEF TypeOK, Job, Roles
<1>2. Roles'
  BY DEF Roles, TypeOK
<1>3. MonitorsAreHeld'
  BY DEF MonitorsAreHeld, Roles, TypeOK
<1>4. OneTaskEach'
  BY DEF OneTaskEach, MonitorsAreHeld, PlayersArePlaying, Roles, TypeOK
<1>5. PlayersArePlaying'
  BY DEF PlayersArePlaying, OneTaskEach, MonitorsAreHeld, Roles, TypeOK
<1>6. InOrder'
  BY DEF InOrder, PendingAfter, OneTaskEach, PlayersArePlaying, Roles, TypeOK
<1>7. NobodyIsForgotten'
  <2>1. acts[act[w]] = <<>>
    BY DEF InOrder
  <2>2. \A b \in Act \ {act[w]} : InExecutor(b) => InExecutor(b)'
    BY DEF InExecutor, TypeOK
  <2>. QED
    BY <2>1, <2>2 DEF NobodyIsForgotten
<1>. QED
  BY <1>1, <1>2, <1>3, <1>4, <1>5, <1>6, <1>7 DEF PoolInv

(* Without its head, what follows task k are the tasks that follow k + 1.   *)
LEMMA TailFollows ==
  ASSUME NEW p \in Seq(Nat), p # <<>>, NEW k \in Nat, NEW n \in Nat,
         Len(p) = n - k, \A i \in 1 .. Len(p) : p[i] = k + i
  PROVE  /\ Head(p) = k + 1
         /\ Tail(p) \in Seq(Nat)
         /\ Len(Tail(p)) = n - (k + 1)
         /\ \A i \in 1 .. Len(Tail(p)) : Tail(p)[i] = (k + 1) + i
<1>1. /\ Len(p) \in Nat \ {0} /\ Len(Tail(p)) = Len(p) - 1
      /\ Tail(p) \in Seq(Nat) /\ Head(p) = p[1]
      /\ \A i \in 1 .. Len(p) - 1 : Tail(p)[i] = p[i + 1]
  OBVIOUS
<1>. QED
  BY <1>1

LEMMA PollInv ==
  ASSUME PoolInv, NEW w \in Worker, poll(w)
  PROVE  PoolInv'
<1>. USE PoolAssumption DEF GoTo, Thread, Inside, HasTask, poll
<1>. TypeOK /\ Roles /\ MonitorsAreHeld /\ OneTaskEach /\ PlayersArePlaying
       /\ InOrder /\ NobodyIsForgotten
  BY DEF PoolInv
<1>0. PICK a \in Act : a = act[w]
  BY DEF Roles
<1>a. /\ r[w] \in Nat /\ started[a] = r[w] /\ PendingAfter(a, r[w])
      /\ acts[a] \in Seq(Nat) /\ acts[a] # <<>> /\ submitted[a] \in Nat
  BY <1>0 DEF InOrder, TypeOK
<1>b. /\ Head(acts[a]) = r[w] + 1
      /\ Tail(acts[a]) \in Seq(Nat)
      /\ Len(Tail(acts[a])) = submitted[a] - (r[w] + 1)
      /\ \A i \in 1 .. Len(Tail(acts[a])) : Tail(acts[a])[i] = (r[w] + 1) + i
  BY <1>a, TailFollows DEF PendingAfter
<1>c. /\ r'[w] = r[w] + 1 /\ pc'[w] = "execute" /\ acts'[a] = Tail(acts[a])
      /\ \A b \in Act \ {a} : acts'[b] = acts[b]
      /\ \A s \in Thread \ {w} : r'[s] = r[s] /\ pc'[s] = pc[s]
  BY <1>0, <1>a, <1>b DEF TypeOK
<1>1. TypeOK'
  BY <1>0, <1>a, <1>b DEF TypeOK
<1>2. Roles'
  BY DEF Roles, TypeOK
<1>3. MonitorsAreHeld'
  BY DEF MonitorsAreHeld, Roles, TypeOK
<1>4. OneTaskEach'
  BY DEF OneTaskEach, MonitorsAreHeld, PlayersArePlaying, Roles, TypeOK
<1>5. PlayersArePlaying'
  BY DEF PlayersArePlaying, OneTaskEach, MonitorsAreHeld, Roles, TypeOK
<1>6. InOrder'
  <2>1. PendingAfter(a, r[w])'
    BY <1>a, <1>b, <1>c, ZenonT(60) DEF PendingAfter
  <2>2. \A b \in Act \ {a} : \A k : PendingAfter(b, k) => PendingAfter(b, k)'
    BY <1>c DEF PendingAfter
  <2>3. /\ \A j \in queue : j.act \in Act \ {a}
        /\ \A s \in Thread \ {w} : HasTask(s) => act[s] \in Act \ {a}
    BY <1>0 DEF OneTaskEach, Roles, TypeOK, Job
  <2>4. \A j \in queue' : /\ started'[j.act] = j.task - 1
                          /\ PendingAfter(j.act, j.task)'
    BY <2>2, <2>3 DEF InOrder
  <2>5. \A s \in Thread \ {w} : HasTask(s)' =>
          /\ PendingAfter(act[s], r[s])'
          /\ started'[act'[s]] = IF pc'[s] = "execute" THEN r'[s] - 1 ELSE r'[s]
          /\ pc'[s] = "remove" => acts'[act'[s]] = <<>>
          /\ pc'[s] = "poll" => acts'[act'[s]] # <<>>
    BY <1>0, <1>c, <2>2, <2>3 DEF InOrder
  <2>6. \A b \in Act \ playingNow' : acts'[b] = <<>> /\ started'[b] = submitted'[b]
    BY <1>0, <1>c DEF InOrder, PlayersArePlaying
  <2>. QED
    BY <1>0, <1>a, <1>c, <2>1, <2>4, <2>5, <2>6, SMTT(30)
    DEF InOrder
<1>7. NobodyIsForgotten'
  BY DEF NobodyIsForgotten, InExecutor, PlayersArePlaying, Roles, TypeOK
<1>. QED
  BY <1>1, <1>2, <1>3, <1>4, <1>5, <1>6, <1>7 DEF PoolInv

LEMMA ShutdownInv ==
  ASSUME PoolInv, shutdown
  PROVE  PoolInv'
<1>. USE PoolAssumption DEF GoTo, Thread, Inside, HasTask, shutdown
<1>. TypeOK /\ Roles /\ MonitorsAreHeld /\ OneTaskEach /\ PlayersArePlaying
       /\ InOrder /\ NobodyIsForgotten
  BY DEF PoolInv
<1>1. TypeOK'
  BY DEF TypeOK, Job, Roles
<1>2. Roles'
  BY DEF Roles, TypeOK
<1>3. MonitorsAreHeld'
  BY DEF MonitorsAreHeld, Roles, TypeOK
<1>4. OneTaskEach'
  BY DEF OneTaskEach, MonitorsAreHeld, PlayersArePlaying, Roles, TypeOK
<1>5. PlayersArePlaying'
  BY DEF PlayersArePlaying, OneTaskEach, MonitorsAreHeld, Roles, TypeOK
<1>6. InOrder'
  BY DEF InOrder, PendingAfter, OneTaskEach, PlayersArePlaying, Roles, TypeOK
<1>7. NobodyIsForgotten'
  BY DEF NobodyIsForgotten, InExecutor, PlayersArePlaying, Roles, TypeOK
<1>. QED
  BY <1>1, <1>2, <1>3, <1>4, <1>5, <1>6, <1>7 DEF PoolInv

LEMMA PoolInit ==
  ASSUME Init
  PROVE  PoolInv
<1>. USE PoolAssumption DEF Init, Thread, Inside, HasTask
<1>1. TypeOK
  <2>1. <<>> \in Seq(Nat)
    OBVIOUS
  <2>. QED
    BY <2>1 DEF TypeOK
<1>. Roles
  BY DEF Roles
<1>2. MonitorsAreHeld /\ OneTaskEach /\ PlayersArePlaying /\ InOrder
  BY DEF MonitorsAreHeld, OneTaskEach, PlayersArePlaying, InOrder
<1>3. NobodyIsForgotten
  BY DEF NobodyIsForgotten
<1>. QED
  BY <1>1, <1>2, <1>3 DEF PoolInv

LEMMA PoolNext ==
  ASSUME PoolInv, [Next]_vars
  PROVE  PoolInv'
<1>1. CASE UNCHANGED vars
  BY <1>1 DEF PoolInv, TypeOK, Roles, MonitorsAreHeld, OneTaskEach,
     PlayersArePlaying, InOrder, PendingAfter, NobodyIsForgotten, InExecutor,
     HasTask, vars
<1>2. ASSUME NEW t \in Submitter, InSubmit(t) \/ \E a \in Act : submit(t, a)
      PROVE  PoolInv'
  BY <1>2, SubmitInv, ContainsInv, AddInv, AddPendingInv, ExecuteInv, ExitInv
     DEF InSubmit, Thread
<1>3. ASSUME NEW w \in Worker, Work(w)
      PROVE  PoolInv'
  BY <1>3, TakeInv, RunInv, CompleteInv, IsEmptyInv, RemoveInv, PollInv,
     ExecuteInv, ExitInv DEF Work, Thread
<1>. QED
  BY <1>1, <1>2, <1>3, ShutdownInv DEF Next, AllDone

-----------------------------------------------------------------------------
(* The inductive invariant: the executor never has two tasks of one actor,  *)
(* what is pending for it are the tasks after that one, in order, and the   *)
(* accesses to both happen inside the actor's monitor.                      *)
THEOREM PoolInvariance == Spec => []PoolInv
<1>. QED
  BY PoolInit, PoolNext, PTL DEF Spec

(* No lost wake-up: a pending task always has a predecessor in the executor *)
(* whose complete will take it up, however submit and complete interleave.  *)
THEOREM NoLostWakeUp == Spec => []NobodyIsForgotten
<1>1. PoolInv => NobodyIsForgotten
  BY DEF PoolInv
<1>. QED
  BY <1>1, PoolInvariance, PTL

-----------------------------------------------------------------------------
(* The refinement: take is Start, run is Finish, the entry of a task into   *)
(* the executor or among the pending ones is Submit.                        *)

LEMMA MailboxInit ==
  ASSUME Init
  PROVE  Mailbox!Init
BY DEF Init, Mailbox!Init, Running, Thread

(* While nobody's running task changes, neither does the mapping.           *)
LEMMA SameRunning ==
  ASSUME \A w \in Worker :
           /\ pc[w] = "run" <=> pc'[w] = "run"
           /\ pc[w] = "run" => act'[w] = act[w] /\ r'[w] = r[w]
  PROVE  \A a \in Act : Running(a)' = Running(a)
<1>. SUFFICES ASSUME NEW a \in Act
              PROVE  Running(a)' = Running(a)
  OBVIOUS
<1>1. ASSUME NEW y
      PROVE  y \in Running(a)' <=> y \in Running(a)
  <2>1. y \in Running(a) <=>
          \E w \in Worker : pc[w] = "run" /\ act[w] = a /\ y = r[w]
    BY DEF Running
  <2>2. y \in Running(a)' <=>
          \E w \in Worker : pc'[w] = "run" /\ act'[w] = a /\ y = r'[w]
    BY DEF Running
  <2>. QED
    BY <2>1, <2>2
<1>. QED
  BY <1>1

LEMMA TakeStarts ==
  ASSUME PoolInv, NEW w \in Worker, take(w)
  PROVE  Mailbox!Next
<1>. TypeOK /\ Roles /\ OneTaskEach /\ InOrder
  BY DEF PoolInv
<1>1. PICK j \in queue :
        /\ pc[w] = "outside"
        /\ act' = [act EXCEPT ![w] = j.act]
        /\ r' = [r EXCEPT ![w] = j.task]
        /\ started' = [started EXCEPT ![j.act] = @ + 1]
        /\ pc' = [pc EXCEPT ![w] = "run"]
        /\ acts' = acts
        /\ submitted' = submitted
  BY DEF take, GoTo
<1>2. PICK a \in Act : a = j.act
  BY DEF TypeOK, Job
<1>3. j.task \in Nat /\ started[a] = j.task - 1 /\ PendingAfter(a, j.task)
      /\ started[a] \in Nat /\ submitted[a] \in Nat /\ Len(acts[a]) \in Nat
  BY <1>2 DEF InOrder, TypeOK, Job
<1>4. /\ pc'[w] = "run" /\ act'[w] = a /\ r'[w] = j.task
      /\ \A v \in Worker \ {w} : pc'[v] = pc[v] /\ act'[v] = act[v] /\ r'[v] = r[v]
  BY <1>1, <1>2 DEF TypeOK, Thread
<1>5. \A v \in Worker : pc[v] = "run" => act[v] # a
  BY <1>2 DEF OneTaskEach, HasTask, Thread
<1>6. Running(a) = {}
  BY <1>5 DEF Running
<1>7. Running(a)' = {started[a] + 1}
  <2>1. {x \in Worker : pc'[x] = "run" /\ act'[x] = a} = {w}
    BY <1>4, <1>5
  <2>. QED
    BY <1>3, <1>4, <2>1 DEF Running
<1>8. \A b \in Act \ {a} : Running(b)' = Running(b)
  BY <1>1, <1>4 DEF Running
<1>9. started[a] < submitted[a]
  BY <1>3 DEF PendingAfter
<1>10. Mailbox!Start(a)
  BY <1>1, <1>2, <1>6, <1>7, <1>8, <1>9 DEF Mailbox!Start
<1>. QED
  BY <1>10 DEF Mailbox!Next

LEMMA RunFinishes ==
  ASSUME PoolInv, NEW w \in Worker, run(w)
  PROVE  Mailbox!Next
<1>. TypeOK /\ Roles /\ OneTaskEach
  BY DEF PoolInv
<1>1. PICK a \in Act : a = act[w]
  BY DEF run, Roles, Thread
<1>2. \A v \in Worker \ {w} : pc[v] = "run" => act[v] # a
  BY <1>1 DEF run, OneTaskEach, HasTask, Thread
<1>3. /\ pc[w] = "run" /\ pc'[w] = "complete" /\ act' = act /\ r' = r
      /\ \A v \in Worker \ {w} : pc'[v] = pc[v]
  BY DEF run, GoTo, TypeOK, Thread
<1>4. Running(a) # {} /\ Running(a)' = {}
  BY <1>1, <1>2, <1>3 DEF Running
<1>5. \A b \in Act \ {a} : Running(b)' = Running(b)
  BY <1>1, <1>3 DEF Running
<1>6. Mailbox!Finish(a)
  BY <1>4, <1>5 DEF run, Mailbox!Finish
<1>. QED
  BY <1>6 DEF Mailbox!Next

LEMMA EntrySubmits ==
  ASSUME PoolInv, NEW t \in Submitter, add(t) \/ addPending(t)
  PROVE  Mailbox!Next
<1>. TypeOK /\ Roles
  BY DEF PoolInv
<1>1. PICK a \in Act : a = act[t]
  BY DEF Roles, add, addPending, Thread
<1>2. \A b \in Act : Running(b)' = Running(b)
  BY PoolAssumption, SameRunning DEF add, addPending, GoTo, TypeOK, Thread
<1>3. Mailbox!Submit(a)
  BY <1>1, <1>2 DEF add, addPending, Mailbox!Submit
<1>. QED
  BY <1>3 DEF Mailbox!Next

LEMMA OthersStutter ==
  ASSUME PoolInv,
         \/ \E t \in Submitter : \/ contains(t) \/ execute(t) \/ exit(t)
                               \/ \E a \in Act : submit(t, a)
         \/ \E w \in Worker : \/ complete(w) \/ isEmpty(w) \/ remove(w)
                            \/ poll(w) \/ execute(w) \/ exit(w)
         \/ shutdown
         \/ UNCHANGED vars
  PROVE  UNCHANGED Mailbox!mailboxVars
<1>. TypeOK /\ Roles
  BY DEF PoolInv
<1>1. \A b \in Act : Running(b)' = Running(b)
  BY PoolAssumption, SameRunning DEF contains, execute, exit, submit, enter,
     complete, isEmpty, remove, poll, shutdown, vars, GoTo, TypeOK, Thread
<1>2. submitted' = submitted /\ started' = started
  BY DEF contains, execute, exit, submit, complete, isEmpty, remove, poll,
         shutdown, vars
<1>. QED
  BY <1>1, <1>2 DEF Mailbox!mailboxVars

(* The pool keeps its promise: per actor one task at a time, in the order   *)
(* of submission.                                                           *)
THEOREM PoolImplementsMailbox == Spec => ImplementsMailbox
<1>1. Init => Mailbox!Init
  BY MailboxInit
<1>2. PoolInv /\ [Next]_vars => [Mailbox!Next]_(Mailbox!mailboxVars)
  BY TakeStarts, RunFinishes, EntrySubmits, OthersStutter
     DEF Next, InSubmit, Work, AllDone
<1>. QED
  BY <1>1, <1>2, PoolInvariance, PTL DEF Spec, ImplementsMailbox, Mailbox!Spec
=============================================================================
