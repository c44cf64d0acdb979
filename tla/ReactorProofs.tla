---------------------------- MODULE ReactorProofs ----------------------------
(***************************************************************************)
(* Proofs about the Reactor, for any number of connections, whatever their *)
(* frames and reads are.                                                   *)
(***************************************************************************)
EXTENDS ReactorProperties, SequenceTheorems, TLAPS

-----------------------------------------------------------------------------
(* Connections, loops over receivers, and the sequence that is sent.        *)

LEMMA Connections ==
  /\ Conn \subseteq Nat
  /\ Nobody \notin Conn
  /\ \A n \in Nat : n < MaxConnections <=> n \in Conn
BY ReactorAssumption DEF Conn, Nobody

(* Who changes the subscribers has its own loop as it says; the loops of    *)
(* the others keep whom they served, and do not go back to them.            *)
LEMMA SubscribersChange ==
  ASSUME ReactorTypeOK, NEW c \in Conn, NEW set \in SUBSET Conn,
         NEW own \in Iterator, SubscribersBecome(set, c, own)
  PROVE  /\ subscribers' = set
         /\ idToHendler' = idToHendler
         /\ iter' \in [Conn -> Iterator]
         /\ iter'[c] = own
         /\ \A d \in Conn \ {c} :
              /\ iter'[d].done = iter[d].done
              /\ iter[d].todo \cap iter[d].done = {}
                   => iter'[d].todo \cap iter'[d].done = {}
<1>. DEFINE added == set \ subscribers
            removed == subscribers \ set
            Unseen(d) == [iter[d] EXCEPT !.stale = TRUE]
            Seen(d) == [Unseen(d) EXCEPT
                          !.todo = (@ \ removed) \cup (added \ iter[d].done)]
<1>1. PICK seeing \in SUBSET (IF set = subscribers THEN {} ELSE Iterating) :
        iter' = [d \in Conn |->
                   IF d = c THEN own
                   ELSE IF d \in seeing THEN Seen(d)
                   ELSE IF d \in Iterating /\ set # subscribers THEN Unseen(d)
                   ELSE iter[d]]
  BY DEF SubscribersBecome
<1>2. ASSUME NEW d \in Conn
      PROVE  /\ iter[d] \in Iterator
             /\ Unseen(d) \in Iterator /\ Unseen(d).done = iter[d].done
             /\ Unseen(d).todo = iter[d].todo
             /\ Seen(d) \in Iterator /\ Seen(d).done = iter[d].done
             /\ Seen(d).todo = (iter[d].todo \ removed) \cup (added \ iter[d].done)
  BY DEF ReactorTypeOK, Iterator
<1>. HIDE DEF added, removed, Unseen, Seen
<1>3. iter' \in [Conn -> Iterator]
  BY <1>1, <1>2
<1>4. ASSUME NEW d \in Conn \ {c}
      PROVE  /\ iter'[d].done = iter[d].done
             /\ iter[d].todo \cap iter[d].done = {}
                  => iter'[d].todo \cap iter'[d].done = {}
  BY <1>1, <1>2
<1>. QED
  BY <1>1, <1>3, <1>4 DEF SubscribersBecome

LEMMA NewLoop ==
  ASSUME NEW S \in SUBSET Conn
  PROVE  /\ Over(S) \in Iterator
         /\ Over(S).todo = S /\ Over(S).done = {}
BY DEF Over, Iterator

(* The receiver in hand is done with.                                       *)
LEMMA ServedNext ==
  ASSUME ReactorTypeOK, NEW c \in Conn, NEW d \in Conn,
         iter' = [iter EXCEPT ![c].todo = @ \ {d}, ![c].done = @ \cup {d}]
  PROVE  /\ iter' \in [Conn -> Iterator]
         /\ iter'[c].todo = iter[c].todo \ {d}
         /\ iter'[c].done = iter[c].done \cup {d}
         /\ \A e \in Conn \ {c} : iter'[e] = iter[e]
<1>. DEFINE it == [iter[c] EXCEPT !.todo = @ \ {d}, !.done = @ \cup {d}]
<1>1. iter[c] \in Iterator
  BY DEF ReactorTypeOK
<1>2. /\ it \in Iterator /\ it.todo = iter[c].todo \ {d}
      /\ it.done = iter[c].done \cup {d}
  BY <1>1 DEF Iterator
<1>3. iter' = [iter EXCEPT ![c] = it]
  BY DEF ReactorTypeOK, Iterator
<1>4. iter \in [Conn -> Iterator]
  BY DEF ReactorTypeOK
<1>. HIDE DEF it
<1>. QED
  BY <1>2, <1>3, <1>4

LEMMA NoOutType ==
  ASSUME NEW c \in Conn
  PROVE  NoOut \in OutFrame
<1>1. 0 \in Conn
  BY ReactorAssumption DEF Conn
<1>. QED
  BY <1>1 DEF NoOut, OutFrame, Commend

LEMMA SentType ==
  ASSUME ReactorTypeOK, NEW c \in Conn
  PROVE  /\ Sent(c) \in Seq(OutFrame)
         /\ Len(Sent(c)) \in Nat
         /\ DOMAIN Sent(c) = 1 .. Len(Sent(c))
         /\ \A k \in DOMAIN Sent(c) : Sent(c)[k] \in OutFrame
<1>1. written[c] \in Seq(OutFrame) /\ writeQueue[c] \in Seq(OutFrame)
  BY DEF ReactorTypeOK
<1>2. Sent(c) \in Seq(OutFrame)
  BY <1>1, ConcatProperties DEF Sent
<1>. HIDE DEF Sent
<1>. QED
  BY <1>2

(* A write moves the first frame of the queue behind those that were        *)
(* written: the sequence is the same.                                       *)
LEMMA WriteKeepsOrder ==
  ASSUME NEW S, NEW w \in Seq(S), NEW q \in Seq(S), q # <<>>
  PROVE  Append(w, Head(q)) \o Tail(q) = w \o q
<1>1. /\ Head(q) \in S /\ Tail(q) \in Seq(S) /\ q = <<Head(q)>> \o Tail(q)
  <2>1. /\ Head(q) \in S /\ Tail(q) \in Seq(S) /\ Len(Tail(q)) = Len(q) - 1
        /\ \A i \in 1 .. Len(Tail(q)) : Tail(q)[i] = q[i + 1]
        /\ Head(q) = q[1]
    BY HeadTailProperties
  <2>2. <<Head(q)>> \in Seq(S) /\ Len(<<Head(q)>>) = 1 /\ <<Head(q)>>[1] = Head(q)
    BY <2>1
  <2>3. <<Head(q)>> \o Tail(q) \in Seq(S)
    BY <2>1, <2>2, ConcatProperties
  <2>4. Len(<<Head(q)>> \o Tail(q)) = Len(q)
    BY <2>1, <2>2, ConcatProperties
  <2>5. \A i \in 1 .. Len(q) : (<<Head(q)>> \o Tail(q))[i] = q[i]
    BY <2>1, <2>2
  <2>. QED
    BY <2>1, <2>3, <2>4, <2>5, SeqEqual
<1>2. Append(w, Head(q)) = w \o <<Head(q)>> /\ <<Head(q)>> \in Seq(S)
  BY <1>1, AppendIsConcat
<1>3. (w \o <<Head(q)>>) \o Tail(q) = w \o (<<Head(q)>> \o Tail(q))
  BY <1>1, <1>2, ConcatAssociative
<1>. QED
  BY <1>1, <1>2, <1>3

(* A frame that is added to the queue is the last one.                      *)
LEMMA AddedLast ==
  ASSUME NEW S, NEW w \in Seq(S), NEW q \in Seq(S), NEW f \in S
  PROVE  w \o Append(q, f) = Append(w \o q, f)
<1>1. Append(q, f) = q \o <<f>> /\ <<f>> \in Seq(S)
  BY AppendIsConcat
<1>2. w \o q \in Seq(S)
  BY ConcatProperties
<1>3. Append(w \o q, f) = (w \o q) \o <<f>>
  BY <1>2, AppendIsConcat
<1>4. (w \o q) \o <<f>> = w \o (q \o <<f>>)
  BY <1>1, ConcatAssociative
<1>. QED
  BY <1>1, <1>3, <1>4

-----------------------------------------------------------------------------
(* Types.                                                                   *)

(* What the tasks that were begun may take is a number that was read.       *)
LEMMA TakenType ==
  ASSUME ReactorTypeOK, NEW c \in Conn, TasksAreReads(c)
  PROVE  /\ Taken(c) \in Nat
         /\ Taken(c) <= 2 * Len(Kinds[c])
         /\ started[c] > 0 => /\ started[c] \in DOMAIN batches[c]
                              /\ Taken(c) = batches[c][started[c]]
                              /\ batches[c][started[c]] \in Nat
<1>1. /\ batches[c] \in Seq(Nat) /\ started[c] \in Nat /\ Len(Kinds[c]) \in Nat
      /\ DOMAIN batches[c] = 1 .. Len(batches[c])
  BY ReactorAssumption DEF ReactorTypeOK
<1>2. started[c] > 0 => /\ started[c] \in DOMAIN batches[c]
                        /\ batches[c][started[c]] \in 1 .. 2 * Len(Kinds[c])
  BY <1>1 DEF TasksAreReads
<1>. QED
  BY <1>1, <1>2 DEF Taken

LEMMA TypeInit == Init => ReactorTypeOK
<1>. SUFFICES ASSUME Init PROVE ReactorTypeOK
  OBVIOUS
<1>1. out \in [Conn -> OutFrame]
  BY NoOutType DEF Init
<1>2. iter \in [Conn -> Iterator]
  BY NewLoop DEF Init
<1>3. connectionsIdCuonter \in 0 .. MaxConnections
  BY ReactorAssumption DEF Init
<1>4. /\ submitted \in [Conn -> Nat] /\ started \in [Conn -> Nat]
      /\ active \in [Conn -> SUBSET Nat]
  BY DEF Init, Pool!Init
<1>5. /\ batches \in [Conn -> Seq(Nat)] /\ selectorTasks \in Seq(Conn)
      /\ writeQueue \in [Conn -> Seq(OutFrame)]
      /\ written \in [Conn -> Seq(OutFrame)]
      /\ after \in [Conn -> Seq(Cleanup)]
  BY EmptySeq DEF Init
<1>. QED
  BY <1>1, <1>2, <1>3, <1>4, <1>5 DEF Init, ReactorTypeOK

(* The selector thread, but for accepting and reading.                      *)
LEMMA SelectorType ==
  ASSUME ReactorInv,
         \/ select \/ runSelectionThreadTask \/ tasksDone \/ nextKey \/ keysDone
         \/ isReadable \/ isValid \/ isWritable
         \/ continueWrite \/ queueEmpty \/ updateInterestedOps
  PROVE  ReactorTypeOK'
<1>. ReactorTypeOK /\ SelectorState
  BY DEF ReactorInv
<1>. USE DEF ReactorTypeOK, Selector, Goes, KeyDone, Dies, poolVars, workVars,
             protocolVars, dataBaseVars
<1>1. CASE select
  <2>1. ready' \subseteq Conn
    BY <1>1 DEF select, OpenChannels
  <2>2. acceptable' \in BOOLEAN
    BY <1>1 DEF select
  <2>3. /\ spc' = "tasks"
        /\ UNCHANGED <<cur, ops, batches, connectionsIdCuonter, poolVars,
                       written, workVars, protocolVars, open, opWrite,
                       selectorTasks, writeQueue>>
    BY <1>1 DEF select
  <2>. QED
    BY <2>1, <2>2, <2>3
<1>2. CASE runSelectionThreadTask
  <2>1. selectorTasks' \in Seq(Conn) /\ Head(selectorTasks) \in Conn
    BY <1>2, HeadTailProperties DEF runSelectionThreadTask
  <2>. QED
    BY <1>2, <2>1 DEF runSelectionThreadTask
<1>3. CASE tasksDone \/ keysDone
  BY <1>3 DEF tasksDone, keysDone
<1>4. CASE nextKey
  BY <1>4 DEF nextKey
<1>5. CASE isReadable \/ isValid \/ isWritable
  BY <1>5 DEF isReadable, isValid, isWritable
<1>6. CASE continueWrite
  <2>1. cur \in Conn
    BY <1>6 DEF SelectorState, continueWrite
  <2>2. /\ written' \in [Conn -> Seq(OutFrame)]
        /\ writeQueue' \in [Conn -> Seq(OutFrame)]
    <3>1. CASE UNCHANGED <<written, writeQueue>>
      BY <3>1
    <3>2. CASE /\ writeQueue[cur] # <<>>
               /\ written' = [written EXCEPT ![cur] = Append(@, Head(writeQueue[cur]))]
               /\ writeQueue' = [writeQueue EXCEPT ![cur] = Tail(@)]
      <4>1. /\ Head(writeQueue[cur]) \in OutFrame
            /\ Tail(writeQueue[cur]) \in Seq(OutFrame)
        BY <2>1, <3>2, HeadTailProperties
      <4>2. Append(written[cur], Head(writeQueue[cur])) \in Seq(OutFrame)
        BY <2>1, <4>1, AppendProperties
      <4>. QED
        BY <2>1, <3>2, <4>1, <4>2
    <3>. QED
      BY <1>6, <3>1, <3>2 DEF continueWrite, Write
  <2>. QED
    BY <1>6, <2>1, <2>2 DEF continueWrite, Write, CloseChannel
<1>7. CASE queueEmpty \/ updateInterestedOps
  BY <1>7 DEF queueEmpty, updateInterestedOps, CloseChannel
<1>. QED
  BY <1>1, <1>2, <1>3, <1>4, <1>5, <1>6, <1>7

LEMMA AcceptType ==
  ASSUME ReactorInv, handleAccept
  PROVE  ReactorTypeOK'
<1>. ReactorTypeOK /\ SelectorState
  BY DEF ReactorInv
<1>1. connectionsIdCuonter \in Conn /\ connectionsIdCuonter' \in 0 .. MaxConnections
  BY Connections, ReactorAssumption DEF ReactorTypeOK, SelectorState, handleAccept
<1>. QED
  BY <1>1 DEF ReactorTypeOK, handleAccept, Selector, poolVars, workVars, dataBaseVars

LEMMA ReadType ==
  ASSUME ReactorInv, continueRead
  PROVE  ReactorTypeOK'
<1>. ReactorTypeOK /\ cur \in Conn
  BY DEF ReactorInv, SelectorState, continueRead
<1>1. batches' \in [Conn -> Seq(Nat)]
  <2>1. \A k \in 1 .. Len(Reads[cur]) : Reads[cur][k] \subseteq Nat
    BY ReactorAssumption
  <2>2. Len(batches[cur]) \in Nat /\ Len(Reads[cur]) \in Nat
    BY ReactorAssumption DEF ReactorTypeOK
  <2>3. ASSUME NEW upTo, Len(batches[cur]) < Len(Reads[cur]),
               upTo \in Reads[cur][Len(batches[cur]) + 1]
        PROVE  Append(batches[cur], upTo) \in Seq(Nat)
    <3>1. upTo \in Nat
      BY <2>1, <2>2, <2>3
    <3>. QED
      BY <3>1, AppendProperties DEF ReactorTypeOK
  <2>4. CASE UNCHANGED batches
    BY <2>4 DEF ReactorTypeOK
  <2>5. CASE /\ Len(batches[cur]) < Len(Reads[cur])
             /\ \E upTo \in Reads[cur][Len(batches[cur]) + 1] :
                  batches' = [batches EXCEPT ![cur] = Append(@, upTo)]
    BY <2>3, <2>5 DEF ReactorTypeOK
  <2>. QED
    BY <2>4, <2>5 DEF continueRead
<1>2. submitted' \in [Conn -> Nat] /\ UNCHANGED <<started, active>>
  <2>1. CASE UNCHANGED poolVars
    BY <2>1 DEF poolVars, ReactorTypeOK
  <2>2. CASE Pool!Submit(cur)
    BY <2>2 DEF Pool!Submit, ReactorTypeOK
  <2>. QED
    BY <2>1, <2>2 DEF continueRead, SubmitTask
<1>3. open' \in [Conn -> BOOLEAN]
  BY DEF continueRead, CloseChannel, ReactorTypeOK
<1>. QED
  BY <1>1, <1>2, <1>3 DEF ReactorTypeOK, continueRead, workVars, protocolVars,
      dataBaseVars

(* The end of a task, by an exception or not.                               *)
LEMMA TaskEndsType ==
  ASSUME ReactorInv, NEW c \in Conn, NEW from, NEW decoding \in BOOLEAN,
         TaskEnds(c, from, decoding), from # "idle", readLeaked' \in BOOLEAN,
         UNCHANGED <<isTerminate, idToHendler, subscribers, subscriptionsDetails,
                     open, opWrite, selectorTasks, writeQueue,
                     selectorThreadVars>>
  PROVE  ReactorTypeOK'
<1>. ReactorTypeOK /\ TasksAreReads(c)
  BY DEF ReactorInv
<1>1. batches[c][started[c]] \in Nat
  BY TakenType DEF TasksAreReads, TaskEnds, Work, ReactorTypeOK
<1>2. NoOut \in OutFrame /\ Over({}) \in Iterator
  BY NoOutType, NewLoop
<1>3. active' \in [Conn -> SUBSET Nat] /\ UNCHANGED <<submitted, started>>
  BY DEF ReactorTypeOK, TaskEnds, Pool!Finish
<1>4. at' \in [Conn -> Nat]
  BY <1>1 DEF ReactorTypeOK, TaskEnds
<1>5. head' \in [Conn -> BOOLEAN]
  BY DEF ReactorTypeOK, TaskEnds
<1>6. out' \in [Conn -> OutFrame] /\ iter' \in [Conn -> Iterator]
  BY <1>2 DEF ReactorTypeOK, TaskEnds
<1>7. after' \in [Conn -> Seq(Cleanup)] /\ UNCHANGED target
  BY DEF ReactorTypeOK, TaskEnds
<1>8. wpc' \in [Conn -> {"idle", "loop", "send", "add", "wakeup", "close", "blocked"}]
  BY DEF ReactorTypeOK, TaskEnds, Work
<1>. QED
  BY <1>3, <1>4, <1>5, <1>6, <1>7, <1>8
  DEF ReactorTypeOK, TaskEnds, Work, Pool!Finish,
      selectorThreadVars, selectorVars

(* A task takes up where the one before it stopped.                         *)
LEMMA TakeUp ==
  ASSUME ReactorTypeOK, NEW c \in Conn, TasksAreReads(c), take(c)
  PROVE  /\ UNCHANGED at
         /\ wpc' = [wpc EXCEPT ![c] = "loop"]
         /\ active[c] = {}
         /\ started[c] < submitted[c]
         /\ started' = [started EXCEPT ![c] = @ + 1]
         /\ active' = [active EXCEPT ![c] = {started[c] + 1}]
         /\ UNCHANGED submitted
<1>1. wpc[c] = "idle" /\ at' = [at EXCEPT ![c] = Taken(c)]
  BY DEF take, Work, Taken
<1>2. at' = at
  BY <1>1 DEF TasksAreReads, ReactorTypeOK
<1>. QED
  BY <1>2 DEF take, Work, Pool!Start

LEMMA ErrorPathType ==
  ASSUME NEW kind
  PROVE  ErrorPath(kind) \in Seq(Cleanup)
<1>1. CASE kind = "SEND"
  BY <1>1 DEF ErrorPath, Cleanup
<1>2. CASE kind = "Unknown"
  BY <1>2 DEF ErrorPath, Cleanup
<1>3. CASE kind # "SEND" /\ kind # "Unknown"
  <2>1. ErrorPath(kind) = <<"dbDisconnect", "removeHandler", "terminate">>
    BY <1>3, Zenon DEF ErrorPath
  <2>. QED
    BY <2>1 DEF Cleanup
<1>. QED
  BY <1>1, <1>2, <1>3

(* The frame that is decoded is one of those its client sent.               *)
LEMMA FrameInBuffer ==
  ASSUME ReactorTypeOK, NEW c \in Conn, TasksAreReads(c),
         wpc[c] # "idle", HasWholeFrame(c)
  PROVE  /\ Frame(c) \in Nat \ {0}
         /\ Frame(c) <= Len(Kinds[c])
         /\ at[c] < 2 * Frame(c)
         /\ at[c] \div 2 < Frame(c)
         /\ 2 * Frame(c) <= Taken(c)
<1>1. at[c] \in Nat /\ Taken(c) \in Nat /\ Taken(c) <= 2 * Len(Kinds[c])
      /\ Len(Kinds[c]) \in Nat
  BY TakenType, ReactorAssumption, SMTT(30) DEF ReactorTypeOK
<1>2. Taken(c) = batches[c][started[c]]
  BY TakenType DEF TasksAreReads, ReactorTypeOK
<1>. QED
  BY <1>1, <1>2, SMTT(30) DEF Frame, HasWholeFrame

LEMMA ProcessCases ==
  ASSUME NEW c, process(c)
  PROVE  /\ wpc[c] = "loop" /\ HasWholeFrame(c) /\ ~isTerminate[c]
         /\ UNCHANGED <<isTerminate, open, opWrite, selectorTasks, writeQueue,
                        selectorThreadVars>>
         /\ \E kind \in Decoded(c) :
              fails(c, kind) \/ waits(c, "loop") \/ answer(c, kind)
BY Zenon DEF process

(* A worker that fails ends its task; one that waits changes nothing.       *)
LEMMA FailsEffect ==
  ASSUME NEW c, NEW kind, fails(c, kind)
  PROVE  /\ kind = "Malformed" \/ LeaksReadLock(c, kind)
         /\ TaskEnds(c, "loop", FALSE)
         /\ readLeaked' \in BOOLEAN
         /\ UNCHANGED <<subscribers, subscriptionsDetails, idToHendler>>
BY Zenon DEF fails, Throws

LEMMA WaitsEffect ==
  ASSUME ReactorTypeOK, NEW c \in Conn, NEW from, from \in {"loop", "send"}, waits(c, from)
  PROVE  /\ wpc[c] = from /\ wpc'[c] = "blocked"
         /\ wpc' \in [Conn -> {"idle", "loop", "send", "add", "wakeup", "close", "blocked"}]
         /\ \A d \in Conn \ {c} : wpc'[d] = wpc[d]
         /\ UNCHANGED <<at, head, out, iter, target, after, poolVars,
                        idToHendler, subscribers, subscriptionsDetails, readLeaked>>
BY DEF waits, Work, ReactorTypeOK, dataBaseVars

(* What sending leaves, in the terms the invariant is about.                *)
LEMMA SendsEffect ==
  ASSUME ReactorTypeOK, NEW c \in Conn, TasksAreReads(c), HasWholeFrame(c),
         NEW kind, answer(c, kind)
  PROVE  /\ wpc[c] = "loop" /\ wpc' = [wpc EXCEPT ![c] = "send"]
         /\ at' = [at EXCEPT ![c] = 2 * Frame(c)]
         /\ head' = [head EXCEPT ![c] = FALSE]
         /\ \E commend \in Commend :
              out' = [out EXCEPT ![c] = [from |-> c, nth |-> Frame(c),
                                         commend |-> commend]]
         /\ after' \in [Conn -> Seq(Cleanup)]
         /\ subscribers' \in SUBSET Conn
         /\ subscriptionsDetails' \in SUBSET Conn
         /\ UNCHANGED <<idToHendler, readLeaked>>
         /\ iter' \in [Conn -> Iterator]
         /\ iter'[c].done = {}
         /\ \A d \in Conn \ {c} :
              /\ iter'[d].done = iter[d].done
              /\ iter[d].todo \cap iter[d].done = {}
                   => iter'[d].todo \cap iter'[d].done = {}
         /\ UNCHANGED <<target, poolVars>>
<1>. DEFINE served == Served(c, kind)
            commend == IF ~served THEN "ERROR"
                       ELSE IF kind = "SEND" THEN "MESSAGE"
                       ELSE IF kind \in {"silent SUBSCRIBE", "silent UNSUBSCRIBE"}
                       THEN "null" ELSE "RECEIPT"
            receivers == IF commend = "MESSAGE" THEN subscribers ELSE {c}
            leaves == served /\ kind \in Unsubscribing \cup {"DISCONNECT"}
            set == CASE served /\ kind \in Subscribing -> subscribers \cup {c}
                     [] leaves -> subscribers \ {c}
                     [] OTHER -> subscribers
            details == CASE served /\ kind \in Subscribing -> subscriptionsDetails \cup {c}
                         [] kind = "DISCONNECT" -> subscriptionsDetails \ {c}
                         [] OTHER -> subscriptionsDetails
<1>1. /\ set \in SUBSET Conn /\ receivers \in SUBSET Conn
      /\ details \in SUBSET Conn
  BY DEF ReactorTypeOK
<1>2. SubscribersBecome(set, c, Over(receivers))
  BY Zenon DEF answer
<1>3. commend \in Commend
  BY DEF Commend
<1>4. out' = [out EXCEPT ![c] = [from |-> c, nth |-> Frame(c),
                                 commend |-> commend]]
  BY Zenon DEF answer
<1>5. after' \in [Conn -> Seq(Cleanup)]
  BY ErrorPathType, EmptySeq DEF answer, ReactorTypeOK
<1>8. subscriptionsDetails' = details
  BY Zenon DEF answer
<1>. HIDE DEF served, commend, receivers, leaves, set, details
<1>6. /\ subscribers' = set /\ UNCHANGED idToHendler
      /\ iter' \in [Conn -> Iterator] /\ iter'[c] = Over(receivers)
      /\ \A d \in Conn \ {c} :
           /\ iter'[d].done = iter[d].done
           /\ iter[d].todo \cap iter[d].done = {}
                => iter'[d].todo \cap iter'[d].done = {}
  BY <1>1, <1>2, NewLoop, SubscribersChange
<1>7. /\ wpc[c] = "loop" /\ wpc' = [wpc EXCEPT ![c] = "send"]
      /\ at' = [at EXCEPT ![c] = 2 * Frame(c)]
      /\ head' = [head EXCEPT ![c] = FALSE]
      /\ UNCHANGED <<target, poolVars, readLeaked>>
  BY Zenon DEF answer, Work
<1>. QED
  BY <1>1, <1>3, <1>4, <1>5, <1>6, <1>7, <1>8, NewLoop

LEMMA AnswerType ==
  ASSUME ReactorInv, NEW c \in Conn, NEW kind, HasWholeFrame(c), answer(c, kind),
         UNCHANGED <<isTerminate, open, opWrite, selectorTasks, writeQueue,
                     selectorThreadVars>>
  PROVE  ReactorTypeOK'
<1>. ReactorTypeOK /\ TasksAreReads(c)
  BY DEF ReactorInv
<1>1. wpc[c] = "loop" /\ Frame(c) \in Nat
  BY SendsEffect, FrameInBuffer
<1>2. at' \in [Conn -> Nat] /\ head' \in [Conn -> BOOLEAN]
  <2>1. /\ 2 * Frame(c) \in Nat
        /\ at' = [at EXCEPT ![c] = 2 * Frame(c)]
        /\ head' = [head EXCEPT ![c] = FALSE]
    BY <1>1, SendsEffect
  <2>. QED
    BY <2>1 DEF ReactorTypeOK
<1>3. out' \in [Conn -> OutFrame]
  <2>1. PICK commend \in Commend :
          out' = [out EXCEPT ![c] = [from |-> c, nth |-> Frame(c),
                                     commend |-> commend]]
    BY SendsEffect
  <2>2. [from |-> c, nth |-> Frame(c), commend |-> commend] \in OutFrame
    BY <1>1 DEF OutFrame
  <2>. QED
    BY <2>1, <2>2 DEF ReactorTypeOK
<1>4. wpc' \in [Conn -> {"idle", "loop", "send", "add", "wakeup", "close", "blocked"}]
  BY SendsEffect DEF ReactorTypeOK
<1>5. /\ iter' \in [Conn -> Iterator] /\ after' \in [Conn -> Seq(Cleanup)]
      /\ subscribers' \in SUBSET Conn /\ subscriptionsDetails' \in SUBSET Conn
      /\ UNCHANGED <<target, poolVars, idToHendler, readLeaked>>
  BY SendsEffect
<1>. QED
  BY <1>2, <1>3, <1>4, <1>5
  DEF ReactorTypeOK, poolVars, selectorThreadVars, selectorVars

LEMMA WaitsType ==
  ASSUME ReactorTypeOK, NEW c \in Conn, NEW from, from \in {"loop", "send"}, waits(c, from),
         UNCHANGED <<isTerminate, open, opWrite, selectorTasks, writeQueue,
                     selectorThreadVars>>
  PROVE  ReactorTypeOK'
<1>1. /\ wpc' \in [Conn -> {"idle", "loop", "send", "add", "wakeup", "close", "blocked"}]
      /\ UNCHANGED <<at, head, out, iter, target, after, poolVars,
                     idToHendler, subscribers, subscriptionsDetails, readLeaked>>
  BY WaitsEffect
<1>. QED
  BY <1>1 DEF ReactorTypeOK, poolVars, selectorThreadVars, selectorVars

(* The worker's other steps.                                                *)
LEMMA WorkerType ==
  ASSUME ReactorInv, NEW c \in Conn,
         \/ take(c) \/ process(c) \/ endOfBuffer(c) \/ send(c) \/ wakeup(c)
         \/ addToWriteQueue(c) \/ closeIfTerminating(c) \/ afterSending(c)
         \/ processed(c)
  PROVE  ReactorTypeOK'
<1>. ReactorTypeOK /\ TasksAreReads(c) /\ SendsItsFrame(c)
  BY DEF ReactorInv
<1>. USE DEF Work, selectorThreadVars, selectorVars, protocolVars, dataBaseVars, poolVars
<1>1. CASE take(c)
  <2>1. /\ started' \in [Conn -> Nat] /\ active' \in [Conn -> SUBSET Nat]
        /\ wpc' \in [Conn -> {"idle", "loop", "send", "add", "wakeup", "close", "blocked"}]
        /\ UNCHANGED <<at, submitted>>
    <3>1. /\ wpc' = [wpc EXCEPT ![c] = "loop"]
          /\ started' = [started EXCEPT ![c] = @ + 1]
          /\ active' = [active EXCEPT ![c] = {started[c] + 1}]
          /\ UNCHANGED <<at, submitted>>
      BY <1>1, TakeUp
    <3>2. started[c] + 1 \in Nat
      BY SMTT(30) DEF ReactorTypeOK
    <3>3. started' \in [Conn -> Nat] /\ active' \in [Conn -> SUBSET Nat]
      BY <3>1, <3>2 DEF ReactorTypeOK
    <3>. QED
      BY <3>1, <3>3 DEF ReactorTypeOK
  <2>. QED
    BY <1>1, <2>1, ZenonT(60) DEF ReactorTypeOK, take
<1>2. CASE process(c)
  <2>1. PICK kind \in Decoded(c) :
          fails(c, kind) \/ waits(c, "loop") \/ answer(c, kind)
    BY <1>2, ProcessCases
  <2>2. CASE fails(c, kind)
    BY <1>2, <2>2, ProcessCases, FailsEffect, TaskEndsType
  <2>3. CASE waits(c, "loop")
    BY <1>2, <2>3, ProcessCases, WaitsType
  <2>4. CASE answer(c, kind)
    BY <1>2, <2>4, ProcessCases, AnswerType
  <2>. QED
    BY <2>1, <2>2, <2>3, <2>4
<1>3. CASE endOfBuffer(c)
  BY <1>3, TaskEndsType DEF endOfBuffer, ReactorTypeOK
<1>4. CASE send(c)
  <2>1. CASE Throws(c, "send")
    BY <1>4, <2>1, TaskEndsType DEF send, Throws, ReactorTypeOK
  <2>2. CASE \E d \in iter[c].todo \cap idToHendler :
               /\ Work(c, "send", "add")
               /\ target' = [target EXCEPT ![c] = d]
               /\ UNCHANGED <<at, head, out, iter, after, poolVars>>
    BY <1>4, <2>2, SMTT(30) DEF ReactorTypeOK, send
  <2>. QED
    BY <1>4, <2>1, <2>2 DEF send
<1>5. CASE addToWriteQueue(c)
  <2>1. target[c] \in Conn /\ out[c] \in OutFrame
    BY <1>5 DEF addToWriteQueue, SendsItsFrame, HasTarget, ReactorTypeOK
  <2>2. writeQueue' \in [Conn -> Seq(OutFrame)]
    BY <1>5, <2>1, AppendProperties DEF addToWriteQueue, ReactorTypeOK
  <2>. QED
    BY <1>5, <2>2 DEF ReactorTypeOK, addToWriteQueue
<1>6. CASE wakeup(c)
  <2>1. target[c] \in Conn
    BY <1>6 DEF wakeup, SendsItsFrame, HasTarget
  <2>2. selectorTasks' \in Seq(Conn)
    BY <1>6, <2>1, AppendProperties DEF wakeup, ReactorTypeOK
  <2>. QED
    BY <1>6, <2>2 DEF ReactorTypeOK, wakeup
<1>7. CASE closeIfTerminating(c)
  <2>1. target[c] \in Conn
    BY <1>7 DEF closeIfTerminating, SendsItsFrame, HasTarget
  <2>2. open' \in [Conn -> BOOLEAN]
    BY <1>7, <2>1 DEF closeIfTerminating, CloseChannel, ReactorTypeOK
  <2>3. iter' \in [Conn -> Iterator]
    BY <1>7, <2>1, ServedNext DEF ReactorTypeOK, closeIfTerminating
  <2>. QED
    BY <1>7, <2>2, <2>3 DEF ReactorTypeOK, closeIfTerminating
<1>8. CASE afterSending(c)
  <2>1. CASE waits(c, "send") /\ UNCHANGED isTerminate
    BY <1>8, <2>1, WaitsType DEF afterSending
  <2>2. CASE /\ after' = [after EXCEPT ![c] = Tail(@)]
             /\ UNCHANGED <<wpc, readLeaked>>
    <3>1. after' \in [Conn -> Seq(Cleanup)]
      BY <1>8, <2>2, HeadTailProperties DEF afterSending, ReactorTypeOK
    <3>2. isTerminate' \in [Conn -> BOOLEAN]
      BY <1>8 DEF afterSending, ReactorTypeOK
    <3>3. /\ iter' \in [Conn -> Iterator] /\ subscribers' \in SUBSET Conn
          /\ idToHendler' \in SUBSET Conn /\ subscriptionsDetails' \in SUBSET Conn
      <4>1. CASE /\ SubscribersBecome(subscribers \ {c}, c, iter[c])
                 /\ subscriptionsDetails' = subscriptionsDetails \ {c}
        <5>1. subscribers \ {c} \in SUBSET Conn /\ iter[c] \in Iterator
          BY DEF ReactorTypeOK
        <5>. QED
          BY <4>1, <5>1, SubscribersChange, ZenonT(60) DEF ReactorTypeOK
      <4>2. CASE /\ UNCHANGED <<subscribers, subscriptionsDetails, iter>>
                 /\ idToHendler' \subseteq idToHendler
        BY <4>2 DEF ReactorTypeOK
      <4>. QED
        BY <1>8, <2>2, <4>1, <4>2 DEF afterSending, waits
    <3>. QED
      BY <1>8, <2>2, <3>1, <3>2, <3>3 DEF ReactorTypeOK, afterSending
  <2>. QED
    BY <1>8, <2>1, <2>2 DEF afterSending
<1>9. CASE processed(c)
  BY <1>9, NewLoop, NoOutType DEF ReactorTypeOK, processed
<1>. QED
  BY <1>1, <1>2, <1>3, <1>4, <1>5, <1>6, <1>7, <1>8, <1>9

LEMMA TypeNext ==
  ASSUME ReactorInv, [Next]_vars
  PROVE  ReactorTypeOK'
<1>1. CASE Serve
  BY <1>1, SelectorType, AcceptType, ReadType DEF Serve
<1>2. ASSUME NEW c \in Conn, Task(c)
      PROVE  ReactorTypeOK'
  BY <1>2, WorkerType DEF Task
<1>3. CASE UNCHANGED vars
  BY <1>3 DEF vars, poolVars, selectorVars, workVars, protocolVars, dataBaseVars,
              ReactorInv, ReactorTypeOK
<1>. QED
  BY <1>1, <1>2, <1>3 DEF Next, AllServed

-----------------------------------------------------------------------------
(* A task for every read, in the order of the reads.                        *)

LEMMA SameTasks ==
  ASSUME NEW c, TasksAreReads(c),
         submitted'[c] = submitted[c], started'[c] = started[c],
         active'[c] = active[c], batches'[c] = batches[c], at'[c] = at[c],
         wpc'[c] = "idle" <=> wpc[c] = "idle"
  PROVE  TasksAreReads(c)'
BY DEF TasksAreReads, Taken

(* Only a read of the selector thread submits a task.                       *)
LEMMA SelectorLeavesTasks ==
  ASSUME Serve, ~continueRead
  PROVE  UNCHANGED <<poolVars, workVars, batches>>
<1>. USE DEF poolVars, workVars, Selector, Goes, KeyDone, Dies
<1>1. CASE select \/ runSelectionThreadTask \/ tasksDone
  BY <1>1 DEF select, runSelectionThreadTask, tasksDone
<1>2. CASE handleAccept \/ nextKey \/ keysDone
  BY <1>2 DEF handleAccept, nextKey, keysDone
<1>3. CASE isReadable \/ isValid \/ isWritable
  BY <1>3 DEF isReadable, isValid, isWritable
<1>4. CASE continueWrite \/ queueEmpty \/ updateInterestedOps
  BY <1>4 DEF continueWrite, Write, queueEmpty, updateInterestedOps
<1>. QED
  BY <1>1, <1>2, <1>3, <1>4 DEF Serve

LEMMA ReadTasks ==
  ASSUME ReactorTypeOK, SelectorState, continueRead,
         \A c \in Conn : TasksAreReads(c)
  PROVE  \A c \in Conn : TasksAreReads(c)'
<1>1. UNCHANGED workVars
  BY DEF continueRead
<1>0. PICK r \in Conn : r = cur
  BY DEF SelectorState, continueRead
<1>2. CASE UNCHANGED <<batches, poolVars>>
  BY <1>1, <1>2, SameTasks DEF poolVars, workVars
<1>3. CASE /\ Len(batches[r]) < Len(Reads[r])
           /\ \E upTo \in Reads[r][Len(batches[r]) + 1] :
                /\ upTo > ReadSoFar(r)
                /\ batches' = [batches EXCEPT ![r] = Append(@, upTo)]
           /\ SubmitTask(r)
  <2>1. PICK upTo \in Reads[r][Len(batches[r]) + 1] :
          /\ upTo > ReadSoFar(r)
          /\ batches' = [batches EXCEPT ![r] = Append(@, upTo)]
    BY <1>3
  <2>. DEFINE b == batches[r]
              n == Len(b)
  <2>2. b \in Seq(Nat) /\ n \in Nat /\ DOMAIN b = 1 .. n
    BY DEF ReactorTypeOK
  <2>3. /\ Reads[r] \in Seq(SUBSET Nat) /\ Len(Reads[r]) \in Nat
        /\ Len(Kinds[r]) \in Nat /\ 2 * Len(Kinds[r]) \in Nat
    BY ReactorAssumption
  <2>4. n + 1 \in DOMAIN Reads[r]
    BY <1>3, <2>2, <2>3
  <2>5. upTo \in Nat /\ upTo <= 2 * Len(Kinds[r])
    BY <2>1, <2>3, <2>4, ReactorAssumption
  <2>6. /\ batches'[r] = Append(b, upTo)
        /\ \A c \in Conn \ {r} : batches'[c] = batches[c]
    BY <2>1 DEF ReactorTypeOK
  <2>7. /\ Len(Append(b, upTo)) = n + 1
        /\ DOMAIN Append(b, upTo) = 1 .. n + 1
        /\ \A k \in 1 .. n : Append(b, upTo)[k] = b[k]
        /\ Append(b, upTo)[n + 1] = upTo
    BY <2>2, <2>5, AppendProperties
  <2>8. n > 0 => ReadSoFar(r) = b[n]
    BY <2>2 DEF ReadSoFar
  <2>9. n = 0 => ReadSoFar(r) = 0
    BY <2>2, EmptySeq DEF ReadSoFar
  <2>10. /\ submitted' = [submitted EXCEPT ![r] = @ + 1]
         /\ UNCHANGED <<started, active>>
    BY <1>3 DEF SubmitTask, Pool!Submit
  <2>11. ASSUME NEW c \in Conn \ {r} PROVE TasksAreReads(c)'
    BY <1>1, <2>6, <2>10, <2>11, SameTasks DEF ReactorTypeOK, workVars
  <2>12. TasksAreReads(r)'
    <3>1. /\ \A k \in 1 .. n : b[k] \in Nat /\ b[k] \in 1 .. 2 * Len(Kinds[r])
          /\ \A j, k \in 1 .. n : j < k => b[j] < b[k]
          /\ submitted[r] = n /\ started[r] \in 0 .. n
          /\ 2 * Len(Kinds[r]) \in Nat
      <4>1. TasksAreReads(r)
        OBVIOUS
      <4>2. \A k \in 1 .. n : b[k] \in 1 .. 2 * Len(Kinds[r])
        BY <2>2, <4>1 DEF TasksAreReads
      <4>3. \A j, k \in 1 .. n : j < k => b[j] < b[k]
        BY <2>2, <4>1 DEF TasksAreReads
      <4>4. submitted[r] = n /\ started[r] \in Nat /\ started[r] <= n
        BY <2>2, <4>1 DEF TasksAreReads, ReactorTypeOK
      <4>. HIDE DEF b, n
      <4>. QED
        BY <2>2, <2>3, <4>2, <4>3, <4>4
    <3>2. upTo \in 1 .. 2 * Len(Kinds[r])
      BY <2>1, <2>2, <2>5, <2>8, <2>9, <3>1
    <3>3. ASSUME NEW k \in 1 .. n PROVE b[k] < upTo
      <4>1. n \in 1 .. n /\ b[n] < upTo
        BY <2>1, <2>2, <2>8
      <4>2. b[k] \in Nat /\ b[n] \in Nat /\ k \in Nat /\ n \in Nat
        BY <2>2, <3>1, <4>1
      <4>3. k < n => b[k] < b[n]
        BY <3>1, <4>1
      <4>. HIDE DEF b, n
      <4>. QED
        BY <2>5, <4>1, <4>2, <4>3
    <3>. HIDE DEF b, n
    <3>4. /\ submitted'[r] = n + 1 /\ started'[r] = started[r]
          /\ active'[r] = active[r]
          /\ wpc'[r] = wpc[r] /\ at'[r] = at[r]
      BY <1>1, <2>10, <3>1 DEF ReactorTypeOK, workVars
    <3>5. Taken(r)' = Taken(r)
      BY <2>2, <2>6, <2>7, <3>1, <3>4 DEF Taken, b
    <3>6. \A k \in 1 .. n + 1 : Append(b, upTo)[k] \in 1 .. 2 * Len(Kinds[r])
      BY <2>2, <2>7, <3>1, <3>2
    <3>7. \A j, k \in 1 .. n + 1 : j < k => Append(b, upTo)[j] < Append(b, upTo)[k]
      <4>1. ASSUME NEW j \in 1 .. n + 1, NEW k \in 1 .. n + 1, j < k
            PROVE  Append(b, upTo)[j] < Append(b, upTo)[k]
        <5>1. j \in 1 .. n
          BY <2>2, <4>1
        <5>2. CASE k \in 1 .. n
          BY <2>7, <3>1, <4>1, <5>1, <5>2
        <5>3. CASE k = n + 1
          BY <2>7, <3>3, <5>1, <5>3
        <5>. QED
          BY <2>2, <5>2, <5>3
      <4>. QED
        BY <4>1
    <3>8. started[r] <= n + 1
      BY <2>2, <3>1
    <3>9. TasksAreReads(r)
      OBVIOUS
    <3>. QED
      BY <2>6, <2>7, <3>4, <3>5, <3>6, <3>7, <3>8, <3>9 DEF TasksAreReads
  <2>. QED
    BY <2>11, <2>12, Zenon
<1>. QED
  BY <1>0, <1>2, <1>3 DEF continueRead

(* The worker of one connection leaves the tasks of the others alone.       *)
OthersWork(c) ==
  /\ UNCHANGED <<submitted, batches>>
  /\ \A d \in Conn \ {c} :
       /\ started'[d] = started[d] /\ active'[d] = active[d]
       /\ at'[d] = at[d] /\ head'[d] = head[d] /\ out'[d] = out[d]
       /\ wpc'[d] = wpc[d] /\ target'[d] = target[d]

LEMMA OthersAfterTaskEnds ==
  ASSUME ReactorTypeOK, NEW c \in Conn, NEW from, NEW decoding,
         TaskEnds(c, from, decoding), UNCHANGED batches
  PROVE  OthersWork(c)
BY DEF TaskEnds, Work, Pool!Finish, OthersWork, ReactorTypeOK

LEMMA OwnTasks ==
  ASSUME ReactorTypeOK, NEW c \in Conn, Task(c), TasksAreReads(c)
  PROVE  OthersWork(c)
<1>. USE DEF Work, selectorThreadVars, selectorVars
<1>1. CASE take(c)
  <2>1. UNCHANGED <<head, out, target, batches>>
    BY <1>1 DEF take
  <2>. QED
    BY <1>1, <2>1, TakeUp, SMTT(30) DEF OthersWork, ReactorTypeOK
<1>2. CASE process(c)
  <2>1. UNCHANGED batches
    BY <1>2 DEF process
  <2>2. ASSUME NEW kind, fails(c, kind)
        PROVE  OthersWork(c)
    BY <2>1, <2>2, FailsEffect, OthersAfterTaskEnds
  <2>4. CASE waits(c, "loop")
    BY <2>1, <2>4, WaitsEffect DEF OthersWork, poolVars
  <2>3. ASSUME NEW kind, answer(c, kind)
        PROVE  OthersWork(c)
    <3>1. HasWholeFrame(c)
      BY <1>2 DEF process
    <3>2. /\ wpc' = [wpc EXCEPT ![c] = "send"]
          /\ at' = [at EXCEPT ![c] = 2 * Frame(c)]
          /\ head' = [head EXCEPT ![c] = FALSE]
          /\ \E f : out' = [out EXCEPT ![c] = f]
          /\ UNCHANGED <<target, poolVars>>
      BY <2>3, <3>1, SendsEffect
    <3>. QED
      BY <2>1, <3>2 DEF OthersWork, ReactorTypeOK, poolVars
  <2>. QED
    BY <1>2, <2>2, <2>3, <2>4, ProcessCases
<1>3. CASE endOfBuffer(c)
  BY <1>3, OthersAfterTaskEnds DEF endOfBuffer
<1>4. CASE send(c)
  <2>1. CASE Throws(c, "send")
    BY <1>4, <2>1, OthersAfterTaskEnds DEF send, Throws
  <2>2. CASE \E d \in iter[c].todo \cap idToHendler :
               /\ Work(c, "send", "add")
               /\ target' = [target EXCEPT ![c] = d]
               /\ UNCHANGED <<at, head, out, iter, after, poolVars>>
    BY <1>4, <2>2 DEF send, OthersWork, ReactorTypeOK, poolVars
  <2>. QED
    BY <1>4, <2>1, <2>2 DEF send
<1>5. CASE addToWriteQueue(c) \/ wakeup(c) \/ processed(c)
  BY <1>5 DEF addToWriteQueue, wakeup, processed, OthersWork, ReactorTypeOK,
              poolVars
<1>6. CASE closeIfTerminating(c)
  BY <1>6, SMTT(30) DEF closeIfTerminating, OthersWork, ReactorTypeOK, poolVars
<1>7. CASE afterSending(c)
  BY <1>7, SMTT(30) DEF afterSending, waits, OthersWork, ReactorTypeOK, poolVars
<1>. QED
  BY <1>1, <1>2, <1>3, <1>4, <1>5, <1>6, <1>7 DEF Task

(* Its own: begun with take, ended with TaskEnds; it gets on in between.    *)
LEMMA TaskEndsTasks ==
  ASSUME ReactorTypeOK, NEW c \in Conn, NEW from, NEW decoding,
         TaskEnds(c, from, decoding), from # "idle", TasksAreReads(c),
         UNCHANGED batches
  PROVE  TasksAreReads(c)'
<1>1. /\ started[c] > 0 /\ Taken(c) = batches[c][started[c]] /\ Taken(c) \in Nat
  BY TakenType DEF TasksAreReads, TaskEnds, Work
<1>2. /\ active'[c] = {} /\ wpc'[c] = "idle" /\ at'[c] = batches[c][started[c]]
      /\ UNCHANGED <<submitted, started>>
  BY DEF TaskEnds, Work, Pool!Finish, ReactorTypeOK
<1>. QED
  BY <1>1, <1>2 DEF TasksAreReads, Taken

LEMMA WorkerTasks ==
  ASSUME ReactorTypeOK, NEW c \in Conn, Task(c), TasksAreReads(c)
  PROVE  TasksAreReads(c)'
<1>. USE DEF Work, selectorThreadVars, selectorVars
<1>1. CASE take(c)
  <2>. DEFINE k == started[c] + 1
  <2>1. /\ started[c] \in Nat /\ submitted[c] = Len(batches[c])
        /\ batches[c] \in Seq(Nat) /\ started[c] < submitted[c]
        /\ at[c] = Taken(c) /\ Taken(c) \in Nat
    BY <1>1, TakeUp, TakenType DEF take, TasksAreReads, ReactorTypeOK
  <2>2. /\ started'[c] = k /\ active'[c] = {k} /\ wpc'[c] = "loop"
        /\ UNCHANGED <<submitted, batches, at>>
    <3>1. /\ wpc' = [wpc EXCEPT ![c] = "loop"]
          /\ started' = [started EXCEPT ![c] = @ + 1]
          /\ active' = [active EXCEPT ![c] = {started[c] + 1}]
          /\ UNCHANGED <<submitted, at>>
      BY <1>1, TakeUp
    <3>2. UNCHANGED batches
      BY <1>1 DEF take
    <3>. QED
      BY <3>1, <3>2 DEF ReactorTypeOK
  <2>3. Taken(c)' = batches[c][k]
    BY <2>1, <2>2 DEF Taken
  <2>4. at[c] <= batches[c][k]
    <3>1. CASE started[c] = 0
      BY <2>1, <3>1 DEF Taken, TasksAreReads
    <3>2. CASE started[c] > 0
      <4>1. started[c] \in DOMAIN batches[c] /\ k \in DOMAIN batches[c]
        BY <2>1, <3>2
      <4>. QED
        BY <2>1, <3>2, <4>1, SMTT(30) DEF Taken, TasksAreReads
    <3>. QED
      BY <2>1, <3>1, <3>2
  <2>. QED
    BY <2>1, <2>2, <2>3, <2>4 DEF TasksAreReads
<1>2. CASE process(c)
  <2>1. UNCHANGED batches /\ wpc[c] = "loop" /\ HasWholeFrame(c)
    BY <1>2 DEF process
  <2>2. ASSUME NEW kind, fails(c, kind)
        PROVE  TasksAreReads(c)'
    BY <2>1, <2>2, FailsEffect, TaskEndsTasks
  <2>4. CASE waits(c, "loop")
    BY <2>1, <2>4, WaitsEffect, SameTasks DEF poolVars
  <2>3. ASSUME NEW kind, answer(c, kind)
        PROVE  TasksAreReads(c)'
    <3>1. /\ at'[c] = 2 * Frame(c) /\ wpc'[c] = "send" /\ UNCHANGED poolVars
      BY <2>1, <2>3, SendsEffect, SMTT(30) DEF ReactorTypeOK
    <3>2. 2 * Frame(c) <= Taken(c)
      BY <2>1, FrameInBuffer
    <3>. QED
      BY <2>1, <3>1, <3>2 DEF TasksAreReads, Taken, poolVars
  <2>. QED
    BY <1>2, <2>2, <2>3, <2>4, ProcessCases
<1>3. CASE endOfBuffer(c)
  BY <1>3, TaskEndsTasks DEF endOfBuffer
<1>4. CASE send(c)
  <2>1. CASE Throws(c, "send")
    BY <1>4, <2>1, TaskEndsTasks DEF send, Throws
  <2>2. CASE \E d \in iter[c].todo \cap idToHendler :
               /\ Work(c, "send", "add")
               /\ UNCHANGED <<at, poolVars>>
    BY <1>4, <2>2, SameTasks DEF send, ReactorTypeOK, poolVars
  <2>. QED
    BY <1>4, <2>1, <2>2 DEF send
<1>5. CASE addToWriteQueue(c) \/ wakeup(c) \/ processed(c)
  BY <1>5, SameTasks DEF addToWriteQueue, wakeup, processed, ReactorTypeOK, poolVars
<1>6. CASE closeIfTerminating(c)
  BY <1>6, SameTasks DEF closeIfTerminating, ReactorTypeOK, poolVars
<1>7. CASE afterSending(c)
  BY <1>7, SameTasks DEF afterSending, waits, ReactorTypeOK, poolVars
<1>. QED
  BY <1>1, <1>2, <1>3, <1>4, <1>5, <1>6, <1>7 DEF Task

LEMMA TasksNext ==
  ASSUME ReactorInv, [Next]_vars
  PROVE  \A c \in Conn : TasksAreReads(c)'
<1>. ReactorTypeOK /\ SelectorState /\ \A c \in Conn : TasksAreReads(c)
  BY DEF ReactorInv
<1>1. CASE continueRead
  BY <1>1, ReadTasks
<1>2. CASE UNCHANGED <<poolVars, workVars, batches>>
  BY <1>2, SameTasks DEF poolVars, workVars
<1>3. ASSUME NEW c \in Conn, Task(c)
      PROVE  \A d \in Conn : TasksAreReads(d)'
  BY <1>3, WorkerTasks, OwnTasks, SameTasks DEF OthersWork
<1>4. CASE UNCHANGED vars
  BY <1>2, <1>4 DEF vars, selectorVars
<1>. QED
  BY <1>1, <1>2, <1>3, <1>4, SelectorLeavesTasks DEF Next, AllServed

-----------------------------------------------------------------------------
(* What a worker sends, and to whom.                                        *)

LEMMA OthersLoops ==
  ASSUME ReactorTypeOK, NEW c \in Conn, Task(c), TasksAreReads(c)
  PROVE  \A d \in Conn \ {c} :
           /\ iter'[d].done = iter[d].done
           /\ iter[d].todo \cap iter[d].done = {}
                => iter'[d].todo \cap iter'[d].done = {}
<1>1. CASE \A d \in Conn \ {c} : iter'[d] = iter[d]
  BY <1>1
<1>2. CASE process(c)
  <2>1. HasWholeFrame(c)
    BY <1>2 DEF process
  <2>2. ASSUME NEW kind, fails(c, kind)
        PROVE  \A d \in Conn \ {c} : iter'[d] = iter[d]
    BY <2>2, FailsEffect DEF TaskEnds, ReactorTypeOK
  <2>4. CASE waits(c, "loop")
    BY <1>1, <2>4, WaitsEffect
  <2>3. ASSUME NEW kind, answer(c, kind)
        PROVE  \A d \in Conn \ {c} :
                 /\ iter'[d].done = iter[d].done
                 /\ iter[d].todo \cap iter[d].done = {}
                      => iter'[d].todo \cap iter'[d].done = {}
    BY <2>1, <2>3, SendsEffect
  <2>. QED
    BY <1>1, <1>2, <2>2, <2>3, <2>4, ProcessCases
<1>3. CASE afterSending(c)
  <2>1. CASE SubscribersBecome(subscribers \ {c}, c, iter[c])
    <3>1. subscribers \ {c} \in SUBSET Conn /\ iter[c] \in Iterator
      BY DEF ReactorTypeOK
    <3>. QED
      BY <2>1, <3>1, SubscribersChange
  <2>2. CASE UNCHANGED iter
    BY <1>1, <2>2
  <2>. QED
    BY <1>3, <2>1, <2>2 DEF afterSending, waits
<1>4. CASE take(c) \/ endOfBuffer(c) \/ send(c) \/ processed(c)
  BY <1>1, <1>4, ZenonT(60) DEF take, endOfBuffer, send, Throws, TaskEnds, processed,
                    ReactorTypeOK
<1>5. CASE addToWriteQueue(c) \/ wakeup(c)
  BY <1>1, <1>5 DEF addToWriteQueue, wakeup
<1>6. CASE closeIfTerminating(c)
  BY <1>1, <1>6 DEF closeIfTerminating, ReactorTypeOK
<1>. QED
  BY <1>2, <1>3, <1>4, <1>5, <1>6 DEF Task

LEMMA TaskEndsSending ==
  ASSUME ReactorTypeOK, NEW c \in Conn, NEW from, NEW decoding,
         TaskEnds(c, from, decoding), from \notin HasTarget, SendsItsFrame(c)
  PROVE  SendsItsFrame(c)'
<1>1. target[c] = Nobody
  BY DEF SendsItsFrame, TaskEnds, Work
<1>2. wpc'[c] = "idle" /\ iter'[c] = Over({}) /\ target'[c] = Nobody
  BY <1>1 DEF TaskEnds, Work, ReactorTypeOK
<1>. QED
  BY <1>2, NewLoop DEF SendsItsFrame, Processing, HasTarget

LEMMA WorkerSends ==
  ASSUME ReactorTypeOK, NEW c \in Conn, Task(c),
         TasksAreReads(c), SendsItsFrame(c), NotYetAccepted
  PROVE  SendsItsFrame(c)'
<1>. USE DEF Work, Processing, HasTarget
<1>1. CASE take(c)
  BY <1>1, TakeUp, SMTT(30) DEF take, SendsItsFrame, ReactorTypeOK, selectorThreadVars,
                      selectorVars
<1>2. CASE process(c)
  <2>1. HasWholeFrame(c) /\ wpc[c] = "loop" /\ UNCHANGED connectionsIdCuonter
    BY <1>2 DEF process, selectorThreadVars, selectorVars
  <2>2. ASSUME NEW kind, fails(c, kind)
        PROVE  SendsItsFrame(c)'
    BY <2>2, FailsEffect, TaskEndsSending
  <2>4. CASE waits(c, "loop")
    BY <2>1, <2>4, WaitsEffect DEF SendsItsFrame
  <2>3. ASSUME NEW kind, answer(c, kind)
        PROVE  SendsItsFrame(c)'
    <3>1. /\ wpc' = [wpc EXCEPT ![c] = "send"]
          /\ at' = [at EXCEPT ![c] = 2 * Frame(c)]
          /\ \E commend \in Commend :
               out' = [out EXCEPT ![c] = [from |-> c, nth |-> Frame(c),
                                          commend |-> commend]]
          /\ iter'[c].done = {} /\ UNCHANGED target
      BY <2>1, <2>3, SendsEffect
    <3>2. Frame(c) \in Nat \ {0} /\ (2 * Frame(c)) \div 2 = Frame(c)
      BY <2>1, FrameInBuffer
    <3>3. /\ wpc'[c] = "send" /\ at'[c] = 2 * Frame(c) /\ target'[c] = target[c]
          /\ out'[c].from = c /\ out'[c].nth = Frame(c)
      BY <3>1 DEF ReactorTypeOK
    <3>. QED
      BY <2>1, <3>1, <3>2, <3>3 DEF SendsItsFrame
  <2>. QED
    BY <1>2, <2>2, <2>3, <2>4, ProcessCases
<1>3. CASE endOfBuffer(c)
  BY <1>3, TaskEndsSending DEF endOfBuffer
<1>4. CASE send(c)
  <2>1. CASE Throws(c, "send")
    BY <2>1, TaskEndsSending DEF Throws
  <2>2. CASE \E d \in iter[c].todo \cap idToHendler :
               /\ Work(c, "send", "add")
               /\ target' = [target EXCEPT ![c] = d]
               /\ UNCHANGED <<at, head, out, iter, after, poolVars>>
    <3>1. PICK d \in iter[c].todo \cap idToHendler :
            target' = [target EXCEPT ![c] = d]
      BY <2>2
    <3>2. d \in Conn /\ d < connectionsIdCuonter /\ d \notin iter[c].done
      <4>1. d \in Conn /\ d \in idToHendler /\ d \in iter[c].todo
        BY DEF ReactorTypeOK
      <4>2. d \in Nat /\ connectionsIdCuonter \in Nat
        BY <4>1, Connections, ReactorAssumption DEF ReactorTypeOK
      <4>. QED
        BY <4>1, <4>2 DEF NotYetAccepted, SendsItsFrame
    <3>. QED
      BY <1>4, <2>2, <3>1, <3>2, SMTT(30) DEF send, SendsItsFrame, ReactorTypeOK,
           selectorThreadVars, selectorVars
  <2>. QED
    BY <1>4, <2>1, <2>2 DEF send
<1>5. CASE addToWriteQueue(c) \/ wakeup(c)
  BY <1>5 DEF addToWriteQueue, wakeup, SendsItsFrame, ReactorTypeOK,
              selectorThreadVars, selectorVars
<1>6. CASE closeIfTerminating(c)
  <2>1. target[c] \in Conn
    BY <1>6 DEF closeIfTerminating, SendsItsFrame
  <2>2. /\ wpc'[c] = "send" /\ target'[c] = Nobody
        /\ out'[c] = out[c] /\ at'[c] = at[c]
    BY <1>6 DEF closeIfTerminating, ReactorTypeOK
  <2>3. iter'[c].todo \cap iter'[c].done = {}
    BY <1>6, <2>1, ServedNext DEF closeIfTerminating, SendsItsFrame
  <2>. QED
    BY <1>6, <2>2, <2>3 DEF closeIfTerminating, SendsItsFrame
<1>7. CASE afterSending(c)
  <2>1. iter'[c] = iter[c]
    <3>1. CASE SubscribersBecome(subscribers \ {c}, c, iter[c])
      BY <3>1 DEF SubscribersBecome
    <3>. QED
      BY <1>7, <3>1 DEF afterSending, waits
  <2>2. CASE waits(c, "send")
    BY <1>7, <2>2, WaitsEffect
    DEF afterSending, SendsItsFrame, selectorThreadVars, selectorVars
  <2>3. CASE UNCHANGED wpc
    BY <1>7, <2>1, <2>3 DEF afterSending, SendsItsFrame, selectorThreadVars, selectorVars
  <2>. QED
    BY <1>7, <2>2, <2>3 DEF afterSending
<1>8. CASE processed(c)
  BY <1>8, NewLoop, ZenonT(60) DEF processed, SendsItsFrame, ReactorTypeOK,
                       selectorThreadVars, selectorVars
<1>. QED
  BY <1>1, <1>2, <1>3, <1>4, <1>5, <1>6, <1>7, <1>8 DEF Task

LEMMA SelectorLeavesWork ==
  ASSUME ReactorTypeOK, Serve
  PROVE  /\ UNCHANGED workVars
         /\ connectionsIdCuonter <= connectionsIdCuonter'
<1>1. UNCHANGED workVars
  BY SelectorLeavesTasks DEF continueRead
<1>2. CASE handleAccept
  BY <1>1, <1>2, ReactorAssumption DEF handleAccept, ReactorTypeOK
<1>3. CASE ~handleAccept
  <2>1. UNCHANGED connectionsIdCuonter
    BY <1>3 DEF Serve, select, runSelectionThreadTask, tasksDone, nextKey,
         keysDone, isReadable, isValid, isWritable, continueRead, continueWrite,
         Write, queueEmpty, updateInterestedOps, Selector, Goes, KeyDone, Dies
  <2>. QED
    BY <1>1, <2>1, ReactorAssumption DEF ReactorTypeOK
<1>. QED
  BY <1>2, <1>3

LEMMA SendingNext ==
  ASSUME ReactorInv, [Next]_vars
  PROVE  \A c \in Conn : SendsItsFrame(c)'
<1>. /\ ReactorTypeOK /\ NotYetAccepted
     /\ \A c \in Conn : TasksAreReads(c) /\ SendsItsFrame(c)
  BY DEF ReactorInv
<1>0. connectionsIdCuonter \in Nat /\ target \in [Conn -> Conn \cup {Nobody}]
  BY ReactorAssumption DEF ReactorTypeOK
<1>1. CASE UNCHANGED workVars /\ connectionsIdCuonter <= connectionsIdCuonter'
           /\ connectionsIdCuonter' \in Nat
  <2>1. ASSUME NEW c \in Conn, target[c] # Nobody, target[c] < connectionsIdCuonter
        PROVE  target[c] < connectionsIdCuonter'
    <3>1. target[c] \in Nat
      BY <1>0, <2>1, Connections
    <3>. QED
      BY <1>0, <1>1, <2>1, <3>1
  <2>. QED
    BY <1>1, <2>1 DEF workVars, SendsItsFrame
<1>2. ASSUME NEW c \in Conn, Task(c)
      PROVE  \A d \in Conn : SendsItsFrame(d)'
  <2>1. UNCHANGED connectionsIdCuonter
    BY <1>2 DEF Task, take, process, endOfBuffer, send, addToWriteQueue, wakeup,
         closeIfTerminating, afterSending, processed, selectorThreadVars,
         selectorVars
  <2>2. ASSUME NEW d \in Conn \ {c} PROVE SendsItsFrame(d)'
    BY <1>2, <2>1, OwnTasks, OthersLoops DEF OthersWork, SendsItsFrame
  <2>. QED
    BY <1>2, <2>2, WorkerSends
<1>3. CASE UNCHANGED vars
  BY <1>0, <1>1, <1>3 DEF vars, selectorVars
<1>. QED
  <2>1. connectionsIdCuonter' \in Nat
    BY TypeNext, ReactorAssumption DEF ReactorTypeOK
  <2>. QED
    BY <1>1, <1>2, <1>3, <2>1, SelectorLeavesWork DEF Next, AllServed

-----------------------------------------------------------------------------
(* The selector thread, and what was not accepted yet.                      *)

LEMMA WorkerLeavesSelector ==
  ASSUME NEW c, Task(c)
  PROVE  UNCHANGED <<selectorVars, written>>
BY DEF Task, take, process, endOfBuffer, send, addToWriteQueue, wakeup,
       closeIfTerminating, afterSending, processed, selectorThreadVars

LEMMA SelectorNext ==
  ASSUME ReactorInv, [Next]_vars
  PROVE  SelectorState'
<1>. ReactorTypeOK /\ SelectorState
  BY DEF ReactorInv
<1>. USE DEF Selector, Goes, KeyDone, Dies, SelectorState
<1>0. connectionsIdCuonter \in Nat
  BY ReactorAssumption DEF ReactorTypeOK
<1>1. CASE select \/ runSelectionThreadTask \/ tasksDone
  BY <1>1 DEF select, runSelectionThreadTask, tasksDone
<1>2. CASE handleAccept \/ keysDone
  BY <1>2 DEF handleAccept, keysDone
<1>3. CASE nextKey
  BY <1>3 DEF nextKey, ReactorTypeOK
<1>4. CASE isReadable \/ isValid \/ isWritable
  BY <1>4 DEF isReadable, isValid, isWritable
<1>5. CASE continueRead
  BY <1>5 DEF continueRead
<1>6. CASE continueWrite \/ queueEmpty \/ updateInterestedOps
  BY <1>6 DEF continueWrite, Write, queueEmpty, updateInterestedOps
<1>7. CASE UNCHANGED selectorVars
  BY <1>7 DEF selectorVars
<1>. QED
  BY <1>1, <1>2, <1>3, <1>4, <1>5, <1>6, <1>7, WorkerLeavesSelector
  DEF Next, Serve, AllServed, vars

(* What the steps do to the channels, the handlers and the write queues:    *)
(* nothing is opened but what is accepted, and nothing is added but by      *)
(* addToWriteQueue.                                                         *)
LEMMA SelectorQueues ==
  ASSUME ReactorTypeOK, SelectorState, Serve, ~handleAccept
  PROVE  /\ UNCHANGED <<connectionsIdCuonter, idToHendler>>
         /\ \A c \in Conn : open'[c] => open[c]
         /\ \A c \in Conn : writeQueue[c] = <<>> => writeQueue'[c] = <<>>
<1>. USE DEF Selector, Goes, KeyDone, Dies, protocolVars
<1>1. CASE select \/ runSelectionThreadTask \/ tasksDone
  BY <1>1 DEF select, runSelectionThreadTask, tasksDone
<1>2. CASE nextKey \/ keysDone \/ isReadable \/ isValid \/ isWritable
             \/ updateInterestedOps
  BY <1>2 DEF nextKey, keysDone, isReadable, isValid, isWritable,
              updateInterestedOps
<1>3. CASE continueRead \/ queueEmpty
  BY <1>3 DEF continueRead, queueEmpty, CloseChannel, ReactorTypeOK
<1>4. CASE continueWrite
  BY <1>4 DEF continueWrite, Write, CloseChannel, ReactorTypeOK
<1>. QED
  BY <1>1, <1>2, <1>3, <1>4 DEF Serve

LEMMA WorkerQueues ==
  ASSUME ReactorTypeOK, NEW c \in Conn, Task(c)
  PROVE  /\ UNCHANGED opWrite
         /\ idToHendler' \subseteq idToHendler
         /\ \A d \in Conn : open'[d] => open[d]
         /\ ~addToWriteQueue(c) => UNCHANGED writeQueue
         /\ ~wakeup(c) => UNCHANGED selectorTasks
<1>. USE DEF protocolVars
<1>1. CASE take(c) \/ endOfBuffer(c) \/ send(c)
  BY <1>1 DEF take, endOfBuffer, send
<1>2. CASE process(c)
  <2>1. PICK kind \in Decoded(c) :
          fails(c, kind) \/ waits(c, "loop") \/ answer(c, kind)
    BY <1>2, ProcessCases
  <2>2. UNCHANGED idToHendler
    BY <2>1 DEF fails, waits, answer, SubscribersBecome
  <2>. QED
    BY <1>2, <2>2, ProcessCases
<1>3. CASE addToWriteQueue(c) \/ wakeup(c) \/ processed(c)
  BY <1>3 DEF addToWriteQueue, wakeup, processed
<1>4. CASE closeIfTerminating(c)
  BY <1>4 DEF closeIfTerminating, CloseChannel, ReactorTypeOK
<1>5. CASE afterSending(c)
  BY <1>5 DEF afterSending, waits, SubscribersBecome
<1>. QED
  BY <1>1, <1>2, <1>3, <1>4, <1>5 DEF Task

LEMMA NotYetAcceptedNext ==
  ASSUME ReactorInv, [Next]_vars
  PROVE  NotYetAccepted'
<1>. /\ ReactorTypeOK /\ SelectorState /\ NotYetAccepted
     /\ \A c \in Conn : SendsItsFrame(c)
  BY DEF ReactorInv
<1>0. connectionsIdCuonter \in Nat /\ \A c \in Conn : c \in Nat
  <2>1. connectionsIdCuonter \in Nat
    BY ReactorAssumption DEF ReactorTypeOK
  <2>. QED
    BY <2>1, Connections
<1>1. CASE handleAccept
  <2>1. /\ connectionsIdCuonter' = connectionsIdCuonter + 1
        /\ open' = [open EXCEPT ![connectionsIdCuonter] = TRUE]
        /\ idToHendler' = idToHendler \cup {connectionsIdCuonter}
        /\ UNCHANGED writeQueue
    BY <1>1 DEF handleAccept
  <2>2. ASSUME NEW c \in Conn, c >= connectionsIdCuonter + 1
        PROVE  c >= connectionsIdCuonter /\ c # connectionsIdCuonter
    BY <1>0, <2>2
  <2>. QED
    BY <2>1, <2>2 DEF NotYetAccepted, ReactorTypeOK
<1>2. CASE Serve /\ ~handleAccept
  BY <1>2, SelectorQueues DEF NotYetAccepted, ReactorTypeOK
<1>3. ASSUME NEW c \in Conn, Task(c)
      PROVE  NotYetAccepted'
  <2>1. UNCHANGED connectionsIdCuonter
    BY <1>3, WorkerLeavesSelector DEF selectorVars
  <2>2. CASE ~addToWriteQueue(c)
    BY <1>3, <2>1, <2>2, WorkerQueues DEF NotYetAccepted, ReactorTypeOK
  <2>3. CASE addToWriteQueue(c)
    <3>1. target[c] \in Conn /\ target[c] < connectionsIdCuonter
      BY <2>3, Connections
      DEF addToWriteQueue, Work, SendsItsFrame, HasTarget
    <3>2. \A d \in Conn : d >= connectionsIdCuonter => writeQueue'[d] = writeQueue[d]
      BY <1>0, <2>3, <3>1, SMTT(30) DEF addToWriteQueue, ReactorTypeOK
    <3>. QED
      BY <1>3, <2>1, <3>2, WorkerQueues DEF NotYetAccepted, ReactorTypeOK
  <2>. QED
    BY <2>2, <2>3
<1>4. CASE UNCHANGED vars
  BY <1>4 DEF vars, selectorVars, protocolVars, NotYetAccepted
<1>. QED
  BY <1>1, <1>2, <1>3, <1>4 DEF Next, AllServed

-----------------------------------------------------------------------------
(* No lost wake-up.                                                         *)

Remembered(c) ==
  \/ opWrite[c] /\ (cur = c => spc # "interestOps")
  \/ \E k \in DOMAIN selectorTasks : selectorTasks[k] = c
  \/ \E d \in Conn : target[d] = c /\ wpc[d] = "wakeup"

(* The selector thread forgets a channel only when it finds its queue empty,*)
(* and takes it from selectorTasks only to set OP_WRITE.                    *)
LEMMA SelectorForgetsNobody ==
  ASSUME ReactorInv, Serve
  PROVE  NoFrameIsForgotten'
<1>. ReactorTypeOK /\ SelectorState /\ NotYetAccepted /\ NoFrameIsForgotten
  BY DEF ReactorInv
<1>. USE DEF Selector, Goes, KeyDone, Dies
<1>0. UNCHANGED workVars
  BY SelectorLeavesWork
<1>1. SUFFICES ASSUME NEW c \in Conn,
                      open'[c], writeQueue'[c] # <<>>, spc' # "dead"
               PROVE  Remembered(c)'
  BY DEF NoFrameIsForgotten, Remembered
<1>2. spc # "dead"
  BY DEF Serve, select, runSelectionThreadTask, tasksDone, handleAccept, nextKey,
         keysDone, isReadable, isValid, isWritable, continueRead, continueWrite,
         Write, queueEmpty, updateInterestedOps
<1>3. CASE ~handleAccept
  <2>1. open[c] /\ writeQueue[c] # <<>>
    BY <1>1, <1>3, SelectorQueues
  <2>2. Remembered(c)
    BY <1>2, <2>1 DEF NoFrameIsForgotten, Remembered
  <2>3. CASE runSelectionThreadTask
    <3>1. selectorTasks \in Seq(Conn) /\ selectorTasks # <<>>
      BY <2>3 DEF runSelectionThreadTask, ReactorTypeOK
    <3>2. CASE Head(selectorTasks) = c
      BY <1>1, <2>3, <3>2 DEF runSelectionThreadTask, Remembered, ReactorTypeOK
    <3>3. CASE Head(selectorTasks) # c
      <4>1. ASSUME NEW k \in DOMAIN selectorTasks, selectorTasks[k] = c
            PROVE  \E j \in DOMAIN selectorTasks' : selectorTasks'[j] = c
        <5>1. /\ k \in 1 .. Len(selectorTasks) /\ k # 1
              /\ Len(selectorTasks) \in Nat
          BY <3>1, <3>3, <4>1
        <5>2. /\ selectorTasks' = Tail(selectorTasks)
              /\ DOMAIN Tail(selectorTasks) = 1 .. Len(selectorTasks) - 1
              /\ Tail(selectorTasks)[k - 1] = c
          BY <2>3, <3>1, <4>1, <5>1, HeadTailProperties DEF runSelectionThreadTask
        <5>. QED
          BY <5>1, <5>2
      <4>2. spc' = "tasks" /\ opWrite'[c] = opWrite[c]
        <5>1. open[Head(selectorTasks)] \/ spc' = "dead"
          BY <2>3 DEF runSelectionThreadTask
        <5>2. /\ spc' = "tasks"
              /\ opWrite' = [opWrite EXCEPT ![Head(selectorTasks)] = TRUE]
          BY <1>1, <2>3, <5>1 DEF runSelectionThreadTask
        <5>. QED
          BY <3>3, <5>2 DEF ReactorTypeOK
      <4>. QED
        BY <1>0, <2>2, <3>3, <4>1, <4>2 DEF Remembered, workVars
    <3>. QED
      BY <3>2, <3>3
  <2>4. CASE queueEmpty
    BY <1>0, <1>1, <2>2, <2>4 DEF queueEmpty, Remembered, workVars
  <2>5. CASE updateInterestedOps
    BY <1>0, <1>1, <2>2, <2>5 DEF updateInterestedOps, Remembered, workVars,
       ReactorTypeOK
  <2>6. CASE ~runSelectionThreadTask /\ ~queueEmpty /\ ~updateInterestedOps
    <3>1. UNCHANGED <<opWrite, selectorTasks>> /\ spc' # "interestOps"
      BY <1>3, <2>6
      DEF Serve, select, tasksDone, nextKey, keysDone, isReadable, isValid,
          isWritable, continueRead, continueWrite, Write
    <3>. QED
      BY <1>0, <2>2, <3>1 DEF Remembered, workVars
  <2>. QED
    BY <2>3, <2>4, <2>5, <2>6
<1>4. CASE handleAccept
  <2>1. /\ open' = [open EXCEPT ![connectionsIdCuonter] = TRUE]
        /\ UNCHANGED <<writeQueue, opWrite, selectorTasks, cur, spc>>
    BY <1>4 DEF handleAccept
  <2>2. writeQueue[connectionsIdCuonter] = <<>>
    BY <1>4, Connections, ReactorAssumption
    DEF handleAccept, SelectorState, NotYetAccepted, ReactorTypeOK
  <2>3. c # connectionsIdCuonter /\ writeQueue[c] # <<>>
    BY <1>1, <2>1, <2>2
  <2>4. open[c]
    BY <1>1, <2>1, <2>3 DEF ReactorTypeOK
  <2>5. Remembered(c)
    BY <1>2, <2>3, <2>4 DEF NoFrameIsForgotten, Remembered
  <2>. QED
    BY <1>0, <2>1, <2>5 DEF Remembered, workVars
<1>. QED
  BY <1>3, <1>4

(* A worker that adds a frame goes on to queue the task, and queues it.     *)
LEMMA WorkerForgetsNobody ==
  ASSUME ReactorInv, NEW c \in Conn, Task(c)
  PROVE  NoFrameIsForgotten'
<1>. /\ ReactorTypeOK /\ NoFrameIsForgotten
     /\ TasksAreReads(c) /\ SendsItsFrame(c)
  BY DEF ReactorInv
<1>1. UNCHANGED <<spc, cur, opWrite>>
  BY WorkerLeavesSelector, WorkerQueues DEF selectorVars
<1>2. \A d \in Conn \ {c} : target'[d] = target[d] /\ wpc'[d] = wpc[d]
  BY OwnTasks DEF OthersWork
<1>3. CASE addToWriteQueue(c)
  <2>1. PICK d \in Conn : d = target[c]
    BY <1>3 DEF addToWriteQueue, Work, SendsItsFrame, HasTarget
  <2>2. /\ UNCHANGED <<target, selectorTasks, open>> /\ wpc'[c] = "wakeup"
        /\ wpc[c] = "add"
        /\ \A e \in Conn \ {d} : writeQueue'[e] = writeQueue[e]
    BY <1>3, <2>1 DEF addToWriteQueue, Work, ReactorTypeOK
  <2>3. ASSUME NEW e \in Conn \ {d},
               open'[e], writeQueue'[e] # <<>>, spc' # "dead"
        PROVE  Remembered(e)'
    <3>1. Remembered(e)
      BY <1>1, <2>2, <2>3 DEF NoFrameIsForgotten, Remembered
    <3>. QED
      BY <1>1, <1>2, <2>2, <3>1 DEF Remembered
  <2>4. Remembered(d)'
    BY <2>1, <2>2 DEF Remembered
  <2>. QED
    BY <2>3, <2>4 DEF NoFrameIsForgotten, Remembered
<1>4. CASE wakeup(c)
  <2>1. PICK d \in Conn : d = target[c]
    BY <1>4 DEF wakeup, Work, SendsItsFrame, HasTarget
  <2>2. /\ UNCHANGED <<target, writeQueue, open>>
        /\ selectorTasks' = Append(selectorTasks, d)
    BY <1>4, <2>1 DEF wakeup
  <2>3. /\ \A k \in DOMAIN selectorTasks :
             k \in DOMAIN selectorTasks' /\ selectorTasks'[k] = selectorTasks[k]
        /\ \E k \in DOMAIN selectorTasks' : selectorTasks'[k] = d
    <3>1. selectorTasks \in Seq(Conn) /\ Len(selectorTasks) \in Nat
      BY DEF ReactorTypeOK
    <3>2. /\ Len(selectorTasks') = Len(selectorTasks) + 1
          /\ selectorTasks' \in Seq(Conn)
          /\ \A k \in 1 .. Len(selectorTasks) : selectorTasks'[k] = selectorTasks[k]
          /\ selectorTasks'[Len(selectorTasks) + 1] = d
      BY <2>2, <3>1, AppendProperties
    <3>. QED
      BY <3>1, <3>2
  <2>4. ASSUME NEW e \in Conn, Remembered(e)
        PROVE  Remembered(e)'
    <3>1. CASE opWrite[e] /\ (cur = e => spc # "interestOps")
      BY <1>1, <3>1 DEF Remembered
    <3>2. CASE \E k \in DOMAIN selectorTasks : selectorTasks[k] = e
      BY <2>3, <3>2 DEF Remembered
    <3>3. CASE \E f \in Conn : target[f] = e /\ wpc[f] = "wakeup"
      BY <1>2, <2>1, <2>2, <2>3, <3>3 DEF Remembered
    <3>. QED
      BY <2>4, <3>1, <3>2, <3>3 DEF Remembered
  <2>. QED
    BY <1>1, <2>2, <2>4 DEF NoFrameIsForgotten, Remembered
<1>5. CASE ~addToWriteQueue(c) /\ ~wakeup(c)
  <2>1. wpc[c] # "wakeup"
    BY <1>5 DEF Task, take, process, endOfBuffer, send, closeIfTerminating,
         afterSending, processed, Work
  <2>2. /\ UNCHANGED <<writeQueue, selectorTasks>>
        /\ \A d \in Conn : open'[d] => open[d]
    BY <1>5, WorkerQueues
  <2>. QED
    BY <1>1, <1>2, <2>1, <2>2 DEF NoFrameIsForgotten
<1>. QED
  BY <1>3, <1>4, <1>5

LEMMA ForgottenNext ==
  ASSUME ReactorInv, [Next]_vars
  PROVE  NoFrameIsForgotten'
<1>1. CASE UNCHANGED vars
  BY <1>1 DEF vars, selectorVars, workVars, ReactorInv, NoFrameIsForgotten
<1>. QED
  BY <1>1, SelectorForgetsNobody, WorkerForgetsNobody DEF Next, AllServed

-----------------------------------------------------------------------------
(* What is sent, in its senders' order.                                     *)

(* The selector thread moves what was sent, and does not change it.         *)
LEMMA SelectorSends ==
  ASSUME ReactorTypeOK, SelectorState, Serve, NEW c \in Conn
  PROVE  Sent(c)' = Sent(c)
<1>1. CASE UNCHANGED <<written, writeQueue>>
  BY <1>1 DEF Sent
<1>2. CASE /\ writeQueue[cur] # <<>>
           /\ written' = [written EXCEPT ![cur] = Append(@, Head(writeQueue[cur]))]
           /\ writeQueue' = [writeQueue EXCEPT ![cur] = Tail(@)]
  <2>1. CASE c = cur
    <3>1. written[c] \in Seq(OutFrame) /\ writeQueue[c] \in Seq(OutFrame)
      BY DEF ReactorTypeOK
    <3>2. /\ written'[c] = Append(written[c], Head(writeQueue[c]))
          /\ writeQueue'[c] = Tail(writeQueue[c])
      BY <1>2, <2>1 DEF ReactorTypeOK
    <3>. QED
      BY <1>2, <2>1, <3>1, <3>2, WriteKeepsOrder, ZenonT(60) DEF Sent
  <2>2. CASE c # cur
    BY <1>2, <2>2 DEF Sent, ReactorTypeOK
  <2>. QED
    BY <2>1, <2>2
<1>3. CASE continueWrite
  BY <1>1, <1>2, <1>3 DEF continueWrite, Write
<1>4. CASE ~continueWrite
  BY <1>1, <1>4 DEF Serve, select, runSelectionThreadTask, tasksDone,
     handleAccept, nextKey, keysDone, isReadable, isValid, isWritable,
     continueRead, queueEmpty, updateInterestedOps
<1>. QED
  BY <1>3, <1>4

(* A worker adds the frame it has in hand for the receiver in hand.         *)
LEMMA WorkerAdds ==
  ASSUME ReactorTypeOK, NEW c \in Conn, Task(c), NEW d \in Conn
  PROVE  IF addToWriteQueue(c) /\ target[c] = d
         THEN Sent(d)' = Append(Sent(d), out[c])
         ELSE Sent(d)' = Sent(d)
<1>1. UNCHANGED written
  BY WorkerLeavesSelector
<1>2. CASE addToWriteQueue(c) /\ target[c] = d
  <2>1. writeQueue'[d] = Append(writeQueue[d], out[c])
    BY <1>2 DEF addToWriteQueue, ReactorTypeOK
  <2>2. /\ written[d] \in Seq(OutFrame) /\ writeQueue[d] \in Seq(OutFrame)
        /\ out[c] \in OutFrame
    BY DEF ReactorTypeOK
  <2>. QED
    <3>1. PICK w \in Seq(OutFrame), q \in Seq(OutFrame), f \in OutFrame :
            w = written[d] /\ q = writeQueue[d] /\ f = out[c]
      BY <2>2
    <3>2. w \o Append(q, f) = Append(w \o q, f)
      BY AddedLast
    <3>3. Sent(d) = w \o q /\ Sent(d)' = w \o Append(q, f)
      BY <1>1, <2>1, <3>1 DEF Sent
    <3>. QED
      BY <1>2, <3>1, <3>2, <3>3
<1>3. CASE addToWriteQueue(c) /\ target[c] # d
  BY <1>1, <1>3 DEF addToWriteQueue, Sent, ReactorTypeOK
<1>4. CASE ~addToWriteQueue(c)
  BY <1>1, <1>4, WorkerQueues DEF Sent
<1>. QED
  BY <1>2, <1>3, <1>4

(* As long as a worker is at a frame, it goes on to other receivers; and a  *)
(* frame it turns to is later than all those it was at.                     *)
LEMMA OnlyForward ==
  ASSUME ReactorTypeOK, NEW c \in Conn, Task(c),
         TasksAreReads(c), SendsItsFrame(c)
  PROVE  /\ at'[c] >= at[c]
         /\ wpc'[c] \in Processing =>
              \/ out'[c].nth > at[c] \div 2
              \/ /\ wpc[c] \in Processing /\ out'[c] = out[c]
                 /\ Given(c) \subseteq Given(c)'
                 /\ addToWriteQueue(c) => target[c] \in Given(c)'
<1>. USE DEF Work, Processing, HasTarget
<1>0. at[c] \in Nat
  BY DEF ReactorTypeOK
<1>1. ASSUME NEW from, NEW decoding, TaskEnds(c, from, decoding), from # "idle"
      PROVE  at'[c] >= at[c] /\ wpc'[c] = "idle"
  <2>1. started[c] > 0 /\ wpc'[c] = "idle" /\ at'[c] = batches[c][started[c]]
    BY <1>1 DEF TaskEnds, TasksAreReads, ReactorTypeOK
  <2>. QED
    BY <1>0, <2>1, TakenType DEF TasksAreReads
<1>2. CASE take(c)
  BY <1>0, <1>2, TakeUp, SMTT(30) DEF ReactorTypeOK
<1>3. CASE process(c)
  <2>1. HasWholeFrame(c) /\ wpc[c] = "loop"
    BY <1>3 DEF process
  <2>2. ASSUME NEW kind, fails(c, kind)
        PROVE  at'[c] >= at[c] /\ wpc'[c] = "idle"
    BY <1>1, <2>2, FailsEffect
  <2>4. CASE waits(c, "loop")
    BY <1>0, <2>4, WaitsEffect
  <2>3. ASSUME NEW kind, answer(c, kind)
        PROVE  at'[c] >= at[c] /\ out'[c].nth > at[c] \div 2
    <3>1. /\ at' = [at EXCEPT ![c] = 2 * Frame(c)]
          /\ \E commend \in Commend :
               out' = [out EXCEPT ![c] = [from |-> c, nth |-> Frame(c),
                                          commend |-> commend]]
      BY <2>1, <2>3, SendsEffect
    <3>2. at'[c] = 2 * Frame(c) /\ out'[c].nth = Frame(c)
      BY <3>1 DEF ReactorTypeOK
    <3>. QED
      BY <1>0, <2>1, <3>2, FrameInBuffer
  <2>. QED
    BY <1>3, <2>2, <2>3, <2>4, ProcessCases
<1>4. CASE endOfBuffer(c)
  BY <1>1, <1>4 DEF endOfBuffer
<1>5. CASE send(c)
  <2>1. CASE Throws(c, "send")
    BY <1>1, <2>1 DEF Throws
  <2>2. CASE \E d \in iter[c].todo \cap idToHendler :
               /\ Work(c, "send", "add")
               /\ target' = [target EXCEPT ![c] = d]
               /\ UNCHANGED <<at, head, out, iter, after, poolVars>>
    <3>1. /\ wpc[c] = "send" /\ wpc'[c] = "add" /\ UNCHANGED <<at, out, iter>>
          /\ ~addToWriteQueue(c)
      BY <2>2 DEF addToWriteQueue, ReactorTypeOK
    <3>. QED
      BY <1>0, <3>1 DEF Given
  <2>. QED
    BY <1>5, <2>1, <2>2 DEF send
<1>6. CASE addToWriteQueue(c) \/ wakeup(c)
  <2>1. /\ UNCHANGED <<at, out, iter, target>> /\ wpc[c] \in {"add", "wakeup"}
        /\ wpc'[c] = IF wpc[c] = "add" THEN "wakeup" ELSE "close"
    BY <1>6 DEF addToWriteQueue, wakeup, ReactorTypeOK
  <2>2. addToWriteQueue(c) => wpc'[c] = "wakeup"
    BY <2>1 DEF addToWriteQueue
  <2>. QED
    BY <1>0, <2>1, <2>2 DEF Given
<1>7. CASE closeIfTerminating(c)
  <2>1. target[c] \in Conn /\ wpc[c] = "close" /\ wpc'[c] = "send"
    BY <1>7 DEF closeIfTerminating, SendsItsFrame, ReactorTypeOK
  <2>2. iter'[c].done = iter[c].done \cup {target[c]}
    BY <1>7, <2>1, ServedNext DEF closeIfTerminating
  <2>3. UNCHANGED <<at, out>> /\ ~addToWriteQueue(c)
    BY <1>7, <2>1 DEF closeIfTerminating, addToWriteQueue
  <2>. QED
    BY <1>0, <2>1, <2>2, <2>3 DEF Given
<1>8. CASE afterSending(c)
  <2>1. iter'[c] = iter[c]
    <3>1. CASE SubscribersBecome(subscribers \ {c}, c, iter[c])
      BY <3>1 DEF SubscribersBecome
    <3>. QED
      BY <1>8, <3>1 DEF afterSending, waits
  <2>2. CASE waits(c, "send")
    BY <1>0, <2>2, WaitsEffect
  <2>3. CASE UNCHANGED wpc
    BY <1>0, <1>8, <2>1, <2>3 DEF afterSending, addToWriteQueue, Given
  <2>. QED
    BY <1>8, <2>2, <2>3 DEF afterSending
<1>9. CASE processed(c)
  BY <1>0, <1>9 DEF processed, ReactorTypeOK
<1>. QED
  BY <1>2, <1>3, <1>4, <1>5, <1>6, <1>7, <1>8, <1>9 DEF Task

(* That earlier frames were sent stays true as long as the sender is at its *)
(* frame, and of those to whom the frame was not added.                     *)
EarlierThan(f, d) ==
  /\ f.nth <= at[f.from] \div 2
  /\ wpc[f.from] \in Processing /\ d \notin Given(f.from)
       => f.nth < out[f.from].nth

LEMMA StaysEarlier ==
  ASSUME ReactorInv, NEW c \in Conn, Task(c), ReactorTypeOK',
         NEW d \in Conn, NEW f \in OutFrame, EarlierThan(f, d)
  PROVE  EarlierThan(f, d)'
<1>. /\ ReactorTypeOK
     /\ \A x \in Conn : TasksAreReads(x) /\ SendsItsFrame(x)
  BY DEF ReactorInv
<1>1. f.from \in Conn /\ f.nth \in Nat
  BY DEF OutFrame
<1>2. CASE f.from # c
  <2>1. /\ at'[f.from] = at[f.from] /\ wpc'[f.from] = wpc[f.from]
        /\ out'[f.from] = out[f.from] /\ Given(f.from)' = Given(f.from)
    BY <1>1, <1>2, OwnTasks, OthersLoops DEF OthersWork, Given
  <2>. QED
    BY <2>1 DEF EarlierThan
<1>3. CASE f.from = c
  <2>1. at[c] \in Nat /\ at'[c] \in Nat /\ out'[c].nth \in Nat
    BY DEF ReactorTypeOK, OutFrame
  <2>2. at'[c] >= at[c]
    BY OnlyForward
  <2>3. at[c] \div 2 <= at'[c] \div 2 /\ at[c] \div 2 \in Nat /\ at'[c] \div 2 \in Nat
    BY <2>1, <2>2
  <2>4. f.nth <= at[c] \div 2
    BY <1>3 DEF EarlierThan
  <2>5. f.nth <= at'[c] \div 2
    BY <1>1, <2>3, <2>4
  <2>6. ASSUME wpc'[c] \in Processing, d \notin Given(c)'
        PROVE  f.nth < out'[c].nth
    <3>1. CASE out'[c].nth > at[c] \div 2
      BY <1>1, <2>1, <2>3, <2>4, <3>1
    <3>2. CASE wpc[c] \in Processing /\ out'[c] = out[c] /\ Given(c) \subseteq Given(c)'
      BY <1>3, <2>6, <3>2 DEF EarlierThan
    <3>. QED
      BY <2>6, <3>1, <3>2, OnlyForward
  <2>. QED
    BY <1>3, <2>5, <2>6 DEF EarlierThan
<1>. QED
  BY <1>2, <1>3

(* The frame in hand is the last of its sender, and adding it to somebody's *)
(* queue keeps the order there.                                             *)
LEMMA AddKeepsOrder ==
  ASSUME ReactorInv, NEW c \in Conn, Task(c), addToWriteQueue(c), ReactorTypeOK',
         NEW d \in Conn, d = target[c]
  PROVE  /\ EarlierThan(out[c], d)'
         /\ \A k \in DOMAIN Sent(d) :
              Sent(d)[k].from = c => Sent(d)[k].nth < out[c].nth
<1>. /\ ReactorTypeOK /\ OnlyEarlierFrames
     /\ \A x \in Conn : TasksAreReads(x) /\ SendsItsFrame(x)
  BY DEF ReactorInv
<1>1. /\ wpc[c] = "add" /\ wpc'[c] = "wakeup" /\ UNCHANGED <<at, out, target>>
  BY DEF addToWriteQueue, Work, ReactorTypeOK
<1>2. /\ out[c].from = c /\ out[c].nth = at[c] \div 2 /\ d \notin iter[c].done
      /\ at[c] \div 2 \in Nat
  <2>1. at[c] \in Nat /\ SendsItsFrame(c)
    BY DEF ReactorTypeOK
  <2>. QED
    BY <1>1, <2>1 DEF SendsItsFrame, Processing, HasTarget
<1>3. EarlierThan(out[c], d)'
  BY <1>1, <1>2 DEF EarlierThan, Given
<1>4. d \notin Given(c)
  BY <1>1, <1>2 DEF Given
<1>. QED
  BY <1>1, <1>3, <1>4 DEF OnlyEarlierFrames, Processing

Ordered(s) ==
  \A j, k \in DOMAIN s : j < k /\ s[j].from = s[k].from => s[j].nth < s[k].nth

LEMMA AppendOrdered ==
  ASSUME NEW s \in Seq(OutFrame), NEW f \in OutFrame, Ordered(s),
         \A k \in DOMAIN s : s[k].from = f.from => s[k].nth < f.nth
  PROVE  /\ Ordered(Append(s, f))
         /\ \A k \in DOMAIN Append(s, f) :
              Append(s, f)[k] = f \/ \E j \in DOMAIN s : Append(s, f)[k] = s[j]
<1>1. Len(s) \in Nat /\ DOMAIN s = 1 .. Len(s)
  OBVIOUS
<1>2. PICK t : t = Append(s, f)
  OBVIOUS
<1>3. /\ DOMAIN t = 1 .. Len(s) + 1
      /\ \A k \in 1 .. Len(s) : t[k] = s[k]
      /\ t[Len(s) + 1] = f
  BY <1>1, <1>2, AppendProperties
<1>4. ASSUME NEW j \in DOMAIN t, NEW k \in DOMAIN t, j < k, t[j].from = t[k].from
      PROVE  t[j].nth < t[k].nth
  <2>1. j \in 1 .. Len(s)
    BY <1>1, <1>3, <1>4
  <2>2. CASE k \in 1 .. Len(s)
    BY <1>1, <1>3, <1>4, <2>1, <2>2 DEF Ordered
  <2>3. CASE k = Len(s) + 1
    BY <1>1, <1>3, <1>4, <2>1, <2>3
  <2>. QED
    BY <1>1, <1>3, <2>2, <2>3
<1>5. ASSUME NEW k \in DOMAIN t
      PROVE  t[k] = f \/ \E j \in DOMAIN s : t[k] = s[j]
  <2>1. k = Len(s) + 1 \/ k \in DOMAIN s
    BY <1>1, <1>3, <1>5
  <2>. QED
    BY <1>1, <1>3, <2>1
<1>. QED
  BY <1>2, <1>4, <1>5 DEF Ordered

LEMMA OrderNext ==
  ASSUME ReactorInv, NEW c \in Conn, Task(c), ReactorTypeOK'
  PROVE  OnlyEarlierFrames' /\ InSendersOrder'
<1>. ReactorTypeOK /\ OnlyEarlierFrames /\ InSendersOrder
  BY DEF ReactorInv
<1>1. ASSUME NEW d \in Conn, NEW s, NEW t, s = Sent(d), t = Sent(d)'
      PROVE  /\ \A k \in DOMAIN t : EarlierThan(t[k], d)'
             /\ Ordered(t)
  <2>1. s \in Seq(OutFrame) /\ \A k \in DOMAIN s : s[k] \in OutFrame
    BY <1>1, SentType
  <2>2. \A k \in DOMAIN s : EarlierThan(s[k], d)'
    <3>1. ASSUME NEW f \in OutFrame, EarlierThan(f, d)
          PROVE  EarlierThan(f, d)'
      BY <3>1, StaysEarlier
    <3>2. \A k \in DOMAIN s : EarlierThan(s[k], d)
      BY <1>1 DEF OnlyEarlierFrames, EarlierThan
    <3>. QED
      BY <2>1, <3>1, <3>2
  <2>3. Ordered(s)
    BY <1>1 DEF InSendersOrder, Ordered
  <2>4. CASE t = s
    BY <2>2, <2>3, <2>4
  <2>5. CASE addToWriteQueue(c) /\ target[c] = d
    <3>1. PICK f \in OutFrame : f = out[c]
      BY DEF ReactorTypeOK
    <3>2. t = Append(s, f)
      BY <1>1, <2>5, <3>1, WorkerAdds
    <3>3. SendsItsFrame(c) /\ wpc[c] = "add"
      BY <2>5 DEF ReactorInv, addToWriteQueue, Work
    <3>4. UNCHANGED out /\ f.from = c
      BY <2>5, <3>1, <3>3 DEF addToWriteQueue, SendsItsFrame, Processing
    <3>5. /\ EarlierThan(f, d)'
          /\ \A k \in DOMAIN s : s[k].from = f.from => s[k].nth < f.nth
      BY <1>1, <2>5, <3>1, <3>4, AddKeepsOrder
    <3>6. /\ Ordered(t)
          /\ \A k \in DOMAIN t : t[k] = f \/ \E j \in DOMAIN s : t[k] = s[j]
      BY <2>1, <2>3, <3>2, <3>5, AppendOrdered
    <3>. QED
      BY <2>2, <3>5, <3>6
  <2>. QED
    BY <1>1, <2>4, <2>5, WorkerAdds
<1>2. OnlyEarlierFrames'
  BY <1>1 DEF OnlyEarlierFrames, EarlierThan
<1>3. InSendersOrder'
  BY <1>1 DEF InSendersOrder, Ordered
<1>. QED
  BY <1>2, <1>3

LEMMA EarlierNext ==
  ASSUME ReactorInv, [Next]_vars
  PROVE  OnlyEarlierFrames' /\ InSendersOrder'
<1>. ReactorTypeOK /\ SelectorState /\ OnlyEarlierFrames /\ InSendersOrder
  BY DEF ReactorInv
<1>1. CASE /\ UNCHANGED workVars
           /\ \A c \in Conn : Sent(c)' = Sent(c)
  <2>1. \A c \in Conn : Given(c)' = Given(c)
    BY <1>1 DEF workVars, Given
  <2>2. \A c \in Conn : \A k \in DOMAIN Sent(c) : Sent(c)[k].from \in Conn
    BY SentType DEF OutFrame
  <2>3. OnlyEarlierFrames'
    BY <1>1, <2>1, <2>2 DEF OnlyEarlierFrames, workVars
  <2>4. InSendersOrder'
    BY <1>1 DEF InSendersOrder
  <2>. QED
    BY <2>3, <2>4
<1>2. CASE UNCHANGED vars
  BY <1>1, <1>2 DEF vars, workVars, Sent
<1>. QED
  BY <1>1, <1>2, SelectorSends, SelectorLeavesWork, OrderNext, TypeNext
  DEF Next, AllServed

-----------------------------------------------------------------------------
(* The theorems.                                                            *)

(* The invariant of the reactor: types, the tasks of every connection,      *)
(* where its worker is, the selector thread, the write queues.              *)
THEOREM ReactorInvariance == Spec => []ReactorInv
<1>1. Init => ReactorInv
  <2>. SUFFICES ASSUME Init PROVE ReactorInv
    OBVIOUS
  <2>1. ReactorTypeOK
    BY TypeInit
  <2>2. \A c \in Conn : TasksAreReads(c) /\ SendsItsFrame(c)
    BY NewLoop DEF Init, Pool!Init, TasksAreReads, Taken, SendsItsFrame,
                   Processing, HasTarget
  <2>3. SelectorState /\ NotYetAccepted /\ NoFrameIsForgotten
    BY DEF Init, SelectorState, NotYetAccepted, NoFrameIsForgotten
  <2>4. \A c \in Conn : DOMAIN Sent(c) = {}
    BY DEF Init, Sent
  <2>. QED
    BY <2>1, <2>2, <2>3, <2>4 DEF ReactorInv, OnlyEarlierFrames, InSendersOrder
<1>2. ReactorInv /\ [Next]_vars => ReactorInv'
  BY TypeNext, TasksNext, SendingNext, SelectorNext, NotYetAcceptedNext,
     ForgottenNext, EarlierNext DEF ReactorInv
<1>. QED
  BY <1>1, <1>2, PTL DEF Spec

(* No lost wake-up between the workers and the selector thread, which       *)
(* update an interest set without a lock between them.                      *)
THEOREM NoLostWakeup == Spec => []NoFrameIsForgotten
BY ReactorInvariance, PTL DEF ReactorInv

(* Per receiver, the frames of one sender arrive in order and once.         *)
THEOREM SendersOrder == Spec => []InSendersOrder
BY ReactorInvariance, PTL DEF ReactorInv

(* The decoder of a connection loses no half of a frame but by an exception *)
(* or by the end of the session, however the reads cut what was sent and    *)
(* whichever threads run the tasks.                                         *)
THEOREM FramesStayIntact == Spec => OnlyExceptionsTearFrames
<1>. DEFINE Excused(c) ==
       \/ wpc[c] = "send"
       \/ isTerminate[c]
       \/ /\ wpc[c] = "loop" /\ HasWholeFrame(c)
          /\ \E kind \in Decoded(c) : kind = "Malformed" \/ LeaksReadLock(c, kind)
<1>1. ASSUME ReactorInv, [Next]_vars, NEW c \in Conn,
             Intact(c), ~Intact(c)', ~Excused(c)
      PROVE  FALSE
  <2>. ReactorTypeOK /\ TasksAreReads(c)
    BY <1>1 DEF ReactorInv
  <2>0. at[c] \in Nat /\ Taken(c) \in Nat
    BY TakenType DEF ReactorTypeOK
  <2>1. at'[c] # at[c] \/ head'[c] # head[c]
    BY <1>1 DEF Intact
  <2>2. Task(c)
    <3>1. CASE Serve \/ UNCHANGED vars
      BY <2>1, <3>1, SelectorLeavesWork DEF vars, workVars
    <3>2. ASSUME NEW d \in Conn \ {c}, Task(d)
          PROVE  FALSE
      BY <1>1, <2>1, <3>2, OwnTasks DEF OthersWork, ReactorInv
    <3>. QED
      BY <1>1, <3>1, <3>2 DEF Next, AllServed
  <2>3. CASE process(c)
    <3>1. HasWholeFrame(c) /\ wpc[c] = "loop"
      BY <2>3 DEF process
    <3>0. ~waits(c, "loop")
      BY <2>1, WaitsEffect
    <3>2. PICK kind : answer(c, kind)
      BY <1>1, <2>3, <3>0, <3>1, ProcessCases, FailsEffect
    <3>3. at' = [at EXCEPT ![c] = 2 * Frame(c)] /\ Frame(c) \in Nat
      BY <3>1, <3>2, SendsEffect, FrameInBuffer
    <3>4. at'[c] = 2 * Frame(c) /\ (2 * Frame(c)) % 2 = 0
      BY <3>3 DEF ReactorTypeOK
    <3>. QED
      BY <1>1, <3>4 DEF Intact
  <2>4. CASE endOfBuffer(c)
    <3>. DEFINE b == batches[c][started[c]]
    <3>1. /\ wpc[c] = "loop" /\ ~HasWholeFrame(c) /\ at'[c] = b
          /\ head'[c] = (head[c] \/ at[c] < b)
      BY <1>1, <2>4 DEF endOfBuffer, TaskEnds, ReactorTypeOK
    <3>2. b = Taken(c) /\ at[c] <= b
      BY <3>1, TakenType DEF TasksAreReads, ReactorTypeOK
    <3>3. ~(2 * (at[c] \div 2 + 1) <= b)
      BY <3>1 DEF HasWholeFrame, Frame
    <3>. HIDE DEF b
    <3>4. b % 2 = 1 /\ ~head'[c]
      BY <1>1, <3>1 DEF Intact
    <3>5. ~(head[c] \/ at[c] < b)
      BY <3>1, <3>4, Zenon
    <3>6. at[c] = b
      BY <2>0, <3>2, <3>5
    <3>. QED
      BY <1>1, <3>4, <3>5, <3>6 DEF Intact
  <2>5. CASE take(c)
    BY <2>1, <2>5, TakeUp DEF take
  <2>6. CASE send(c) \/ afterSending(c) \/ processed(c)
    BY <1>1, <2>6 DEF send, afterSending, processed, Work
  <2>7. CASE addToWriteQueue(c) \/ wakeup(c) \/ closeIfTerminating(c)
    BY <2>1, <2>7 DEF addToWriteQueue, wakeup, closeIfTerminating
  <2>. QED
    BY <2>2, <2>3, <2>4, <2>5, <2>6, <2>7 DEF Task
<1>2. ReactorInv /\ [Next]_vars =>
        [\A c \in Conn : Intact(c) /\ ~Intact(c)' =>
             \/ wpc[c] = "send"
             \/ isTerminate[c]
             \/ /\ wpc[c] = "loop" /\ HasWholeFrame(c)
                /\ \E kind \in Decoded(c) :
                     kind = "Malformed" \/ LeaksReadLock(c, kind)]_vars
  BY <1>1
<1>. QED
  BY <1>2, ReactorInvariance, PTL DEF Spec, OnlyExceptionsTearFrames
=============================================================================
