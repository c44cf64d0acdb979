------------------------- MODULE ReactorProperties -------------------------
(***************************************************************************)
(* What makes the reactor correct, as far as its selector thread lives.    *)
(***************************************************************************)
EXTENDS Reactor

ReactorTypeOK ==
  /\ connectionsIdCuonter \in 0 .. MaxConnections
  /\ open \in [Conn -> BOOLEAN]
  /\ opWrite \in [Conn -> BOOLEAN]
  /\ batches \in [Conn -> Seq(Nat)]
  /\ selectorTasks \in Seq(Conn)
  /\ spc \in {"select", "tasks", "keys", "isReadable", "continueRead", "isValid",
              "isWritable", "continueWrite", "isEmpty", "interestOps", "dead"}
  /\ cur \in Conn \cup {Nobody}
  /\ ready \subseteq Conn
  /\ ops \subseteq {"read", "write"}
  /\ acceptable \in BOOLEAN
  /\ writeQueue \in [Conn -> Seq(OutFrame)]
  /\ written \in [Conn -> Seq(OutFrame)]
  /\ submitted \in [Conn -> Nat]
  /\ started \in [Conn -> Nat]
  /\ active \in [Conn -> SUBSET Nat]
  /\ wpc \in [Conn -> {"idle", "loop", "send", "add", "wakeup", "close", "blocked"}]
  /\ at \in [Conn -> Nat]
  /\ head \in [Conn -> BOOLEAN]
  /\ out \in [Conn -> OutFrame]
  /\ iter \in [Conn -> Iterator]
  /\ target \in [Conn -> Conn \cup {Nobody}]
  /\ after \in [Conn -> Seq(Cleanup)]
  /\ isTerminate \in [Conn -> BOOLEAN]
  /\ subscribers \subseteq Conn
  /\ idToHendler \subseteq Conn
  /\ subscriptionsDetails \subseteq Conn
  /\ readLeaked \in BOOLEAN

(* No lost wake-up: a frame in the write queue of an open channel will be   *)
(* seen by the selector thread, because OP_WRITE is in the interest set, or *)
(* a task that puts it there is queued, or the worker that added the frame  *)
(* is about to queue one; although the selector thread takes OP_WRITE out   *)
(* again after a look at the queue (continueWrite, updateInterestedOps).    *)
NoFrameIsForgotten ==
  \A c \in Conn : open[c] /\ writeQueue[c] # <<>> /\ spc # "dead" =>
    \/ opWrite[c] /\ (cur = c => spc # "interestOps")
    \/ \E k \in DOMAIN selectorTasks : selectorTasks[k] = c
    \/ \E d \in Conn : target[d] = c /\ wpc[d] = "wakeup"

(* What was sent to the client of c: written, and still to be written.      *)
Sent(c) == written[c] \o writeQueue[c]

(* What is sent to a client, by its own tasks and by broadcasts, arrives in *)
(* the order in which its senders' frames were read, and once: through the  *)
(* pool, the write queue, and writes that take a frame in parts.            *)
InSendersOrder ==
  \A c \in Conn : \A j, k \in DOMAIN Sent(c) :
    j < k /\ Sent(c)[j].from = Sent(c)[k].from => Sent(c)[j].nth < Sent(c)[k].nth

(* The decoder meets the second half of a frame without the first only      *)
(* after an exception dropped the rest of a buffer, or when nothing more is *)
(* processed: reads that end within a frame, and tasks that are run by      *)
(* several threads, lose nothing.                                           *)
Intact(c) == at[c] % 2 = 1 => head[c]

OnlyExceptionsTearFrames ==
  [][\A c \in Conn : Intact(c) /\ ~Intact(c)' =>
       \/ wpc[c] = "send"
       \/ isTerminate[c]
       \/ /\ wpc[c] = "loop" /\ HasWholeFrame(c)
          /\ \E kind \in Decoded(c) : kind = "Malformed" \/ LeaksReadLock(c, kind)]_vars

-----------------------------------------------------------------------------
(* The inductive invariant behind these.                                    *)

Processing == {"send", "add", "wakeup", "close"}
HasTarget == {"add", "wakeup", "close"}

(* How far the tasks that were begun may get in what was read.              *)
Taken(c) == IF started[c] = 0 THEN 0 ELSE batches[c][started[c]]

(* A task for every read, in the order of the reads; a read got somewhere.  *)
TasksAreReads(c) ==
  /\ submitted[c] = Len(batches[c])
  /\ started[c] <= submitted[c]
  /\ active[c] = IF wpc[c] = "idle" THEN {} ELSE {started[c]}
  /\ wpc[c] # "idle" => started[c] > 0
  /\ \A k \in DOMAIN batches[c] : batches[c][k] \in 1 .. 2 * Len(Kinds[c])
  /\ \A j, k \in DOMAIN batches[c] : j < k => batches[c][j] < batches[c][k]
  /\ at[c] <= Taken(c)
  /\ wpc[c] = "idle" => at[c] = Taken(c)

(* What the worker of c sends is the answer to the frame it decoded last,   *)
(* to somebody whose turn it is, and who was accepted.                      *)
SendsItsFrame(c) ==
  /\ wpc[c] \in Processing =>
       out[c].from = c /\ out[c].nth = at[c] \div 2 /\ out[c].nth > 0
  /\ iter[c].todo \cap iter[c].done = {}
  /\ wpc[c] \in HasTarget => target[c] \in Conn \ iter[c].done
  /\ target[c] # Nobody => wpc[c] \in HasTarget /\ target[c] < connectionsIdCuonter

SelectorState ==
  /\ spc \notin {"select", "tasks", "keys", "dead"} => cur \in Conn
  /\ spc \in {"select", "tasks", "keys"} => cur = Nobody
  /\ acceptable => connectionsIdCuonter < MaxConnections

(* Nothing is there for a connection before it is accepted.                 *)
NotYetAccepted ==
  \A c \in Conn : c >= connectionsIdCuonter =>
    /\ ~open[c]
    /\ c \notin idToHendler
    /\ writeQueue[c] = <<>>

(* Whoever the frame of c in hand was not added for yet got earlier frames  *)
(* of c only; nobody got a later one.                                       *)
Given(c) == iter[c].done \cup (IF wpc[c] \in {"wakeup", "close"} THEN {target[c]} ELSE {})

OnlyEarlierFrames ==
  \A d \in Conn : \A k \in DOMAIN Sent(d) :
    LET f == Sent(d)[k] IN
    /\ f.nth <= at[f.from] \div 2
    /\ wpc[f.from] \in Processing /\ d \notin Given(f.from) => f.nth < out[f.from].nth

ReactorInv ==
  /\ ReactorTypeOK
  /\ \A c \in Conn : TasksAreReads(c) /\ SendsItsFrame(c)
  /\ SelectorState
  /\ NotYetAccepted
  /\ NoFrameIsForgotten
  /\ OnlyEarlierFrames
  /\ InSendersOrder

-----------------------------------------------------------------------------
(* Liveness, under Fairness.                                                *)

Spinning == spc = "continueWrite" /\ ~open[cur]

(* What was read does not stay in its buffer, even if the client or the     *)
(* selector thread is gone: a worker decodes and processes it, or drops it  *)
(* with the rest of the buffer where a handler throws (which frames that    *)
(* may cost is OnlyExceptionsTearFrames), or an ERROR ended the connection. *)
(* All this only as long as no UNSUBSCRIBE left the read lock held: after   *)
(* that a worker may wait for the lock for ever, of this client or of all.  *)
WhatIsReadIsProcessed ==
  \A c \in Conn : \A k \in 1 .. 2 * Len(Kinds[c]) :
    ReadSoFar(c) >= k ~> at[c] >= k \/ isTerminate[c] \/ readLeaked

(* What is queued for an open channel is written, or the channel is closed, *)
(* unless the selector thread died, or spins on a channel that was closed   *)
(* while there was something left to write to it.                           *)
WhatIsQueuedIsWritten ==
  \A c \in Conn :
    writeQueue[c] # <<>> ~> writeQueue[c] = <<>> \/ ~open[c]
                              \/ spc = "dead" \/ Spinning
=============================================================================
