------------------------------ MODULE MsgQueue ------------------------------
(***************************************************************************)
(* The kernel's message queue (src/ipc.c), through which the bytes of the  *)
(* lidar reach thread eaix4.                                               *)
(*                                                                         *)
(* Only the list operations run with interrupts disabled.  A message is    *)
(* copied into and out of its block outside of the critical sections, so a *)
(* call is several steps: a sender takes a free block, fills it, links it; *)
(* a receiver unlinks a block, copies it, gives it back.  Interrupt        *)
(* handlers are senders like the threads.                                  *)
(*                                                                         *)
(* A call that changes nothing (rt_mq_send on a full queue, rt_mq_recv     *)
(* without waiting on an empty one) is a stuttering step.  The list of     *)
(* suspended threads is first-in first-out, as in every queue of the car.  *)
(***************************************************************************)
EXTENDS KernelList, FiniteSets

CONSTANTS
  Senders, Receivers,
  Blocks,     \* the blocks of msg_pool
  NoBlock, Msgs, NoMsg,
  Entrances,  \* calls the senders make, a subset of {"send", "urgent"}
  Waits,      \* timeouts of the receivers, a subset of {"forever", "timed", "no"}
  MaxSends,   \* bound: messages sent
  MaxResets   \* bound: calls of rt_mq_control(RESET)

Threads == Senders \cup Receivers

ASSUME MsgQueueAssumption ==
  /\ Senders \cap Receivers = {}
  /\ IsFiniteSet(Receivers) /\ IsFiniteSet(Blocks)
  /\ NoBlock \notin Blocks /\ NoMsg \notin Msgs
  /\ Entrances \subseteq {"send", "urgent"}
  /\ Waits \subseteq {"forever", "timed", "no"}
  /\ MaxSends \in Nat /\ MaxResets \in Nat

VARIABLES
  free,      \* msg_queue_free
  queue,     \* the blocks from msg_queue_head to msg_queue_tail
  entry,
  data,      \* contents of the blocks
  waiting,   \* suspend_thread
  timers,    \* the receivers whose thread_timer runs
  pc,
  block,     \* local msg: the block the thread is working on
  msg,       \* a sender's message
  door,      \* a sender's call
  wait,      \* a receiver's timeout
  error,     \* thread->error of the receivers
  got,       \* what a receiver copied last
  sends, resets

queueVars == <<free, queue, entry, waiting, timers>>
callVars  == <<msg, door, wait>>
bounds    == <<sends, resets>>
vars == <<queueVars, data, pc, block, callVars, error, got, bounds>>

(***************************************************************************)
(* rt_mq_send and rt_mq_urgent.                                            *)
(***************************************************************************)
FreeAfterKept(b) == free
FreeAfter(b) == free \ {b}

Alloc(t) ==
  /\ pc[t] = "idle" /\ sends < MaxSends
  /\ \E b \in free, m \in Msgs, d \in Entrances :
       /\ free' = FreeAfter(b)
       /\ block' = [block EXCEPT ![t] = b]
       /\ msg' = [msg EXCEPT ![t] = m]
       /\ door' = [door EXCEPT ![t] = d]
  /\ pc' = [pc EXCEPT ![t] = "fill"]
  /\ sends' = sends + 1
  /\ UNCHANGED <<queue, entry, waiting, timers, data, wait, error, got, resets>>

Fill(t) ==
  /\ pc[t] = "fill"
  /\ data' = [data EXCEPT ![block[t]] = msg[t]]
  /\ pc' = [pc EXCEPT ![t] = "link"]
  /\ UNCHANGED <<queueVars, block, callVars, error, got, bounds>>

\* A message sent goes to the tail, an urgent one to the head.
Linked(t) ==
  IF door[t] = "urgent" THEN <<block[t]>> \o queue ELSE Append(queue, block[t])

WakesIfFirst == waiting # <<>> /\ entry = 0
WakesOne == waiting # <<>>

Link(t) ==
  /\ pc[t] = "link"
  /\ queue' = Linked(t)
  /\ entry' = entry + 1
  /\ block' = [block EXCEPT ![t] = NoBlock]
  /\ IF WakesOne
     THEN /\ waiting' = Tail(waiting)
          /\ timers' = timers \ {Head(waiting)}
          /\ pc' = [pc EXCEPT ![t] = "idle", ![Head(waiting)] = "ready"]
     ELSE /\ pc' = [pc EXCEPT ![t] = "idle"]
          /\ UNCHANGED <<waiting, timers>>
  /\ UNCHANGED <<free, data, callVars, error, got, bounds>>

(***************************************************************************)
(* rt_mq_recv.                                                             *)
(***************************************************************************)
\* A block is not free before it has been copied.
FreeOnTakeEarly == free \cup {Head(queue)}
FreeOnTake == free

TakeHead(t) ==
  /\ entry # 0
  /\ block' = [block EXCEPT ![t] = Head(queue)]
  /\ queue' = Tail(queue)
  /\ entry' = entry - 1
  /\ pc' = [pc EXCEPT ![t] = "copy"]
  /\ free' = FreeOnTake
  /\ UNCHANGED <<waiting, timers, error>>

ErrorKept(t) == error
ErrorReset(t) == [error EXCEPT ![t] = "EOK"]

\* The thread timer is started for a wait that has an end.
Suspend(t, w) ==
  /\ entry = 0
  /\ error' = ErrorReset(t)
  /\ waiting' = Append(waiting, t)
  /\ timers' = IF w = "timed" THEN timers \cup {t} ELSE timers
  /\ pc' = [pc EXCEPT ![t] = "suspended"]
  /\ UNCHANGED <<free, queue, entry, block>>

Recv(t) ==
  /\ pc[t] = "idle"
  /\ \E w \in Waits :
       /\ wait' = [wait EXCEPT ![t] = w]
       /\ TakeHead(t) \/ (w # "no" /\ Suspend(t, w))
  /\ UNCHANGED <<data, msg, door, got, bounds>>

\* A thread timer expires: rt_thread_timeout, whatever the thread is doing.
Timeout(t) ==
  /\ t \in timers
  /\ timers' = timers \ {t}
  /\ error' = [error EXCEPT ![t] = "ETIMEOUT"]
  /\ waiting' = Without(waiting, t)
  /\ pc' = [pc EXCEPT ![t] = "ready"]
  /\ UNCHANGED <<free, queue, entry, data, block, callVars, got, bounds>>

Fail(t) ==
  /\ pc[t] = "ready" /\ error[t] # "EOK"
  /\ pc' = [pc EXCEPT ![t] = "idle"]
  /\ UNCHANGED <<queueVars, data, block, callVars, error, got, bounds>>

\* A resumed receiver tests the queue again, with what is left of its time.
\* Nothing left is no reason to wait.
MayWaitAlways(w) == TRUE
MayWait(w) == w # "no"

Retry(t) ==
  /\ pc[t] = "ready" /\ error[t] = "EOK"
  /\ \E w \in IF wait[t] = "timed" THEN {"timed", "no"} ELSE {wait[t]} :
       /\ wait' = [wait EXCEPT ![t] = w]
       /\ \/ TakeHead(t)
          \/ MayWait(w) /\ Suspend(t, w)
          \/ /\ ~MayWait(w) /\ entry = 0
             /\ error' = [error EXCEPT ![t] = "ETIMEOUT"]
             /\ pc' = [pc EXCEPT ![t] = "idle"]
             /\ UNCHANGED <<queueVars, block>>
  /\ UNCHANGED <<data, msg, door, got, bounds>>

Copy(t) ==
  /\ pc[t] = "copy"
  /\ got' = [got EXCEPT ![t] = data[block[t]]]
  /\ pc' = [pc EXCEPT ![t] = "return"]
  /\ UNCHANGED <<queueVars, data, block, callVars, error, bounds>>

Return(t) ==
  /\ pc[t] = "return"
  /\ free' = free \cup {block[t]}
  /\ block' = [block EXCEPT ![t] = NoBlock]
  /\ pc' = [pc EXCEPT ![t] = "idle"]
  /\ UNCHANGED <<queue, entry, waiting, timers, data, callVars, error, got, bounds>>

(***************************************************************************)
(* rt_mq_control with RT_IPC_CMD_RESET, by any thread.                     *)
(***************************************************************************)
Queued == Elements(queue)

ResumeReceivers == [t \in Threads |-> IF t \in Receivers THEN "ready" ELSE pc[t]]
ResumeAll == [t \in Threads |-> IF pc[t] = "suspended" THEN "ready" ELSE pc[t]]

Reset ==
  /\ resets < MaxResets
  /\ resets' = resets + 1
  /\ error' = [r \in Receivers |-> IF pc[r] = "suspended" THEN "ERROR" ELSE error[r]]
  /\ pc' = ResumeAll
  /\ waiting' = <<>> /\ timers' = {r \in timers : pc[r] # "suspended"}
  /\ free' = free \cup Queued
  /\ queue' = <<>> /\ entry' = 0
  /\ UNCHANGED <<data, block, callVars, got, sends>>

(***************************************************************************)
(* The specification: rt_mq_init puts all blocks on the free list.         *)
(***************************************************************************)
Init ==
  /\ free = Blocks /\ queue = <<>> /\ entry = 0 /\ waiting = <<>> /\ timers = {}
  /\ data = [b \in Blocks |-> NoMsg]
  /\ pc = [t \in Threads |-> "idle"]
  /\ block = [t \in Threads |-> NoBlock]
  /\ msg = [t \in Senders |-> NoMsg] /\ door = [t \in Senders |-> "send"]
  /\ wait = [r \in Receivers |-> "no"]
  /\ error = [r \in Receivers |-> "EOK"]
  /\ got = [r \in Receivers |-> NoMsg]
  /\ sends = 0 /\ resets = 0

SenderStep(t) == Alloc(t) \/ Fill(t) \/ Link(t)
ReceiverStep(t) == Recv(t) \/ Fail(t) \/ Retry(t) \/ Copy(t) \/ Return(t)

Next ==
  \/ \E t \in Senders : SenderStep(t)
  \/ \E t \in Receivers : ReceiverStep(t) \/ Timeout(t)
  \/ Reset

Spec == Init /\ [][Next]_vars

\* A thread in the middle of a call, and a ready receiver, get the processor.
\* Nobody has to start a call, and no timer has to expire.
Fairness ==
  /\ \A t \in Senders : WF_vars(Fill(t) \/ Link(t))
  /\ \A t \in Receivers : WF_vars(Fail(t) \/ Retry(t) \/ Copy(t) \/ Return(t))
FairSpec == Spec /\ Fairness

(***************************************************************************)
(* Properties.                                                             *)
(***************************************************************************)

\* Type invariant.  A thread has a block exactly while it is working on one.
InCall == {"fill", "link", "copy", "return"}
TypeOK ==
  /\ free \subseteq Blocks
  /\ queue \in Seq(Blocks) /\ entry \in Nat
  /\ data \in [Blocks -> Msgs \cup {NoMsg}]
  /\ waiting \in Seq(Receivers) /\ timers \subseteq Receivers
  /\ pc \in [Threads -> {"idle", "fill", "link", "suspended", "ready", "copy", "return"}]
  /\ block \in [Threads -> Blocks \cup {NoBlock}]
  /\ \A t \in Threads : block[t] # NoBlock <=> pc[t] \in InCall
  /\ msg \in [Senders -> Msgs \cup {NoMsg}]
  /\ door \in [Senders -> {"send", "urgent"}]
  /\ wait \in [Receivers -> {"forever", "timed", "no"}]
  /\ error \in [Receivers -> {"EOK", "ETIMEOUT", "ERROR"}]
  /\ got \in [Receivers -> Msgs \cup {NoMsg}]
  /\ sends \in 0..MaxSends /\ resets \in 0..MaxResets

\* No block is ever lost or in two places: each one is on the free list, in the
\* queue or in the hands of one caller, and entry counts those in the queue.
\* Thread eaix4 and the uart interrupt work on blocks at the same time
\* (ipc.c 1976-2018 and 2234-2258).
Held == {block[t] : t \in Threads} \ {NoBlock}
BlocksConserved ==
  /\ free \cup Queued \cup Held = Blocks
  /\ free \cap Queued = {} /\ free \cap Held = {} /\ Queued \cap Held = {}
  /\ Distinct(queue)
  /\ \A t, u \in Threads : block[t] = block[u] /\ block[t] # NoBlock => t = u
  /\ entry = Len(queue)

\* No wake-up is lost: while receivers are suspended, every message in the queue
\* has a receiver of its own that was woken for it and has not yet looked.  A
\* receiver that was not waiting may take the message first (ipc.c 2020-2031
\* and 2168-2232).
Woken == {r \in Receivers : pc[r] = "ready" /\ error[r] = "EOK"}
NoLostWakeup == waiting # <<>> => Len(queue) <= Cardinality(Woken)

\* The suspended receivers are exactly those in suspend_thread, once each, and
\* the timer runs for exactly those of them that did not come to wait for ever.
\* So a timer that expires, a sender and a reset never resume the same one twice,
\* no timer is left running that would hit a receiver in the middle of something
\* else, and one that waits again with the rest of its time, however little is
\* left, still has an end to its wait (ipc.c 2175-2211, thread.c 704-707).
SuspendedWait ==
  /\ Elements(waiting) = {r \in Receivers : pc[r] = "suspended"}
  /\ Distinct(waiting)
  /\ timers = {r \in Receivers : pc[r] = "suspended" /\ wait[r] # "forever"}

\* Messages and waiting receivers do not face each other for ever.
Served == queue # <<>> /\ waiting # <<>> ~> queue = <<>> \/ waiting = <<>>

\* The message queue is a bounded channel, although messages are copied outside
\* of the critical sections: what a receiver copies is what was at the head.
Channel == INSTANCE MsgChannel WITH
  Capacity <- Cardinality(Blocks),
  chan  <- [k \in DOMAIN queue |-> data[queue[k]]],
  pending <- [s \in Senders |->
                IF pc[s] \in {"fill", "link"} THEN <<door[s], msg[s]>> ELSE <<>>],
  taken <- [r \in Receivers |-> IF pc[r] = "copy" THEN data[block[r]] ELSE got[r]]

ImplementsChannel == Channel!Spec
=============================================================================
