--------------------------- MODULE MsgQueueProofs ---------------------------
(***************************************************************************)
(* Proofs about MsgQueue, for any number of senders, receivers, blocks and *)
(* messages: the blocks are conserved, no wake-up is lost, and the queue   *)
(* implements the bounded channel of MsgChannel.                           *)
(***************************************************************************)
EXTENDS MsgQueue, Lemmas, FiniteSetTheorems

USE MsgQueueAssumption

(***************************************************************************)
(* The blocks in the hands of the threads.                                 *)
(***************************************************************************)
HeldIn(f) == {f[t] : t \in Threads} \ {NoBlock}
Single(f) == \A t, u \in Threads : f[t] = f[u] /\ f[t] # NoBlock => t = u

\* A thread that holds nothing takes a block nobody holds.
LEMMA HeldGain ==
  ASSUME NEW f \in [Threads -> Blocks \cup {NoBlock}], Single(f),
         NEW t \in Threads, f[t] = NoBlock, NEW b \in Blocks, b \notin HeldIn(f)
  PROVE  /\ HeldIn([f EXCEPT ![t] = b]) = HeldIn(f) \cup {b}
         /\ Single([f EXCEPT ![t] = b])
<1>1. PICK g : g = [f EXCEPT ![t] = b]
  OBVIOUS
<1>2. g[t] = b /\ \A u \in Threads : u # t => g[u] = f[u]
  BY <1>1
<1>3. b # NoBlock
  OBVIOUS
<1>4. HeldIn(g) = HeldIn(f) \cup {b}
  BY <1>2, <1>3 DEF HeldIn
<1>5. Single(g)
  BY <1>2, <1>3 DEF Single, HeldIn
<1> QED BY <1>1, <1>4, <1>5

\* A thread gives away the block it holds.
LEMMA HeldLoss ==
  ASSUME NEW f \in [Threads -> Blocks \cup {NoBlock}], Single(f),
         NEW t \in Threads, f[t] # NoBlock
  PROVE  /\ HeldIn([f EXCEPT ![t] = NoBlock]) = HeldIn(f) \ {f[t]}
         /\ Single([f EXCEPT ![t] = NoBlock])
<1>1. PICK g : g = [f EXCEPT ![t] = NoBlock]
  OBVIOUS
<1>2. g[t] = NoBlock /\ \A u \in Threads : u # t => g[u] = f[u]
  BY <1>1
<1>3. HeldIn(g) = HeldIn(f) \ {f[t]}
  BY <1>2 DEF HeldIn, Single
<1>4. Single(g)
  BY <1>2 DEF Single
<1> QED BY <1>1, <1>3, <1>4

(***************************************************************************)
(* The inductive invariant.  NoLostWakeup needs that a suspended receiver  *)
(* has error EOK, so that the one who resumes it wakes it for the message; *)
(* that the suspended receivers are those in suspend_thread, so that the   *)
(* first of them was not among the woken before; and that entry is the     *)
(* length of the queue, so that nobody suspends in front of a message.     *)
(***************************************************************************)
SuspendedFresh == \A r \in Receivers : pc[r] = "suspended" => error[r] = "EOK"
IInv == TypeOK /\ BlocksConserved /\ SuspendedWait /\ SuspendedFresh /\ NoLostWakeup

LEMMA HeldIs == Held = HeldIn(block) /\ (BlocksConserved => Single(block))
  BY DEF Held, HeldIn, BlocksConserved, Single

\* The initial state.
LEMMA InitInv == Init => IInv
<1> SUFFICES ASSUME Init PROVE IInv
  OBVIOUS
<1>1. TypeOK
  BY DEF Init, TypeOK, InCall
<1>2. BlocksConserved
  BY DEF Init, BlocksConserved, Queued, Held, Elements, Distinct
<1>3. SuspendedWait /\ SuspendedFresh /\ NoLostWakeup
  BY DEF Init, SuspendedWait, SuspendedFresh, NoLostWakeup, Elements, Distinct, Threads
<1> QED BY <1>1, <1>2, <1>3 DEF IInv

\* Steps that change neither the lists nor the blocks in anybody's hands, and
\* that wake or suspend no receiver.
LEMMA CopyingStep ==
  ASSUME IInv, NEW t \in Threads,
         (t \in Senders /\ Fill(t)) \/ (t \in Receivers /\ (Fail(t) \/ Copy(t)))
  PROVE  IInv'
<1>1. TypeOK'
  <2>1. CASE t \in Senders /\ Fill(t)
    BY <2>1 DEF IInv, TypeOK, Fill, InCall, queueVars, callVars, bounds, Threads
  <2>2. CASE t \in Receivers /\ Fail(t)
    BY <2>2 DEF IInv, TypeOK, Fail, InCall, queueVars, callVars, bounds, Threads
  <2>3. CASE t \in Receivers /\ Copy(t)
    BY <2>3 DEF IInv, TypeOK, Copy, InCall, queueVars, callVars, bounds, Threads
  <2> QED BY <2>1, <2>2, <2>3
<1>2. BlocksConserved'
  BY DEF IInv, BlocksConserved, Queued, Held, Fill, Fail, Copy, queueVars
<1>3. pc' = [pc EXCEPT ![t] = pc'[t]] /\ pc[t] # "suspended" /\ pc'[t] # "suspended"
      /\ waiting' = waiting /\ error' = error /\ queue' = queue
      /\ timers' = timers /\ wait' = wait
  BY DEF IInv, TypeOK, Fill, Fail, Copy, queueVars, callVars
<1>4. \A r \in Receivers : pc'[r] = "suspended" <=> pc[r] = "suspended"
  BY <1>3 DEF IInv, TypeOK, Threads
<1>5. SuspendedWait' /\ SuspendedFresh'
  BY <1>3, <1>4 DEF IInv, SuspendedWait, SuspendedFresh
<1>6. Woken' = Woken
  BY DEF IInv, TypeOK, Woken, Fill, Fail, Copy, Threads
<1>7. NoLostWakeup'
  BY <1>3, <1>6 DEF IInv, NoLostWakeup
<1> QED BY <1>1, <1>2, <1>5, <1>7 DEF IInv

\* A sender takes a free block.
LEMMA AllocStep ==
  ASSUME IInv, NEW t \in Senders, Alloc(t)
  PROVE  IInv'
<1> USE DEF IInv
<1>1. PICK b \in free : free' = free \ {b} /\ block' = [block EXCEPT ![t] = b]
  BY DEF Alloc, FreeAfter
<1>2. t \in Threads /\ b \in Blocks /\ block \in [Threads -> Blocks \cup {NoBlock}]
      /\ block[t] = NoBlock
  BY <1>1 DEF TypeOK, InCall, Alloc, Threads
<1>3. TypeOK'
  <2>1. PICK m \in Msgs, d \in Entrances :
          msg' = [msg EXCEPT ![t] = m] /\ door' = [door EXCEPT ![t] = d]
    BY DEF Alloc
  <2>2. msg' \in [Senders -> Msgs \cup {NoMsg}] /\ door' \in [Senders -> {"send", "urgent"}]
    BY <2>1 DEF TypeOK
  <2>3. \A u \in Threads : block'[u] # NoBlock <=> pc'[u] \in InCall
    BY <1>1, <1>2 DEF TypeOK, Alloc, InCall
  <2>4. block' \in [Threads -> Blocks \cup {NoBlock}] /\ free' \subseteq Blocks
        /\ pc' \in [Threads -> {"idle", "fill", "link", "suspended", "ready", "copy", "return"}]
        /\ sends' \in 0..MaxSends
    BY <1>1, <1>2 DEF TypeOK, Alloc
  <2> QED BY <2>2, <2>3, <2>4 DEF TypeOK, Alloc
<1>4. BlocksConserved'
  <2>1. Held' = HeldIn(block')
    BY DEF Held, HeldIn
  <2>2. Single(block) /\ Held = HeldIn(block) /\ b \notin HeldIn(block)
    BY HeldIs DEF BlocksConserved
  <2>3. Held' = Held \cup {b} /\ Single(block')
    BY <1>1, <1>2, <2>1, <2>2, HeldGain
  <2> QED BY <1>1, <2>3 DEF BlocksConserved, Queued, Single, Alloc
<1>5. \A r \in Receivers : pc'[r] = pc[r]
  BY <1>2 DEF TypeOK, Alloc
<1>6. SuspendedWait' /\ SuspendedFresh'
  BY <1>5 DEF SuspendedWait, SuspendedFresh, Alloc
<1>7. NoLostWakeup'
  BY <1>5 DEF NoLostWakeup, Woken, Alloc
<1> QED BY <1>3, <1>4, <1>6, <1>7

\* A receiver gives its block back.
LEMMA ReturnStep ==
  ASSUME IInv, NEW t \in Receivers, Return(t)
  PROVE  IInv'
<1> USE DEF IInv
<1>2. t \in Threads /\ block \in [Threads -> Blocks \cup {NoBlock}] /\ block[t] \in Blocks
  BY DEF TypeOK, InCall, Return, Threads
<1>3. TypeOK'
  BY <1>2 DEF TypeOK, InCall, Return, callVars, bounds
<1>4. BlocksConserved'
  <2>1. Held' = HeldIn(block')
    BY DEF Held, HeldIn
  <2>2. Single(block) /\ Held = HeldIn(block) /\ block[t] \in Held
    BY <1>2, HeldIs DEF Held
  <2>3. Held' = Held \ {block[t]} /\ Single(block')
    BY <1>2, <2>1, <2>2, HeldLoss DEF Return
  <2> QED BY <1>2, <2>2, <2>3 DEF BlocksConserved, Queued, Single, Return
<1>5. \A r \in Receivers : pc'[r] # pc[r] => pc[r] = "return" /\ pc'[r] = "idle"
  BY <1>2 DEF TypeOK, Return
<1>6. SuspendedWait' /\ SuspendedFresh'
  BY <1>5 DEF SuspendedWait, SuspendedFresh, Return, callVars
<1>7. NoLostWakeup'
  BY <1>5 DEF NoLostWakeup, Woken, Return
<1> QED BY <1>3, <1>4, <1>6, <1>7

\* A receiver unlinks the first block: what this does to the blocks.
LEMMA TakeBlocks ==
  ASSUME IInv, NEW t \in Receivers, TakeHead(t), block[t] = NoBlock
  PROVE  /\ queue # <<>> /\ Head(queue) \in Blocks
         /\ queue' \in Seq(Blocks) /\ Len(queue') = Len(queue) - 1 /\ entry' \in Nat
         /\ block' = [block EXCEPT ![t] = Head(queue)]
         /\ BlocksConserved'
<1> USE DEF IInv
<1>1. queue # <<>> /\ queue \in Seq(Blocks) /\ entry = Len(queue) /\ Distinct(queue)
  BY DEF TakeHead, BlocksConserved, TypeOK
<1>2. /\ queue' \in Seq(Blocks) /\ Len(queue') = Len(queue) - 1 /\ Head(queue) \in Blocks
      /\ Head(queue) \in Elements(queue)
      /\ Elements(queue') = Elements(queue) \ {Head(queue)} /\ Distinct(queue')
  BY <1>1, TailSeq DEF TakeHead
<1>3. entry' = Len(queue') /\ entry' \in Nat
  BY <1>1, <1>2, LenProperties DEF TakeHead
<1>4. t \in Threads /\ block \in [Threads -> Blocks \cup {NoBlock}]
      /\ block' = [block EXCEPT ![t] = Head(queue)]
  BY DEF TypeOK, Threads, TakeHead
<1>5. Single(block) /\ Held = HeldIn(block) /\ Head(queue) \notin HeldIn(block)
      /\ Held' = HeldIn(block')
  BY <1>2, HeldIs DEF BlocksConserved, Queued, Held, HeldIn
<1>6. Held' = Held \cup {Head(queue)} /\ Single(block')
  BY <1>2, <1>4, <1>5, HeldGain
<1>7. BlocksConserved'
  BY <1>2, <1>3, <1>6 DEF BlocksConserved, Queued, Single, TakeHead, FreeOnTake
<1> QED BY <1>1, <1>2, <1>3, <1>4, <1>7

\* ... and to the rest of the invariant, whether the receiver has just been
\* called or has been woken: in the second case one wake-up less is outstanding,
\* and one message less is waiting.
LEMMA TakeStep ==
  ASSUME IInv, NEW t \in Receivers, TakeHead(t), pc[t] = "idle" \/ t \in Woken,
         UNCHANGED <<data, msg, door, got, bounds>>,
         NEW w \in {"forever", "timed", "no"}, wait' = [wait EXCEPT ![t] = w]
  PROVE  IInv'
<1> USE DEF IInv
<1>1. t \in Threads /\ block[t] = NoBlock /\ pc[t] \in {"idle", "ready"}
  BY DEF TypeOK, InCall, Woken, Threads
<1>2. /\ queue # <<>> /\ Head(queue) \in Blocks
      /\ queue' \in Seq(Blocks) /\ Len(queue') = Len(queue) - 1 /\ entry' \in Nat
      /\ block' = [block EXCEPT ![t] = Head(queue)]
      /\ BlocksConserved'
  BY <1>1, TakeBlocks
<1>3. pc' = [pc EXCEPT ![t] = "copy"] /\ waiting' = waiting /\ error' = error /\ free' = free
      /\ timers' = timers
  BY DEF TakeHead, FreeOnTake
<1>4. TypeOK'
  BY <1>1, <1>2, <1>3 DEF TypeOK, InCall, bounds
<1>5. \A r \in Receivers : /\ pc'[r] = IF r = t THEN "copy" ELSE pc[r]
                           /\ r # t => wait'[r] = wait[r]
  BY <1>1, <1>3 DEF TypeOK, Threads
<1>6. SuspendedWait' /\ SuspendedFresh'
  BY <1>1, <1>3, <1>5 DEF SuspendedWait, SuspendedFresh
<1>7. NoLostWakeup'
  <2> SUFFICES ASSUME waiting # <<>> PROVE Len(queue') <= Cardinality(Woken')
    BY <1>3 DEF NoLostWakeup
  <2>1. Len(queue) <= Cardinality(Woken) /\ Len(queue) \in Nat
    BY LenProperties DEF NoLostWakeup, TypeOK
  <2>2. Woken' = Woken \ {t}
    BY <1>3, <1>5 DEF Woken
  <2>3. IsFiniteSet(Woken)
    BY FS_Subset DEF Woken
  <2>4. Cardinality(Woken) - 1 <= Cardinality(Woken')
    <3>1. Cardinality(Woken) \in Nat
      BY <2>3, FS_CardinalityType
    <3>2. Cardinality(Woken') = IF t \in Woken THEN Cardinality(Woken) - 1 ELSE Cardinality(Woken)
      BY <2>2, <2>3, FS_RemoveElement
    <3> QED BY <3>1, <3>2
  <2>5. Cardinality(Woken) \in Nat /\ Cardinality(Woken') \in Nat
    BY <2>2, <2>3, FS_CardinalityType, FS_Subset
  <2> QED BY <1>2, <2>1, <2>4, <2>5
<1> QED BY <1>2, <1>4, <1>6, <1>7

\* A receiver finds the queue empty and suspends.
LEMMA SuspendStep ==
  ASSUME IInv, NEW t \in Receivers, pc[t] = "idle" \/ t \in Woken,
         UNCHANGED <<data, msg, door, got, bounds>>,
         NEW w \in {"forever", "timed"}, Suspend(t, w), wait' = [wait EXCEPT ![t] = w]
  PROVE  IInv'
<1> USE DEF IInv
<1>1. t \in Threads /\ block[t] = NoBlock /\ pc[t] \in {"idle", "ready"}
  BY DEF TypeOK, InCall, Woken, Threads
<1>2. pc' = [pc EXCEPT ![t] = "suspended"] /\ waiting' = Append(waiting, t)
      /\ error' = [error EXCEPT ![t] = "EOK"] /\ queue' = queue /\ block' = block
      /\ free' = free /\ entry' = entry
      /\ timers' = IF w = "timed" THEN timers \cup {t} ELSE timers
  BY DEF Suspend, ErrorReset
<1>3. t \notin Elements(waiting) /\ Distinct(waiting) /\ waiting \in Seq(Receivers)
  BY <1>1 DEF SuspendedWait, TypeOK
<1>4. /\ waiting' \in Seq(Receivers) /\ Distinct(waiting')
      /\ Elements(waiting') = Elements(waiting) \cup {t}
  BY <1>2, <1>3, AppendSeq
<1>5. TypeOK'
  BY <1>1, <1>2, <1>4 DEF TypeOK, InCall, bounds
<1>6. BlocksConserved'
  BY <1>2 DEF BlocksConserved, Queued, Held
<1>7. \A r \in Receivers : /\ pc'[r] = IF r = t THEN "suspended" ELSE pc[r]
                           /\ wait'[r] = IF r = t THEN w ELSE wait[r]
  BY <1>1, <1>2 DEF TypeOK, Threads
<1>8. SuspendedWait'
  <2>1. timers' = {r \in Receivers : pc'[r] = "suspended" /\ wait'[r] # "forever"}
    BY <1>1, <1>2, <1>7 DEF SuspendedWait
  <2> QED BY <1>4, <1>7, <2>1 DEF SuspendedWait
<1>9. SuspendedFresh'
  BY <1>2, <1>7 DEF SuspendedFresh, TypeOK
<1>10. NoLostWakeup'
  <2>1. Len(queue') = 0
    BY <1>2 DEF Suspend, BlocksConserved
  <2>2. Cardinality(Woken') \in Nat
    <3>1. Woken' \subseteq Receivers
      BY DEF Woken
    <3> QED BY <3>1, FS_Subset, FS_CardinalityType
  <2> QED BY <2>1, <2>2 DEF NoLostWakeup
<1> QED BY <1>5, <1>6, <1>8, <1>9, <1>10

\* A call of rt_mq_recv.
LEMMA RecvStep ==
  ASSUME IInv, NEW t \in Receivers, Recv(t)
  PROVE  IInv'
<1>1. PICK w \in {"forever", "timed", "no"} :
        wait' = [wait EXCEPT ![t] = w] /\ (TakeHead(t) \/ (w # "no" /\ Suspend(t, w)))
  BY DEF Recv
<1>2. pc[t] = "idle" /\ UNCHANGED <<data, msg, door, got, bounds>>
  BY DEF Recv
<1>3. CASE TakeHead(t)
  BY <1>1, <1>2, <1>3, TakeStep
<1>4. CASE w # "no" /\ Suspend(t, w)
  BY <1>1, <1>2, <1>4, SuspendStep
<1> QED BY <1>1, <1>3, <1>4

\* A woken receiver tests the queue again.
LEMMA RetryStep ==
  ASSUME IInv, NEW t \in Receivers, Retry(t)
  PROVE  IInv'
<1> DEFINE OutOfTime == /\ entry = 0
                        /\ error' = [error EXCEPT ![t] = "ETIMEOUT"]
                        /\ pc' = [pc EXCEPT ![t] = "idle"]
                        /\ UNCHANGED <<queueVars, block>>
<1>1. PICK w \in {"forever", "timed", "no"} :
        /\ wait' = [wait EXCEPT ![t] = w]
        /\ TakeHead(t) \/ (w # "no" /\ Suspend(t, w)) \/ OutOfTime
  <2>1. PICK w \in IF wait[t] = "timed" THEN {"timed", "no"} ELSE {wait[t]} :
          /\ wait' = [wait EXCEPT ![t] = w]
          /\ TakeHead(t) \/ (MayWait(w) /\ Suspend(t, w)) \/ OutOfTime
    BY DEF Retry
  <2>2. w \in {"forever", "timed", "no"}
    BY DEF IInv, TypeOK
  <2> QED BY <2>1, <2>2 DEF MayWait
<1>2. wait' \in [Receivers -> {"forever", "timed", "no"}]
  BY <1>1 DEF IInv, TypeOK
<1>3. t \in Woken /\ UNCHANGED <<data, msg, door, got, bounds>>
  BY DEF Retry, Woken
<1>4. CASE TakeHead(t)
  BY <1>1, <1>3, <1>4, TakeStep
<1>5. CASE w # "no" /\ Suspend(t, w)
  BY <1>1, <1>3, <1>5, SuspendStep
<1>6. CASE OutOfTime
  <2>1. t \in Threads /\ block[t] = NoBlock /\ pc[t] = "ready"
    BY <1>3 DEF IInv, TypeOK, InCall, Woken, Threads
  <2>2. TypeOK'
    BY <1>2, <1>3, <1>6, <2>1 DEF IInv, TypeOK, InCall, queueVars, bounds
  <2>3. BlocksConserved'
    BY <1>6 DEF IInv, BlocksConserved, Queued, Held, queueVars
  <2>4. \A r \in Receivers : /\ pc'[r] = IF r = t THEN "idle" ELSE pc[r]
                             /\ r # t => wait'[r] = wait[r]
    BY <1>1, <1>6, <2>1 DEF IInv, TypeOK, Threads
  <2>5. SuspendedWait'
    BY <1>6, <2>1, <2>4 DEF IInv, SuspendedWait, queueVars
  <2>6. SuspendedFresh'
    BY <1>6, <2>1, <2>4 DEF IInv, TypeOK, SuspendedFresh
  <2>7. NoLostWakeup'
    <3>1. Len(queue') = 0
      BY <1>6 DEF IInv, BlocksConserved, queueVars
    <3>2. Cardinality(Woken') \in Nat
      <4>1. Woken' \subseteq Receivers
        BY DEF Woken
      <4> QED BY <4>1, FS_Subset, FS_CardinalityType
    <3> QED BY <3>1, <3>2 DEF NoLostWakeup
  <2> QED BY <2>2, <2>3, <2>5, <2>6, <2>7 DEF IInv
<1> QED BY <1>1, <1>4, <1>5, <1>6

\* A sender links its block and wakes the first suspended receiver.
LEMMA LinkStep ==
  ASSUME IInv, NEW t \in Senders, Link(t)
  PROVE  IInv'
<1> USE DEF IInv
<1>1. /\ t \in Threads /\ t \notin Receivers /\ pc[t] = "link" /\ block[t] \in Blocks
      /\ block \in [Threads -> Blocks \cup {NoBlock}]
      /\ block' = [block EXCEPT ![t] = NoBlock]
  BY DEF TypeOK, InCall, Link, Threads
<1>2. /\ queue \in Seq(Blocks) /\ entry = Len(queue) /\ Distinct(queue)
      /\ block[t] \notin Elements(queue) /\ block[t] \in Held
  BY <1>1 DEF TypeOK, BlocksConserved, Queued, Held
<1>3. /\ queue' \in Seq(Blocks) /\ Len(queue') = Len(queue) + 1 /\ Distinct(queue')
      /\ Elements(queue') = Elements(queue) \cup {block[t]}
  <2>1. CASE door[t] = "urgent"
    <3>1. queue' = <<block[t]>> \o queue
      BY <2>1 DEF Link, Linked
    <3> QED BY <1>1, <1>2, <3>1, PushSeq
  <2>2. CASE door[t] # "urgent"
    <3>1. queue' = Append(queue, block[t])
      BY <2>2 DEF Link, Linked
    <3> QED BY <1>1, <1>2, <3>1, AppendSeq
  <2> QED BY <2>1, <2>2
<1>4. entry' = Len(queue') /\ entry' \in Nat
  BY <1>2, <1>3, LenProperties DEF Link
<1>5. BlocksConserved'
  <2>1. Held' = HeldIn(block')
    BY DEF Held, HeldIn
  <2>2. Single(block) /\ Held = HeldIn(block)
    BY HeldIs
  <2>3. Held' = Held \ {block[t]} /\ Single(block')
    BY <1>1, <2>1, <2>2, HeldLoss
  <2> QED BY <1>2, <1>3, <1>4, <2>3 DEF BlocksConserved, Queued, Single, Link
<1>6. CASE waiting = <<>>
  <2>1. waiting' = <<>> /\ pc' = [pc EXCEPT ![t] = "idle"] /\ error' = error
        /\ timers' = timers /\ wait' = wait
    BY <1>6 DEF Link, WakesOne, callVars
  <2>2. TypeOK'
    BY <1>1, <1>3, <1>4, <2>1 DEF TypeOK, InCall, Link, callVars, bounds
  <2>3. \A r \in Receivers : pc'[r] = pc[r]
    BY <1>1, <2>1 DEF TypeOK
  <2>4. SuspendedWait' /\ SuspendedFresh' /\ NoLostWakeup'
    BY <1>6, <2>1, <2>3 DEF SuspendedWait, SuspendedFresh, NoLostWakeup
  <2> QED BY <1>5, <2>2, <2>4
<1>7. CASE waiting # <<>>
  <2>1. PICK h : h = Head(waiting)
    OBVIOUS
  <2>2. /\ waiting' = Tail(waiting) /\ error' = error
        /\ timers' = timers \ {h} /\ wait' = wait
        /\ pc' = [pc EXCEPT ![t] = "idle", ![h] = "ready"]
    BY <1>7, <2>1 DEF Link, WakesOne, callVars
  <2>3. waiting \in Seq(Receivers) /\ Distinct(waiting)
    BY DEF TypeOK, SuspendedWait
  <2>4. /\ waiting' \in Seq(Receivers) /\ Distinct(waiting') /\ h \in Elements(waiting)
        /\ Elements(waiting') = Elements(waiting) \ {h}
    BY <1>7, <2>1, <2>2, <2>3, TailSeq
  <2>5. h \in Receivers /\ pc[h] = "suspended" /\ error[h] = "EOK" /\ h \in Threads
    BY <2>4 DEF SuspendedWait, SuspendedFresh, Threads
  <2>6. \A u \in Threads : pc'[u] = IF u = h THEN "ready" ELSE IF u = t THEN "idle" ELSE pc[u]
    BY <1>1, <2>2, <2>5 DEF TypeOK
  <2>7. TypeOK'
    <3>1. pc' \in [Threads -> {"idle", "fill", "link", "suspended", "ready", "copy", "return"}]
      BY <2>2 DEF TypeOK
    <3>2. \A u \in Threads : block'[u] # NoBlock <=> pc'[u] \in InCall
      BY <1>1, <2>5, <2>6 DEF TypeOK, InCall
    <3>3. block' \in [Threads -> Blocks \cup {NoBlock}]
      BY <1>1
    <3> QED BY <1>3, <1>4, <2>4, <3>1, <3>2, <3>3 DEF TypeOK, Link, callVars, bounds
  <2>8. \A r \in Receivers : pc'[r] = IF r = h THEN "ready" ELSE pc[r]
    BY <1>1, <2>6 DEF Threads
  <2>9. SuspendedWait' /\ SuspendedFresh'
    <3>1. Elements(waiting') = {r \in Receivers : pc'[r] = "suspended"}
      BY <2>4, <2>5, <2>8 DEF SuspendedWait
    <3>2. timers' = {r \in Receivers : pc'[r] = "suspended" /\ wait'[r] # "forever"}
      <4>1. timers = {r \in Receivers : pc[r] = "suspended" /\ wait[r] # "forever"}
        BY DEF SuspendedWait
      <4>2. timers' = timers \ {h} /\ wait' = wait
        BY <2>2
      <4> QED BY ONLY <2>8, <4>1, <4>2
    <3>3. SuspendedFresh'
      BY <2>2, <2>8 DEF SuspendedFresh
    <3> QED BY <2>4, <3>1, <3>2, <3>3 DEF SuspendedWait
  <2>10. Woken' = Woken \cup {h} /\ h \notin Woken
    BY <2>2, <2>5, <2>8 DEF Woken
  <2>11. NoLostWakeup'
    <3>1. IsFiniteSet(Woken)
      BY FS_Subset DEF Woken
    <3>2. Cardinality(Woken') = Cardinality(Woken) + 1
      BY <2>10, <3>1, FS_AddElement
    <3>3. Cardinality(Woken) \in Nat /\ Len(queue) \in Nat
      BY <1>2, <3>1, FS_CardinalityType, LenProperties
    <3>4. Len(queue) <= Cardinality(Woken)
      BY <1>7 DEF NoLostWakeup
    <3> QED BY <1>3, <3>2, <3>3, <3>4 DEF NoLostWakeup
  <2> QED BY <1>5, <2>7, <2>9, <2>11
<1> QED BY <1>6, <1>7

\* The timer of a suspended receiver expires.
LEMMA TimeoutStep ==
  ASSUME IInv, NEW t \in Receivers, Timeout(t)
  PROVE  IInv'
<1> USE DEF IInv
<1>1. /\ t \in Threads /\ pc[t] = "suspended" /\ t \in Elements(waiting)
      /\ waiting' = Without(waiting, t) /\ waiting \in Seq(Receivers) /\ Distinct(waiting)
      /\ pc' = [pc EXCEPT ![t] = "ready"] /\ error' = [error EXCEPT ![t] = "ETIMEOUT"]
      /\ timers' = timers \ {t} /\ wait' = wait
  BY DEF Timeout, TypeOK, SuspendedWait, Threads, callVars
<1>2. /\ waiting' \in Seq(Receivers) /\ Distinct(waiting')
      /\ Elements(waiting') = Elements(waiting) \ {t}
  BY <1>1, WithoutSeq
<1>3. TypeOK'
  BY <1>1, <1>2 DEF TypeOK, InCall, Timeout, callVars, bounds
<1>4. BlocksConserved'
  BY DEF BlocksConserved, Queued, Held, Timeout
<1>5. \A r \in Receivers : pc'[r] = IF r = t THEN "ready" ELSE pc[r]
  BY <1>1 DEF TypeOK
<1>6. SuspendedWait'
  BY <1>1, <1>2, <1>5 DEF SuspendedWait
<1>7. \A r \in Receivers : error'[r] = IF r = t THEN "ETIMEOUT" ELSE error[r]
  BY <1>1 DEF TypeOK
<1>8. SuspendedFresh'
  BY <1>5, <1>7 DEF SuspendedFresh
<1>9. Woken' = Woken
  BY <1>1, <1>5, <1>7 DEF Woken
<1>10. waiting # <<>> /\ queue' = queue
  BY <1>1 DEF Elements, Timeout
<1>11. NoLostWakeup'
  BY <1>9, <1>10 DEF NoLostWakeup
<1> QED BY <1>3, <1>4, <1>6, <1>8, <1>11

\* The queue is emptied and everybody resumed.
LEMMA ResetStep ==
  ASSUME IInv, Reset
  PROVE  IInv'
<1> USE DEF IInv
<1>1. \A t \in Threads : pc'[t] = IF pc[t] = "suspended" THEN "ready" ELSE pc[t]
  BY DEF Reset, ResumeAll
<1>2. TypeOK'
  <2>1. pc' \in [Threads -> {"idle", "fill", "link", "suspended", "ready", "copy", "return"}]
    BY DEF TypeOK, Reset, ResumeAll
  <2>2. \A t \in Threads : block'[t] # NoBlock <=> pc'[t] \in InCall
    BY <1>1 DEF TypeOK, InCall, Reset
  <2>3. error' \in [Receivers -> {"EOK", "ETIMEOUT", "ERROR"}]
    BY DEF TypeOK, Reset
  <2>4. free' \subseteq Blocks
    BY DEF TypeOK, Reset, Queued, Elements
  <2>5. resets' \in 0..MaxResets
    BY DEF TypeOK, Reset
  <2>6. queue' \in Seq(Blocks) /\ waiting' \in Seq(Receivers) /\ timers' \subseteq Receivers
    BY DEF Reset, TypeOK
  <2> QED BY <2>1, <2>2, <2>3, <2>4, <2>5, <2>6 DEF TypeOK, Reset, callVars
<1>3. Elements(queue') = {} /\ Elements(waiting') = {} /\ Distinct(queue') /\ Distinct(waiting')
      /\ Len(queue') = 0
  BY DEF Reset, Elements, Distinct
<1>4. BlocksConserved'
  BY <1>3 DEF BlocksConserved, Queued, Held, Reset
<1>5. \A r \in Receivers : pc'[r] # "suspended"
  BY <1>1 DEF Threads
<1>6. timers' = {}
  BY DEF SuspendedWait, Reset
<1>7. SuspendedWait' /\ SuspendedFresh' /\ NoLostWakeup'
  BY <1>3, <1>5, <1>6 DEF SuspendedWait, SuspendedFresh, NoLostWakeup, Reset
<1> QED BY <1>2, <1>4, <1>7

LEMMA NextInv == IInv /\ [Next]_vars => IInv'
<1> SUFFICES ASSUME IInv, [Next]_vars PROVE IInv'
  OBVIOUS
<1>1. ASSUME NEW t \in Senders, SenderStep(t) PROVE IInv'
  BY <1>1, AllocStep, CopyingStep, LinkStep DEF SenderStep, Threads
<1>2. ASSUME NEW t \in Receivers, ReceiverStep(t) PROVE IInv'
  BY <1>2, RecvStep, CopyingStep, RetryStep, ReturnStep DEF ReceiverStep, Threads
<1>3. ASSUME NEW t \in Receivers, Timeout(t) PROVE IInv'
  BY <1>3, TimeoutStep
<1>4. CASE Reset
  BY <1>4, ResetStep
<1>5. CASE UNCHANGED vars
  <2> USE <1>5 DEF vars, queueVars, callVars, bounds
  <2>1. TypeOK'
    BY DEF IInv, TypeOK
  <2>2. BlocksConserved'
    BY DEF IInv, BlocksConserved, Queued, Held
  <2>3. SuspendedWait' /\ SuspendedFresh' /\ NoLostWakeup'
    BY DEF IInv, SuspendedWait, SuspendedFresh, NoLostWakeup, Woken
  <2> QED BY <2>1, <2>2, <2>3 DEF IInv
<1> QED BY <1>1, <1>2, <1>3, <1>4, <1>5 DEF Next

LEMMA Invariance == Spec => []IInv
BY InitInv, NextInv, PTL DEF Spec

\* Every reachable state is well typed (rt_mq_send, rt_mq_urgent, rt_mq_recv
\* and rt_mq_control, ipc.c 1960-2322).
THEOREM TypeCorrect == Spec => []TypeOK
<1>1. IInv => TypeOK
  BY DEF IInv
<1> QED BY <1>1, Invariance, PTL

\* No block is lost or in two places, whatever the interleaving of the steps
\* outside of the critical sections (ipc.c 1976-2018 and 2234-2258).
THEOREM BlocksCorrect == Spec => []BlocksConserved
<1>1. IInv => BlocksConserved
  BY DEF IInv
<1> QED BY <1>1, Invariance, PTL

\* While receivers are suspended every message has a woken receiver of its own
\* (ipc.c 2020-2031 and 2168-2232).
THEOREM NoLostWakeupCorrect == Spec => []NoLostWakeup
<1>1. IInv => NoLostWakeup
  BY DEF IInv
<1> QED BY <1>1, Invariance, PTL

\* A timer, a sender and a reset never resume the same receiver twice, and a
\* receiver with a timeout has its timer running as long as it is suspended, and
\* never else (thread.c 683-748, ipc.c 155-183 and 2175-2231).
THEOREM SuspendedWaitCorrect == Spec => []SuspendedWait
<1>1. IInv => SuspendedWait
  BY DEF IInv
<1> QED BY <1>1, Invariance, PTL

(***************************************************************************)
(* The queue implements the bounded channel.                               *)
(***************************************************************************)

\* The messages of a sequence of blocks.
Image(f, q) == [k \in DOMAIN q |-> f[q[k]]]

LEMMA ImageLen ==
  ASSUME NEW S, NEW f, NEW q \in Seq(S)
  PROVE  Len(Image(f, q)) = Len(q)
BY LenProperties DEF Image

LEMMA ImageType ==
  ASSUME NEW S, NEW V, NEW f \in [S -> V], NEW q \in Seq(S)
  PROVE  Image(f, q) \in Seq(V)
<1>1. DOMAIN q = 1..Len(q) /\ Len(q) \in Nat /\ \A k \in 1..Len(q) : q[k] \in S
  OBVIOUS
<1>2. Image(f, q) \in [1..Len(q) -> V]
  BY <1>1 DEF Image
<1> QED BY <1>1, <1>2, SeqDef

LEMMA ImageAppend ==
  ASSUME NEW S, NEW V, NEW f \in [S -> V], NEW q \in Seq(S), NEW x \in S
  PROVE  Image(f, Append(q, x)) = Append(Image(f, q), f[x])
<1> DEFINE l == Image(f, Append(q, x))
           r == Append(Image(f, q), f[x])
<1>1. Append(q, x) \in Seq(S) /\ Len(Append(q, x)) = Len(q) + 1 /\ Len(q) \in Nat
      /\ (\A k \in 1..Len(q) : Append(q, x)[k] = q[k]) /\ Append(q, x)[Len(q) + 1] = x
  OBVIOUS
<1>2. Image(f, q) \in Seq(V) /\ Len(Image(f, q)) = Len(q) /\ DOMAIN Image(f, q) = 1..Len(q)
  BY ImageType, ImageLen, LenProperties
<1>3. DOMAIN l = 1..(Len(q) + 1) /\ \A k \in 1..(Len(q) + 1) : l[k] = f[Append(q, x)[k]]
  BY <1>1, LenProperties DEF Image
<1>4. l \in Seq(V)
  BY <1>1, ImageType
<1>5. r \in Seq(V) /\ Len(r) = Len(q) + 1 /\ r[Len(q) + 1] = f[x]
      /\ \A k \in 1..Len(q) : r[k] = Image(f, q)[k]
  BY <1>2
<1>6. \A k \in 1..Len(q) : r[k] = f[q[k]]
  BY <1>2, <1>5 DEF Image
<1>7. Len(l) = Len(q) + 1
  <2>1. PICK a : a = Append(q, x)
    OBVIOUS
  <2>2. a \in Seq(S) /\ Len(a) = Len(q) + 1 /\ l = Image(f, a)
    BY <1>1, <2>1
  <2>3. Len(Image(f, a)) = Len(a)
    BY ONLY <2>2, ImageLen
  <2> QED BY <2>2, <2>3
<1>8. \A k \in 1..(Len(q) + 1) : l[k] = r[k]
  BY <1>1, <1>3, <1>5, <1>6
<1> HIDE DEF l, r
<1>9. l = r
  BY <1>4, <1>5, <1>7, <1>8, SeqEqual
<1> QED BY <1>9 DEF l, r

LEMMA ImagePush ==
  ASSUME NEW S, NEW V, NEW f \in [S -> V], NEW q \in Seq(S), NEW x \in S
  PROVE  Image(f, <<x>> \o q) = <<f[x]>> \o Image(f, q)
<1>1. PICK a : a = <<x>> \o q
  OBVIOUS
<1>2. /\ a \in Seq(S) /\ Len(a) = Len(q) + 1 /\ Len(q) \in Nat
      /\ a[1] = x /\ \A k \in 1..Len(q) : a[k + 1] = q[k]
  BY <1>1, PushSeq, LenProperties
<1>3. PICK l : l = Image(f, a)
  OBVIOUS
<1>4. l \in Seq(V) /\ Len(l) = Len(q) + 1 /\ \A k \in 1..(Len(q) + 1) : l[k] = f[a[k]]
  <2>1. l \in Seq(V) /\ Len(l) = Len(q) + 1
    <3>1. Image(f, a) \in Seq(V) /\ Len(Image(f, a)) = Len(a)
      BY <1>2, ImageType, ImageLen
    <3> QED BY <1>2, <1>3, <3>1
  <2> QED BY <1>2, <1>3, <2>1, LenProperties DEF Image
<1>5. PICK i : i = Image(f, q)
  OBVIOUS
<1>6. i \in Seq(V) /\ Len(i) = Len(q) /\ \A k \in 1..Len(q) : i[k] = f[q[k]]
  <2>1. i \in Seq(V) /\ Len(i) = Len(q)
    <3>1. Image(f, q) \in Seq(V) /\ Len(Image(f, q)) = Len(q)
      BY ImageType, ImageLen
    <3> QED BY <1>5, <3>1
  <2> QED BY <1>5, <2>1, LenProperties DEF Image
<1>7. f[x] \in V
  OBVIOUS
<1>8. PICK r : r = <<f[x]>> \o i
  OBVIOUS
<1>9. /\ r \in Seq(V) /\ Len(r) = Len(q) + 1 /\ r[1] = f[x]
      /\ \A k \in 1..Len(q) : r[k + 1] = i[k]
  BY <1>6, <1>7, <1>8, PushSeq
<1>10. \A j \in 1..(Len(q) + 1) : l[j] = r[j]
  <2> SUFFICES ASSUME NEW j \in 1..(Len(q) + 1) PROVE l[j] = r[j]
    OBVIOUS
  <2>1. CASE j = 1
    BY <1>2, <1>4, <1>9, <2>1
  <2>2. CASE j # 1
    <3>1. PICK k : k = j - 1
      OBVIOUS
    <3>2. k \in 1..Len(q) /\ j = k + 1
      BY <1>2, <2>2, <3>1
    <3> QED BY <1>2, <1>4, <1>6, <1>9, <3>2
  <2> QED BY <2>1, <2>2
<1>11. l = r
  BY <1>4, <1>9, <1>10, SeqEqual
<1> QED BY <1>1, <1>3, <1>5, <1>8, <1>11

LEMMA ImageTail ==
  ASSUME NEW V, NEW f \in [Blocks -> V], NEW q \in Seq(Blocks), q # <<>>
  PROVE  /\ Image(f, q) # <<>>
         /\ Image(f, Tail(q)) = Tail(Image(f, q))
         /\ Head(Image(f, q)) = f[Head(q)]
<1>1. PICK a : a = Tail(q)
  OBVIOUS
<1>2. /\ a \in Seq(Blocks) /\ Len(a) = Len(q) - 1 /\ Len(q) \in Nat \ {0} /\ Head(q) = q[1]
      /\ \A k \in 1..(Len(q) - 1) : a[k] = q[k + 1]
  BY <1>1
<1>3. PICK l : l = Image(f, a)
  OBVIOUS
<1>4. l \in Seq(V) /\ Len(l) = Len(q) - 1 /\ \A k \in 1..(Len(q) - 1) : l[k] = f[a[k]]
  <2>1. l \in Seq(V) /\ Len(l) = Len(q) - 1
    <3>1. Image(f, a) \in Seq(V) /\ Len(Image(f, a)) = Len(a)
      BY <1>2, ImageType, ImageLen
    <3> QED BY <1>2, <1>3, <3>1
  <2> QED BY <1>2, <1>3, <2>1, LenProperties DEF Image
<1>5. PICK i : i = Image(f, q)
  OBVIOUS
<1>6. i \in Seq(V) /\ Len(i) = Len(q) /\ \A k \in 1..Len(q) : i[k] = f[q[k]]
  <2>1. i \in Seq(V) /\ Len(i) = Len(q)
    <3>1. Image(f, q) \in Seq(V) /\ Len(Image(f, q)) = Len(q)
      BY ImageType, ImageLen
    <3> QED BY <1>5, <3>1
  <2> QED BY <1>5, <2>1, LenProperties DEF Image
<1>7. i # <<>>
  BY <1>2, <1>6
<1>8. PICK r : r = Tail(i)
  OBVIOUS
<1>9. r \in Seq(V) /\ Len(r) = Len(q) - 1 /\ \A k \in 1..(Len(q) - 1) : r[k] = i[k + 1]
  BY <1>6, <1>7, <1>8, HeadTailProperties
<1>10. \A k \in 1..(Len(q) - 1) : k + 1 \in 1..Len(q)
  BY <1>2
<1>11. \A k \in 1..(Len(q) - 1) : l[k] = r[k]
  <2> SUFFICES ASSUME NEW k \in 1..(Len(q) - 1) PROVE l[k] = r[k]
    OBVIOUS
  <2>1. r[k] = i[k + 1] /\ l[k] = f[a[k]] /\ a[k] = q[k + 1]
    BY <1>2, <1>4, <1>9
  <2>2. PICK j : j = k + 1
    OBVIOUS
  <2>3. j \in 1..Len(q)
    BY <1>10, <2>2
  <2> QED BY <1>6, <2>1, <2>2, <2>3
<1>12. l = r
  BY <1>4, <1>9, <1>11, SeqEqual
<1>13. Head(i) = f[Head(q)]
  BY <1>2, <1>6, <1>7
<1> QED BY <1>1, <1>3, <1>5, <1>7, <1>8, <1>12, <1>13

\* Blocks that do not occur in the sequence do not matter.
LEMMA ImageSame ==
  ASSUME NEW S, NEW f, NEW g, NEW q \in Seq(S), \A x \in Elements(q) : f[x] = g[x]
  PROVE  Image(f, q) = Image(g, q)
BY DEF Image, Elements

\* A sequence without repetition is as long as its set of elements.
LEMMA DistinctLen ==
  ASSUME NEW S, NEW q \in Seq(S), Distinct(q)
  PROVE  IsFiniteSet(Elements(q)) /\ Cardinality(Elements(q)) = Len(q)
<1>1. Len(q) \in Nat /\ DOMAIN q = 1..Len(q) /\ q \in [1..Len(q) -> S]
  BY LenProperties
<1>2. q \in [1..Len(q) -> Elements(q)]
  BY <1>1 DEF Elements
<1>3. q \in Bijection(1..Len(q), Elements(q))
  <2>1. \A j, k \in 1..Len(q) : q[j] = q[k] => j = k
    BY <1>1 DEF Distinct
  <2>2. \A x \in Elements(q) : \E k \in 1..Len(q) : q[k] = x
    BY <1>1 DEF Elements
  <2> QED BY <1>2, <2>1, <2>2 DEF Bijection, Injection, IsInjective, Surjection
<1>4. ExistsBijection(1..Len(q), Elements(q))
  BY <1>3 DEF ExistsBijection
<1>5. IsFiniteSet(1..Len(q))
  BY <1>1, FS_Interval
<1> QED BY <1>1, <1>4, <1>5, FS_Bijection, FS_CountingElements

\* A block that is about to be linked has been filled.
Filled == \A s \in Senders : pc[s] = "link" => data[block[s]] = msg[s]

LEMMA FilledStep == IInv /\ Filled /\ [Next]_vars => Filled'
<1> SUFFICES ASSUME IInv, Filled, [Next]_vars, NEW s \in Senders, pc'[s] = "link"
             PROVE  data'[block'[s]] = msg'[s]
  BY DEF Filled
<1> USE DEF IInv
<1>1. s \in Threads /\ s \notin Receivers
  BY DEF Threads
<1>2. pc[s] = "link" => data[block[s]] = msg[s] /\ block[s] \in Blocks
  BY <1>1 DEF Filled, TypeOK, InCall
<1>3. ASSUME NEW t \in Senders, Alloc(t) PROVE data'[block'[s]] = msg'[s]
  <2>1. t # s /\ pc[s] = "link" /\ data' = data
    BY <1>1, <1>3 DEF TypeOK, Alloc, Threads
  <2>2. block'[s] = block[s] /\ msg'[s] = msg[s]
    BY <1>1, <1>3, <2>1 DEF TypeOK, Alloc
  <2> QED BY <1>2, <2>1, <2>2
<1>4. ASSUME NEW t \in Senders, Fill(t) PROVE data'[block'[s]] = msg'[s]
  <2>1. t \in Threads /\ block[t] \in Blocks /\ block' = block /\ msg' = msg
        /\ data' = [data EXCEPT ![block[t]] = msg[t]] /\ data \in [Blocks -> Msgs \cup {NoMsg}]
    BY <1>4 DEF TypeOK, InCall, Fill, Threads, callVars
  <2>2. CASE t = s
    BY <2>1, <2>2
  <2>3. CASE t # s
    <3>1. pc[s] = "link"
      BY <1>1, <1>4, <2>1, <2>3 DEF TypeOK, Fill
    <3>2. block[s] # block[t] /\ block[s] \in Blocks
      BY <1>1, <1>2, <2>1, <2>3, <3>1 DEF BlocksConserved
    <3> QED BY <1>2, <2>1, <3>1, <3>2
  <2> QED BY <2>2, <2>3
<1>5. ASSUME NEW t \in Senders, Link(t) PROVE data'[block'[s]] = msg'[s]
  <2>1. t # s /\ pc[s] = "link"
    BY <1>1, <1>5 DEF TypeOK, Link, Threads
  <2>2. block'[s] = block[s] /\ data' = data /\ msg' = msg
    BY <1>1, <1>5, <2>1 DEF TypeOK, Link, callVars
  <2> QED BY <1>2, <2>1, <2>2
<1>6. ASSUME NEW t \in Receivers, ReceiverStep(t) \/ Timeout(t)
      PROVE  data'[block'[s]] = msg'[s]
  <2> USE DEF TakeHead, Suspend, queueVars, callVars
  <2>1. data' = data /\ msg' = msg
    BY <1>6 DEF ReceiverStep, Recv, Fail, Retry, Copy, Return, Timeout
  <2>2. t # s
    BY <1>1
  <2>3. pc[s] = pc'[s] /\ block'[s] = block[s]
    <3>1. CASE Recv(t) \/ Retry(t)
      BY <1>1, <2>2, <3>1 DEF TypeOK, Recv, Retry
    <3>2. CASE Fail(t) \/ Copy(t) \/ Return(t) \/ Timeout(t)
      BY <1>1, <2>2, <3>2 DEF TypeOK, Fail, Copy, Return, Timeout
    <3> QED BY <1>6, <3>1, <3>2 DEF ReceiverStep
  <2> QED BY <1>2, <2>1, <2>3
<1>7. CASE Reset
  BY <1>1, <1>2, <1>7 DEF TypeOK, Reset, ResumeAll, callVars
<1>8. CASE UNCHANGED vars
  BY <1>2, <1>8 DEF vars, callVars
<1> QED BY <1>3, <1>4, <1>5, <1>6, <1>7, <1>8 DEF Next, SenderStep

(***************************************************************************)
(* The refinement mapping, and the step of the channel for each action.    *)
(***************************************************************************)
ChanOf == Image(data, queue)
PendingOf == [s \in Senders |-> IF pc[s] \in {"fill", "link"} THEN <<door[s], msg[s]>> ELSE <<>>]
TakenOf == [r \in Receivers |-> IF pc[r] = "copy" THEN data[block[r]] ELSE got[r]]
AbstractVars == <<ChanOf, PendingOf, TakenOf>>

\* The steps of MsgChannel, in the terms of the mapping.
BeginOf(s) ==
  /\ PendingOf[s] = <<>>
  /\ \E m \in Msgs, d \in Entrances : PendingOf' = [PendingOf EXCEPT ![s] = <<d, m>>]
  /\ ChanOf' = ChanOf /\ TakenOf' = TakenOf
PutOf(s) ==
  /\ PendingOf[s] # <<>> /\ Len(ChanOf) < Cardinality(Blocks)
  /\ ChanOf' = IF PendingOf[s][1] = "urgent" THEN <<PendingOf[s][2]>> \o ChanOf
               ELSE Append(ChanOf, PendingOf[s][2])
  /\ PendingOf' = [PendingOf EXCEPT ![s] = <<>>]
  /\ TakenOf' = TakenOf
GetOf(r) ==
  /\ ChanOf # <<>> /\ ChanOf' = Tail(ChanOf)
  /\ TakenOf' = [TakenOf EXCEPT ![r] = Head(ChanOf)]
  /\ PendingOf' = PendingOf
ClearOf == ChanOf' = <<>> /\ PendingOf' = PendingOf /\ TakenOf' = TakenOf
Stutter == ChanOf' = ChanOf /\ PendingOf' = PendingOf /\ TakenOf' = TakenOf

\* A step of a sender that leaves all blocks but its own alone does not change
\* what the receivers have taken.
LEMMA TakenSame ==
  ASSUME IInv, NEW t \in Senders, SenderStep(t)
  PROVE  TakenOf' = TakenOf
<1> SUFFICES ASSUME NEW r \in Receivers
             PROVE  (IF pc'[r] = "copy" THEN data'[block'[r]] ELSE got'[r])
                    = (IF pc[r] = "copy" THEN data[block[r]] ELSE got[r])
  BY DEF TakenOf
<1> USE DEF IInv
<1>1. t # r /\ t \in Threads /\ r \in Threads
  BY DEF Threads
<1>2. block'[r] = block[r] /\ got' = got
  BY <1>1 DEF SenderStep, Alloc, Fill, Link, TypeOK
<1>3. pc[r] = "copy" <=> pc'[r] = "copy"
  <2>1. CASE Alloc(t) \/ Fill(t)
    BY <1>1, <2>1 DEF Alloc, Fill, TypeOK
  <2>2. CASE Link(t) /\ waiting = <<>>
    BY <1>1, <2>2 DEF Link, WakesOne, TypeOK
  <2>3. CASE Link(t) /\ waiting # <<>>
    <3>1. PICK h \in Receivers : h = Head(waiting) /\ pc[h] = "suspended"
      BY <2>3, TailSeq DEF TypeOK, SuspendedWait
    <3>2. pc' = [pc EXCEPT ![t] = "idle", ![h] = "ready"] /\ h \in Threads
      BY <2>3, <3>1 DEF Link, WakesOne, Threads
    <3> QED BY <1>1, <3>1, <3>2 DEF TypeOK
  <2> QED BY <2>1, <2>2, <2>3 DEF SenderStep
<1>4. ASSUME pc[r] = "copy" PROVE data'[block[r]] = data[block[r]]
  <2>1. CASE Alloc(t) \/ Link(t)
    BY <2>1 DEF Alloc, Link
  <2>2. CASE Fill(t)
    <3>1. block[t] \in Blocks /\ block[r] \in Blocks
      BY <1>1, <1>4, <2>2 DEF TypeOK, InCall, Fill
    <3>2. block[t] # block[r]
      BY <1>1, <3>1 DEF BlocksConserved
    <3> QED BY <2>2, <3>1, <3>2 DEF Fill, TypeOK
  <2> QED BY <2>1, <2>2 DEF SenderStep
<1> QED BY <1>2, <1>3, <1>4

\* What the other senders are about to send does not change.
LEMMA PendingSame ==
  ASSUME IInv, NEW t \in Senders, SenderStep(t), NEW s \in Senders, s # t
  PROVE  PendingOf'[s] = PendingOf[s]
<1> USE DEF IInv
<1>1. s \in Threads /\ t \in Threads /\ s \notin Receivers
  BY DEF Threads
<1>2. door'[s] = door[s] /\ msg'[s] = msg[s]
  BY DEF SenderStep, Alloc, Fill, Link, TypeOK, callVars
<1>3. pc'[s] = pc[s]
  <2>1. CASE Alloc(t) \/ Fill(t)
    BY <1>1, <2>1 DEF Alloc, Fill, TypeOK
  <2>2. CASE Link(t) /\ waiting = <<>>
    BY <1>1, <2>2 DEF Link, WakesOne, TypeOK
  <2>3. CASE Link(t) /\ waiting # <<>>
    <3>1. PICK h \in Receivers : h = Head(waiting)
      BY <2>3, TailSeq DEF TypeOK, SuspendedWait
    <3>2. pc' = [pc EXCEPT ![t] = "idle", ![h] = "ready"] /\ h \in Threads
      BY <2>3, <3>1 DEF Link, WakesOne, Threads
    <3> QED BY <1>1, <3>2 DEF TypeOK
  <2> QED BY <2>1, <2>2, <2>3 DEF SenderStep
<1> QED BY <1>2, <1>3 DEF PendingOf

\* rt_mq_send begins when it has a block.
LEMMA AllocBegins ==
  ASSUME IInv, NEW t \in Senders, Alloc(t)
  PROVE  BeginOf(t)
<1> USE DEF IInv
<1>1. PICK m \in Msgs, d \in Entrances :
        msg' = [msg EXCEPT ![t] = m] /\ door' = [door EXCEPT ![t] = d]
  BY DEF Alloc
<1>2. t \in Threads /\ pc[t] = "idle" /\ pc'[t] = "fill" /\ msg'[t] = m /\ door'[t] = d
  BY <1>1 DEF Alloc, TypeOK, Threads
<1>3. PendingOf[t] = <<>> /\ PendingOf'[t] = <<d, m>>
  BY <1>2 DEF PendingOf
<1>4. \A s \in Senders : s # t => PendingOf'[s] = PendingOf[s]
  BY PendingSame DEF SenderStep
<1>5. PendingOf' = [PendingOf EXCEPT ![t] = <<d, m>>]
  BY <1>3, <1>4 DEF PendingOf
<1>6. ChanOf' = ChanOf
  BY DEF ChanOf, Alloc
<1>7. TakenOf' = TakenOf
  BY TakenSame DEF SenderStep
<1> QED BY <1>3, <1>5, <1>6, <1>7 DEF BeginOf

\* Filling a block that is in nobody else's hands is invisible.
LEMMA FillStutters ==
  ASSUME IInv, NEW t \in Senders, Fill(t)
  PROVE  Stutter
<1> USE DEF IInv
<1>1. t \in Threads /\ pc[t] = "fill" /\ pc'[t] = "link" /\ block[t] \in Blocks
  BY DEF Fill, TypeOK, InCall, Threads
<1>2. PendingOf'[t] = PendingOf[t]
  BY <1>1 DEF PendingOf, Fill, callVars
<1>3. \A s \in Senders : s # t => PendingOf'[s] = PendingOf[s]
  BY PendingSame DEF SenderStep
<1>4. PendingOf' = PendingOf
  BY <1>2, <1>3 DEF PendingOf
<1>5. ChanOf' = ChanOf
  <2>1. block[t] \notin Elements(queue)
    BY <1>1 DEF BlocksConserved, Queued, Held
  <2>2. \A b \in Elements(queue) : data'[b] = data[b]
    BY <1>1, <2>1 DEF Fill, TypeOK, Elements
  <2>3. queue' = queue /\ queue \in Seq(Blocks)
    BY DEF Fill, TypeOK, queueVars
  <2> QED BY <2>2, <2>3, ImageSame DEF ChanOf
<1>6. TakenOf' = TakenOf
  BY TakenSame DEF SenderStep
<1> QED BY <1>4, <1>5, <1>6 DEF Stutter

\* The message enters the channel when its block is linked.
LEMMA LinkPuts ==
  ASSUME IInv, Filled, NEW t \in Senders, Link(t)
  PROVE  PutOf(t)
<1> USE DEF IInv
<1>1. t \in Threads /\ t \notin Receivers /\ pc[t] = "link" /\ block[t] \in Blocks
      /\ data[block[t]] = msg[t]
  BY DEF Link, TypeOK, InCall, Threads, Filled
<1>2. pc'[t] = "idle"
  <2>1. CASE waiting = <<>>
    BY <1>1, <2>1 DEF Link, WakesOne, TypeOK
  <2>2. CASE waiting # <<>>
    <3>1. PICK h \in Receivers : h = Head(waiting)
      BY <2>2, TailSeq DEF TypeOK, SuspendedWait
    <3>2. pc' = [pc EXCEPT ![t] = "idle", ![h] = "ready"] /\ h # t
      BY <1>1, <2>2, <3>1 DEF Link, WakesOne
    <3> QED BY <1>1, <3>2 DEF TypeOK
  <2> QED BY <2>1, <2>2
<1>3. PendingOf[t] = <<door[t], msg[t]>> /\ PendingOf'[t] = <<>>
  BY <1>1, <1>2 DEF PendingOf
<1>4. \A s \in Senders : s # t => PendingOf'[s] = PendingOf[s]
  BY PendingSame DEF SenderStep
<1>5. PendingOf' = [PendingOf EXCEPT ![t] = <<>>]
  BY <1>3, <1>4 DEF PendingOf
<1>6. queue \in Seq(Blocks) /\ data \in [Blocks -> Msgs \cup {NoMsg}] /\ data' = data
  BY DEF TypeOK, Link
<1>7. ChanOf' = IF door[t] = "urgent" THEN <<msg[t]>> \o ChanOf ELSE Append(ChanOf, msg[t])
  <2>1. ChanOf' = Image(data, queue')
    BY <1>6 DEF ChanOf
  <2>2. PICK b \in Blocks : b = block[t] /\ data[b] = msg[t]
    BY <1>1
  <2>3. queue' = IF door[t] = "urgent" THEN <<b>> \o queue ELSE Append(queue, b)
    BY <2>2 DEF Link, Linked
  <2>4. PICK V : V = Msgs \cup {NoMsg}
    OBVIOUS
  <2>5. b \in Blocks /\ queue \in Seq(Blocks) /\ data \in [Blocks -> V]
    BY <1>6, <2>4
  <2>6. Image(data, <<b>> \o queue) = <<data[b]>> \o Image(data, queue)
    BY ONLY <2>5, ImagePush
  <2>7. Image(data, Append(queue, b)) = Append(Image(data, queue), data[b])
    BY ONLY <2>5, ImageAppend
  <2> QED BY <2>1, <2>2, <2>3, <2>6, <2>7 DEF ChanOf
<1>8. Len(ChanOf) < Cardinality(Blocks)
  <2>1. Len(ChanOf) = Cardinality(Elements(queue)) /\ Len(ChanOf) \in Nat
    <3>1. Len(ChanOf) = Len(queue)
      BY <1>6, ImageLen DEF ChanOf
    <3>2. Distinct(queue) /\ Len(queue) \in Nat
      BY <1>6, LenProperties DEF BlocksConserved
    <3> QED BY <1>6, <3>1, <3>2, DistinctLen
  <2>2. Elements(queue) \subseteq Blocks /\ block[t] \notin Elements(queue)
    BY <1>1, <1>6 DEF BlocksConserved, Queued, Held, Elements
  <2>3. Cardinality(Elements(queue)) <= Cardinality(Blocks)
        /\ Cardinality(Elements(queue)) # Cardinality(Blocks)
    BY <1>1, <2>2, FS_Subset
  <2>4. Cardinality(Blocks) \in Nat
    BY FS_CardinalityType
  <2> QED BY <2>1, <2>3, <2>4
<1>9. TakenOf' = TakenOf
  BY TakenSame DEF SenderStep
<1> QED BY <1>3, <1>5, <1>7, <1>8, <1>9 DEF PutOf

\* A receiver that unlinks the first block gets the first message.
LEMMA TakeGets ==
  ASSUME IInv, NEW t \in Receivers, TakeHead(t), pc[t] = "idle" \/ t \in Woken,
         UNCHANGED <<data, msg, door, got>>
  PROVE  GetOf(t)
<1> USE DEF IInv
<1>1. t \in Threads /\ block[t] = NoBlock /\ pc[t] # "copy" /\ pc' = [pc EXCEPT ![t] = "copy"]
      /\ \A s \in Senders : s # t /\ s \in Threads
  BY DEF TypeOK, InCall, Woken, Threads, TakeHead
<1>2. queue # <<>> /\ Head(queue) \in Blocks /\ block' = [block EXCEPT ![t] = Head(queue)]
  BY <1>1, TakeBlocks
<1>3. queue \in Seq(Blocks) /\ data \in [Blocks -> Msgs \cup {NoMsg}]
      /\ ChanOf' = Image(data, Tail(queue))
  BY DEF TypeOK, TakeHead, ChanOf
<1>4. ChanOf # <<>> /\ ChanOf' = Tail(ChanOf) /\ Head(ChanOf) = data[Head(queue)]
  <2>1. PICK V : V = Msgs \cup {NoMsg}
    OBVIOUS
  <2>2. queue \in Seq(Blocks) /\ queue # <<>> /\ data \in [Blocks -> V]
    BY <1>2, <1>3, <2>1
  <2>3. /\ Image(data, queue) # <<>>
        /\ Image(data, Tail(queue)) = Tail(Image(data, queue))
        /\ Head(Image(data, queue)) = data[Head(queue)]
    BY ONLY <2>2, ImageTail
  <2> QED BY <1>3, <2>3 DEF ChanOf
<1>5. TakenOf' = [TakenOf EXCEPT ![t] = data[Head(queue)]]
  <2>1. TakenOf'[t] = data[Head(queue)]
    BY <1>1, <1>2 DEF TakenOf, TypeOK
  <2>2. \A r \in Receivers : r # t => TakenOf'[r] = TakenOf[r]
    BY <1>1, <1>2 DEF TakenOf, TypeOK, Threads
  <2> QED BY <2>1, <2>2 DEF TakenOf
<1>6. PendingOf' = PendingOf
  BY <1>1 DEF PendingOf, TypeOK
<1> QED BY <1>4, <1>5, <1>6 DEF GetOf

\* The other steps of a receiver are invisible.
LEMMA QuietStutters ==
  ASSUME IInv, NEW t \in Receivers,
         pc' = [pc EXCEPT ![t] = pc'[t]], pc[t] # "copy", pc'[t] # "copy",
         UNCHANGED <<data, msg, door, got, queue>>,
         \A u \in Threads : u # t => block'[u] = block[u]
  PROVE  Stutter
<1>1. \A s \in Senders : s # t /\ s \in Threads
  BY DEF Threads
<1>2. t \in Threads
  BY DEF Threads
<1>3. \A u \in Threads : u # t => pc'[u] = pc[u]
  BY <1>2 DEF IInv, TypeOK
<1>4. ChanOf' = ChanOf
  BY DEF ChanOf
<1>5. PendingOf' = PendingOf
  BY <1>1, <1>3 DEF PendingOf
<1>6. \A r \in Receivers : (IF pc'[r] = "copy" THEN data[block'[r]] ELSE got[r])
                           = (IF pc[r] = "copy" THEN data[block[r]] ELSE got[r])
  BY <1>3 DEF Threads
<1>7. TakenOf' = TakenOf
  BY <1>6 DEF TakenOf
<1> QED BY <1>4, <1>5, <1>7 DEF Stutter

LEMMA CopyStutters ==
  ASSUME IInv, NEW t \in Receivers, Copy(t)
  PROVE  Stutter
<1> USE DEF IInv
<1>1. t \in Threads /\ pc[t] = "copy" /\ pc'[t] = "return" /\ block' = block /\ data' = data
      /\ queue' = queue /\ msg' = msg /\ door' = door
      /\ (\A u \in Threads : u # t => pc'[u] = pc[u])
      /\ got'[t] = data[block[t]] /\ \A r \in Receivers : r # t => got'[r] = got[r]
  BY DEF Copy, TypeOK, Threads, queueVars, callVars
<1>2. ChanOf' = ChanOf
  BY <1>1 DEF ChanOf
<1>3. PendingOf' = PendingOf
  BY <1>1 DEF PendingOf, Threads
<1>4. \A r \in Receivers : (IF pc'[r] = "copy" THEN data'[block'[r]] ELSE got'[r])
                           = (IF pc[r] = "copy" THEN data[block[r]] ELSE got[r])
  BY <1>1 DEF Threads
<1>5. TakenOf' = TakenOf
  BY <1>4 DEF TakenOf
<1> QED BY <1>2, <1>3, <1>5 DEF Stutter

LEMMA ReceiverStutters ==
  ASSUME IInv, NEW t \in Receivers, ReceiverStep(t) \/ Timeout(t)
  PROVE  GetOf(t) \/ Stutter
<1>1. t \in Threads /\ pc \in [Threads -> {"idle", "fill", "link", "suspended", "ready", "copy", "return"}]
  BY DEF IInv, TypeOK, Threads
<1>2. CASE (Recv(t) \/ Retry(t)) /\ TakeHead(t)
  BY <1>2, TakeGets DEF Recv, Retry, Woken
<1>3. CASE (Recv(t) \/ Retry(t)) /\ ~TakeHead(t)
  <2>1. /\ pc' = [pc EXCEPT ![t] = pc'[t]] /\ pc[t] # "copy" /\ pc'[t] # "copy"
        /\ queue' = queue /\ block' = block
    BY <1>1, <1>3 DEF Recv, Retry, Suspend, queueVars
  <2>2. UNCHANGED <<data, msg, door, got>>
    BY <1>3 DEF Recv, Retry
  <2> QED BY <2>1, <2>2, QuietStutters
<1>4. CASE Fail(t) \/ Timeout(t)
  <2>0. Timeout(t) => pc[t] = "suspended"
    BY DEF IInv, SuspendedWait, Timeout
  <2>1. /\ pc' = [pc EXCEPT ![t] = pc'[t]] /\ pc[t] # "copy" /\ pc'[t] # "copy"
        /\ UNCHANGED <<data, msg, door, got, queue, block>>
    BY <1>1, <1>4, <2>0 DEF Fail, Timeout, queueVars, callVars
  <2> QED BY <2>1, QuietStutters
<1>5. CASE Return(t)
  <2>1. /\ pc' = [pc EXCEPT ![t] = pc'[t]] /\ pc[t] # "copy" /\ pc'[t] # "copy"
        /\ UNCHANGED <<data, msg, door, got, queue>>
        /\ \A u \in Threads : u # t => block'[u] = block[u]
    BY <1>1, <1>5 DEF Return, callVars, IInv, TypeOK
  <2> QED BY <2>1, QuietStutters
<1>6. CASE Copy(t)
  BY <1>6, CopyStutters
<1> QED BY <1>2, <1>3, <1>4, <1>5, <1>6 DEF ReceiverStep

LEMMA ResetClears ==
  ASSUME IInv, Reset
  PROVE  ClearOf
<1> USE DEF IInv
<1>1. \A t \in Threads : pc'[t] = IF pc[t] = "suspended" THEN "ready" ELSE pc[t]
  BY DEF Reset, ResumeAll
<1>2. ChanOf' = <<>>
  BY DEF ChanOf, Image, Reset
<1>3. PendingOf' = PendingOf
  <2>1. \A s \in Senders : pc'[s] \in {"fill", "link"} <=> pc[s] \in {"fill", "link"}
    BY <1>1 DEF Threads
  <2> QED BY <2>1 DEF PendingOf, Reset, callVars
<1>4. TakenOf' = TakenOf
  <2>1. \A r \in Receivers : pc'[r] = "copy" <=> pc[r] = "copy"
    BY <1>1 DEF Threads
  <2> QED BY <2>1 DEF TakenOf, Reset
<1> QED BY <1>2, <1>3, <1>4 DEF ClearOf

\* The message queue implements the bounded channel, for every number of
\* senders, receivers, blocks and messages (ipc.c 1960-2322).
THEOREM ChannelImplemented == Spec => ImplementsChannel
<1>1. Channel!None = <<>>
  BY DEF Channel!None
<1>2. Init => Channel!Init
  BY <1>1 DEF Init, Channel!Init, Threads
<1>3. Init => Filled
  BY DEF Init, Filled, Threads
<1>4. IInv /\ Filled /\ [Next]_vars => [Channel!Next]_AbstractVars
  <2> SUFFICES ASSUME IInv, Filled, [Next]_vars
               PROVE  \/ \E s \in Senders : BeginOf(s) \/ PutOf(s)
                      \/ \E r \in Receivers : GetOf(r)
                      \/ ClearOf \/ Stutter
    BY <1>1 DEF BeginOf, PutOf, GetOf, ClearOf, Stutter, AbstractVars, ChanOf, PendingOf, TakenOf,
                Image, Channel!Next, Channel!Begin, Channel!Put, Channel!Get, Channel!Clear
  <2>1. ASSUME NEW t \in Senders, SenderStep(t) PROVE BeginOf(t) \/ PutOf(t) \/ Stutter
    BY <2>1, AllocBegins, FillStutters, LinkPuts DEF SenderStep
  <2>2. ASSUME NEW t \in Receivers, ReceiverStep(t) \/ Timeout(t) PROVE GetOf(t) \/ Stutter
    BY <2>2, ReceiverStutters
  <2>3. CASE Reset
    BY <2>3, ResetClears
  <2>4. CASE UNCHANGED vars
    BY <2>4 DEF vars, queueVars, callVars, bounds, Stutter, ChanOf, PendingOf, TakenOf, Image
  <2> QED BY <2>1, <2>2, <2>3, <2>4 DEF Next
<1>5. Channel!Spec <=> Channel!Init /\ [][Channel!Next]_AbstractVars
  BY DEF Channel!Spec, AbstractVars, ChanOf, PendingOf, TakenOf, Image
<1> QED BY <1>2, <1>3, <1>4, <1>5, Invariance, FilledStep, PTL DEF Spec, ImplementsChannel
=============================================================================
