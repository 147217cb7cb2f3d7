---------------------------- MODULE MutexProofs ----------------------------
(***************************************************************************)
(* Proofs about Mutex, for any number of threads of any priorities: the    *)
(* mutex and the threads agree about who holds it, exactly the suspended   *)
(* threads are in its list, and priorities that are lent come back.        *)
(***************************************************************************)
EXTENDS Mutex, Lemmas

USE MutexAssumption

(***************************************************************************)
(* The inductive invariant.  A suspended thread has no error yet: when the *)
(* mutex is handed over to it, it returns as the owner.                    *)
(***************************************************************************)
SuspendedFresh == \A t \in Threads : pc[t] = "suspended" => error[t] = "EOK"

IInv ==
  /\ TypeOK /\ HoldersAgree /\ WaitersSuspended
  /\ PriorityRestored /\ SuspendedFresh

\* The initial state.
LEMMA InitInv == Init => IInv
<1> SUFFICES ASSUME Init PROVE IInv
  OBVIOUS
<1> USE DEF Init, NoPriority
<1>1. TypeOK
  BY DEF TypeOK
<1>2. HoldersAgree
  BY DEF HoldersAgree, Pending
<1>3. WaitersSuspended
  BY DEF WaitersSuspended, Elements, Distinct
<1>4. PriorityRestored /\ SuspendedFresh
  BY DEF PriorityRestored, SuspendedFresh
<1> QED BY <1>1, <1>2, <1>3, <1>4 DEF IInv

\* How often a thread has the mutex that does not return from a wait.
LEMMA HeldIs ==
  ASSUME TypeOK, HoldersAgree, NEW t \in Threads, pc[t] # "ready"
  PROVE  held[t] = IF owner = t THEN hold ELSE 0
<1>1. Pending(t) = 0
  BY DEF Pending
<1>2. held[t] + Pending(t) = IF owner = t THEN hold ELSE 0
  BY DEF HoldersAgree
<1>3. held[t] \in Nat
  BY DEF TypeOK
<1> QED BY <1>1, <1>2, <1>3

\* The owner takes the mutex again.
LEMMA TakeAgainStep ==
  ASSUME IInv, NEW t \in Threads, TakeAgain(t)
  PROVE  IInv'
<1> USE DEF IInv, TakeAgain
<1>1. TypeOK'
  <2>1. hold' \in 0..MaxHold
    BY DEF TypeOK
  <2>2. held' \in [Threads -> Nat]
    BY DEF TypeOK
  <2>3. error' \in [Threads -> {"EOK", "ETIMEOUT", "ERROR"}]
    BY DEF TypeOK
  <2> QED BY <2>1, <2>2, <2>3 DEF TypeOK
<1>2. HoldersAgree'
  BY DEF TypeOK, HoldersAgree, Pending
<1>3. WaitersSuspended'
  BY DEF WaitersSuspended
<1>4. PriorityRestored' /\ SuspendedFresh'
  BY DEF TypeOK, PriorityRestored, SuspendedFresh
<1> QED BY <1>1, <1>2, <1>3, <1>4

\* A thread takes a free mutex.
LEMMA TakeFreeStep ==
  ASSUME IInv, NEW t \in Threads, TakeFree(t)
  PROVE  IInv'
<1> USE DEF IInv, TakeFree
<1>1. owner = NoThread /\ hold = 0 /\ value = 1 /\ waiting = <<>>
  BY DEF TypeOK, HoldersAgree, WaitersSuspended
<1>2. TypeOK'
  <2>1. hold' \in 0..MaxHold /\ value' \in 0..1
    BY <1>1
  <2>2. held' \in [Threads -> Nat]
    BY DEF TypeOK
  <2>3. error' \in [Threads -> {"EOK", "ETIMEOUT", "ERROR"}]
    BY DEF TypeOK
  <2>4. original' \in 0..NoPriority
    BY DEF TypeOK, NoPriority
  <2> QED BY <2>1, <2>2, <2>3, <2>4 DEF TypeOK
<1>3. HoldersAgree'
  BY <1>1 DEF TypeOK, HoldersAgree, Pending
<1>4. WaitersSuspended'
  BY <1>1 DEF WaitersSuspended
<1>5. PriorityRestored' /\ SuspendedFresh'
  BY <1>1 DEF TypeOK, PriorityRestored, SuspendedFresh
<1> QED BY <1>2, <1>3, <1>4, <1>5

\* A call that returns at once leaves an error in a thread that is not waiting.
LEMMA RefusedStep ==
  ASSUME IInv, NEW t \in Threads, TakeRefused(t) \/ ReleaseRefused(t)
  PROVE  IInv'
<1> USE DEF IInv, TakeRefused, ReleaseRefused, mutexVars
<1>1. TypeOK'
  <2>1. error' \in [Threads -> {"EOK", "ETIMEOUT", "ERROR"}]
    BY DEF TypeOK
  <2> QED BY <2>1 DEF TypeOK
<1>2. HoldersAgree'
  BY DEF TypeOK, HoldersAgree, Pending
<1>3. WaitersSuspended'
  BY DEF WaitersSuspended
<1>4. PriorityRestored' /\ SuspendedFresh'
  BY DEF TypeOK, PriorityRestored, SuspendedFresh
<1> QED BY <1>1, <1>2, <1>3, <1>4

\* A thread waits, and lends the owner its priority.
LEMMA TakeWaitStep ==
  ASSUME IInv, NEW t \in Threads, TakeWait(t)
  PROVE  IInv'
<1> USE DEF IInv, TakeWait, mutexVars
<1>1. owner \in Threads /\ pc[t] # "suspended" /\ t \notin Elements(waiting)
  BY DEF TypeOK, HoldersAgree, WaitersSuspended
<1>2. /\ waiting' \in Seq(Threads)
      /\ Elements(waiting') = Elements(waiting) \cup {t}
      /\ Distinct(waiting')
  <2>1. PICK k \in 1..(Len(waiting) + 1) : waiting' = InsertAt(waiting, t, k)
    OBVIOUS
  <2>2. waiting \in Seq(Threads) /\ Distinct(waiting)
    BY DEF TypeOK, WaitersSuspended
  <2> HIDE DEF IInv, TakeWait, mutexVars
  <2>3. /\ InsertAt(waiting, t, k) \in Seq(Threads)
        /\ Elements(InsertAt(waiting, t, k)) = Elements(waiting) \cup {t}
        /\ Distinct(InsertAt(waiting, t, k))
    BY <1>1, <2>1, <2>2, InsertAtSeq
  <2> QED BY <2>1, <2>3
<1>3. prio' = [prio EXCEPT ![owner] = IF prio[t] < prio[owner] THEN prio[t] ELSE prio[owner]]
  OBVIOUS
<1>4. TypeOK'
  <2>1. prio' \in [Threads -> 0..(NoPriority - 1)]
    <3>1. \A u \in Threads : prio[u] \in 0..(NoPriority - 1)
      BY DEF TypeOK
    <3> QED BY <1>1, <1>3, <3>1 DEF TypeOK
  <2>2. wait' \in [Threads -> {"forever", "timed"}]
    BY DEF TypeOK
  <2> QED BY <1>2, <2>1, <2>2 DEF TypeOK
<1>5. HoldersAgree'
  BY DEF TypeOK, HoldersAgree, Pending
<1>6. WaitersSuspended'
  <2>1. pc' = [pc EXCEPT ![t] = "suspended"] /\ owner' = owner /\ owner # t
    OBVIOUS
  <2>2. owner \notin Elements(waiting)
    BY <1>1 DEF WaitersSuspended, HoldersAgree, SuspendedFresh, Pending, TypeOK, Elements
  <2> QED BY <1>1, <1>2, <2>1, <2>2 DEF WaitersSuspended, TypeOK
<1>7. PriorityRestored'
  <2>1. \A u \in Threads : u # owner => prio'[u] = prio[u]
    BY <1>3 DEF TypeOK
  <2>2. prio'[owner] <= prio[owner] /\ prio[owner] <= Base[owner]
    <3>1. prio[t] \in Int /\ prio[owner] \in Int
      BY <1>1 DEF TypeOK
    <3>2. prio'[owner] = IF prio[t] < prio[owner] THEN prio[t] ELSE prio[owner]
      BY <1>1, <1>3 DEF TypeOK
    <3>3. prio[owner] <= Base[owner]
      BY <1>1 DEF PriorityRestored
    <3> HIDE DEF IInv, TakeWait
    <3> QED BY <3>1, <3>2, <3>3
  <2>3. prio'[owner] \in Int /\ prio[owner] \in Int /\ Base[owner] \in Int
    <3>1. prio[owner] \in Int /\ prio[t] \in Int /\ Base[owner] \in Int
      BY <1>1 DEF TypeOK
    <3> QED BY <1>1, <1>3, <3>1 DEF TypeOK
  <2>4. prio'[owner] <= Base[owner]
    BY <2>2, <2>3
  <2> QED BY <2>1, <2>4 DEF PriorityRestored
<1>8. SuspendedFresh'
  BY DEF TypeOK, SuspendedFresh
<1> QED BY <1>4, <1>5, <1>6, <1>7, <1>8

\* A wait ends by its timer.
LEMMA TimeoutStep ==
  ASSUME IInv, NEW t \in Threads, Timeout(t)
  PROVE  IInv'
<1> USE DEF IInv, Timeout, mutexVars
<1>1. t \in Elements(waiting)
  BY DEF WaitersSuspended
<1>2. /\ waiting' \in Seq(Threads)
      /\ Elements(waiting') = Elements(waiting) \ {t}
      /\ Distinct(waiting')
  BY <1>1, WithoutSeq DEF TypeOK, WaitersSuspended
<1>3. TypeOK'
  BY <1>2 DEF TypeOK
<1>4. HoldersAgree'
  BY DEF TypeOK, HoldersAgree, Pending
<1>5. WaitersSuspended'
  <2>1. waiting # <<>>
    BY <1>1 DEF Elements
  <2>2. Elements(waiting') = {u \in Threads : pc'[u] = "suspended"}
    BY <1>2 DEF TypeOK, WaitersSuspended
  <2> QED BY <1>2, <2>1, <2>2 DEF WaitersSuspended
<1>6. PriorityRestored' /\ SuspendedFresh'
  BY DEF TypeOK, PriorityRestored, SuspendedFresh
<1> QED BY <1>3, <1>4, <1>5, <1>6

\* A thread returns from its wait.
LEMMA ReturnStep ==
  ASSUME IInv, NEW t \in Threads, Return(t)
  PROVE  IInv'
<1> USE DEF IInv, Return, mutexVars
<1>1. TypeOK'
  BY DEF TypeOK
<1>2. HoldersAgree'
  BY DEF TypeOK, HoldersAgree, Pending
<1>3. WaitersSuspended'
  BY DEF TypeOK, WaitersSuspended
<1>4. PriorityRestored' /\ SuspendedFresh'
  BY DEF TypeOK, PriorityRestored, SuspendedFresh
<1> QED BY <1>1, <1>2, <1>3, <1>4

\* The owner releases one of several takes.
LEMMA ReleaseOneStep ==
  ASSUME IInv, NEW t \in Threads, Release(t), ReleaseOne(t)
  PROVE  IInv'
<1> USE DEF IInv, Release, ReleaseOne
<1>1. held[t] = hold
  BY HeldIs
<1>2. TypeOK'
  BY <1>1 DEF TypeOK, NoPriority
<1>3. HoldersAgree'
  <2>1. \A u \in Threads : Pending(u)' = Pending(u) /\ Pending(u) \in 0..1
    BY DEF Pending
  <2>2. hold \in Nat /\ hold' = hold - 1 /\ hold > 1 /\ owner = t /\ held[t] = hold
    BY <1>1 DEF TypeOK
  <2>3. \A u \in Threads : held'[u] = IF u = t THEN hold - 1 ELSE held[u]
    BY <1>1 DEF TypeOK
  <2>4. \A u \in Threads : held[u] + Pending(u) = IF owner = u THEN hold ELSE 0
    BY DEF HoldersAgree
  <2>5. Pending(t) = 0
    BY <2>1, <2>2 DEF Pending
  <2>6. \A u \in Threads : held'[u] + Pending(u)' = IF owner = u THEN hold - 1 ELSE 0
    BY <2>1, <2>2, <2>3, <2>4, <2>5
  <2>7. (owner = NoThread <=> value = 1) /\ owner # NoThread
    BY DEF HoldersAgree
  <2>8. owner' = owner /\ value' = value /\ hold' # 0
    BY <2>2
  <2> QED BY <2>2, <2>6, <2>7, <2>8 DEF HoldersAgree
<1>4. WaitersSuspended'
  BY DEF WaitersSuspended
<1>5. PriorityRestored' /\ SuspendedFresh'
  BY DEF TypeOK, PriorityRestored, SuspendedFresh
<1> QED BY <1>2, <1>3, <1>4, <1>5

\* The owner hands the mutex over.
LEMMA HandOverStep ==
  ASSUME IInv, NEW t \in Threads, Release(t), HandOver(t)
  PROVE  IInv'
<1> DEFINE h == Head(waiting)
<1> USE DEF IInv
<1>1. /\ pc[t] = "idle" /\ owner = t /\ hold = 1
      /\ held' = [held EXCEPT ![t] = @ - 1]
      /\ prio' = [prio EXCEPT ![t] = original]
      /\ owner' = h /\ original' = prio[h] /\ hold' = 1 /\ value' = value
      /\ waiting' = Tail(waiting)
      /\ pc' = [pc EXCEPT ![h] = "ready"]
      /\ flag' = flag /\ wait' = wait /\ error' = error
  BY DEF Release, HandOver, HoldGiven, ValueOnHandOver, PriorityBack
<1>2. /\ Tail(waiting) \in Seq(Threads) /\ h \in Threads /\ h \in Elements(waiting)
      /\ Elements(Tail(waiting)) = Elements(waiting) \ {h}
      /\ Distinct(Tail(waiting))
  BY TailSeq DEF HandOver, TypeOK, WaitersSuspended
<1> HIDE DEF h
<1>3. pc[h] = "suspended" /\ error[h] = "EOK" /\ h # t
  BY <1>1, <1>2 DEF WaitersSuspended, SuspendedFresh
<1>4. held[t] = 1 /\ held[h] = 0 /\ prio[h] = Base[h] /\ original = Base[t]
  <2>1. held[t] = 1
    BY <1>1, HeldIs
  <2>2. held[h] = 0
    BY <1>1, <1>2, <1>3, HeldIs
  <2>3. prio[h] = Base[h] /\ original = Base[t]
    BY <1>1, <1>2, <1>3 DEF PriorityRestored
  <2> QED BY <2>1, <2>2, <2>3
<1>5. TypeOK'
  <2>1. prio' \in [Threads -> 0..(NoPriority - 1)]
    <3>1. Base[t] \in 0..(NoPriority - 1)
      OBVIOUS
    <3>2. prio \in [Threads -> 0..(NoPriority - 1)]
      BY DEF TypeOK
    <3> HIDE MutexAssumption DEF IInv
    <3> QED BY <1>1, <1>4, <3>1, <3>2
  <2>2. prio[h] \in 0..NoPriority
    <3>1. prio[h] \in 0..(NoPriority - 1)
      BY <1>2 DEF TypeOK
    <3> QED BY <3>1 DEF NoPriority
  <2>3. held' \in [Threads -> Nat]
    BY <1>1, <1>4 DEF TypeOK
  <2> QED BY <1>1, <1>2, <2>1, <2>2, <2>3 DEF TypeOK
<1>6. HoldersAgree'
  BY <1>1, <1>2, <1>3, <1>4 DEF TypeOK, HoldersAgree, Pending
<1>7. WaitersSuspended'
  BY <1>1, <1>2, <1>3 DEF TypeOK, WaitersSuspended
<1>8. PriorityRestored'
  <2>1. \A u \in Threads : prio'[u] = IF u = t THEN Base[t] ELSE prio[u]
    BY <1>1, <1>4 DEF TypeOK
  <2>2. \A u \in Threads : u # t => prio[u] = Base[u]
    BY <1>1 DEF PriorityRestored
  <2>3. Base[h] <= Base[h]
    <3>1. Base[h] \in Int
      BY <1>2
    <3> QED BY <3>1
  <2>4. original' = Base[h] /\ owner' = h
    BY <1>1, <1>4
  <2>5. \A u \in Threads : prio'[u] = Base[u]
    BY <2>1, <2>2
  <2> HIDE DEF IInv
  <2> QED BY <1>2, <2>3, <2>4, <2>5 DEF PriorityRestored
<1>9. SuspendedFresh'
  BY <1>1, <1>2 DEF TypeOK, SuspendedFresh
<1> QED BY <1>5, <1>6, <1>7, <1>8, <1>9

\* The owner leaves the mutex free.
LEMMA FreeStep ==
  ASSUME IInv, NEW t \in Threads, Release(t), Free(t)
  PROVE  IInv'
<1> USE DEF IInv, Release, Free, PriorityBack
<1>1. held[t] = 1 /\ value = 0 /\ original = Base[t]
  <2>1. held[t] = 1
    BY HeldIs
  <2>2. value = 0
    BY DEF HoldersAgree, TypeOK
  <2>3. original = Base[t]
    BY DEF PriorityRestored
  <2> QED BY <2>1, <2>2, <2>3
<1>2. TypeOK'
  BY <1>1 DEF TypeOK, NoPriority
<1>3. HoldersAgree'
  BY <1>1 DEF TypeOK, HoldersAgree, Pending
<1>4. WaitersSuspended'
  BY DEF WaitersSuspended
<1>5. PriorityRestored' /\ SuspendedFresh'
  BY <1>1 DEF TypeOK, PriorityRestored, SuspendedFresh
<1> QED BY <1>2, <1>3, <1>4, <1>5

LEMMA NextInv == IInv /\ [Next]_vars => IInv'
<1> SUFFICES ASSUME IInv, [Next]_vars PROVE IInv'
  OBVIOUS
<1>1. ASSUME NEW t \in Threads, Release(t) PROVE IInv'
  BY <1>1, ReleaseOneStep, HandOverStep, FreeStep DEF Release
<1>2. CASE Next
  BY <1>1, <1>2, TakeAgainStep, TakeFreeStep, RefusedStep, TakeWaitStep, TimeoutStep,
     ReturnStep DEF Next
<1>3. CASE UNCHANGED vars
  <2> USE <1>3 DEF vars, mutexVars
  <2>1. TypeOK'
    BY DEF IInv, TypeOK
  <2>2. HoldersAgree' /\ WaitersSuspended'
    BY DEF IInv, HoldersAgree, Pending, WaitersSuspended
  <2>3. PriorityRestored' /\ SuspendedFresh'
    BY DEF IInv, PriorityRestored, SuspendedFresh
  <2> QED BY <2>1, <2>2, <2>3 DEF IInv
<1> QED BY <1>2, <1>3

LEMMA Invariance == Spec => []IInv
BY InitInv, NextInv, PTL DEF Spec

\* Every reachable state is well typed (rt_mutex_take and rt_mutex_release,
\* ipc.c 650-877).
THEOREM TypeCorrect == Spec => []TypeOK
<1>1. IInv => TypeOK
  BY DEF IInv
<1> QED BY <1>1, Invariance, PTL

\* At most one thread has the mutex, the mutex knows which and how often, and a
\* wait that ends without an error has made its thread the owner
\* (ipc.c 677-697, 751-765 and 824-866).
THEOREM HoldersCorrect == Spec => []HoldersAgree
<1>1. IInv => HoldersAgree
  BY DEF IInv
<1> QED BY <1>1, Invariance, PTL

\* Exactly the suspended threads are in the list, once each, and nobody waits for
\* a free mutex (ipc.c 726-743 and 838-854, thread.c 726-748).
THEOREM WaitersCorrect == Spec => []WaitersSuspended
<1>1. IInv => WaitersSuspended
  BY DEF IInv
<1> QED BY <1>1, Invariance, PTL

\* A thread that does not own the mutex runs with its own priority (ipc.c 694-695,
\* 718-724 and 830-835).
THEOREM PriorityCorrect == Spec => []PriorityRestored
<1>1. IInv => PriorityRestored
  BY DEF IInv
<1> QED BY <1>1, Invariance, PTL

(***************************************************************************)
(* Waiting for an owner that is as urgent.  The threads in the list are    *)
(* not the owner, so they have their own priorities, and those of a list   *)
(* of kind prio are in order: whoever gets the mutex is as urgent as the   *)
(* threads that are left.                                                  *)
(***************************************************************************)
Ranked ==
  flag = "prio" =>
    \A j, k \in DOMAIN waiting : j < k => Base[waiting[j]] <= Base[waiting[k]]

RInv == IInv /\ Ranked /\ Inherited

\* A waiting thread has its own priority.
LEMMA WaiterBase ==
  ASSUME IInv, NEW u \in Elements(waiting)
  PROVE  u \in Threads /\ u # owner /\ prio[u] = Base[u] /\ Base[u] \in Int
<1>1. u \in Threads
  BY DEF IInv, TypeOK, Elements
<1>2. u # owner
  BY DEF IInv, WaitersSuspended, Elements
<1>3. Base[u] \in Int
  BY <1>1 DEF NoPriority
<1> QED BY <1>1, <1>2, <1>3 DEF IInv, PriorityRestored

\* Steps that leave the list, the owner and the priorities alone.
LEMMA QuietRanked ==
  ASSUME RInv, UNCHANGED <<flag, waiting, owner, prio>>
  PROVE  Ranked' /\ Inherited'
BY DEF RInv, Ranked, Inherited

\* A list that is empty.
LEMMA EmptyRanked ==
  ASSUME waiting' = <<>>
  PROVE  Ranked' /\ Inherited'
BY DEF Ranked, Inherited, Elements

\* A thread enters the list at the place of its priority.
LEMMA TakeWaitRanked ==
  ASSUME RInv, NEW t \in Threads, TakeWait(t), flag = "prio"
  PROVE  Ranked' /\ Inherited'
<1>1. PICK p \in 1..(Len(waiting) + 1) : Place(t, p) /\ waiting' = InsertAt(waiting, t, p)
  BY DEF TakeWait
<1>2. PICK n : n = Len(waiting)
  OBVIOUS
<1>3. n \in Nat /\ DOMAIN waiting = 1..n /\ p \in 1..(n + 1) /\ waiting \in Seq(Threads)
  BY <1>1, <1>2 DEF RInv, IInv, TypeOK
<1>4. t # owner /\ t \notin Elements(waiting) /\ owner \in Threads /\ flag' = flag
      /\ owner' = owner
      /\ prio' = [prio EXCEPT ![owner] = IF prio[t] < prio[owner] THEN prio[t] ELSE prio[owner]]
  BY DEF RInv, IInv, TypeOK, TakeWait, mutexVars, HoldersAgree, WaitersSuspended
<1>5. prio[t] = Base[t] /\ Base[t] \in Int /\ \A u \in Threads : prio[u] \in Int
  <2>1. \A u \in Threads : prio[u] \in Int /\ Base[u] \in Int
    BY DEF RInv, IInv, TypeOK
  <2>2. prio[t] = Base[t]
    BY <1>4 DEF RInv, IInv, PriorityRestored
  <2> QED BY <2>1, <2>2
<1>6. waiting' = [k \in 1..(n + 1) |->
                   IF k < p THEN waiting[k] ELSE IF k = p THEN t ELSE waiting[k - 1]]
  BY <1>1, <1>2 DEF InsertAt
<1>7. \A k \in 1..n : waiting[k] \in Elements(waiting) /\ prio[waiting[k]] = Base[waiting[k]]
                      /\ Base[waiting[k]] \in Int
  <2>1. \A k \in 1..n : waiting[k] \in Elements(waiting)
    BY <1>3 DEF Elements
  <2> QED BY <2>1, WaiterBase DEF RInv
<1>8. \A j \in 1..(p - 1) : Base[waiting[j]] <= Base[t]
  <2>1. \A j \in 1..(p - 1) : prio[waiting[j]] <= prio[t] /\ j \in 1..n
    BY <1>1, <1>3 DEF Place
  <2> QED BY <1>5, <1>7, <2>1
<1>9. \A j, k \in 1..n : j < k => Base[waiting[j]] <= Base[waiting[k]]
  BY <1>3 DEF RInv, Ranked
<1>10. \A k \in p..n : Base[t] <= Base[waiting[k]]
  <2> SUFFICES ASSUME NEW k \in p..n PROVE Base[t] <= Base[waiting[k]]
    OBVIOUS
  <2>1. p \in 1..n /\ k \in 1..n
    BY <1>3
  <2>2. prio[t] < prio[waiting[p]]
    BY <1>1, <1>2, <1>3, <2>1 DEF Place
  <2>3. Base[t] < Base[waiting[p]]
    BY <1>5, <1>7, <2>1, <2>2
  <2>4. Base[waiting[p]] <= Base[waiting[k]]
    <3>1. CASE k = p
      BY <1>7, <2>1, <3>1
    <3>2. CASE p < k
      BY <1>9, <2>1, <3>2
    <3> QED BY <3>1, <3>2
  <2> QED BY <1>5, <1>7, <2>1, <2>3, <2>4
<1>11. Ranked'
  <2> SUFFICES ASSUME NEW j \in 1..(n + 1), NEW k \in 1..(n + 1), j < k
               PROVE  Base[waiting'[j]] <= Base[waiting'[k]]
    BY <1>6 DEF Ranked
  <2>1. CASE k < p
    <3>1. j \in 1..n /\ k \in 1..n /\ j < p
      BY <1>3, <2>1
    <3> QED BY <1>6, <1>9, <2>1, <3>1
  <2>2. CASE k = p
    <3>1. j \in 1..(p - 1) /\ j < p
      BY <1>3, <2>2
    <3>2. waiting'[j] = waiting[j] /\ waiting'[k] = t
      BY <1>6, <2>2, <3>1
    <3> QED BY <1>8, <3>1, <3>2
  <2>3. CASE p < k
    <3>1. k - 1 \in p..n /\ k - 1 \in 1..n /\ waiting'[k] = waiting[k - 1]
      BY <1>3, <1>6, <2>3
    <3>2. CASE j < p
      <4>1. j \in 1..n /\ j < k - 1 /\ waiting'[j] = waiting[j]
        BY <1>3, <1>6, <3>1, <3>2
      <4> QED BY <1>9, <3>1, <4>1
    <3>3. CASE j = p
      BY <1>6, <1>10, <3>1, <3>3
    <3>4. CASE p < j
      <4>1. j - 1 \in 1..n /\ j - 1 < k - 1 /\ waiting'[j] = waiting[j - 1]
        BY <1>3, <1>6, <3>1, <3>4
      <4> QED BY <1>9, <3>1, <4>1
    <3> QED BY <1>3, <3>2, <3>3, <3>4
  <2> QED BY <1>3, <2>1, <2>2, <2>3
<1>12. Inherited'
  <2>1. Elements(waiting') = Elements(waiting) \cup {t}
    BY <1>1, <1>3, InsertAtSeq
  <2>2. \A u \in Elements(waiting) \cup {t} : u \in Threads /\ u # owner /\ prio'[u] = prio[u]
    <3>1. \A u \in Elements(waiting) \cup {t} : u \in Threads /\ u # owner
      BY <1>4, WaiterBase DEF RInv
    <3>2. prio \in [Threads -> 0..(NoPriority - 1)]
      BY DEF RInv, IInv, TypeOK
    <3> QED BY <1>4, <3>1, <3>2
  <2>3. \A u \in Elements(waiting) : prio[owner] <= prio[u]
    BY DEF RInv, Inherited
  <2>4. prio'[owner] = IF prio[t] < prio[owner] THEN prio[t] ELSE prio[owner]
    BY <1>4 DEF RInv, IInv, TypeOK
  <2>5. prio'[owner] <= prio[t] /\ prio'[owner] <= prio[owner] /\ prio'[owner] \in Int
    BY <1>4, <1>5, <2>4
  <2>6. \A u \in Elements(waiting) \cup {t} : prio'[owner] <= prio'[u]
    BY <1>4, <1>5, <2>2, <2>3, <2>5
  <2> QED BY <1>4, <2>1, <2>6 DEF Inherited
<1> QED BY <1>11, <1>12

\* A thread leaves the list.
LEMMA TimeoutRanked ==
  ASSUME RInv, NEW t \in Threads, Timeout(t), flag = "prio"
  PROVE  Ranked' /\ Inherited'
<1>1. waiting' = Without(waiting, t) /\ UNCHANGED <<flag, owner, prio>>
  BY DEF Timeout, mutexVars
<1>2. t \in Elements(waiting) /\ waiting \in Seq(Threads) /\ Distinct(waiting)
  BY DEF RInv, IInv, TypeOK, WaitersSuspended, Timeout
<1>3. \A j, k \in DOMAIN waiting' : j < k =>
        \E i, l \in DOMAIN waiting :
          i < l /\ waiting'[j] = waiting[i] /\ waiting'[k] = waiting[l]
  BY <1>1, <1>2, WithoutSeq
<1>4. Elements(waiting') = Elements(waiting) \ {t}
  BY <1>1, <1>2, WithoutSeq
<1>5. Ranked'
  BY <1>3 DEF RInv, Ranked
<1>6. Inherited'
  BY <1>1, <1>4 DEF RInv, Inherited
<1> QED BY <1>5, <1>6

\* The first thread of the list becomes the owner.
LEMMA HandOverRanked ==
  ASSUME RInv, NEW t \in Threads, Release(t), HandOver(t), flag = "prio"
  PROVE  Ranked' /\ Inherited'
<1>1. /\ owner = t /\ owner' = Head(waiting) /\ waiting' = Tail(waiting) /\ flag' = flag
      /\ prio' = [prio EXCEPT ![t] = original] /\ waiting # <<>>
  BY DEF Release, HandOver, PriorityBack
<1>2. waiting \in Seq(Threads) /\ Distinct(waiting) /\ prio \in [Threads -> Int]
  BY DEF RInv, IInv, TypeOK, WaitersSuspended
<1>3. PICK n : n = Len(waiting)
  OBVIOUS
<1>4. /\ n \in Nat \ {0} /\ DOMAIN waiting = 1..n /\ DOMAIN Tail(waiting) = 1..(n - 1)
      /\ Head(waiting) = waiting[1]
      /\ \A k \in 1..(n - 1) : Tail(waiting)[k] = waiting[k + 1]
  BY <1>1, <1>2, <1>3
<1>5. \A j, k \in 1..n : j < k => Base[waiting[j]] <= Base[waiting[k]]
  BY <1>4 DEF RInv, Ranked
<1>6. Ranked'
  <2> SUFFICES ASSUME NEW j \in 1..(n - 1), NEW k \in 1..(n - 1), j < k
               PROVE  Base[waiting[j + 1]] <= Base[waiting[k + 1]]
    <3>1. DOMAIN waiting' = 1..(n - 1) /\ \A k \in 1..(n - 1) : waiting'[k] = waiting[k + 1]
      BY <1>1, <1>4
    <3> QED BY <3>1 DEF Ranked
  <2>1. j + 1 \in 1..n /\ k + 1 \in 1..n /\ j + 1 < k + 1
    BY <1>4
  <2> QED BY <1>5, <2>1
<1>7. ASSUME NEW u \in Elements(waiting') PROVE prio'[owner'] <= prio'[u]
  <2>1. PICK k \in 1..(n - 1) : u = waiting[k + 1]
    BY <1>1, <1>4, <1>7 DEF Elements
  <2>2. 1 \in 1..n /\ k + 1 \in 1..n /\ 1 < k + 1
    BY <1>4
  <2>3. Base[waiting[1]] <= Base[u]
    BY <1>5, <2>1, <2>2
  <2>4. u \in Elements(waiting) /\ waiting[1] \in Elements(waiting)
    BY <1>4, <2>1, <2>2 DEF Elements
  <2>5. /\ u \in Threads /\ u # t /\ prio[u] = Base[u]
        /\ waiting[1] \in Threads /\ waiting[1] # t /\ prio[waiting[1]] = Base[waiting[1]]
    BY <1>1, <2>4, WaiterBase DEF RInv
  <2>6. prio'[u] = prio[u] /\ prio'[waiting[1]] = prio[waiting[1]]
    BY <1>1, <1>2, <2>5
  <2> QED BY <1>1, <1>4, <2>3, <2>5, <2>6
<1>8. Inherited'
  BY <1>7 DEF Inherited
<1> QED BY <1>6, <1>8

LEMMA NextRanked == RInv /\ [Next]_vars => RInv'
<1> SUFFICES ASSUME RInv, [Next]_vars PROVE RInv'
  OBVIOUS
<1>1. IInv'
  BY NextInv DEF RInv
<1>2. flag' = flag
  BY DEF Next, TakeAgain, TakeFree, TakeRefused, TakeWait, Timeout, Return, Release,
         ReleaseRefused, vars
<1>3. CASE flag # "prio"
  BY <1>1, <1>2, <1>3 DEF RInv, Ranked, Inherited
<1>4. CASE flag = "prio"
  <2>1. ASSUME NEW t \in Threads,
               TakeAgain(t) \/ TakeRefused(t) \/ Return(t) \/ ReleaseRefused(t)
        PROVE  Ranked' /\ Inherited'
    BY <2>1, QuietRanked DEF TakeAgain, TakeRefused, Return, ReleaseRefused, mutexVars
  <2>2. ASSUME NEW t \in Threads, TakeFree(t) PROVE Ranked' /\ Inherited'
    <3>1. value # 0 /\ value \in 0..1
      BY <2>2 DEF TakeFree, RInv, IInv, TypeOK
    <3>2. owner = NoThread
      BY <3>1 DEF RInv, IInv, HoldersAgree
    <3>3. waiting = <<>>
      BY <3>2 DEF RInv, IInv, WaitersSuspended
    <3> QED BY <2>2, <3>3, EmptyRanked DEF TakeFree
  <2>3. ASSUME NEW t \in Threads, Release(t) PROVE Ranked' /\ Inherited'
    <3>1. CASE ReleaseOne(t)
      BY <2>3, <3>1, QuietRanked DEF Release, ReleaseOne
    <3>2. CASE HandOver(t)
      BY <1>4, <2>3, <3>2, HandOverRanked
    <3>3. CASE Free(t)
      BY <3>3, EmptyRanked DEF Free
    <3> QED BY <2>3, <3>1, <3>2, <3>3 DEF Release
  <2>4. ASSUME UNCHANGED vars PROVE Ranked' /\ Inherited'
    <3>1. UNCHANGED <<flag, waiting, owner, prio>>
      BY <2>4 DEF vars, mutexVars
    <3> QED BY <3>1, QuietRanked
  <2>5. Ranked' /\ Inherited'
    BY <1>4, <2>1, <2>2, <2>3, <2>4, TakeWaitRanked, TimeoutRanked DEF Next
  <2> QED BY <1>1, <2>5 DEF RInv
<1> QED BY <1>3, <1>4

\* In a list of kind prio no thread waits for a less urgent owner, also after the
\* mutex has been handed over (ipc.c 96-115, 718-724 and 841-851).
THEOREM InheritedCorrect == Spec => []Inherited
<1>1. Init => RInv
  BY InitInv DEF RInv, Init, Ranked, Inherited, Elements
<1>2. RInv => Inherited
  BY DEF RInv
<1> QED BY <1>1, <1>2, NextRanked, PTL DEF Spec
=============================================================================
