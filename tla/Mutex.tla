------------------------------- MODULE Mutex -------------------------------
(***************************************************************************)
(* The kernel's mutex (src/ipc.c), which the threads of the car and the    *)
(* device drivers use: it can be taken again by its owner, a thread that   *)
(* waits for it lends its owner its priority, and rt_mutex_release hands   *)
(* it over to a waiting thread, which finds that out when it next runs.    *)
(*                                                                         *)
(* rt_mutex_take and rt_mutex_release disable interrupts, so each is one   *)
(* step; between being resumed and returning, a waiting thread is "ready". *)
(* A call that returns at once with an error (a take without waiting, a    *)
(* release by a thread that is not the owner) leaves that error behind in  *)
(* its thread.  Threads hold one mutex at a time, as those of the car do,  *)
(* and signals are off.                                                    *)
(***************************************************************************)
EXTENDS KernelList

CONSTANTS
  Threads, NoThread,
  Base,    \* priority of each thread; a smaller number is more urgent
  Flags,   \* kinds of mutex, a subset of {"fifo", "prio"}
  Waits,   \* waits, a subset of {"forever", "timed"}
  MaxHold  \* bound: times the owner takes the mutex without releasing it

NoPriority == 255

ASSUME MutexAssumption ==
  /\ NoThread \notin Threads
  /\ Base \in [Threads -> 0..(NoPriority - 1)]
  /\ Flags \subseteq {"fifo", "prio"} /\ Waits \subseteq {"forever", "timed"}
  /\ MaxHold \in 1..255

VARIABLES
  flag,      \* parent.parent.flag
  value, owner, hold,
  original,  \* original_priority
  waiting,   \* parent.suspend_thread
  prio,      \* current_priority of the threads
  pc,        \* idle, suspended, or ready and about to return from its wait
  wait,      \* time of a waiting thread
  error,     \* thread->error
  held       \* history: takes of a thread that have succeeded, less its releases

mutexVars == <<value, owner, hold, original>>
vars == <<flag, mutexVars, waiting, prio, pc, wait, error, held>>

(***************************************************************************)
(* rt_mutex_take.                                                          *)
(***************************************************************************)
TakeAgain(t) ==
  /\ pc[t] = "idle" /\ owner = t /\ hold < MaxHold
  /\ hold' = hold + 1
  /\ held' = [held EXCEPT ![t] = @ + 1]
  /\ error' = [error EXCEPT ![t] = "EOK"]
  /\ UNCHANGED <<flag, value, owner, original, waiting, prio, pc, wait>>

TakeFree(t) ==
  /\ pc[t] = "idle" /\ owner # t /\ value > 0
  /\ value' = value - 1
  /\ owner' = t /\ original' = prio[t] /\ hold' = hold + 1
  /\ held' = [held EXCEPT ![t] = @ + 1]
  /\ error' = [error EXCEPT ![t] = "EOK"]
  /\ UNCHANGED <<flag, waiting, prio, pc, wait>>

\* The mutex is not free and the time is 0.
TakeRefused(t) ==
  /\ pc[t] = "idle" /\ owner # t /\ value = 0
  /\ error' = [error EXCEPT ![t] = "ETIMEOUT"]
  /\ UNCHANGED <<flag, mutexVars, waiting, prio, pc, wait, held>>

\* rt_ipc_list_suspend: the place of t in the list.
PlaceIgnoringFlag(t, k) == k = Len(waiting) + 1
PlaceFirst(t, k) == k = 1
Place(t, k) ==
  IF flag = "fifo" THEN k = Len(waiting) + 1
  ELSE /\ \A j \in 1..(k - 1) : prio[waiting[j]] <= prio[t]
       /\ k <= Len(waiting) => prio[t] < prio[waiting[k]]

TakeWait(t) ==
  /\ pc[t] = "idle" /\ owner # t /\ value = 0
  /\ error' = [error EXCEPT ![t] = "EOK"]
  /\ prio' = [prio EXCEPT ![owner] = IF prio[t] < @ THEN prio[t] ELSE @]
  /\ \E k \in 1..(Len(waiting) + 1) :
       Place(t, k) /\ waiting' = InsertAt(waiting, t, k)
  /\ pc' = [pc EXCEPT ![t] = "suspended"]
  /\ \E w \in Waits : wait' = [wait EXCEPT ![t] = w]
  /\ UNCHANGED <<flag, mutexVars, held>>

\* rt_thread_timeout.  What the thread has lent the owner is not taken back.
Timeout(t) ==
  /\ pc[t] = "suspended" /\ wait[t] = "timed"
  /\ error' = [error EXCEPT ![t] = "ETIMEOUT"]
  /\ waiting' = Without(waiting, t)
  /\ pc' = [pc EXCEPT ![t] = "ready"]
  /\ UNCHANGED <<flag, mutexVars, prio, wait, held>>

\* A thread that has waited returns its error, or it has become the owner.
Return(t) ==
  /\ pc[t] = "ready"
  /\ pc' = [pc EXCEPT ![t] = "idle"]
  /\ held' = [held EXCEPT ![t] = IF error[t] = "EOK" THEN @ + 1 ELSE @]
  /\ UNCHANGED <<flag, mutexVars, waiting, prio, wait, error>>

(***************************************************************************)
(* rt_mutex_release.                                                       *)
(***************************************************************************)
ReleaseOne(t) ==
  /\ hold > 1
  /\ hold' = hold - 1
  /\ UNCHANGED <<value, owner, original, waiting, prio, pc>>

\* The owner gets its priority back.
PriorityKept(t) == prio
PriorityBack(t) == [prio EXCEPT ![t] = original]

\* The mutex goes to the first waiting thread ...
HoldGivenNone == hold - 1
HoldGiven == hold

ValueOnHandOverFreed == value + 1
ValueOnHandOver == value

HandOver(t) ==
  /\ hold = 1 /\ waiting # <<>>
  /\ prio' = PriorityBack(t)
  /\ owner' = Head(waiting) /\ original' = prio[Head(waiting)]
  /\ hold' = HoldGiven /\ value' = ValueOnHandOver
  /\ waiting' = Tail(waiting)
  /\ pc' = [pc EXCEPT ![Head(waiting)] = "ready"]

\* ... or becomes free.
Free(t) ==
  /\ hold = 1 /\ waiting = <<>>
  /\ prio' = PriorityBack(t)
  /\ value' = value + 1 /\ owner' = NoThread /\ original' = NoPriority
  /\ hold' = hold - 1
  /\ UNCHANGED <<waiting, pc>>

Release(t) ==
  /\ pc[t] = "idle" /\ owner = t
  /\ held' = [held EXCEPT ![t] = @ - 1]
  /\ ReleaseOne(t) \/ HandOver(t) \/ Free(t)
  /\ UNCHANGED <<flag, wait, error>>

ReleaseRefused(t) ==
  /\ pc[t] = "idle" /\ owner # t
  /\ error' = [error EXCEPT ![t] = "ERROR"]
  /\ UNCHANGED <<flag, mutexVars, waiting, prio, pc, wait, held>>

(***************************************************************************)
(* The specification: rt_mutex_init.                                       *)
(***************************************************************************)
Init ==
  /\ flag \in Flags
  /\ value = 1 /\ owner = NoThread /\ hold = 0 /\ original = NoPriority
  /\ waiting = <<>> /\ prio = Base
  /\ pc = [t \in Threads |-> "idle"]
  /\ wait = [t \in Threads |-> "forever"]
  /\ error = [t \in Threads |-> "EOK"]
  /\ held = [t \in Threads |-> 0]

Next ==
  \E t \in Threads :
    \/ TakeAgain(t) \/ TakeFree(t) \/ TakeRefused(t) \/ TakeWait(t)
    \/ Timeout(t) \/ Return(t) \/ Release(t) \/ ReleaseRefused(t)

Spec == Init /\ [][Next]_vars

\* A thread that is ready gets the processor, an owner releases what it has taken
\* and does not come back to its last release again and again to avoid it.  No
\* timer has to expire.
FairSpec ==
  /\ Spec
  /\ \A t \in Threads :
       /\ WF_vars(Return(t)) /\ WF_vars(Release(t))
       /\ SF_vars(hold = 1 /\ Release(t))

(***************************************************************************)
(* Properties.                                                             *)
(***************************************************************************)

\* Type invariant.
TypeOK ==
  /\ flag \in {"fifo", "prio"}
  /\ value \in 0..1 /\ owner \in Threads \cup {NoThread}
  /\ hold \in 0..MaxHold /\ original \in 0..NoPriority
  /\ waiting \in Seq(Threads)
  /\ prio \in [Threads -> 0..(NoPriority - 1)]
  /\ pc \in [Threads -> {"idle", "suspended", "ready"}]
  /\ wait \in [Threads -> {"forever", "timed"}]
  /\ error \in [Threads -> {"EOK", "ETIMEOUT", "ERROR"}]
  /\ held \in [Threads -> Nat]

\* The mutex and the threads agree about who has it: at most one thread has taken
\* it more often than it has released it, that thread is the owner, hold counts
\* its takes, the one it has been handed included, and a wait that has ended
\* without an error has made its thread the owner (ipc.c 677-697, 751-765 and
\* 824-866).
Pending(t) == IF pc[t] = "ready" /\ error[t] = "EOK" THEN 1 ELSE 0
HoldersAgree ==
  /\ \A t \in Threads : held[t] + Pending(t) = IF owner = t THEN hold ELSE 0
  /\ owner = NoThread <=> value = 1
  /\ owner = NoThread <=> hold = 0

\* The waiting threads are those in suspend_thread, once each, and they never wait
\* for a mutex that is free or for themselves, whatever happens to their timers
\* (ipc.c 726-743 and 838-854, thread.c 726-748).
WaitersSuspended ==
  /\ Elements(waiting) = {t \in Threads : pc[t] = "suspended"}
  /\ Distinct(waiting)
  /\ waiting # <<>> => owner \in Threads /\ owner \notin Elements(waiting)

\* No thread keeps a priority it was lent: one that does not own the mutex runs
\* with its own, also when those who waited for it have given up, and the owner's
\* is remembered (ipc.c 694-695, 718-724 and 830-835).
PriorityRestored ==
  \A t \in Threads :
    /\ owner # t => prio[t] = Base[t]
    /\ owner = t => prio[t] <= Base[t] /\ original = Base[t]

\* A thread never waits for a less urgent owner when the list is sorted by
\* priority, also after a hand-over (ipc.c 96-115, 718-724 and 841-851).
\* In a first-in first-out list the new owner may be less urgent than those that
\* are still waiting: they have lent their priority to the one before it.
Inherited ==
  flag = "prio" => \A t \in Elements(waiting) : prio[owner] <= prio[t]

\* A thread that waits without a time-out gets the mutex, when the list is first-in
\* first-out or nobody is as urgent.
Served ==
  \A t \in Threads :
    /\ pc[t] = "suspended" /\ wait[t] = "forever"
    /\ flag = "fifo" \/ \A u \in Threads \ {t} : Base[t] < Base[u]
    ~> owner = t
=============================================================================
