------------------------------- MODULE Timer -------------------------------
(***************************************************************************)
(* The timers of the kernel (src/timer.c): one list, sorted by the tick at *)
(* which each timer is due, whose head the tick interrupt looks at.  The   *)
(* tick wraps around.  The car's skip list has one level.                  *)
(*                                                                         *)
(* Every thread has a timer that bounds its sleep and its waits, started   *)
(* and stopped by the kernel with interrupts disabled.  The other timers   *)
(* belong to an application thread that calls rt_timer_start and           *)
(* rt_timer_stop, which disable interrupts only in parts, and have a       *)
(* timeout function, which runs in the interrupt and may call them too.    *)
(***************************************************************************)
EXTENDS Integers, KernelList

CONSTANTS
  ThreadTimers, UserTimers,
  M,         \* number of values of rt_tick_t, RT_TICK_MAX + 1
  Times,     \* init_tick of the user timers
  Waits,     \* time-outs of the threads
  MaxLate    \* bound: ticks while an owner is about to insert its timer

Timers == ThreadTimers \cup UserTimers
Half == (M - 1) \div 2

\* rt_timer_start asserts that times are below Half.  A timer that takes a tick
\* from Half with its delay could not be told from one that is overdue.  With a
\* time of 0, the timeout function of a periodic timer is called for ever.
ASSUME TimerAssumption ==
  /\ ThreadTimers \cap UserTimers = {}
  /\ M \in Nat \ {0} /\ MaxLate \in Nat
  /\ Waits \subseteq Nat /\ Times \subseteq Nat \ {0}
  /\ \A n \in Times \cup Waits : n + MaxLate < Half
  /\ MaxLate + 1 < Half

VARIABLES
  tick,      \* rt_tick
  list,      \* rt_timer_list
  due,       \* timeout_tick; 0 when the timer has left the list, nobody reads it then
  time,      \* init_tick of the user timers; a thread sets it before each start
  active,    \* RT_TIMER_FLAG_ACTIVATED
  periodic,  \* RT_TIMER_FLAG_PERIODIC
  pc,        \* what the owner of a timer is doing
  isr,       \* rt_timer_check is running
  left       \* history: ticks that remain until a timer is due, as due

options == <<time, periodic>>
vars == <<tick, list, due, options, active, pc, isr, left>>

Listed == Elements(list)

\* _rt_timer_remove: a timer that is in no list may be removed as well.
Gone(s, t) == IF t \in Elements(s) THEN Without(s, t) ELSE s

\* Timers t and u, which may be the same, leave the list.
Rest(t, u) == Gone(Gone(list, t), u)
Dropped(f, t, u) == [v \in Timers |-> IF v \in {t, u} THEN 0 ELSE f[v]]
Drop(t, u) ==
  /\ list' = Rest(t, u)
  /\ due' = Dropped(due, t, u) /\ left' = Dropped(left, t, u)

\* Differences of ticks are unsigned.
Minus(a, b) == (a - b) % M

\* The insertion passes the timers that are due at the same tick or before.
BreakAtSame(u, tk) == Minus(due[u], tk) < Half
BreakUnsigned(u, tk) == due[u] > tk
Break(u, tk) == Minus(due[u], tk) \in 1..(Half - 1)

Insert(s, t, tk) ==
  \E k \in 1..(Len(s) + 1) :
    /\ \A j \in 1..(k - 1) : ~Break(s[j], tk)
    /\ k <= Len(s) => Break(s[k], tk)
    /\ list' = InsertAt(s, t, k)

\* rt_timer_start in one piece, where interrupts are disabled, after timer u has
\* left the list.
DueTickWide(n) == tick + n
DueTick(n) == (tick + n) % M
Start(t, u, n) ==
  /\ Insert(Rest(t, u), t, DueTick(n))
  /\ due' = [Dropped(due, t, u) EXCEPT ![t] = DueTick(n)]
  /\ left' = [Dropped(left, t, u) EXCEPT ![t] = n]

(***************************************************************************)
(* The timer of a thread: rt_thread_sleep and the waits of ipc.c start it, *)
(* rt_thread_resume stops it.                                              *)
(***************************************************************************)
Sleep(t) ==
  /\ ~isr /\ t \notin Listed
  /\ \E n \in Waits : Start(t, t, n)
  /\ active' = [active EXCEPT ![t] = TRUE]
  /\ UNCHANGED <<tick, options, pc, isr>>

Resume(t) ==
  /\ ~isr /\ active[t]
  /\ Drop(t, t)
  /\ active' = [active EXCEPT ![t] = FALSE]
  /\ UNCHANGED <<tick, options, pc, isr>>

(***************************************************************************)
(* An application thread calls rt_timer_start, rt_timer_stop and           *)
(* rt_timer_control for its timer.                                         *)
(***************************************************************************)
Remove(t) ==
  /\ ~isr /\ pc[t] = "idle"
  /\ Drop(t, t)
  /\ active' = [active EXCEPT ![t] = FALSE]
  /\ pc' = [pc EXCEPT ![t] = "read"]
  /\ UNCHANGED <<tick, options, isr>>

ReadTick(t) ==
  /\ ~isr /\ pc[t] = "read"
  /\ due' = [due EXCEPT ![t] = DueTick(time[t])]
  /\ left' = [left EXCEPT ![t] = time[t]]
  /\ pc' = [pc EXCEPT ![t] = "insert"]
  /\ UNCHANGED <<tick, list, options, active, isr>>

InsertTimer(t) ==
  /\ ~isr /\ pc[t] = "insert"
  /\ Insert(list, t, due[t])
  /\ active' = [active EXCEPT ![t] = TRUE]
  /\ pc' = [pc EXCEPT ![t] = "idle"]
  /\ UNCHANGED <<tick, due, options, isr, left>>

\* A timer that is not active is left alone.
Stop(t) ==
  /\ ~isr /\ pc[t] = "idle" /\ active[t]
  /\ pc' = [pc EXCEPT ![t] = "unlist"]
  /\ UNCHANGED <<tick, list, due, options, active, isr, left>>

Unlist(t) ==
  /\ ~isr /\ pc[t] = "unlist"
  /\ Drop(t, t)
  /\ pc' = [pc EXCEPT ![t] = "clear"]
  /\ UNCHANGED <<tick, options, active, isr>>

Clear(t) ==
  /\ ~isr /\ pc[t] = "clear"
  /\ active' = [active EXCEPT ![t] = FALSE]
  /\ pc' = [pc EXCEPT ![t] = "idle"]
  /\ UNCHANGED <<tick, list, due, options, isr, left>>

Control(t) ==
  /\ ~isr /\ pc[t] = "idle"
  /\ \/ \E n \in Times : time' = [time EXCEPT ![t] = n] /\ UNCHANGED periodic
     \/ \E p \in BOOLEAN : periodic' = [periodic EXCEPT ![t] = p] /\ UNCHANGED time
  /\ UNCHANGED <<tick, list, due, active, pc, isr, left>>

(***************************************************************************)
(* The tick interrupt: rt_tick_increase and rt_timer_check.                *)
(***************************************************************************)
Late(t) == pc[t] = "insert" /\ left[t] + MaxLate <= time[t]

Tick ==
  /\ ~isr /\ \A t \in UserTimers : ~Late(t)
  /\ tick' = (tick + 1) % M
  /\ left' = [t \in Timers |->
                IF t \in Listed \/ (t \in UserTimers /\ pc[t] = "insert")
                THEN left[t] - 1 ELSE left[t]]
  /\ isr' = TRUE
  /\ UNCHANGED <<list, due, options, active, pc>>

ExpiredBySign(t) == tick >= due[t]
Expired(t) == Minus(tick, due[t]) < Half

\* rt_thread_timeout leaves the timers alone.
ThreadTimeout(t) ==
  /\ t \in ThreadTimers
  /\ Drop(t, t)
  /\ active' = [active EXCEPT ![t] = FALSE]

\* The timeout function of a user timer does nothing to it, stops it or starts
\* it, and may resume a thread.  A periodic timer that is active is then started
\* (again); every other one is marked as not active, also one just started.
Again(t, call) ==
  \/ call = "start"
  \/ call = "none" /\ periodic[t] /\ active[t]
ActiveAfterKept(t, call) == call = "start" \/ (call = "none" /\ active[t])
ActiveAfter(t, call) == periodic[t] /\ (call = "start" \/ (call = "none" /\ active[t]))

UserTimeout(t) ==
  /\ t \in UserTimers
  /\ \E call \in {"none", "stop", "start"}, u \in {t} \cup (ThreadTimers \cap Listed) :
       /\ active' = [v \in Timers |->
                       IF v = t THEN ActiveAfter(t, call) ELSE active[v] /\ v # u]
       /\ IF Again(t, call) THEN Start(t, u, time[t]) ELSE Drop(t, u)

Expire ==
  /\ isr /\ list # <<>> /\ Expired(Head(list))
  /\ ThreadTimeout(Head(list)) \/ UserTimeout(Head(list))
  /\ UNCHANGED <<tick, options, pc, isr>>

Leave ==
  /\ isr /\ (list # <<>> => ~Expired(Head(list)))
  /\ isr' = FALSE
  /\ UNCHANGED <<tick, list, due, options, active, pc, left>>

(***************************************************************************)
(* The specification: rt_system_timer_init and _rt_timer_init.  Timers may *)
(* be initialised at any tick.                                             *)
(***************************************************************************)
Init ==
  /\ tick = 0 /\ list = <<>> /\ isr = FALSE
  /\ due = [t \in Timers |-> 0]
  /\ time \in [UserTimers -> Times]
  /\ active = [t \in Timers |-> FALSE]
  /\ periodic \in [UserTimers -> BOOLEAN]
  /\ pc = [t \in UserTimers |-> "idle"]
  /\ left = [t \in Timers |-> 0]

Continue(t) == ReadTick(t) \/ InsertTimer(t) \/ Unlist(t) \/ Clear(t)
Check == Expire \/ Leave

Next ==
  \/ \E t \in ThreadTimers : Sleep(t) \/ Resume(t)
  \/ \E t \in UserTimers : Remove(t) \/ Stop(t) \/ Control(t) \/ Continue(t)
  \/ Tick \/ Check

Spec == Init /\ [][Next]_vars

\* The clock ticks, the interrupt goes on, and a thread in the middle of a call
\* gets the processor.  Nobody has to start or stop a timer.
FairSpec ==
  /\ Spec /\ WF_vars(Tick) /\ WF_vars(Check)
  /\ \A t \in UserTimers : WF_vars(Continue(t))

(***************************************************************************)
(* Properties.                                                             *)
(***************************************************************************)

\* Type invariant.
TypeOK ==
  /\ tick \in 0..(M - 1) /\ isr \in BOOLEAN
  /\ list \in Seq(Timers)
  /\ due \in [Timers -> 0..(M - 1)]
  /\ time \in [UserTimers -> Times] /\ periodic \in [UserTimers -> BOOLEAN]
  /\ active \in [Timers -> BOOLEAN]
  /\ pc \in [UserTimers -> {"idle", "read", "insert", "unlist", "clear"}]
  /\ left \in [Timers -> Int]

\* The list stays sorted by the time that really remains, across the wrap of the
\* tick and with timers that come late into it, and no timer is in it twice
\* (timer.c 330-358 and 504).
Sorted ==
  \A j, k \in DOMAIN list : j < k => list[j] # list[k] /\ left[list[j]] <= left[list[k]]

\* The flag tells the truth: a timer is never active without being in the list,
\* while its owner is not in the middle of a call, and the timer of a thread is
\* active exactly while it is in it.  (A user timer that its own function has
\* started is in the list and not active, timer.c 529.)
ActiveListed ==
  /\ \A t \in ThreadTimers : active[t] <=> t \in Listed
  /\ \A t \in UserTimers : active[t] /\ pc[t] \in {"idle", "unlist"} => t \in Listed

\* No timeout function is called before its time, and the interrupt does not
\* return while a timer in the list is due, also across the wrap of the tick
\* (timer.c 495-534).
CallsTimer == isr /\ isr' /\ list # <<>>
Punctual ==
  [][/\ CallsTimer => left[Head(list)] <= 0
     /\ isr /\ ~isr' => \A t \in Listed : left[t] > 0]_vars

\* Of two timers that are due at the same tick the one inserted first is called
\* first: a timer goes behind all those that are due with it (timer.c 342-346).
Place(t) == CHOOSE k \in DOMAIN list : list[k] = t
Inserted(t) == t \in Listed' /\ (t \notin Listed \/ (isr /\ isr' /\ t = Head(list)))
FirstInFirstCalled ==
  [][\A t \in Timers : Inserted(t) =>
       \A u \in (Listed \cap Listed') \ {t} :
         left'[u] <= left'[t] <=> Place(u)' < Place(t)']_vars

\* The interrupt ends, and a thread that waits with a time-out wakes up, whatever
\* the other timers do.
WakesUp ==
  /\ isr ~> ~isr
  /\ \A t \in ThreadTimers : t \in Listed ~> t \notin Listed
=============================================================================
