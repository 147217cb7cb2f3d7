# LidarCar: specification, model checking and proofs

LidarCar is a two-wheeled car on an STM32F429 that runs the RT-Thread kernel. A
lidar (EAI X4) on a uart measures the distances around the car; a thread turns
five turns of the lidar into an array, a second thread decides where to drive, a
third one controls the motors. This directory holds TLA+ modules of that program,
the TLC configurations that check them on small instances, and proofs for TLAPS.

Paths below are relative to `src/`; `bsp` stands for `rt-thread/bsp/LidarCarBSP`,
`drivers` for `rt-thread/components/drivers`.

## 1. The system

### Inventory

| component | source | state | operations | what makes it correct |
|---|---|---|---|---|
| lidar parser (thread eaix4, priority 5) | `bsp/SLAM/EAI_X4.c`, `app_eaix4.c` | `circle`, `count`, `package`, `around[5]` | `EAI_X4_GetDate`, `manipulationData` | a sector is one whole turn of the lidar; no sample of an old scan remains; nothing is written past the array |
| decision (thread master, priority 3) | `bsp/applications/master_thread.c` | `fsignal`, `ffsignal`, `swing`, `ControlEvent` | `master_thread_entry`, `master_init` | decides on a stable, fresh picture; never forward into an obstacle; escapes after four of them; goes on for ever |
| speed control (thread speed, priority 3) | `app_speed.c` | `pwm`, `Last_diff`, `xspeed`, pins, registers of TIM9 | `speed_thread_entry`, `setpwm` | follows the last command; wheels get what was computed; the integers do not overflow |
| drive commands | `app_move.c` | `wantspeed1`, `wantspeed2`, `SpeedMutex` | `carForward` .. `carStop` | both wheels belong to one command |
| drivers of the drive | `drv_pwm.c`, `drv_abphase.c`, `drv_l298n.c` | timers, encoders, pins | set-up, `SetTim9Compare`, `getspeedcounter` | - |
| message queue, mutex, event, semaphore, mailbox | `rt-thread/src/ipc.c` | free list, queue, waiting threads, owner and hold, bit set | `rt_mq_*`, `rt_mutex_*`, `rt_event_*`, `rt_sem_*`, `rt_mb_*` | no message, block or wake-up is lost; mutual exclusion; inherited priorities are given back |
| scheduler and threads | `scheduler.c`, `thread.c`, `idle.c` | ready lists, states, `thread->error` | `rt_schedule`, `rt_thread_suspend/resume/timeout` | the ready thread of highest priority runs; a thread is in one list |
| timers, tick | `timer.c`, `clock.c`, `irq.c` | timer list, `rt_tick` | `rt_timer_start/stop/check` | timers fire in order and never early, also when the tick wraps around |
| serial device | `drivers/serial/serial.c`, `drv_usart.c` | receive buffer, `put_index`, `get_index`, `is_full` | `rt_hw_serial_isr`, `_serial_int_rx` | bytes come out in order; a full buffer loses the oldest ones only |
| memory, objects, devices, printing | `mem.c`, `memheap.c`, `mempool.c`, `object.c`, `device.c`, `kservice.c`, `components.c` | heap, object lists | allocation, registration, start-up table | used at start-up |
| driver IPC | `drivers/src/*.c` | - | completion, data queue, pipe, ring buffer, work queue | compiled, no caller in the car |
| attitude sensor | `app_mpu9250.c`, `DMP/` | angles nobody reads | initialisation that retries for ever | start-up only |
| wireless uart, beeper, main, shell | `app_wirelessuart.c`, `app_beep.c`, `main.c`, `finsh/` | - | the shell calls `eaix4cmd` and `carMove` | - |

`PROJECT.json` lists the same components with their files, including those that
are vendored (HAL, CMSIS, context switch) or not compiled by `project.uvprojx`.

### How the parts interact

    lidar --bytes--> uart2 interrupt --> receive buffer --callback--> Eaix4Mq
      ^                                                                  |
      |  A5 65 (stop)                                              thread eaix4
      +------------------------------------------------------------ |       |
      |  A5 60 (scan)                                  around[5] <--+   event bit
      +--------------------------- thread master <------------------------- +
      |  A5 60 / A5 65                 | wantspeed1, wantspeed2
    shell ------------------------> thread speed --> pins, TIM9 --> motors
           wantspeed1, wantspeed2      ^-- encoders

* `around` is a global array without a lock. The parser fills it during a scan, the
  master reads it after the event. What keeps them apart is that the parser stops
  the lidar before it sends the event, and that the master has the higher priority.
* `wantspeed1` and `wantspeed2` are globals as well. `SpeedMutex` looks like their
  lock, but the writers release it without taking it and the reader takes it in
  every period without releasing it.
* The message queue copies messages outside of its critical sections, and its
  sender is an interrupt handler.
* Commands to the lidar are two bytes, sent by three threads.

### What is hard

Interleavings of threads with unlocked shared state; the lost wake-ups and the
time-outs inside the kernel; commands torn in two; a liveness chain over three
actors and a device; 8-bit and 16-bit counters that wrap around; packets lost or
damaged while the parser keeps its state; start-up order. `PROJECT.json` lists each
of these hazards at its line with the properties that would show it going wrong,
and says why where there is none.

## 2. The modules

| module | content |
|---|---|
| `ScanLoop` | lidar, parser, event, master, shell commands, priorities, packet by packet |
| `MCScanLoop` | leftover values of `swing` for TLC |
| `ScanLoopProofs` | theorems about `ScanLoop` |
| `PacketParser` | the same parser byte by byte: framing, lost bytes, angles and distances |
| `MCPacketParser` | angles and distances for TLC |
| `PacketParserProofs` | theorems about `PacketParser` |
| `SerialRx` | a byte's way from the uart through ring buffer and message queue to the parser, from the opening of the device on |
| `LossyLine` | what that way promises: bytes in order, each at most once |
| `SerialRxProofs` | theorems about `SerialRx`, and that it implements `LossyLine` |
| `SpeedControl` | commands, mutex, speed thread, pins and registers |
| `MCSpeedControl` | encoder readings for TLC |
| `SpeedControlProofs` | theorems about `SpeedControl` |
| `MsgQueue` | `rt_mq_*` with its critical sections, time-outs and reset |
| `MsgChannel` | the bounded channel a message queue promises to be |
| `MsgQueueProofs` | theorems about `MsgQueue`, and that it implements `MsgChannel` |
| `Mutex` | `rt_mutex_take` and `rt_mutex_release` with waiting, time-outs and priority inheritance |
| `MCMutex` | four threads and their priorities for TLC |
| `MutexProofs` | theorems about `Mutex` |
| `Timer` | the timer list, the wrapping tick, threads' and application timers |
| `TimerProofs` | theorems about `Timer` |
| `KernelList` | the kernel's lists: entering at a place, leaving from any place |
| `Lemmas` | lemmas about them, about sequences and about `%`, used by all the proofs |

`MsgQueue` is the queue of `SerialRx` with any senders and receivers; `SerialRx` has it
down to its pointers with the one sender and the one receiver of the lidar. What
`SerialRx` delivers are the bytes of `PacketParser`, and what `PacketParser` finds are the
packets on the `wire` of `ScanLoop`; a byte lost in the first is the loss of the
second, and a packet it spoils is the damaged packet of the third. `Timer` is what
lets a wait end in `MsgQueue` and `Mutex`, where it may end at any moment.

### ScanLoop

A packet of the lidar is one record: a reply to a scan command, a start packet
(`ct` = 1), a data packet with samples (`ct` = 0), or a damaged one (any other
`ct`). A sample is its kind, which is what the decision tells apart - no distance,
clear, near or far obstacle, left or right - and, as history, the turn and the
place in the turn it was measured at. `cell` is the memory of `around[].ap` by
address, so that an index past `Cap` reaches the next sector as it does in C.

| action | code |
|---|---|
| `Hunt` | the search for the reply header in `EAI_X4_GetDate` |
| `DataPacket`, `StorePoint` | `ct` = 0: the header, then the loop over the samples, one store a step |
| `StartPacket` | `ct` = 1: `circle++`, the sector is closed, `count` reset; after the last one the scan is done |
| `BadPacket` | any other `ct`: `break` |
| `StopLidar`, `Notify` | A5, 65, `rt_event_send`: three steps |
| `CreateMaster` | the end of `master_init` |
| `RecvEvent`, `ReadSector`, `Decide`, `Escape`, `DelayOver`, `Rescan` | one turn of the loop in `master_thread_entry`; the two bytes of the scan command are two steps |
| `UserTypes`, `UserSends` | the first and second byte of `eaix4cmd -sc` or `-s` |
| `LidarStart`, `LidarData`, `LidarGets`, `Lose`, `Damage` | the lidar and the line, from how the code uses them (external) |

`CanRun` is the scheduler: a thread steps only when no ready thread has a smaller
priority number; interrupt-driven actions (lidar, line, end of a delay) always may.

### SpeedControl

Each thread has a list `prog` of shared-memory operations it has still to perform,
one per step: a command is two stores, for `carStop` four pins as well, then the
release of the mutex; `setpwm` is four pins and two compare registers. Thread speed
goes through `Sample`, `Take`, `Copy` (twice), `Halt` or `Control`, `DriveStep` and
`Tick`. Thread master has the priority of thread speed and shares the processor with
it by time slices, so their steps interleave freely; the shell runs when both sleep.
Arithmetic is that of `rt_int16_t` (`Wrap`), the hold counter of the mutex wraps at
`HoldMod`. `sum`, `base`, `behind`, `solo`, `settled`, `seen` and `braked` are history
and influence nothing.

### MsgQueue and MsgChannel

A call of `rt_mq_send` or `rt_mq_urgent` is `Alloc`, `Fill`, `Link`; a call of
`rt_mq_recv` is `Recv` (which takes a block or suspends), then `Copy` and `Return`, or,
after a resumption, `Fail` or `Retry`. `Timeout` is `rt_thread_timeout` of the waiting
thread's timer and comes for every timer that runs (`timers`), whatever its thread is doing
then: `Suspend` starts it for a wait that has an end, and each of those who resume the
thread stops it. `Reset` is `rt_mq_control` with `RT_IPC_CMD_RESET`. Each of these is what
the code does between disabling and enabling interrupts; what it does with
interrupts enabled (`Fill`, `Copy`) is a step of its own. Calls that change nothing are
stuttering steps. A thread's rest of time is abstracted to `forever`, `timed` or, when it is
used up, `no`, and `MayWait` is the test whether there is any left.

`MsgChannel` has three variables and says: a message enters at one instant of the
call, at the end or, if urgent, at the front, and a receiver takes the front. The
refinement mapping maps the linked blocks to their contents, a sender between
`Alloc` and `Link` to its pending message, and a receiver that has unlinked its block
to the message in that block.

### SerialRx and LossyLine

A byte is its number. `Arrive` is the lidar and the receive register, which holds one
byte and has an overrun flag. The handler is `Enter`, then `Check` and `Read` in turn
(`drv_getc` reads the status, then the data), `Indicate` (the callback of `app_eaix4.c`,
which takes one byte out of the ring buffer into the queue) and `Clear`. It runs to its
end before the thread goes on, but bytes arrive between any two of its steps. The
thread is `Open`, `Size`, `LinkFree`, `PushFree`, `Made` (the last four are `rt_mq_init`,
with interrupts enabled) and `Take`, `Copy`, `Return` for ever. `Early` says whether
the lidar is already scanning while the thread opens the device.

`LossyLine` has the bytes sent, the bytes under way and the bytes delivered. The
refinement mapping strings together the block being copied, the queue, the ring
buffer and the register. `Accepts` is the test of the queue's object type before
`rt_mq_init` has set it: `RT_DEBUG` is not defined (`bsp/rtconfig.h:16`), so the assertion in
`ipc.c:1968` is empty, and what refuses a byte of the zeroed queue is its `msg_size` of 0.

### PacketParser

One action per state of the search: `Hunt` and `MatchReply` for the seven bytes of the
reply (those of a device-info or health reply lead back to the hunt), `Sync` for AA 55, `Type` for the packet type, `Body` for the rest. `Lose` drops a
byte. `Word` is what the code makes of two bytes - the second read replaces the
first - and `AngleAt` its arithmetic with C's division and a 16-bit result. Whether a
start packet ends the scan depends on `circle`, which `ScanLoop` has, and is left open.
`PointsOf` is the loop over the samples, one `Sample` at a time. `NoReplyInside` and
`SpansKept` say of the lidar's packets what two of the theorems need (section 4).

### Mutex

Take and release are one step each, because the code disables interrupts; a waiting
thread is `suspended`, then `ready` until it has returned. `TakeWait` lends the priority and
enters the list at its end or, with `RT_IPC_FLAG_PRIO`, by priority; `Timeout` is
`rt_thread_timeout`; `HandOver` gives the mutex to the first of the list. The calls that
fail (`TakeRefused`, `ReleaseRefused`) leave an error behind in the thread, which a later
wait must not take for its own. Threads hold one mutex at a time, which is true of the
car's. The following belong to the code and are in the model: what a thread that
gives up has lent is not taken back before the owner's last release; and in a
first-in first-out list the new owner may be less urgent than those still waiting.

### Timer

A thread's timer is started and stopped with interrupts disabled (`Sleep`, `Resume`). An
application's timer goes through `Remove`, `ReadTick` and `InsertTimer`, or `Stop`, `Unlist`
and `Clear`, between which the tick interrupt may come: a timer can be inserted
some ticks after its due tick was computed (`MaxLate`). The interrupt is `Tick`, `Expire`
once per timer, `Leave`; the timeout function of an application's timer may do
nothing, stop it or start it, and may resume a thread, whose timer then leaves the
list as well. `left` is history: the ticks that really remain, which the code knows
only modulo `M`. A one-shot timer that its own function has started is in the list
but no longer marked active (`timer.c:529`), so that `rt_timer_stop` refuses it; the model
does the same, and `ActiveListed` is the direction that holds.

## 3. The runs

"States" are distinct states on two workers.

| run | properties | bounds | states |
|---|---|---|---|
| `scan_safe` | `TypeOK`, `Fresh`, `SectorsBounded`, `StableWhileRead`, `NoEventMerged` | two user commands (start or stop), one packet lost or damaged, two sectors besides `around[0]` with room for two turns each as in the code, one sample a turn, `swing` starting at 3 so that the first decision is an escape | 3.1 million |
| `scan_turns` | `SectorIsOneTurn` | turns of up to two samples in one or two packets, two sectors, turns numbered modulo 6 | 2.7 million |
| `scan_decide` | `SwingCounts`, `NeverForwardIntoObstacle`, `KeepsAvoiding`, `SectorIsWholeTurn` | near samples on both sides and samples without distance, two sectors, `swing` starting with several values, fair | 253,000 |
| `scan_stop` | `StopHolds` (violated) | two user commands | - |
| `speed_race` | `TypeOK`, `DriveMatchesPwm`, `FollowsLastCommand`, `PositionForm`, `Settles` | two writers with a call each, 2-bit integers, 1-bit hold counter, fair | 317,000 |
| `speed_stall` | `PushesForward` (violated) | the numbers of the code: 16 bits, speed 80, hold modulo 256 | - |
| `mq` | `TypeOK`, `BlocksConserved`, `NoLostWakeup`, `SuspendedWait`, `ImplementsChannel`, `Served` | two senders, two receivers with timed and endless waits, two blocks, two messages of two kinds, a reset, fair | 853,000 |
| `serial_rx` | `PacedLossless`, `ImplementsLine`, `StaysBehind`, `QueuedDelivered` | seven bytes, a ring buffer of three, two blocks, two bytes while one is handled, fair | 169,000 |
| `serial_boot` | `EntryCounts` (violated) | the same with a lidar that is already scanning | - |
| `parser` | `InStep`, `PointsMeasured`, `Recovers` | two spans (one across 0 degrees), three distances, up to three samples, one lost byte, fair | 109,000 |
| `timer` | `TypeOK`, `Sorted`, `ActiveListed`, `Punctual`, `FirstInFirstCalled`, `WakesUp` | two thread timers, one application timer, a 4-bit tick, insertion one tick late, fair | 175,000 |
| `mutex` | `TypeOK`, `HoldersAgree`, `WaitersSuspended`, `PriorityRestored`, `Inherited`, `Served` | four threads of three priorities, both kinds of list, takes nested twice, fair | 61,000 |

What they show:

* **`Fresh`**: whatever the user types and whatever packet is lost, a decision never
  uses a sample that was stored before the previous event. It holds because each
  scan closes every sector it will be judged by, and although a damaged packet leaves
  `circle` and `count` where they are.
* **`StableWhileRead`**: `around` does not change while the master sums it up. With the
  priorities of master and eaix4 exchanged it does, when the user starts a scan
  during the escape turn.
* **`SectorsBounded`**: no code compares `count` with the size of a sector's array. What
  bounds it is that each start packet closes a sector, so that turns merge only after a
  disturbance: up to any moment a sector has at most one turn for each command given and
  each packet lost or damaged. The code has room for two turns (1440 places, some 720
  samples a turn), and the third disturbance is the first that can go beyond it. The run
  has that same room and gets there: with two commands and a lost packet a sector
  receives three turns, and the last of its stores lands in the next sector. The
  array is not safe by the code; this is how far it is.
* **`SectorIsOneTurn`, `SectorIsWholeTurn`**: without faults, sector *s* is one turn of the
  mirror from its first sample to its last, and consecutive sectors are consecutive
  turns. The first needs the stores indexed by `circle - 1`, the second the moment
  at which `count` is reset.
* **`NeverForwardIntoObstacle`, `SwingCounts`, `NoEventMerged`**: the decision agrees with
  the sectors it was made from, the fourth obstacle in a row is the escape turn, and
  no scan ends while the event of the one before is pending. `swing` is an
  uninitialised local; the model starts it with several leftover values, and the
  property holds from its first assignment on.
* **`KeepsAvoiding`**: after the user's `-sc`, and without disturbance, decisions go on
  for ever. If the event were sent before the stop command, they would not: the master
  would start a scan that the late stop command ends.
* **`FollowsLastCommand`**: a whole period after the last command, thread speed works with
  exactly that pair of speeds, torn or not before. It rests on the try-lock succeeding
  each time because thread speed itself is the owner: the releases of the
  writers all fail. `Settles` is the corresponding liveness property.
* **`DriveMatchesPwm`**: `carStop` writes the pins that `setpwm` is writing. However the two are
  interleaved, when thread speed sleeps the duty of each wheel is exactly that of `pwm`,
  and its pins are those of the sign or, if a `carStop` has written one since `setpwm` began,
  those of the brake: a mix of the two never drives a wheel backwards and never lets it
  coast. Such a mix may last until the next period, 50 ms; `FollowsLastCommand` says that
  by the end of a whole one the command has got through.
* **`PositionForm`**: the incremental formula is the PI sum, modulo 2^16 and counted from
  the last stop - with the difference from before that stop as its offset.
* **`BlocksConserved`, `NoLostWakeup`, `SuspendedWait`, `Served`, `ImplementsChannel`**: the queue
  keeps its blocks and its waiting threads although it copies outside of the critical
  sections, and behaves like the channel. `NoLostWakeup` is the form that holds: a
  message may lie beside suspended receivers for a while, but then at least as many
  others have been woken and not yet looked. `SuspendedWait` also says that the timer
  runs for exactly the suspended receivers that did not come to wait for ever: nobody is
  hit by a timer of an earlier wait, and a woken receiver that finds the queue empty
  again either waits with a timer or, with nothing left of its time, fails.
* **`ImplementsLine`**: whatever is lost at the register, in the ring buffer or at a full
  queue, what the parser gets is in order and never twice. It needs the interrupt's
  take of the oldest byte on overflow to move `get_index` by one, and the queue's tail
  to be reset when its last block is taken.
* **`PacedLossless`**: without an overlap of bytes and without a full queue nothing is
  lost and nothing stays behind. **`StaysBehind`** is the other side: the callback
  reads one byte per interrupt, so what one interrupt leaves in the ring buffer stays
  there, and all later bytes come late by as much, for ever.
* **`QueuedDelivered`**: a byte in the queue reaches the parser, or an overrun flag that was
  set after the status was read requests the interrupt again and again (`Storm`) and
  no thread runs until another byte comes.
* **`InStep`**: without lost bytes the parser keeps to the packets, although a sample may
  look like a header. **`Recovers`**: after a loss it gets back into step, or it takes a
  sample for a packet type, returns to `EAI_X4_GetDate` and waits for a scan reply.
* **`PointsMeasured`**: `package.x = eaix4_getchar() << 8` forgets the low byte, so
  distances are multiples of 256 mm and what is nearer than 256 mm is not seen; angles
  lag by at most two degrees and a rounding, also across 0 degrees, and stay within a
  turn.
* **`Sorted`, `Punctual`, `FirstInFirstCalled`, `WakesUp`**: the list of timers stays in the order of
  the time that really remains, nothing is called early, the interrupt leaves nothing
  behind that is due, equal timers are called in the order they were started, and a
  sleeping thread wakes up whatever the other timers do. They hold across every wrap
  of the tick, as long as times and lateness stay below half of its range.
* **`HoldersAgree`, `WaitersSuspended`, `PriorityRestored`, `Inherited`, `Served`**: mutual exclusion with
  the hand-over included, nobody waits for a free mutex, priorities that were lent
  come back also when those who lent them have given up, nobody waits for a less
  urgent owner in a list sorted by priority, and who waits for ever is served.

### Three disagreements

* **`scan_stop`** - `README.md:239` says that `eaix4cmd -s` stops the scanning of the lidar.
  `app_eaix4.c:129` sends A5 65 and nothing else. Typed during the 2000 ms of the escape
  turn, it reaches a lidar that has already stopped, and `master_thread.c:116` starts the
  next scan. The same command typed during a scan does stop the loop.
* **`speed_stall`** - `app_speed.c:78` adds to a 16-bit `pwm` that nothing limits. A wheel held
  fast at a wanted speed of 80 gets 480 more in every period; after 69 periods, about
  3.4 s, `pwm` wraps around and the wheel is driven backwards, while the README
  speaks of closed-loop control.
* **`serial_boot`** - `app_eaix4.c:73` opens the uart with its receive interrupt, `app_eaix4.c:89`
  initialises the queue the callback sends to. A lidar that is still scanning from
  before a reset of the board fills the half-made queue: `ipc.c:1821` sets `entry` to 0 after
  a message was linked, and every later byte is delivered one byte late, or a block
  is in the queue and on the free list at once. `rtdef.h:680` calls `entry` the index of
  messages in the queue.

### Bounds and why they are enough

* Sectors are interchangeable in the code except for the first and the last, so one to
  three of them, with `circle` running from -1 to `LastSector + 1`, cover each case.
  The numbers 5, 1440 and 10 are constants of the model, not its structure. Of the 1440
  places of a sector the run `scan_safe` keeps what matters, their ratio to a turn: two
  samples (`Cap` = 2) for a turn of one, so that a sector overflows in the model
  after the same disturbances as in the code. In `scan_turns` nothing disturbs the scan.
* One packet on the wire (`MaxWire`) is enough for a packet to be overtaken by a
  command, an event or an end of scan; more of them add no new order, since
  the parser takes them one at a time.
* `TurnMod` = 1 where no property looks at the number of the turn; 6 where turns are
  compared, more than a scan has.
* Small integers in `SpeedControl` make the wrap-arounds happen within few periods; the
  violated run uses the real width, and `PositionForm` and `TypeOK` are proved for all.
* Two blocks let the pool run full and a block be reused; two receivers let one take
  the message the other was woken for, and each call waits for some time or for ever. The proofs have any number of both.
* Seven bytes (`MaxBytes`) overflow a ring buffer of three and a queue of two and let the
  indexes wrap around; two bytes while one is handled (`Burst`) give an overrun and a
  byte that stays behind.
* The parser's distances are one it does not see, one it sees, and one whose bytes are a
  packet header; the packets repeat for ever, so the parser gets into every state at
  every byte. `MaxLoss` = 1: one byte may be lost at any place, two are not checked.
* A tick of four bits wraps around all the time; `Waits` and `Times` reach as far as half of
  its range allows. Two threads' timers and one of an application make every pair of
  orders in a list of three.
* Four threads: an owner, two equal ones whose order in the list matters, and an urgent
  one. `MaxHold` = 2 separates the last release from the others.
* The counters of user commands, faults, calls, messages and resets (`MaxUser`,
  `MaxFaults`, `MaxCalls`, `MaxSends`, `MaxResets`) bound what the environment does, not
  what the program does: the program's loops run for ever in every run but `mq` and
  `serial_rx`.
* Deadlock is checked in `SpeedControl`, `PacketParser`, `Timer` and `Mutex`, which never stop. The
  scan loop waits for ever if nobody starts it, a queue without callers rests, and the
  lidar may fall silent, so their configurations say `CHECK_DEADLOCK FALSE`.

### Fairness

`ScanLoop`: the lidar turns while it scans (`LidarStart`), a thread that may run does so
(weak fairness of the parser, the master and main: strict priorities with all
others asleep), a delay ends, and a command half typed is completed. Samples are not
required: an empty turn is possible. The user never has to type.
`SpeedControl`: thread speed and its tick, and each writer's command in progress.
The commands are few, so the shell below them gets the processor; the time
slices share it between master and speed.
`MsgQueue`: a call in progress and a receiver that has been made ready go on. No call
has to begin and no timer has to expire.

`SerialRx`: a requested interrupt is handled and the thread gets the processor.
`PacketParser`: the lidar goes on sending and the parser reading.
`Timer`: the clock ticks, the interrupt goes on, a call in progress goes on.
`Mutex`: a thread that has been made ready returns, an owner releases what it has taken. The
last release has strong fairness, because an owner may take the mutex again before
it; without it `Served` would blame the kernel for an owner that never lets go.
No timer has to expire.

## 4. The proofs

The theorems hold for every value of the constants that satisfies the named
assumption of the module (`ScanLoopAssumption`, `SpeedControlAssumption`,
`MsgQueueAssumption`, `MutexAssumption`, `TimerAssumption`, `SerialRxAssumption`,
`PacketParserAssumption`). Those that need more have it as a hypothesis in their statement:

| theorem | hypothesis | why it is needed |
|---|---|---|
| `NoEventMergedCorrect` | `MaxUser <= 2` | with three commands, one to start and two during the escape turn, TLC finds two scans that end before the master looks |
| `SectorIsWholeTurnCorrect`, `SectorIsOneTurnCorrect` | `MaxUser <= 1`, `MaxFaults = 0` (the second also `MaxPts <= Cap`) | a lost start packet merges two turns, and a command in the middle of a scan starts the turn elsewhere |
| `ListCorrect`, `EntryCountsCorrect`, `ImplementsLineCorrect`, `PacedLosslessCorrect` | `~Early` | run `serial_boot` shows what an early lidar does to the queue |
| `InStepCorrect` | `NoReplyInside` | after the end of a scan the parser hunts for the reply among the samples that still come; TLC finds a packet of four samples that spells it (a distance of 5, 16384 and 129 in a row) |
| `PointsMeasuredCorrect` | `SpansKept` | the parser compares the high bytes of the angles only; TLC finds a packet of nearly a whole turn whose angles differ in the low bytes and which the parser takes for one of no width |

The lidar's own packets span some tens of degrees, so they satisfy `SpansKept` by far; the
run `parser` assumes both hypotheses of its constants (`MCAssumption`), and TLC checks them there.

| module | theorem | states |
|---|---|---|
| `ScanLoopProofs` | `TypeCorrect`, `FreshCorrect`, `SwingCorrect`, `StableCorrect`, `ForwardCorrect`, `NoEventMergedCorrect`, `SectorsBoundedCorrect`, `SectorIsWholeTurnCorrect`, `SectorIsOneTurnCorrect` | `[]TypeOK`, `[]Fresh`, `[]SwingCounts`, `StableWhileRead`, `[]NeverForwardIntoObstacle`, `NoEventMerged`, `[]SectorsBounded`, `SectorIsWholeTurn`, `SectorIsOneTurn` |
| `PacketParserProofs` | `TypeCorrect`, `InStepCorrect`, `PointsMeasuredCorrect` | `[]TypeOK` (of the proof module), `[]InStep`, `[]PointsMeasured` |
| `SerialRxProofs` | `RingCorrect`, `ListCorrect`, `StaysBehindCorrect`, `EntryCountsCorrect`, `ImplementsLineCorrect`, `PacedLosslessCorrect` | `[]RingInv`, `[]ListInv`, `StaysBehind`, `[]EntryCounts`, `ImplementsLine`, `[]PacedLossless` |
| `SpeedControlProofs` | `TypeCorrect`, `PositionFormCorrect`, `DriveMatchesCorrect`, `FollowsCorrect` | `[]TypeOK`, `[]PositionForm`, `[]DriveMatchesPwm`, `[]FollowsLastCommand` |
| `MsgQueueProofs` | `TypeCorrect`, `BlocksCorrect`, `NoLostWakeupCorrect`, `SuspendedWaitCorrect`, `ChannelImplemented` | `[]TypeOK`, `[]BlocksConserved`, `[]NoLostWakeup`, `[]SuspendedWait`, `ImplementsChannel` |
| `MutexProofs` | `TypeCorrect`, `HoldersCorrect`, `WaitersCorrect`, `PriorityCorrect`, `InheritedCorrect` | `[]TypeOK`, `[]HoldersAgree`, `[]WaitersSuspended`, `[]PriorityRestored`, `[]Inherited` |
| `TimerProofs` | `TypeCorrect`, `SortedCorrect`, `ActiveListedCorrect`, `PunctualCorrect`, `FirstInFirstCorrect` | `[]TypeOK`, `[]Sorted`, `[]ActiveListed`, `Punctual`, `FirstInFirstCalled` |

`Lemmas` says what entering and leaving a list does to its elements, their order and
their distinctness, and reduces `%` to linear steps. It has lemmas only.

**Types.** `TypeOK` of the three larger modules is inductive as it stands. Two conjuncts carry
it in `ScanLoop`: a data packet is never empty, so that the loop over its samples has
a first one, and `circle` stays below `LastSector + 2`, so that a closed sector exists.
In `SpeedControl` the range of the compare register needs `-pwm` for -2^15
(`DutyIsAbs`); in `MsgQueue` a thread has a block exactly while it works on one.

**`Fresh`** is not inductive: while a scan runs, the sectors the master read last are
overwritten one by one. The strengthening says which samples are *new*, stored since
the last event: those of the open sector up to `count`, those of each closed one
up to its `number`, and, between the end of the scan and the event, those of all the
sectors the master reads (`OpenSectorNew`, `ClosedSectorsNew`, `DoneSectorsNew`). The
event then turns new into one event old, which is what `Fresh` allows.

**`SwingCounts`** is inductive, given the types: an obstacle decision that makes the
counter 4 goes to `escape`, and every other path resets it.
**`StableWhileRead`** is a theorem about the priorities alone (`Preemption`): while the
master reads, it is ready, and no thread with a larger number may run.

**`NeverForwardIntoObstacle`** compares the decision with `NetUpTo`, a recursive function. Nothing
here proves facts about those by induction over their argument, but the master's own
loop is that induction: after each sector there is a function that satisfies the
recursion so far, and every such function ends with what `fsignal` holds (`Adds`). At the
last sector `NetUpTo` is one of them. From the decision to the next scan the sum stays,
again by `Preemption`.

**The order of a scan** (`NoEventMerged`, `SectorsBounded`, `SectorIsWholeTurn`, `SectorIsOneTurn`) has one
invariant, `OrderInv`. Its first part counts *batons*: the right to start a scan lies with
the user, in a command on its way, in a reply on the wire, in the parser from the reply
to the event, in the event, and in the master until its next scan command. No step
makes a baton out of nothing (`BatonsNext`), so there are at most `MaxUser`. An event that
is pending while the parser runs means that the master is in its escape turn, because
of the priorities, and the two of them and the parser have three batons. The second part follows the mirror along the
wire: the packets that are still to come lead from the place the parser has reached to
the place the lidar is at (`Path`), and `count` is the place reached within the turn plus
at most `MaxPts` for each command or fault *spent* so far, equal to it while none is
(`Counting`). From the end of a scan to the decision, the sectors are consecutive turns
(`Complete`). When a sector is closed the parser itself holds a baton, which is a command
given and not yet spent; so `count` is at most one turn for each of the `Disturbances`,
and `number` keeps a value that was bounded when it was stored, since the disturbances
only become more (`DisturbancesStep`).

**`PositionForm`** is inductive together with `TypeOK`; the work is in arithmetic modulo
2H, which the solver does not do by itself: `ModRange`, `RemainderUnique`, `ModShift`
and `WrapShift` reduce it to linear steps, and `PiStep` adds up one period.
**`DriveMatchesPwm`** needs to know what `setpwm` still has to do: the rest of its program
is always a suffix of `SetPwm(pwm)` (`SetPwmSuffix`), the operations before that suffix
have taken effect, except that a `carStop` may have set a pin high since (`SetPwmDone`), and
what the commands still have to do leaves the compare registers alone and sets pins only
high (`WritersOnlyBrake`). A pin of a wheel that is not as `setpwm` left it is then
high, and with the other one, which the sign has high, it makes the brake.

**`FollowsLastCommand`** adds to that invariant that nobody but thread speed ever owns the
mutex, so that every take succeeds and every period copies (`SpeedInv`); that of a command
that overlaps no other one each wheel has its speed or a store of it is still to come
(`SoloInv`); and that the release, which is what marks the command as carried out, is its
last operation (`ReleaseLast`).

**The message queue.** `NoLostWakeup` counts, so the proof needs each receiver to be in
one place: the invariant is `TypeOK`, `BlocksConserved`, `SuspendedWait`, `NoLostWakeup` and
`SuspendedFresh` - a suspended receiver has no error. The last one is why the code
clears `thread->error` before each suspension: a receiver woken with an error left
over from an earlier call would return without taking the message. The timers in
`SuspendedWait` are what makes the guard of `Timeout`, that the timer runs, imply that its
thread is suspended. A link adds
one message and one woken receiver; a take removes one of each or a message only; a
suspension happens only when the queue is empty. The lemmas about sequences
(`AppendSeq`, `PushSeq`, `TailSeq`, `WithoutSeq`) say what each list operation does to the
set of elements, `HeldGain` and `HeldLoss` what a step does to the blocks in hand.

**The refinement.** `ChannelImplemented` adds `Filled`: a sender about to link its block has
copied its message into it. Under the mapping `Alloc` is `Begin`, `Link` is `Put`, taking a
block from the queue is `Get`, `Reset` is `Clear`, and all other steps are stutters; `Copy`
is one because the block in the receiver's hand is nobody else's, which is
`BlocksConserved`. There is always room for a `Put`, because the sender's own block is
not in the queue and no block is in it twice (`DistinctLen`).

**The mutex.** The invariant is `TypeOK`, `HoldersAgree`, `WaitersSuspended`, `PriorityRestored` and
`SuspendedFresh`: a suspended thread has no error, whatever its earlier calls have left,
so that a hand-over is counted as a success when it returns. `WaitersSuspended` is what
makes a time-out and a hand-over exclude each other. `Inherited` needs that in a list
sorted by priority those in it are ranked by their own priorities (`Ranked`): the head
becomes the owner, and nobody behind it is more urgent.

**The serial line.** `RingInv` says that the indexes delimit what waits in the ring buffer, in
order, and that its fill only grows from one interrupt to the next - which is
`StaysBehind`. `ListInv` gives the two pointer lists of the queue a sequence each: what waits and
what is free, disjoint, without repetition, ending where the pointers say, and with the
block in hand they are all of the pool. `Chain`, which follows the pointers in the
refinement mapping, is a recursive function; that it finds the sequence is shown with a minimal
counterexample (`ChainFinds`). The line is then four pieces end to end - the block being
copied, the queue, the ring buffer, the register - and every step moves a byte from one to
the next, drops one or leaves them alone. `PacedLossless` adds that at most one byte is
in ring and register together, so nothing can be dropped before the queue is full.

**The parser.** While no byte is lost, the parser has read *r* bytes of the packet and the
other ones are on the wire (`Rest`), and it is in one of three states of mind (`InOrder`): it
compares the reply (`Opening`), it takes a packet apart where the lidar has put it
together, with the body read so far that of the packet (`Following`), or, after a scan, it
hunts for the next reply (`Hunting`), and then the bytes that match are the last *m* it
has read of this packet (`Spelt`), since a header is no part of a reply.
`NoReplyInside` is why the last never completes. For `PointsMeasured` the loop over the samples is a recursive
function again: a minimal counterexample shows that sample *k*, when it has a distance, is
the point with the number of such samples up to it (`PointsGatheredAll`). The rest is arithmetic
(`AngleError`): what is dropped is the low byte of both angles, spread over the samples,
and the remainder of the division, at most *n* - 1 for each of the *n* samples. Multiplied by *n* these are at
most *n* (256 + 2*n*), less than a turn, and the step across 0 degrees takes away exactly one turn.

**The timers.** What the code compares are ticks modulo `M`; what the properties speak of
is `left`. The invariant ties the two together: of each timer in the list, and of one
about to be inserted, the due tick is the tick now plus what is left, modulo `M`, and
what is left lies between minus `MaxLate` - 1 and half of the range (`ListOK`, `InsertOK`).
Within these limits the unsigned comparisons are exact (`BreakIs`, `ExpiredIs`). Outside
of the interrupt no timer is overdue by more than an insertion may be late
(`NoneOverdue`), which is what the next tick needs, and which the interrupt restores
when it returns: the head of a sorted list has the least time left (`LeaveRemains`). An
insertion puts a timer behind all those due no later (`Newest`), which gives the order
of calls.

### Only model-checked

* `KeepsAvoiding`, `Settles`, `Recovers`, `QueuedDelivered`, `WakesUp` and the two `Served`: fairness and
  `ENABLED` are beyond this prover and stay with TLC.

Every other property of a passing run is stated by a theorem. The library's induction theorems take an
operator as a parameter, which the backends cannot instantiate; where a proof has to look
into a recursive function, it takes a least argument for which the claim fails and shows
that there is none (`Least`, `ChainFinds`), or the loop of the program is the
induction (`ForwardCorrect`).

No module with a theorem uses a RECURSIVE operator.

## 5. What is not modelled

* What an overrun of `package.buf` overwrites (`lsn` above 40), and the memory around `around`,
  which a store with `circle` at -1 or 0 reaches: the linker and the compiler decide.
* The commands `-fs`, `-fsc`, `-gvf`, `-ghs` of the shell, and the contents of the replies to the
  last two (`EAI_X4.c:138` to 166), which nothing but a print reads; `carMove` in `ScanLoop` (it is a writer
  in `SpeedControl`). The contents of `around[].firstpoint`, which nobody reads.
* Of the event object all but the one bit and the one receiver the scan loop uses; the
  wireless uart has the same shape and nothing that sends to it. Semaphores, mailboxes
  and memory pools: the car's own code does not use them.
* `RT_IPC_FLAG_PRIO` of message queues; creation, deletion and detachment of any kernel
  object; threads that hold several mutexes, of which one released out of order could
  keep a lent priority; signals, which are not compiled.
* The scheduler's ready lists and bitmap, the creation and end of threads: the modules have
  the rule who may run, not the data structure. `rt_tick_increase`'s time slices are the
  free interleaving of equal priorities in `SpeedControl`.
* Soft timers and the upper levels of the skip list, which are not compiled; a periodic
  timer of time 0, which the code would call for ever; times of half of the range of
  the tick and more, which `rt_timer_start` asserts not to get.
* The serial device's DMA and polling modes, its transmission, configuration and closing.
* The attitude sensor and its vendor library, the beeper, the shell's editor, pins and
  buses, HAL and CMSIS, the context switch: pure I/O or third-party code without effect
  on the loop. They are by far the largest part of the repository.
* Memory management, objects, devices, printing, driver IPC: used only at start-up and
  sequential, or without a caller.

## 6. Plan

Written so far, in this order: `ScanLoop` (the reason for the car), `SpeedControl`,
`MsgQueue` with `MsgChannel`, `SerialRx` with `LossyLine`, `PacketParser`, `Timer`, `Mutex`, and the proofs of
all seven. What could follow, most useful first:

1. `Event`: `rt_event_send` and `rt_event_recv` with AND, OR and CLEAR and several receivers, with
   the event bit of `ScanLoop` as its abstraction.
2. `Scheduler`: ready lists and bitmap, `rt_schedule`, changes of priority, with the rule who
   may run of `ScanLoop` and `SpeedControl` as its abstraction.
3. `Mutex` with two mutexes and nested takes, once a part of the car does that.
4. Mailbox, semaphore and memory pool if they turn out to differ from the message queue
   in more than the data.
