------------------------------ MODULE SerialRx ------------------------------
(***************************************************************************)
(* The way of a byte from the lidar to the parser: the receive register of *)
(* uart2, the interrupt handler of the serial device with its ring buffer, *)
(* the callback of app_eaix4.c, the message queue Eaix4Mq and the thread   *)
(* eaix4, from the moment it opens the device.                             *)
(*                                                                         *)
(* The handler runs to its end before any thread goes on, but the lidar    *)
(* sends whenever it likes: bytes arrive between any two steps of both.    *)
(* The message queue is here down to its pointers, because the thread      *)
(* builds its free list with interrupts enabled.                           *)
(***************************************************************************)
EXTENDS Naturals, Sequences, FiniteSets

CONSTANTS
  BufSize,   \* config.bufsz of the serial device
  Blocks,    \* the blocks of Eaix4Buff
  NoBlock,   \* RT_NULL
  Early,     \* whether the lidar may already be sending while the queue is made
  Burst,     \* bound: bytes that arrive while one byte is handled
  MaxBytes   \* bound: bytes the lidar sends

ASSUME SerialRxAssumption ==
  /\ BufSize \in Nat /\ BufSize > 1
  /\ IsFiniteSet(Blocks) /\ NoBlock \notin Blocks
  /\ Early \in BOOLEAN /\ Burst \in Nat /\ MaxBytes \in Nat

VARIABLES
  sent,       \* bytes the lidar has sent; a byte is its number
  dr, ore,    \* uart: data register (0 while RXNE is clear), overrun flag
  seen,       \* overrun flag when the status register was read last
  isr,        \* the handler: off, idle, drain, read, indicate, clear
  buffer, put, get, full,            \* rx_fifo
  sized,      \* whether msg_size has been set
  next, freeHead, qHead, qTail, entry, data,   \* Eaix4Mq and its pool
  tpc,        \* thread eaix4: open, init, push, recv, copy, return
  todo,       \* rt_mq_init: the blocks it has not yet put on the free list
  block,      \* local head or msg: the block the thread works on
  delivered,  \* what eaix4_getchar has returned
  during, worst, behind, refused  \* history: bytes arrived while the last one
              \* was handled and the most ever; bytes in the ring buffer when
              \* the handler began; whether rt_mq_send failed once

uartVars  == <<dr, ore, seen>>
fifoVars  == <<buffer, put, get, full>>
queueVars == <<sized, next, freeHead, qHead, qTail, entry, data>>
threadVars == <<tpc, todo, block, delivered>>
historyVars == <<during, worst, behind, refused>>
vars == <<sent, uartVars, isr, fifoVars, queueVars, threadVars, historyVars>>

(***************************************************************************)
(* The uart.  A byte that finds the register occupied is lost and sets the *)
(* overrun flag, which also requests the interrupt.                        *)
(***************************************************************************)
Busy == dr # 0 \/ isr # "idle"

Arrive ==
  /\ sent < MaxBytes /\ isr # "off"
  /\ Early \/ tpc \in {"recv", "copy", "return"}
  /\ Busy => during < Burst
  /\ sent' = sent + 1
  /\ IF dr = 0 THEN dr' = sent' /\ UNCHANGED ore ELSE ore' = TRUE /\ UNCHANGED dr
  /\ during' = IF Busy THEN during + 1 ELSE 0
  /\ worst' = IF during' > worst THEN during' ELSE worst
  /\ UNCHANGED <<seen, isr, fifoVars, queueVars, threadVars, behind, refused>>

(***************************************************************************)
(* The ring buffer of the serial device.                                   *)
(***************************************************************************)
After(k) == IF k + 1 >= BufSize THEN 0 ELSE k + 1

Count ==
  IF put = get THEN IF full THEN BufSize ELSE 0
  ELSE IF put > get THEN put - get ELSE BufSize - (get - put)
Backlog == [k \in 1..Count |-> buffer[(get + k - 1) % BufSize]]

\* The oldest byte gives way.
GetOnFullKept == get
GetOnFullTwice == After(After(get))
GetOnFull == After(get)

(***************************************************************************)
(* USART2_IRQHandler and rt_hw_serial_isr.                                 *)
(***************************************************************************)
Requested == dr # 0 \/ ore

Enter ==
  /\ isr = "idle" /\ dr # 0
  /\ isr' = "drain"
  /\ behind' = Count
  /\ UNCHANGED <<sent, uartVars, fifoVars, queueVars, threadVars, during, worst,
                 refused>>

\* drv_getc reads the status register and, if a byte is there, the data register.
Check ==
  /\ isr = "drain"
  /\ isr' = IF dr = 0 THEN "indicate" ELSE "read"
  /\ seen' = ore
  /\ UNCHANGED <<sent, dr, ore, fifoVars, queueVars, threadVars, historyVars>>

\* Reading the data register clears RXNE and an overrun seen in the status.
Read ==
  /\ isr = "read"
  /\ buffer' = [buffer EXCEPT ![put] = dr]
  /\ put' = After(put)
  /\ IF put' = get THEN full' = TRUE /\ get' = GetOnFull ELSE UNCHANGED <<full, get>>
  /\ dr' = 0
  /\ ore' = (ore /\ ~seen) /\ seen' = FALSE
  /\ isr' = "drain"
  /\ UNCHANGED <<sent, queueVars, threadVars, historyVars>>

\* rt_mq_send, from the interrupt: free list, contents, tail, entry.
EntryAfterSendFirst == 1
EntryAfterSend == entry + 1

Accepts == sized /\ freeHead # NoBlock
MqSend(b) ==
  LET n == freeHead IN
  IF ~Accepts
  THEN refused' = TRUE /\ UNCHANGED <<next, freeHead, qHead, qTail, entry, data>>
  ELSE /\ freeHead' = next[n]
       /\ next' = IF qTail = NoBlock THEN [next EXCEPT ![n] = NoBlock]
                  ELSE [next EXCEPT ![n] = NoBlock, ![qTail] = n]
       /\ data' = [data EXCEPT ![n] = b]
       /\ qTail' = n
       /\ qHead' = IF qHead = NoBlock THEN n ELSE qHead
       /\ entry' = EntryAfterSend
       /\ UNCHANGED refused

\* eaix4_intput: one byte out of the ring buffer, whatever has come.
BytesRead == 1

Indicate ==
  /\ isr = "indicate" /\ Count > 0
  /\ MqSend(buffer[get])
  /\ get' = (get + BytesRead) % BufSize /\ full' = FALSE
  /\ isr' = "clear"
  /\ UNCHANGED <<sent, uartVars, buffer, put, sized, threadVars, during, worst,
                 behind>>

\* The handler clears the RXNE flag once more.
Clear ==
  /\ isr = "clear"
  /\ dr' = 0
  /\ isr' = "idle"
  /\ during' = 0
  /\ UNCHANGED <<sent, ore, seen, fifoVars, queueVars, threadVars, worst, behind, refused>>

(***************************************************************************)
(* Thread eaix4.  It runs while no interrupt is handled or requested.      *)
(***************************************************************************)
CanRun == isr = "off" \/ (isr = "idle" /\ ~Requested)

\* eaix4_open: the callback is set and the receive interrupt enabled ...
Open ==
  /\ CanRun /\ tpc = "open"
  /\ isr' = "idle"
  /\ tpc' = "size"
  /\ UNCHANGED <<sent, uartVars, fifoVars, queueVars, todo, block, delivered,
                 historyVars>>

\* ... and only then rt_mq_init makes the queue: sizes and empty lists,
Size ==
  /\ CanRun /\ tpc = "size"
  /\ sized' = TRUE
  /\ qHead' = NoBlock /\ qTail' = NoBlock /\ freeHead' = NoBlock
  /\ tpc' = "init"
  /\ UNCHANGED <<sent, uartVars, isr, fifoVars, next, entry, data, todo, block,
                 delivered, historyVars>>

\* each block of the pool: head->next = msg_queue_free,
LinkFree ==
  /\ CanRun /\ tpc = "init" /\ todo # {}
  /\ \E b \in todo :
       /\ next' = [next EXCEPT ![b] = freeHead]
       /\ block' = b
       /\ todo' = todo \ {b}
  /\ tpc' = "push"
  /\ UNCHANGED <<sent, uartVars, isr, fifoVars, sized, freeHead, qHead, qTail,
                 entry, data, delivered, historyVars>>

\* msg_queue_free = head,
PushFree ==
  /\ CanRun /\ tpc = "push"
  /\ freeHead' = block
  /\ block' = NoBlock
  /\ tpc' = "init"
  /\ UNCHANGED <<sent, uartVars, isr, fifoVars, sized, next, qHead, qTail, entry,
                 data, todo, delivered, historyVars>>

\* and entry = 0.
Made ==
  /\ CanRun /\ tpc = "init" /\ todo = {}
  /\ entry' = 0
  /\ tpc' = "recv"
  /\ UNCHANGED <<sent, uartVars, isr, fifoVars, sized, next, freeHead, qHead,
                 qTail, data, todo, block, delivered, historyVars>>

\* eaix4_getchar: rt_mq_recv takes the first block, for which it waits,
TailAfterTakeKept == qTail
TailAfterTake == IF qTail = qHead THEN NoBlock ELSE qTail

Take ==
  /\ CanRun /\ tpc = "recv" /\ entry # 0
  /\ block' = qHead
  /\ qHead' = next[qHead]
  /\ qTail' = TailAfterTake
  /\ entry' = entry - 1
  /\ tpc' = "copy"
  /\ UNCHANGED <<sent, uartVars, isr, fifoVars, sized, next, freeHead, data, todo,
                 delivered, historyVars>>

\* copies it with interrupts enabled,
Copy ==
  /\ CanRun /\ tpc = "copy"
  /\ delivered' = Append(delivered, data[block])
  /\ tpc' = "return"
  /\ UNCHANGED <<sent, uartVars, isr, fifoVars, queueVars, todo, block, historyVars>>

\* and puts it on the free list.
Return ==
  /\ CanRun /\ tpc = "return"
  /\ next' = [next EXCEPT ![block] = freeHead]
  /\ freeHead' = block
  /\ block' = NoBlock
  /\ tpc' = "recv"
  /\ UNCHANGED <<sent, uartVars, isr, fifoVars, sized, qHead, qTail, entry, data,
                 todo, delivered, historyVars>>

(***************************************************************************)
(* The specification.                                                      *)
(***************************************************************************)
Init ==
  /\ sent = 0 /\ dr = 0 /\ ore = FALSE /\ seen = FALSE /\ isr = "off"
  /\ buffer = [k \in 0..(BufSize - 1) |-> 0] /\ put = 0 /\ get = 0 /\ full = FALSE
  /\ sized = FALSE
  /\ next = [b \in Blocks |-> NoBlock] /\ data = [b \in Blocks |-> 0]
  /\ freeHead = NoBlock /\ qHead = NoBlock /\ qTail = NoBlock /\ entry = 0
  /\ tpc = "open" /\ todo = Blocks /\ block = NoBlock /\ delivered = <<>>
  /\ during = 0 /\ worst = 0 /\ behind = 0 /\ refused = FALSE

Handler == Enter \/ Check \/ Read \/ Indicate \/ Clear
Thread == Open \/ Size \/ LinkFree \/ PushFree \/ Made \/ Take \/ Copy \/ Return

Next == Arrive \/ Handler \/ Thread

Spec == Init /\ [][Next]_vars

\* Requested interrupts are handled and the thread gets the processor; the
\* lidar may fall silent at any time.
FairSpec == Spec /\ WF_vars(Handler) /\ WF_vars(Thread)

(***************************************************************************)
(* Properties.                                                             *)
(***************************************************************************)

\* The blocks of a list, from its first one on; a list that runs in a circle
\* shows as more blocks than there are.
Chain(b) ==
  LET at[k \in 1..(Cardinality(Blocks) + 1)] ==
        IF k = 1 THEN b
        ELSE IF at[k - 1] = NoBlock THEN NoBlock ELSE next[at[k - 1]]
  IN [k \in 1..Cardinality({j \in DOMAIN at : at[j] # NoBlock}) |-> at[k]]
Queue == Chain(qHead)

\* What is under way, oldest first: the block the thread is copying, the
\* message queue, the ring buffer and the receive register.
UnderWay ==
  (IF tpc = "copy" THEN <<data[block]>> ELSE <<>>)
    \o [k \in 1..Len(Queue) |-> data[Queue[k]]]
    \o Backlog \o (IF dr # 0 THEN <<dr>> ELSE <<>>)

\* Whatever is lost at the register, in the ring buffer or in front of the
\* queue, the parser gets bytes of the lidar, once each and in order.
Line == INSTANCE LossyLine WITH line <- UnderWay
ImplementsLine == Line!Spec

\* The interrupt is requested, but there is no byte to handle.
Storm == isr = "idle" /\ dr = 0 /\ ore

\* A byte is only lost when it arrives while the one before it is still being
\* handled, or when the parser is a whole queue behind.  Without either, no
\* byte stays in the ring buffer and no overrun stops the threads (app_eaix4.c 18
\* and 21, drv_usart.c 235, serial.c 1161).
PacedLossless ==
  worst = 0 /\ ~refused =>
    /\ delivered \o UnderWay = [k \in 1..sent |-> k]
    /\ isr = "idle" => Count = 0
    /\ ~Storm

\* The callback reads one byte: what one interrupt leaves in the ring buffer
\* stays there, and all later bytes come late by as much.  Only a buffer that
\* overflows gets shorter, by one (app_eaix4.c 18, serial.c 1158).
Remains == IF behind > BufSize - 2 THEN BufSize - 2 ELSE behind
StaysBehind == [][isr' = "idle" /\ isr # "off" /\ isr # "idle" => Count' >= Remains]_vars

\* A byte in the message queue reaches the parser, unless an overrun flag stops
\* every thread: one that is set after the status was read last stays, and
\* requests the interrupt until another byte comes (drv_usart.c 230-235).
Queued(n) == \E k \in DOMAIN Queue : data[Queue[k]] = n
Got(n) == \E k \in DOMAIN delivered : delivered[k] = n
QueuedDelivered == \A n \in 1..MaxBytes : Queued(n) ~> Got(n) \/ Storm

\* entry is the number of messages in the queue (rtdef.h 680), so that the
\* parser waits exactly while there is none.
EntryCounts == tpc = "recv" => entry = Len(Queue)
=============================================================================
