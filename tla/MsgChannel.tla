----------------------------- MODULE MsgChannel -----------------------------
(***************************************************************************)
(* What a message queue of the kernel promises to its users: a bounded     *)
(* channel.  A sent message enters at the end, an urgent one at the front, *)
(* at one instant during the call, and what a receiver takes is the        *)
(* message at the front when it took it.                                   *)
(***************************************************************************)
EXTENDS Naturals, Sequences

CONSTANTS Senders, Receivers, Entrances, Msgs, NoMsg, Capacity

VARIABLES
  chan,     \* the messages in the channel
  pending,  \* per sender, what it is about to put into the channel
  taken     \* per receiver, the message it took last

None == <<>>

Init ==
  /\ chan = <<>>
  /\ pending = [s \in Senders |-> None]
  /\ taken = [r \in Receivers |-> NoMsg]

Begin(s) ==
  /\ pending[s] = None
  /\ \E m \in Msgs, d \in Entrances : pending' = [pending EXCEPT ![s] = <<d, m>>]
  /\ UNCHANGED <<chan, taken>>

Put(s) ==
  /\ pending[s] # None
  /\ Len(chan) < Capacity
  /\ chan' = IF pending[s][1] = "urgent" THEN <<pending[s][2]>> \o chan
             ELSE Append(chan, pending[s][2])
  /\ pending' = [pending EXCEPT ![s] = None]
  /\ UNCHANGED taken

Get(r) ==
  /\ chan # <<>>
  /\ chan' = Tail(chan)
  /\ taken' = [taken EXCEPT ![r] = Head(chan)]
  /\ UNCHANGED pending

Clear == chan' = <<>> /\ UNCHANGED <<pending, taken>>

Next ==
  \/ \E s \in Senders : Begin(s) \/ Put(s)
  \/ \E r \in Receivers : Get(r)
  \/ Clear

Spec == Init /\ [][Next]_<<chan, pending, taken>>
=============================================================================
