----------------------------- MODULE LossyLine -----------------------------
(***************************************************************************)
(* What the way from the lidar to its parser promises: bytes may be lost,  *)
(* anywhere and silently, but those that come out are the lidar's, each at *)
(* most once and in the order in which they were sent.  A byte is the      *)
(* number of its place in what the lidar sent.                             *)
(***************************************************************************)
EXTENDS Naturals, Sequences

CONSTANT MaxBytes  \* bound: bytes sent

VARIABLES
  sent,      \* bytes sent so far
  line,      \* bytes under way
  delivered  \* bytes the parser has got

Without(s, j) == [k \in 1..(Len(s) - 1) |-> IF k < j THEN s[k] ELSE s[k + 1]]

Init == sent = 0 /\ line = <<>> /\ delivered = <<>>

\* A byte may be lost on its way in.
Send ==
  /\ sent < MaxBytes
  /\ sent' = sent + 1
  /\ line' = Append(line, sent') \/ line' = line
  /\ UNCHANGED delivered

Lose ==
  /\ \E j \in DOMAIN line : line' = Without(line, j)
  /\ UNCHANGED <<sent, delivered>>

Deliver ==
  /\ line # <<>>
  /\ delivered' = Append(delivered, Head(line))
  /\ line' = Tail(line)
  /\ UNCHANGED sent

Next == Send \/ Lose \/ Deliver

Spec == Init /\ [][Next]_<<sent, line, delivered>>
=============================================================================
