---------------------------- MODULE MCSpeedControl ----------------------------
(* Instances of SpeedControl for TLC: what the encoders may read.            *)
EXTENDS SpeedControl

\* Wheels held fast.
MCStalled == {<<0, 0>>}
=============================================================================
