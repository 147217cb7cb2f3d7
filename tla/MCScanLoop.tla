---------------------------- MODULE MCScanLoop ----------------------------
(* Constants of the runs of ScanLoop that a configuration file cannot write. *)
EXTENDS ScanLoop

\* What a register or stack word left over from the caller may hold: a small
\* negative number, zero, and a number past the threshold of 4.
MCSwingInit == {-1, 0, 7}
=============================================================================
