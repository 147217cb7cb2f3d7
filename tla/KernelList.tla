----------------------------- MODULE KernelList -----------------------------
(***************************************************************************)
(* The kernel's lists of threads that wait (suspend_thread of src/ipc.c)   *)
(* and of timers that run (src/timer.c): entering one at some place, and   *)
(* leaving it from any place.                                              *)
(***************************************************************************)
EXTENDS Naturals, Sequences

Elements(s) == {s[k] : k \in DOMAIN s}
Distinct(s) == \A j, k \in DOMAIN s : s[j] = s[k] => j = k

\* rt_list_insert_before: x comes to place k.
InsertAt(s, x, k) ==
  [j \in 1..(Len(s) + 1) |-> IF j < k THEN s[j] ELSE IF j = k THEN x ELSE s[j - 1]]

\* rt_list_remove.
WithoutNone(s, x) == s
Without(s, x) ==
  LET place == CHOOSE k \in DOMAIN s : s[k] = x
  IN [k \in 1..(Len(s) - 1) |-> IF k < place THEN s[k] ELSE s[k + 1]]
=============================================================================
