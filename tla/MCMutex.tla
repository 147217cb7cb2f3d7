------------------------------ MODULE MCMutex ------------------------------
(* Constants of Mutex for TLC.                                               *)
EXTENDS Mutex, TLC

CONSTANTS a, b, c, d

\* An urgent thread, two alike, and one that everybody lends a priority.
MCThreads == {a, b, c, d}
MCBase == a :> 1 @@ b :> 2 @@ c :> 2 @@ d :> 3
=============================================================================
