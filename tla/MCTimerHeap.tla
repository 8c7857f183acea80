----------------------------- MODULE MCTimerHeap ----------------------------
(***************************************************************************)
(* The heap of timers on small instances.                                  *)
(***************************************************************************)
EXTENDS TimerHeap

Interchangeable == Permutations(Timer)
=============================================================================
