---------------------------- MODULE MCInterrupts ----------------------------
(* An instance of Interrupts for TLC, in which the tasks are alike, and so  *)
(* are the timers.                                                          *)
EXTENDS Interrupts, TLC

Alike == Permutations(Tasks) \cup Permutations(Timers)
=============================================================================
