---------------------------- MODULE MCTimedTask -----------------------------
(* An instance of TimedTask for TLC: two actions, two events. *)
EXTENDS TimedTask

CONSTANTS a1, a2

TwoBits == [a \in Actions |-> IF a = a1 THEN 0 ELSE 1]
=============================================================================
