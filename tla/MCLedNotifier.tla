--------------------------- MODULE MCLedNotifier ----------------------------
(* An instance of LedNotifier for TLC: notifiers, their pins and the ports. *)
EXTENDS LedNotifier

CONSTANTS n1, n2, a, b, c, d

\* Each notifier has two pins.
TwoEach == [n \in Notifiers |-> IF n = n1 THEN <<a, b>> ELSE <<c, d>>]

\* Those of the second begin high.
SecondHigh == [p \in Pins |-> p \in {c, d}]
ASSUME InstanceAssumption == SameLevel /\ Independent

\* A port for each, for a toggle that writes a port as a whole.
PortEach == [p \in Pins |-> IF p \in {a, b} THEN "GPIOA" ELSE "GPIOB"]
=============================================================================
