------------------------------ MODULE MCSerial ------------------------------
(* An instance of Serial for TLC: three tasks share the SPI bus, two of     *)
(* them use another driver each, and the lowest may block with the slave.   *)
EXTENDS Serial

CONSTANTS hi, mid, lo

ThreePriorities == [t \in Tasks |-> CASE t = hi -> 3 [] t = mid -> 2 [] t = lo -> 1]
ThreeUses == [t \in Tasks |-> CASE t = hi -> {"SPI", "I2C"} [] t = mid -> {"SPI", "UART"}
                                [] t = lo -> {"SPI", "I2C", "UART"}]

\* What the properties need of the priorities.
ASSUME InstanceAssumption == LowestBlocks /\ \A d \in Drivers : Distinct(d)
=============================================================================
