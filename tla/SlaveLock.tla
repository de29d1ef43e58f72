----------------------------- MODULE SlaveLock ------------------------------
(***************************************************************************)
(* What SelectSlave and DeselectSlave promise to the tasks that share an   *)
(* SPI bus: a lock that does not wait.  Whoever is told that the slave is  *)
(* selected has it alone, until it deselects the slave itself.             *)
(***************************************************************************)
CONSTANTS Tasks
VARIABLES held  \* the tasks that have the slave

Init == held = {}

Select(t) == held = {} /\ held' = {t}
Deselect(t) == held = {t} /\ held' = {}

Next == \E t \in Tasks : Select(t) \/ Deselect(t)

Spec == Init /\ [][Next]_held
=============================================================================
