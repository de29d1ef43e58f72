---------------------------- MODULE MCRTOSQueue -----------------------------
(* Instances of RTOSQueue for TLC: the names of its threads and items. *)
EXTENDS RTOSQueue

CONSTANTS p1, p2, p3, i1, i2
=============================================================================
