----------------------------- MODULE MCRTOSTask -----------------------------
(* Instances of RTOSTask for TLC: who owns whom, priorities and timeouts. *)
EXTENDS RTOSTask

CONSTANTS t1, t2, main, c

\* One task, started by main() before the scheduler runs.
OneOwner == [t \in Tasks |-> main]
OnePriority == [x \in Tasks \cup Clients |-> IF x = main THEN 9 ELSE 2]

\* Two tasks; t2 is started later by the context c.
TwoOwners == [t \in Tasks |-> IF t = t1 THEN main ELSE c]
\* c outranks t2, the task it starts, and not t1.
OwnerAbove == [x \in Tasks \cup Clients |->
                 CASE x = main -> 9 [] x = t1 -> 4 [] x = c -> 3 [] x = t2 -> 2]

\* The default of 0.001 s, and 0.0009 s, which rounds up to one tick.
Default == [t \in Tasks |-> 10]
Short == [t \in Tasks |-> 9]
=============================================================================
