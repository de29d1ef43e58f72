----------------------------- MODULE TimedTask ------------------------------
(***************************************************************************)
(* A Timer and a task together, as the two classes are meant to be used:   *)
(* the actions of the timer send the task events (SendNotification from an *)
(* interrupt), and the task's MainLoop serves them.  The task is its       *)
(* mailbox, EventMailbox, which RTOSTask implements; the timer is Timer in *)
(* every detail.  What the two promise together is in neither of them: how *)
(* long events of a stopped timer still come, and that a timer left alone  *)
(* is served for ever.                                                     *)
(***************************************************************************)
EXTENDS Timer

CONSTANTS BitOf  \* [Actions -> Nat]: the event bit an action sends

ASSUME BitAssumption == BitOf \in [Actions -> Nat]

Bits == {BitOf[a] : a \in Actions}
Task == "task"

VARIABLES open, handlers, posted, due, turn,  \* of EventMailbox
          late  \* history: how often a bit was served since the thread's Stop()

M == INSTANCE EventMailbox WITH Tasks <- {Task}, EventBits <- Bits

mail == <<open, handlers, posted, due, turn>>
allvars == <<vars, mail, late>>

TimedInit ==
  /\ Init
  /\ open = [t \in {Task} |-> TRUE]
  /\ handlers = [t \in {Task} |-> Bits]
  /\ posted = [t \in {Task} |-> {}] /\ due = [t \in {Task} |-> {}]
  /\ turn = [t \in {Task} |-> 0]
  /\ late = [b \in Bits |-> 0]
-----------------------------------------------------------------------------
\* The thread's own steps.  Its Stop() begins a new count.
ThreadStep ==
  /\ Step /\ ~Update
  /\ UNCHANGED <<config, mail>>
  /\ late' = IF stopped # "thread" /\ stopped' = "thread" THEN [b \in Bits |-> 0] ELSE late

TimerStep == Update /\ UNCHANGED <<config, mail, late>>

\* The action that the handler finds sends its event; half of an action may
\* send anything or nothing.
InterruptStep ==
  /\ Handler
  /\ \/ \E a \in Actions : action \in {a, Torn} /\ M!Post(Task, BitOf[a])
     \/ action \in {None, Torn} /\ UNCHANGED mail
  /\ UNCHANGED <<config, late>>

Pending == uif /\ uie

\* The task runs as long as no interrupt is pending.
Take ==
  /\ ~Pending
  /\ M!Take(Task)
  /\ UNCHANGED <<vars, late>>

LateBound == 3    \* bound of the counters of late

Serve(b) ==
  /\ ~Pending
  /\ M!Serve(Task, b)
  /\ late' = IF stopped = "thread" /\ late[b] < LateBound THEN [late EXCEPT ![b] = @ + 1] ELSE late
  /\ UNCHANGED vars

\* The timer is gone and the mailbox is empty.
Over == pc = "destroyed" /\ posted[Task] = {} /\ due[Task] = {} /\ UNCHANGED allvars

TimedNext == \/ ThreadStep \/ TimerStep \/ InterruptStep
             \/ Take \/ \E b \in Bits : Serve(b)
             \/ Over

\* The counter counts, a pending interrupt is taken, and a task that is ready
\* again and again, between interrupts, runs; the thread may stop anywhere.
TimedSpec ==
  /\ TimedInit /\ [][TimedNext]_allvars
  /\ WF_allvars(TimerStep)
  /\ WF_allvars(InterruptStep)
  /\ SF_allvars(Take)
  /\ \A b \in Bits : SF_allvars(Serve(b))
-----------------------------------------------------------------------------
(* Properties. *)

\* After a Stop() of the thread at most two rounds still serve an event of the
\* timer: the one that is being served, and the one that was posted meanwhile.
LateAtMostTwice == \A b \in Bits : late[b] <= 2

\* When both have been served there will be no other, until a Periodic().
DrainedStaysDrained ==
  [][stopped = "thread" /\ stopped' = "thread" =>
       posted'[Task] \subseteq posted[Task]]_allvars

\* A timer that is left running with its action is served for ever: events
\* may be merged, but they never cease to come, nor does the interrupt keep
\* the processor from the task that serves them.
ServedForEver == \A a \in Actions :
  <>[](counting /\ uie /\ action = a) =>
     /\ []<>(BitOf[a] \in due[Task])
     /\ []<>(BitOf[a] \notin due[Task])
=============================================================================
