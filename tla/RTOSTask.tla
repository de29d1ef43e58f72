------------------------------ MODULE RTOSTask ------------------------------
(***************************************************************************)
(* RTOSTaskBase and TaskEventHandler (rtos_task.h, rtos_task.cc) on top of *)
(* the FreeRTOS kernel: tasks that are started, suspended, resumed and     *)
(* destroyed by other contexts, that receive events through direct-to-task *)
(* notifications, and whose MainLoop runs one handler per event bit.       *)
(*                                                                         *)
(* The kernel is a submodule that is absent from the repository, so its    *)
(* calls are modelled by the contract the code relies on.  Scheduling is   *)
(* preemptive by strict priority (FreeRTOSConfig.h): a context moves only  *)
(* while no context of higher priority is runnable; contexts of equal      *)
(* priority are time-sliced; interrupts strike between any two steps.      *)
(***************************************************************************)
EXTENDS Integers

CONSTANTS Tasks,      \* the RTOSTask objects that run a TaskEventHandler
          Clients,    \* other contexts that use them: tasks, or main() before
                      \* the scheduler starts (then of top priority)
          Bits,       \* the event bits senders pass, 32 and above included
          Owner,      \* [Tasks -> Clients]: who starts and destroys the task
          Priority,   \* [Tasks \cup Clients -> Nat]
          WaitTenths  \* [Tasks -> Nat]: notify_wait_timeout_seconds_, in 0.1 ms

MAX_EVENT_BIT == 32

ASSUME ConstantsAssumption ==
         /\ Tasks \cap Clients = {}
         /\ Bits \subseteq Nat
         /\ Owner \in [Tasks -> Clients]
         /\ Priority \in [Tasks \cup Clients -> Nat]
         /\ WaitTenths \in [Tasks -> Nat]

VARIABLES
  handle,             \* handle_ # NULL
  starting,           \* where the owner is inside Start()
  notification_value, \* notification_value_, as the set of its bits
  handlers,           \* the bits whose event_bit_handler_ is set
  pc,                 \* where the task is inside MainLoop
  cursor,             \* event_bit of the loop in NotificationReceived
  error,              \* what MainLoop's last WaitForNotification returned
  kstate,             \* the kernel's scheduling state of the task
  notified,           \* the TCB's notification value, as the set of its bits
  notifyState         \* the TCB's notification state

taskVars == <<notification_value, handlers, pc, cursor, error>>
tcbVars == <<kstate, notified, notifyState>>
vars == <<handle, starting, notification_value, handlers, pc, cursor, error,
          kstate, notified, notifyState>>

EventBits == {b \in Bits : b < MAX_EVENT_BIT}

TypeOK ==
  /\ handle \in [Tasks -> BOOLEAN]
  /\ starting \in [Tasks -> {"no", "create", "assign"}]
  /\ notification_value \in [Tasks -> SUBSET EventBits]
  /\ handlers \in [Tasks -> SUBSET EventBits]
  /\ pc \in [Tasks -> {"wait", "waiting", "dispatch", "delay"}]
  /\ cursor \in [Tasks -> 0..MAX_EVENT_BIT]
  /\ error \in [Tasks -> {"none", "timed_out", "not_started"}]
  /\ kstate \in [Tasks -> {"none", "ready", "blocked", "suspended", "deleted"}]
  /\ notified \in [Tasks -> SUBSET EventBits]
  /\ notifyState \in [Tasks -> {"idle", "waiting", "received"}]

Init ==
  /\ handle = [t \in Tasks |-> FALSE]
  /\ starting = [t \in Tasks |-> "no"]
  /\ notification_value = [t \in Tasks |-> {}]
  /\ handlers = [t \in Tasks |-> {}]
  /\ pc = [t \in Tasks |-> "wait"]
  /\ cursor = [t \in Tasks |-> 0]
  /\ error = [t \in Tasks |-> "none"]
  /\ kstate = [t \in Tasks |-> "none"]
  /\ notified = [t \in Tasks |-> {}]
  /\ notifyState = [t \in Tasks |-> "idle"]
-----------------------------------------------------------------------------
(* The scheduler. *)

Busy(c) == \E t \in Tasks : Owner[t] = c /\ starting[t] # "no"

Runnable(x) == IF x \in Tasks THEN kstate[x] = "ready" ELSE Busy(x)

Scheduled(x) == \A y \in Tasks \cup Clients :
                   Runnable(y) => Priority[y] <= Priority[x]

\* x can call a method of some task now: a client that is not inside Start(),
\* or a task that is executing its event handlers.
CanCall(x) == /\ Scheduled(x)
              /\ \/ x \in Clients /\ ~Busy(x)
                 \/ x \in Tasks /\ kstate[x] = "ready" /\ pc[x] = "dispatch"

\* round(timeout_seconds * configTICK_RATE_HZ), with 1000 ticks a second.
\* Here and below, a definition whose comment says "fault" is what a plausible
\* slip in the code would turn the one after it into; nothing else uses it.
TicksTruncated(t) == WaitTenths[t] \div 10    \* fault: round() left out
Ticks(t) == (WaitTenths[t] + 5) \div 10

ValidBitOffByOne(b) == b <= MAX_EVENT_BIT     \* fault: > for >=
ValidBit(b) == b < MAX_EVENT_BIT

\* The bits CLEAR_ALL_BITS_ON_EXIT = 0xFFFF stands for.
ClearNothing == {}                            \* fault: the two masks swapped
ClearTooFew == {b \in EventBits : b < 15}     \* fault: a mask of 0x7FFF
ClearOnExit == {b \in EventBits : b < 16}

FirstEventBitOne == 1                         \* fault: the loop begins at 1
FirstEventBit == 0
-----------------------------------------------------------------------------
(* Start, Suspend, Resume, Delete, SetEventBitHandler: called by others. *)

\* A derived event handler installs its functions before its task starts.
SetEventBitHandler(t, b) ==
  /\ kstate[t] = "none" /\ starting[t] = "no" /\ CanCall(Owner[t])
  /\ ValidBit(b)
  /\ handlers' = [handlers EXCEPT ![t] = @ \cup {b}]
  /\ UNCHANGED <<handle, starting, notification_value, pc, cursor, error, tcbVars>>

Start(t) ==
  /\ CanCall(Owner[t]) /\ kstate[t] # "deleted"
  /\ ~handle[t]
  /\ starting' = [starting EXCEPT ![t] = "create"]
  /\ UNCHANGED <<handle, taskVars, tcbVars>>

\* xTaskCreateStatic makes the task ready, and it may run, before Start()
\* has stored the handle the call returns.
xTaskCreateStatic(t) ==
  /\ starting[t] = "create" /\ Scheduled(Owner[t])
  /\ starting' = [starting EXCEPT ![t] = "assign"]
  /\ kstate' = [kstate EXCEPT ![t] = "ready"]
  /\ notified' = [notified EXCEPT ![t] = {}]
  /\ notifyState' = [notifyState EXCEPT ![t] = "idle"]
  /\ UNCHANGED <<handle, taskVars>>

AssignHandleLost(t) ==  \* fault: the result is not stored in the member
  /\ starting[t] = "assign" /\ Scheduled(Owner[t])
  /\ starting' = [starting EXCEPT ![t] = "no"]
  /\ UNCHANGED <<handle, taskVars, tcbVars>>

AssignHandle(t) ==
  /\ starting[t] = "assign" /\ Scheduled(Owner[t])
  /\ starting' = [starting EXCEPT ![t] = "no"]
  /\ handle' = [handle EXCEPT ![t] = TRUE]
  /\ UNCHANGED <<taskVars, tcbVars>>

\* vTaskSuspend ends a wait for a notification: it counts as timed out unless
\* a notification arrives before the task runs again.  Kernel versions differ
\* in whether the wait is also cancelled; where it is not, a notification
\* makes the suspended task ready without a Resume().
Suspend(t) ==
  /\ \E x \in Tasks \cup Clients : CanCall(x)
  /\ handle[t]
  /\ kstate' = [kstate EXCEPT ![t] = "suspended"]
  /\ \/ UNCHANGED notifyState
     \/ /\ notifyState[t] = "waiting"
        /\ notifyState' = [notifyState EXCEPT ![t] = "idle"]
  /\ UNCHANGED <<handle, starting, taskVars, notified>>

Resume(t) ==
  /\ \E x \in Tasks \cup Clients : CanCall(x)
  /\ handle[t]
  /\ kstate[t] = "suspended"   \* vTaskResume leaves any other task alone
  /\ kstate' = [kstate EXCEPT ![t] = "ready"]
  /\ UNCHANGED <<handle, starting, taskVars, notified, notifyState>>

\* ~RTOSTaskBase, the only caller of Delete().
Delete(t) ==
  /\ CanCall(Owner[t])
  /\ handle[t]
  /\ kstate' = [kstate EXCEPT ![t] = "deleted"]
  /\ handle' = [handle EXCEPT ![t] = FALSE]
  /\ pc' = [pc EXCEPT ![t] = "wait"]
  /\ error' = [error EXCEPT ![t] = "none"]
  /\ notified' = [notified EXCEPT ![t] = {}]
  /\ notifyState' = [notifyState EXCEPT ![t] = "idle"]
  /\ UNCHANGED <<starting, notification_value, handlers, cursor>>
-----------------------------------------------------------------------------
(* SendNotification: from an interrupt, or from whichever task is running. *)

SendNotification(t, b) ==
  /\ handle[t]
  /\ ValidBit(b)
  /\ notified' = [notified EXCEPT ![t] = @ \cup {b}]
  /\ notifyState' = [notifyState EXCEPT ![t] = "received"]
  /\ kstate' = [kstate EXCEPT ![t] =
                  IF notifyState[t] = "waiting" THEN "ready" ELSE @]
  /\ UNCHANGED <<handle, starting, taskVars>>
-----------------------------------------------------------------------------
(* MainLoop: the task's own steps. *)

Running(t) == kstate[t] = "ready" /\ Scheduled(t)

\* WaitForNotification up to the point where xTaskNotifyWait blocks, if it
\* does: a notification that already arrived, or a timeout of no ticks, lets
\* the call go on at once.
WaitForNotification(t) ==
  /\ pc[t] = "wait" /\ Running(t)
  /\ IF handle[t]
     THEN /\ notification_value' = [notification_value EXCEPT ![t] = {}]
          /\ pc' = [pc EXCEPT ![t] = "waiting"]
          /\ IF notifyState[t] = "received"
             THEN UNCHANGED <<kstate, notifyState>>
             ELSE /\ notifyState' = [notifyState EXCEPT ![t] = "waiting"]
                  /\ kstate' = [kstate EXCEPT ![t] =
                                  IF Ticks(t) > 0 THEN "blocked" ELSE @]
          /\ UNCHANGED error
     ELSE \* RTOSTASK_NOT_STARTED; NotificationError does nothing
          /\ error' = [error EXCEPT ![t] = "not_started"]
          /\ UNCHANGED <<notification_value, pc, kstate, notifyState>>
  /\ UNCHANGED <<handle, starting, handlers, cursor, notified>>

\* The tick count reaches the end of a wait or of a delay.
Expire(t) ==
  /\ kstate[t] = "blocked"
  /\ kstate' = [kstate EXCEPT ![t] = "ready"]
  /\ UNCHANGED <<handle, starting, taskVars, notified, notifyState>>

\* xTaskNotifyWait returns, and MainLoop looks at the result.
\* CLEAR_ALL_BITS_ON_EXIT only applies when a notification was received.
WaitReturns(t) ==
  /\ pc[t] = "waiting" /\ Running(t)
  /\ notification_value' = [notification_value EXCEPT ![t] = notified[t]]
  /\ notifyState' = [notifyState EXCEPT ![t] = "idle"]
  /\ IF notifyState[t] = "received"
     THEN /\ notified' = [notified EXCEPT ![t] = @ \ ClearOnExit]
          /\ error' = [error EXCEPT ![t] = "none"]
          /\ pc' = [pc EXCEPT ![t] = "dispatch"]
          /\ cursor' = [cursor EXCEPT ![t] = FirstEventBit]
     ELSE /\ error' = [error EXCEPT ![t] = "timed_out"]
          /\ pc' = [pc EXCEPT ![t] = "wait"]
          /\ UNCHANGED <<notified, cursor>>
  /\ UNCHANGED <<handle, starting, handlers, kstate>>

\* What the loop of NotificationReceived has still to run in this round.
Due(t) == IF pc[t] \in {"dispatch", "delay"}
          THEN {b \in handlers[t] \cap notification_value[t] : b >= cursor[t]}
          ELSE {}

\* The next event_bit of the loop: its lowest pending bit with a handler.
Pending(t, b) == b \in Due(t) /\ \A d \in Due(t) : b <= d

\* Iterations of NotificationReceived's loop up to the next handler that runs.
\* A handler is arbitrary code; it may Delay() its task once.
RunHandler(t, b) ==
  /\ pc[t] = "dispatch" /\ Running(t)
  /\ Pending(t, b)
  /\ cursor' = [cursor EXCEPT ![t] = b + 1]
  /\ \/ UNCHANGED <<pc, kstate>>
     \/ /\ pc' = [pc EXCEPT ![t] = "delay"]
        /\ kstate' = [kstate EXCEPT ![t] = "blocked"]
  /\ UNCHANGED <<handle, starting, notification_value, handlers, error,
                 notified, notifyState>>

DelayReturns(t) ==
  /\ pc[t] = "delay" /\ Running(t)
  /\ pc' = [pc EXCEPT ![t] = "dispatch"]
  /\ UNCHANGED <<handle, starting, notification_value, handlers, cursor, error, tcbVars>>

LoopLeftEarly(t) == Due(t) = {} \/ cursor[t] > 0  \* fault: a break after a handler
LoopEnds(t) == Due(t) = {}

NotificationReceivedReturns(t) ==
  /\ pc[t] = "dispatch" /\ Running(t)
  /\ LoopEnds(t)
  /\ pc' = [pc EXCEPT ![t] = "wait"]
  /\ UNCHANGED <<handle, starting, notification_value, handlers, cursor, error, tcbVars>>

TaskStep(t) == \/ WaitForNotification(t)
               \/ WaitReturns(t)
               \/ \E b \in EventBits : RunHandler(t, b)
               \/ DelayReturns(t)
               \/ NotificationReceivedReturns(t)

StartStep(t) == xTaskCreateStatic(t) \/ AssignHandle(t)

CallStep(t) == \/ \E b \in Bits : SetEventBitHandler(t, b) \/ SendNotification(t, b)
               \/ Start(t) \/ Suspend(t) \/ Resume(t) \/ Delete(t)

\* Every task object is gone; what is left of the program does not show here.
AllDestroyed == (\A t \in Tasks : kstate[t] = "deleted") /\ UNCHANGED vars

Next == \/ \E t \in Tasks : CallStep(t) \/ StartStep(t) \/ TaskStep(t) \/ Expire(t)
        \/ AllDestroyed

Spec == Init /\ [][Next]_vars

\* The kernel's time slicing gives every context that is infinitely often the
\* one to run its turn, and the tick interrupt ends every wait.
Fairness == \A t \in Tasks : /\ SF_vars(TaskStep(t))
                             /\ SF_vars(StartStep(t))
                             /\ WF_vars(Expire(t))

FairSpec == Spec /\ Fairness
-----------------------------------------------------------------------------
(* Properties. *)

\* Events are exchanged as EventMailbox describes: WaitForNotification takes
\* all that was sent, NotificationReceived runs each handler once, in order.
Mailbox == INSTANCE EventMailbox WITH
             open <- [t \in Tasks |-> kstate[t] # "deleted"],
             posted <- notified,
             due <- [t \in Tasks |-> Due(t)],
             turn <- cursor
MailboxSpec == Mailbox!Spec

\* A task that waits on its own notifications is never told that it has not
\* been started ("valid only when this is the running task" is the one
\* precondition WaitForNotification's declaration gives).
OwnWaitValid == \A t \in Tasks : error[t] # "not_started"

\* WaitForNotification reports a timeout only when no event is in the mailbox:
\* an event that races the timeout is delivered and not skipped.
TimeoutMeansEmpty ==
  [][\A t \in Tasks : WaitReturns(t) /\ error'[t] = "timed_out" => notified[t] = {}]_vars

\* A task asleep in WaitForNotification has nothing to wake up for.
NoMissedWakeup == \A t \in Tasks :
  pc[t] = "waiting" /\ kstate[t] = "blocked" => notified[t] = {}

\* An event with a handler is dispatched and its handler run, unless the task
\* is suspended or destroyed, or kept from running by higher priorities.
EventServed ==
  \A t \in Tasks, b \in EventBits :
    []<>Scheduled(t) =>
      /\ b \in notified[t] \cap handlers[t] ~> b \in Due(t) \/ kstate[t] \in {"suspended", "deleted"}
      /\ b \in Due(t) ~> b \notin Due(t) \/ kstate[t] = "suspended"

\* Once the events stop, a Start() that has begun returns: tasks that only
\* wait leave the processor to the contexts of lower priority.
StartReturns ==
  (<>[](\A u \in Tasks : notified[u] = {})) =>
     \A t \in Tasks : starting[t] # "no" ~> starting[t] = "no"
=============================================================================
