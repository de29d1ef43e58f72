----------------------------- MODULE Interrupts -----------------------------
(***************************************************************************)
(* Who may be inside the kernel.  The tasks, the timers' actions and the   *)
(* tick enter it through RTOSTask and RTOSQueue, and the kernel protects   *)
(* itself with BASEPRI, which holds back the interrupts of priority        *)
(* configLIBRARY_MAX_SYSCALL_INTERRUPT_PRIORITY and below.  That is enough *)
(* only if nobody above that priority enters it.  The priorities are set   *)
(* by InitializeHardware, for the tick, more than once on its way; by      *)
(* Timer::Periodic; and by the start of the scheduler.  InitializeHardware *)
(* is called by main() or, for every driver initializes it, by a task.     *)
(*                                                                         *)
(* A smaller number is a higher priority.  The processor runs the active   *)
(* handler of the highest priority, or a thread when there is none; an     *)
(* enabled interrupt may come at any time.  SysTick_Handler is the         *)
(* kernel's, as CMakeLists.txt:194 names it.                               *)
(***************************************************************************)
EXTENDS Integers

CONSTANTS Tasks,   \* the tasks of the kernel
          Timers,  \* the timers that are given an action
          Main,    \* main(), which ends where the scheduler starts
          SysTick  \* the handler of the tick

Threads == Tasks \cup {Main}
Handlers == Timers \cup {SysTick}

ASSUME InterruptsAssumption ==
  /\ Main \notin Tasks /\ SysTick \notin Timers
  /\ Threads \cap Handlers = {}

TICK_INT_PRIORITY == 0
configLIBRARY_MAX_SYSCALL_INTERRUPT_PRIORITY == 3
configLIBRARY_LOWEST_INTERRUPT_PRIORITY == 15
UrgentTimers == 2   \* fault: too urgent for a handler that calls the kernel
TimerPriority == 4

VARIABLES
  scheduler,      \* vTaskStartScheduler has been called
  running,        \* the thread the processor runs when no handler is active
  at,             \* where a thread is
  initialized_,   \* of ResetAndClockControl
  tick_priority,  \* of SysTick; 16 while it is off
  enabled,        \* the timers whose interrupts are enabled
  handler,        \* "idle", "active", or "kernel" while it is in the kernel
  basepri,        \* the mask; 0: none
  saved,          \* the mask a handler restores when it leaves the kernel
  late            \* history: InitializeHardware ran under the scheduler

nvic == <<tick_priority, enabled>>
vars == <<scheduler, running, at, initialized_, nvic, handler, basepri, saved, late>>

OFF == 16   \* beyond the four bits of a priority
Masks == {0, configLIBRARY_MAX_SYSCALL_INTERRUPT_PRIORITY}

TypeOK ==
  /\ {scheduler, initialized_, late} \subseteq BOOLEAN
  /\ running \in Threads
  /\ at \in [Threads -> {"idle", "kernel", "hal_init", "clock_config", "systick", "set_flag"}]
  /\ tick_priority \in 0..OFF
  /\ enabled \subseteq Timers
  /\ handler \in [Handlers -> {"idle", "active", "kernel"}]
  /\ basepri \in Masks
  /\ saved \in [Handlers -> Masks]

Init ==
  /\ scheduler = FALSE /\ running = Main
  /\ at = [t \in Threads |-> "idle"]
  /\ initialized_ = FALSE
  /\ tick_priority = OFF /\ enabled = {}
  /\ handler = [h \in Handlers |-> "idle"]
  /\ basepri = 0
  /\ saved = [h \in Handlers |-> 0]
  /\ late = FALSE
-----------------------------------------------------------------------------
(* The processor. *)

PriorityOf(h) == IF h = SysTick THEN tick_priority ELSE TimerPriority
Active(h) == handler[h] # "idle"

\* The handler that runs, and the thread that runs when none does.
RunsHandler(h) == Active(h) /\ \A g \in Handlers : Active(g) => PriorityOf(h) <= PriorityOf(g)
Runs(t) == running = t /\ \A h \in Handlers : ~Active(h)

\* An interrupt comes and is not held back.
Take(h) ==
  /\ h \in enabled \/ (h = SysTick /\ tick_priority # OFF)
  /\ \A g \in Handlers : Active(g) => PriorityOf(h) < PriorityOf(g)
  /\ basepri = 0 \/ PriorityOf(h) < basepri
  /\ handler' = [handler EXCEPT ![h] = "active"]
  /\ UNCHANGED <<scheduler, running, at, initialized_, nvic, basepri, saved, late>>

Return(h) ==
  /\ RunsHandler(h) /\ handler[h] = "active"
  /\ handler' = [handler EXCEPT ![h] = "idle"]
  /\ UNCHANGED <<scheduler, running, at, initialized_, nvic, basepri, saved, late>>

\* PendSV has the lowest priority, and so is held back by the mask.
Switch(t) ==
  /\ scheduler /\ t \in Tasks
  /\ \A h \in Handlers : ~Active(h)
  /\ basepri = 0
  /\ running' = t
  /\ UNCHANGED <<scheduler, at, initialized_, nvic, handler, basepri, saved, late>>
-----------------------------------------------------------------------------
(* The kernel. *)

\* A thread calls the kernel.  Before the scheduler runs leaving a critical
\* section does not unmask.
Enter(t) ==
  /\ Runs(t) /\ at[t] = "idle"
  /\ at' = [at EXCEPT ![t] = "kernel"]
  /\ basepri' = configLIBRARY_MAX_SYSCALL_INTERRUPT_PRIORITY
  /\ UNCHANGED <<scheduler, running, initialized_, nvic, handler, saved, late>>

Leave(t) ==
  /\ Runs(t) /\ at[t] = "kernel"
  /\ at' = [at EXCEPT ![t] = "idle"]
  /\ basepri' = IF scheduler THEN 0 ELSE basepri
  /\ UNCHANGED <<scheduler, running, initialized_, nvic, handler, saved, late>>

\* A timer's action calls the kernel's functions for interrupts, and the tick
\* counts: the former restore the mask they found, the latter, as the lowest
\* interrupt, takes for granted that there was none.
HandlerEnters(h) ==
  /\ RunsHandler(h) /\ handler[h] = "active"
  /\ handler' = [handler EXCEPT ![h] = "kernel"]
  /\ saved' = [saved EXCEPT ![h] = IF h = SysTick THEN 0 ELSE basepri]
  /\ basepri' = configLIBRARY_MAX_SYSCALL_INTERRUPT_PRIORITY
  /\ UNCHANGED <<scheduler, running, at, initialized_, nvic, late>>

HandlerLeaves(h) ==
  /\ RunsHandler(h) /\ handler[h] = "kernel"
  /\ handler' = [handler EXCEPT ![h] = "active"]
  /\ basepri' = saved[h]
  /\ UNCHANGED <<scheduler, running, at, initialized_, nvic, saved, late>>

\* vTaskStartScheduler masks the interrupts, makes SysTick the lowest and
\* starts the first task with no mask.
StartScheduler(t) ==
  /\ Runs(Main) /\ at[Main] = "idle"
  /\ t \in Tasks
  /\ scheduler' = TRUE /\ running' = t
  /\ tick_priority' = configLIBRARY_LOWEST_INTERRUPT_PRIORITY
  /\ basepri' = 0
  /\ UNCHANGED <<at, initialized_, enabled, handler, saved, late>>
-----------------------------------------------------------------------------
(* InitializeHardware, one step for each call that sets SysTick up. *)

AlreadyInitialized == initialized_

Steps(t, from, to) ==
  /\ Runs(t) /\ at[t] = from
  /\ at' = [at EXCEPT ![t] = to]
  /\ UNCHANGED <<scheduler, running, enabled, handler, basepri, saved>>

InitializeHardware(t) ==
  /\ Steps(t, "idle", "hal_init")
  /\ ~AlreadyInitialized
  /\ late' = (late \/ (scheduler /\ ~initialized_))
  /\ UNCHANGED <<initialized_, tick_priority>>

HAL_Init(t) ==
  /\ Steps(t, "hal_init", "clock_config")
  /\ tick_priority' = TICK_INT_PRIORITY
  /\ UNCHANGED <<initialized_, late>>

\* HAL_RCC_ClockConfig, in InitializeBusClocks, starts the tick again.
InitializeBusClocks(t) ==
  /\ Steps(t, "clock_config", "systick")
  /\ tick_priority' = TICK_INT_PRIORITY
  /\ UNCHANGED <<initialized_, late>>

SysTickKeepsPriority(t) ==  \* fault: the tick only given another reload value
  /\ Steps(t, "systick", "set_flag")
  /\ UNCHANGED <<tick_priority, initialized_, late>>

\* HAL_SYSTICK_Config gives SysTick the lowest priority.
InitializeSysTick(t) ==
  /\ Steps(t, "systick", "set_flag")
  /\ tick_priority' = configLIBRARY_LOWEST_INTERRUPT_PRIORITY
  /\ UNCHANGED <<initialized_, late>>

SetInitialized(t) ==
  /\ Steps(t, "set_flag", "idle")
  /\ initialized_' = TRUE
  /\ UNCHANGED <<tick_priority, late>>

\* Timer::Periodic with an action; Timer::Initialize came before.
Periodic(t, timer) ==
  /\ Runs(t) /\ at[t] = "idle" /\ initialized_
  /\ enabled' = enabled \cup {timer}
  /\ UNCHANGED <<scheduler, running, at, initialized_, tick_priority, handler, basepri,
                 saved, late>>
-----------------------------------------------------------------------------
Next ==
  \/ \E t \in Tasks : Switch(t) \/ StartScheduler(t)
  \/ \E t \in Threads :
       \/ Enter(t) \/ Leave(t)
       \/ InitializeHardware(t) \/ HAL_Init(t) \/ InitializeBusClocks(t)
       \/ InitializeSysTick(t) \/ SetInitialized(t)
       \/ \E timer \in Timers : Periodic(t, timer)
  \/ \E h \in Handlers : Take(h) \/ Return(h) \/ HandlerEnters(h) \/ HandlerLeaves(h)

Spec == Init /\ [][Next]_vars
-----------------------------------------------------------------------------
(* Properties. *)

InKernel(c) == IF c \in Threads THEN at[c] = "kernel" ELSE handler[c] = "kernel"

\* If the hardware was initialized before the scheduler started, one context
\* at a time is inside the kernel: nobody that calls it from an interrupt
\* comes between the steps of another's critical section.
KernelExclusive ==
  ~late => \A c, d \in Threads \cup Handlers : InKernel(c) /\ InKernel(d) => c = d

\* Then the tick never comes on top of another handler: it takes that for
\* granted when it leaves the kernel without restoring the mask.
TickIsOutermost ==
  ~late /\ Active(SysTick) => \A h \in Timers : Active(h) => RunsHandler(h)
=============================================================================
