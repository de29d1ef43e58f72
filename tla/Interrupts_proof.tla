-------------------------- MODULE Interrupts_proof --------------------------
(***************************************************************************)
(* Proofs about Interrupts, for any tasks and timers.  As long as the      *)
(* hardware was initialized before the scheduler started, the tick has the *)
(* lowest priority whenever anybody else can be active, and so the mask of *)
(* the kernel holds back everyone who might enter it.                      *)
(***************************************************************************)
EXTENDS Interrupts, TLAPS

\* Before the scheduler only main() runs; the tick is above the mask only
\* while main() initializes the hardware.
OrderInv ==
  /\ ~scheduler => running = Main /\ \A t \in Tasks : at[t] = "idle"
  /\ scheduler \/ initialized_ => \A t \in Threads : at[t] \in {"idle", "kernel"}
  /\ scheduler \/ initialized_ \/ at[Main] = "set_flag" => tick_priority = 15
  /\ tick_priority \in {0, 15, OFF}
  /\ tick_priority = 0 => at[Main] \in {"clock_config", "systick"}

\* Timers interrupt only on initialized hardware, one at a time, and not while
\* the tick is in the kernel.
HandlerInv ==
  /\ enabled # {} => initialized_
  /\ \A h \in Timers : Active(h) => h \in enabled
  /\ \A g, h \in Timers : Active(g) /\ Active(h) => g = h
  /\ handler[SysTick] = "kernel" => \A h \in Timers : ~Active(h)

\* Whoever is in the kernel has the mask set; a thread there is the one that runs.
MaskInv ==
  /\ \A t \in Threads : at[t] = "kernel" =>
       running = t /\ basepri = 3 /\ \A h \in Handlers : ~Active(h)
  /\ \A h \in Handlers : handler[h] = "kernel" => basepri = 3

\* The inductive invariant.
IInv == TypeOK /\ (~late => OrderInv /\ HandlerInv /\ MaskInv)

\* The initial state satisfies the inductive invariant.
LEMMA InitInv == Init => IInv
<1> SUFFICES ASSUME Init PROVE IInv
  OBVIOUS
<1>1. Main \in Threads /\ SysTick \in Handlers /\ Timers \subseteq Handlers /\ Tasks \subseteq Threads
  BY DEF Threads, Handlers
<1>2. TypeOK
  <2>1. scheduler = FALSE /\ initialized_ = FALSE /\ late = FALSE
    BY DEF Init
  <2>2. {scheduler, initialized_, late} \subseteq BOOLEAN
    BY <2>1
  <2>3. /\ running \in Threads
        /\ at \in [Threads -> {"idle", "kernel", "hal_init", "clock_config", "systick", "set_flag"}]
        /\ enabled \subseteq Timers
        /\ handler \in [Handlers -> {"idle", "active", "kernel"}]
    BY <1>1 DEF Init
  <2>4. basepri \in Masks /\ saved \in [Handlers -> Masks]
    BY DEF Init, Masks
  <2>5. tick_priority \in 0..OFF
    BY DEF Init, OFF
  <2> QED
    BY <2>2, <2>3, <2>4, <2>5 DEF TypeOK
<1>3. OrderInv
  BY <1>1 DEF Init, OrderInv, OFF
<1>4. HandlerInv /\ MaskInv
  BY <1>1 DEF Init, HandlerInv, MaskInv, Active
<1> QED
  BY <1>2, <1>3, <1>4 DEF IInv

\* Every step keeps the types.
LEMMA StepType == TypeOK /\ [Next]_vars => TypeOK'
<1> SUFFICES ASSUME TypeOK, [Next]_vars PROVE TypeOK'
  OBVIOUS
<1> USE InterruptsAssumption
    DEF TypeOK, OFF, Masks, configLIBRARY_MAX_SYSCALL_INTERRUPT_PRIORITY,
        configLIBRARY_LOWEST_INTERRUPT_PRIORITY, TICK_INT_PRIORITY
<1>1. ASSUME NEW t \in Tasks, Switch(t) PROVE TypeOK'
  BY <1>1 DEF Switch, nvic, Threads
<1>1a. ASSUME NEW t \in Tasks, StartScheduler(t) PROVE TypeOK'
  <2>1. scheduler' \in BOOLEAN /\ running' \in Threads /\ tick_priority' \in 0..16 /\ basepri' \in {0, 3}
    BY <1>1a DEF StartScheduler, Threads
  <2>2. UNCHANGED <<at, initialized_, enabled, handler, saved, late>>
    BY <1>1a DEF StartScheduler
  <2> QED
    BY <2>1, <2>2
<1>2. ASSUME NEW t \in Threads, Enter(t) \/ Leave(t) PROVE TypeOK'
  BY <1>2 DEF Enter, Leave, nvic
<1>3. ASSUME NEW t \in Threads, InitializeHardware(t) \/ HAL_Init(t) PROVE TypeOK'
  BY <1>3 DEF InitializeHardware, HAL_Init, Steps
<1>4. ASSUME NEW t \in Threads, InitializeBusClocks(t) \/ InitializeSysTick(t) PROVE TypeOK'
  BY <1>4 DEF InitializeBusClocks, InitializeSysTick, Steps
<1>5. ASSUME NEW t \in Threads, SetInitialized(t) PROVE TypeOK'
  BY <1>5 DEF SetInitialized, Steps
<1>6. ASSUME NEW t \in Threads, NEW timer \in Timers, Periodic(t, timer) PROVE TypeOK'
  BY <1>6 DEF Periodic
<1>7. ASSUME NEW h \in Handlers, Take(h) \/ Return(h) PROVE TypeOK'
  BY <1>7 DEF Take, Return, nvic
<1>8. ASSUME NEW h \in Handlers, HandlerEnters(h) \/ HandlerLeaves(h) PROVE TypeOK'
  BY <1>8 DEF HandlerEnters, HandlerLeaves, nvic
<1>9. CASE UNCHANGED vars
  BY <1>9 DEF vars, nvic
<1> HIDE DEF TypeOK
<1> QED
  BY <1>1, <1>1a, <1>2, <1>3, <1>4, <1>5, <1>6, <1>7, <1>8, <1>9, ZenonT(60) DEF Next

\* Every step preserves the inductive invariant.
LEMMA StepInv == IInv /\ [Next]_vars => IInv'
<1> SUFFICES ASSUME IInv, [Next]_vars PROVE IInv'
  OBVIOUS
<1>0. TypeOK /\ TypeOK'
  BY StepType DEF IInv
<1> SUFFICES ASSUME ~late' PROVE OrderInv' /\ HandlerInv' /\ MaskInv'
  BY <1>0 DEF IInv
<1>0a. late => late'
  <2>1. late \in BOOLEAN
    BY <1>0 DEF TypeOK
  <2>2. ASSUME NEW t \in Threads, InitializeHardware(t) PROVE late => late'
    BY <2>1, <2>2 DEF InitializeHardware
  <2>3. late' = late \/ \E t \in Threads : InitializeHardware(t)
    BY DEF Next, vars, Switch, StartScheduler, Enter, Leave, HAL_Init, InitializeBusClocks,
           InitializeSysTick, SetInitialized, Periodic, Take, Return, HandlerEnters,
           HandlerLeaves
  <2> QED
    BY <2>2, <2>3
<1>0b. OrderInv /\ HandlerInv /\ MaskInv
  BY <1>0a DEF IInv
<1>0c. /\ at \in [Threads -> {"idle", "kernel", "hal_init", "clock_config", "systick", "set_flag"}]
       /\ handler \in [Handlers -> {"idle", "active", "kernel"}]
       /\ SysTick \in Handlers /\ Main \in Threads /\ Timers \subseteq Handlers
       /\ Tasks \subseteq Threads /\ SysTick \notin Timers /\ Main \notin Tasks
  BY <1>0, InterruptsAssumption DEF TypeOK, Threads, Handlers
<1>1. ASSUME NEW t \in Tasks, Switch(t) PROVE OrderInv' /\ HandlerInv' /\ MaskInv'
  <2>1. /\ scheduler /\ basepri = 0
        /\ UNCHANGED <<scheduler, at, initialized_, tick_priority, enabled, handler, basepri>>
    BY <1>1 DEF Switch, nvic
  <2> QED
    BY <1>0b, <2>1 DEF OrderInv, HandlerInv, MaskInv, Active
<1>2. ASSUME NEW t \in Tasks, StartScheduler(t) PROVE OrderInv' /\ HandlerInv' /\ MaskInv'
  <2>1. /\ running = Main /\ at[Main] = "idle" /\ \A h \in Handlers : ~Active(h)
        /\ scheduler' = TRUE /\ tick_priority' = 15
        /\ UNCHANGED <<at, initialized_, enabled, handler>>
    BY <1>2 DEF StartScheduler, Runs, configLIBRARY_LOWEST_INTERRUPT_PRIORITY
  <2>2. ~scheduler \/ running # Main \/ at[Main] # "kernel"
    BY <2>1
  <2>3. \A u \in Threads : at[u] \in {"idle", "kernel"}
    BY <1>0c, <1>0b, <2>1 DEF OrderInv, Threads
  <2>4. \A u \in Threads : at[u] # "kernel"
    BY <1>0b, <2>1 DEF MaskInv
  <2> QED
    BY <1>0b, <1>0c, <2>1, <2>3, <2>4 DEF OrderInv, HandlerInv, MaskInv, Active
<1>3. ASSUME NEW t \in Threads, Enter(t) PROVE OrderInv' /\ HandlerInv' /\ MaskInv'
  <2>1. /\ running = t /\ at[t] = "idle" /\ \A h \in Handlers : ~Active(h)
        /\ at' = [at EXCEPT ![t] = "kernel"] /\ basepri' = 3
        /\ UNCHANGED <<scheduler, running, initialized_, tick_priority, enabled, handler>>
    BY <1>3 DEF Enter, Runs, nvic, configLIBRARY_MAX_SYSCALL_INTERRUPT_PRIORITY
  <2>2. OrderInv'
    BY <1>0b, <1>0c, <2>1 DEF OrderInv
  <2>3. HandlerInv' /\ MaskInv'
    BY <1>0b, <1>0c, <2>1 DEF HandlerInv, MaskInv, Active
  <2> QED
    BY <2>2, <2>3
<1>4. ASSUME NEW t \in Threads, Leave(t) PROVE OrderInv' /\ HandlerInv' /\ MaskInv'
  <2>1. /\ running = t /\ at[t] = "kernel" /\ \A h \in Handlers : ~Active(h)
        /\ at' = [at EXCEPT ![t] = "idle"]
        /\ UNCHANGED <<scheduler, running, initialized_, tick_priority, enabled, handler>>
    BY <1>4 DEF Leave, Runs, nvic
  <2>2. OrderInv'
    BY <1>0b, <1>0c, <2>1 DEF OrderInv
  <2>3. HandlerInv'
    BY <1>0b, <2>1 DEF HandlerInv, Active
  <2>4. MaskInv'
    BY <1>0b, <1>0c, <2>1 DEF MaskInv, Active
  <2> QED
    BY <2>2, <2>3, <2>4
<1>5. ASSUME NEW t \in Threads, NEW from, NEW to, Steps(t, from, to),
             initialized_' = initialized_,
             from \in {"idle", "hal_init", "clock_config", "systick"},
             from = "idle" => ~initialized_ /\ ~scheduler /\ tick_priority' = tick_priority
                              /\ to = "hal_init",
             from = "hal_init" => tick_priority' = 0 /\ to = "clock_config",
             from = "clock_config" => tick_priority' = 0 /\ to = "systick",
             from = "systick" => tick_priority' = 15 /\ to = "set_flag"
      PROVE  OrderInv' /\ HandlerInv' /\ MaskInv'
  <2>1. /\ running = t /\ at[t] = from /\ \A h \in Handlers : ~Active(h)
        /\ at' = [at EXCEPT ![t] = to]
        /\ UNCHANGED <<scheduler, running, enabled, handler, basepri>>
    BY <1>5 DEF Steps, Runs
  <2>2. ~scheduler /\ ~initialized_
    BY <1>0b, <1>5, <2>1 DEF OrderInv
  <2>3. t = Main
    BY <1>0b, <2>1, <2>2 DEF OrderInv
  <2>4. at'[Main] = to /\ \A u \in Threads : u # Main => at'[u] = at[u]
    BY <1>0c, <2>1, <2>3
  <2>5. OrderInv'
    BY <1>0b, <1>0c, <1>5, <2>1, <2>2, <2>3, <2>4 DEF OrderInv
  <2>6. HandlerInv'
    BY <1>0b, <1>5, <2>1 DEF HandlerInv, Active
  <2>7. \A u \in Threads : at'[u] # "kernel"
    BY <1>0b, <1>0c, <1>5, <2>1, <2>2, <2>3, <2>4 DEF OrderInv, Threads
  <2>8. MaskInv'
    BY <1>0c, <2>1, <2>7 DEF MaskInv, Active
  <2> QED
    BY <2>5, <2>6, <2>8
<1>6. ASSUME NEW t \in Threads, InitializeHardware(t)
      PROVE  OrderInv' /\ HandlerInv' /\ MaskInv'
  <2>1. /\ Steps(t, "idle", "hal_init") /\ UNCHANGED <<initialized_, tick_priority>>
        /\ ~initialized_
    BY <1>6 DEF InitializeHardware, AlreadyInitialized
  <2>2. ~scheduler
    BY <1>6, <2>1 DEF InitializeHardware
  <2> QED
    BY <1>5, <2>1, <2>2
<1>7. ASSUME NEW t \in Threads, HAL_Init(t) PROVE OrderInv' /\ HandlerInv' /\ MaskInv'
  BY <1>5, <1>7 DEF HAL_Init, TICK_INT_PRIORITY
<1>8. ASSUME NEW t \in Threads, InitializeBusClocks(t)
      PROVE  OrderInv' /\ HandlerInv' /\ MaskInv'
  BY <1>5, <1>8 DEF InitializeBusClocks, TICK_INT_PRIORITY
<1>9. ASSUME NEW t \in Threads, InitializeSysTick(t) PROVE OrderInv' /\ HandlerInv' /\ MaskInv'
  BY <1>5, <1>9 DEF InitializeSysTick, configLIBRARY_LOWEST_INTERRUPT_PRIORITY
<1>10. ASSUME NEW t \in Threads, SetInitialized(t)
       PROVE  OrderInv' /\ HandlerInv' /\ MaskInv'
  <2>1. /\ running = t /\ at[t] = "set_flag" /\ \A h \in Handlers : ~Active(h)
        /\ at' = [at EXCEPT ![t] = "idle"] /\ initialized_' = TRUE
        /\ UNCHANGED <<scheduler, running, tick_priority, enabled, handler, basepri>>
    BY <1>10 DEF SetInitialized, Steps, Runs
  <2>2. ~scheduler /\ t = Main /\ tick_priority = 15
    BY <1>0b, <2>1 DEF OrderInv
  <2>3. at'[Main] = "idle" /\ \A u \in Threads : u # Main => at'[u] = "idle"
    BY <1>0b, <1>0c, <2>1, <2>2 DEF OrderInv, Threads
  <2>4. OrderInv'
    BY <1>0b, <1>0c, <2>1, <2>2, <2>3 DEF OrderInv
  <2>5. HandlerInv'
    BY <1>0b, <2>1 DEF HandlerInv, Active
  <2>6. MaskInv'
    BY <1>0c, <2>1, <2>3 DEF MaskInv, Active
  <2> QED
    BY <2>4, <2>5, <2>6
<1>11. ASSUME NEW t \in Threads, NEW timer \in Timers, Periodic(t, timer)
       PROVE  OrderInv' /\ HandlerInv' /\ MaskInv'
  <2>1. /\ initialized_ /\ enabled' = enabled \cup {timer}
        /\ UNCHANGED <<scheduler, running, at, initialized_, tick_priority, handler, basepri>>
    BY <1>11 DEF Periodic
  <2> QED
    BY <1>0b, <2>1 DEF OrderInv, HandlerInv, MaskInv, Active
<1>12. ASSUME NEW h \in Handlers, Take(h) PROVE OrderInv' /\ HandlerInv' /\ MaskInv'
  <2>1. /\ h \in enabled \/ (h = SysTick /\ tick_priority # OFF)
        /\ \A g \in Handlers : Active(g) => PriorityOf(h) < PriorityOf(g)
        /\ basepri = 0 \/ PriorityOf(h) < basepri
        /\ handler' = [handler EXCEPT ![h] = "active"]
        /\ UNCHANGED <<scheduler, running, at, initialized_, tick_priority, enabled, basepri>>
    BY <1>12 DEF Take, nvic
  <2>2. handler'[h] = "active" /\ \A g \in Handlers : g # h => handler'[g] = handler[g]
    BY <1>0c, <2>1
  <2>3. \A g \in Timers : PriorityOf(g) = 4
    BY <1>0c DEF PriorityOf, TimerPriority
  <2>4. h # SysTick => h \in Timers /\ h \in enabled /\ PriorityOf(h) = 4
    BY <2>1, <2>3 DEF Handlers
  <2>5. ~ \E t \in Threads : at[t] = "kernel"
    <3> SUFFICES ASSUME NEW t \in Threads, at[t] = "kernel" PROVE FALSE
      OBVIOUS
    <3>1. basepri = 3 /\ PriorityOf(h) < 3
      BY <1>0b, <2>1 DEF MaskInv
    <3>2. h = SysTick /\ tick_priority < 3
      BY <2>4, <3>1 DEF PriorityOf
    <3>3. tick_priority = 0
      BY <1>0b, <3>2 DEF OrderInv, OFF
    <3>4. ~scheduler /\ ~initialized_ /\ at[Main] \in {"clock_config", "systick"}
      BY <1>0b, <3>3 DEF OrderInv
    <3> QED
      BY <1>0b, <1>0c, <3>4 DEF OrderInv, Threads
  <2>6. OrderInv'
    BY <1>0b, <2>1 DEF OrderInv
  <2>7. CASE h = SysTick
    <3>1. HandlerInv'
      BY <1>0b, <1>0c, <2>1, <2>2, <2>7 DEF HandlerInv, Active
    <3>2. MaskInv'
      BY <1>0b, <1>0c, <2>1, <2>2, <2>5 DEF MaskInv
    <3> QED
      BY <2>6, <3>1, <3>2
  <2>8. CASE h # SysTick
    <3>1. \A g \in Timers : ~Active(g)
      BY <1>0c, <2>1, <2>3, <2>4, <2>8
    <3>2. handler[SysTick] # "kernel"
      <4> SUFFICES ASSUME handler[SysTick] = "kernel" PROVE FALSE
        OBVIOUS
      <4>1. basepri = 3
        BY <1>0b, <1>0c DEF MaskInv
      <4> QED
        BY <2>1, <2>4, <2>8, <4>1
    <3>3. \A g \in Timers : Active(g)' => g = h
      BY <1>0c, <2>2, <3>1 DEF Active
    <3>4. handler'[SysTick] = handler[SysTick]
      BY <1>0c, <2>2, <2>8
    <3>5. HandlerInv'
      BY <1>0b, <2>1, <2>4, <2>8, <3>2, <3>3, <3>4 DEF HandlerInv
    <3>6. MaskInv'
      BY <1>0b, <1>0c, <2>1, <2>2, <2>5 DEF MaskInv
    <3> QED
      BY <2>6, <3>5, <3>6
  <2> QED
    BY <2>7, <2>8
<1>13. ASSUME NEW h \in Handlers, Return(h) PROVE OrderInv' /\ HandlerInv' /\ MaskInv'
  <2>1. /\ handler' = [handler EXCEPT ![h] = "idle"] /\ handler[h] = "active"
        /\ UNCHANGED <<scheduler, running, at, initialized_, tick_priority, enabled, basepri>>
    BY <1>13 DEF Return, nvic
  <2>2. handler'[h] = "idle" /\ \A g \in Handlers : g # h => handler'[g] = handler[g]
    BY <1>0c, <2>1
  <2> QED
    BY <1>0b, <1>0c, <2>1, <2>2 DEF OrderInv, HandlerInv, MaskInv, Active
<1>14. ASSUME NEW h \in Handlers, HandlerEnters(h) PROVE OrderInv' /\ HandlerInv' /\ MaskInv'
  <2>1. /\ RunsHandler(h) /\ handler[h] = "active"
        /\ handler' = [handler EXCEPT ![h] = "kernel"] /\ basepri' = 3
        /\ UNCHANGED <<scheduler, running, at, initialized_, tick_priority, enabled>>
    BY <1>14 DEF HandlerEnters, nvic, configLIBRARY_MAX_SYSCALL_INTERRUPT_PRIORITY
  <2>2. handler'[h] = "kernel" /\ \A g \in Handlers : g # h => handler'[g] = handler[g]
    BY <1>0c, <2>1
  <2>3. h = SysTick => \A g \in Timers : ~Active(g)
    <3> SUFFICES ASSUME h = SysTick, NEW g \in Timers, Active(g) PROVE FALSE
      OBVIOUS
    <3>1. PriorityOf(h) <= PriorityOf(g)
      BY <1>0c, <2>1 DEF RunsHandler
    <3>2. tick_priority <= 4
      BY <1>0c, <3>1 DEF PriorityOf, TimerPriority
    <3>3. tick_priority = 15
      BY <1>0b DEF HandlerInv, OrderInv
    <3> QED
      BY <3>2, <3>3
  <2>4. OrderInv'
    BY <1>0b, <2>1 DEF OrderInv
  <2>5. \A g \in Handlers : Active(g)' <=> Active(g)
    BY <2>1, <2>2 DEF Active
  <2>6. HandlerInv'
    BY <1>0b, <1>0c, <2>1, <2>2, <2>3, <2>5 DEF HandlerInv
  <2>7. MaskInv'
    BY <1>0b, <2>1, <2>5 DEF MaskInv, Active
  <2> QED
    BY <2>4, <2>6, <2>7
<1>15. ASSUME NEW h \in Handlers, HandlerLeaves(h) PROVE OrderInv' /\ HandlerInv' /\ MaskInv'
  <2>1. /\ RunsHandler(h) /\ handler[h] = "kernel"
        /\ handler' = [handler EXCEPT ![h] = "active"]
        /\ UNCHANGED <<scheduler, running, at, initialized_, tick_priority, enabled>>
    BY <1>15 DEF HandlerLeaves, nvic
  <2>2. handler'[h] = "active" /\ \A g \in Handlers : g # h => handler'[g] = handler[g]
    BY <1>0c, <2>1
  <2>3. \A g \in Handlers : handler'[g] # "kernel"
    <3> SUFFICES ASSUME NEW g \in Handlers, g # h, handler[g] = "kernel" PROVE FALSE
      BY <2>2
    <3>1. Active(g) /\ Active(h)
      BY <2>1 DEF Active
    <3>2. CASE g \in Timers /\ h \in Timers
      BY <1>0b, <3>1, <3>2 DEF HandlerInv
    <3>3. CASE g = SysTick \/ h = SysTick
      BY <1>0b, <2>1, <3>1, <3>3 DEF HandlerInv, Handlers
    <3> QED
      BY <3>2, <3>3 DEF Handlers
  <2>4. \A g \in Handlers : Active(g)' <=> Active(g)
    BY <2>1, <2>2 DEF Active
  <2>5. OrderInv'
    BY <1>0b, <2>1 DEF OrderInv
  <2>6. HandlerInv'
    BY <1>0b, <1>0c, <2>1, <2>3, <2>4 DEF HandlerInv
  <2>7. \A t \in Threads : at[t] # "kernel"
    BY <1>0b, <2>1 DEF MaskInv, Active
  <2>8. MaskInv'
    BY <2>1, <2>3, <2>7 DEF MaskInv
  <2> QED
    BY <2>5, <2>6, <2>8
<1>16. CASE UNCHANGED vars
  <2>1. UNCHANGED <<scheduler, running, at, initialized_, tick_priority, enabled, handler, basepri>>
    BY <1>16 DEF vars, nvic
  <2> QED
    BY <1>0b, <2>1 DEF OrderInv, HandlerInv, MaskInv, Active
<1> QED
  BY <1>1, <1>2, <1>3, <1>4, <1>6, <1>7, <1>8, <1>9, <1>10, <1>11, <1>12, <1>13, <1>14,
     <1>15, <1>16, ZenonT(60) DEF Next
-----------------------------------------------------------------------------
\* The inductive invariant holds in every reachable state.
THEOREM Invariance == Spec => []IInv
<1>1. Init => IInv
  BY InitInv
<1>2. IInv /\ [Next]_vars => IInv'
  BY StepInv
<1> QED
  BY <1>1, <1>2, PTL DEF Spec

\* Every variable keeps its type; the priorities fit their four bits.
THEOREM TypeCorrect == Spec => []TypeOK
<1>1. IInv => TypeOK
  BY DEF IInv
<1> QED
  BY <1>1, Invariance, PTL

\* The kernel is never entered from an interrupt in the middle of another's
\* critical section, if the hardware was initialized before the scheduler started.
THEOREM KernelIsExclusive == Spec => []KernelExclusive
<1>1. IInv => KernelExclusive
  <2> SUFFICES ASSUME IInv, ~late, NEW c \in Threads \cup Handlers, NEW d \in Threads \cup Handlers,
                      InKernel(c), InKernel(d), c # d
               PROVE  FALSE
    BY DEF KernelExclusive
  <2>1. OrderInv /\ HandlerInv /\ MaskInv
    BY DEF IInv
  <2>2. \A x \in Threads : x \notin Handlers
    BY InterruptsAssumption
  <2>3. CASE c \in Threads
    BY <2>1, <2>2, <2>3 DEF MaskInv, InKernel, Active
  <2>4. CASE d \in Threads
    BY <2>1, <2>2, <2>4 DEF MaskInv, InKernel, Active
  <2>5. CASE c \notin Threads /\ d \notin Threads
    <3>1. Active(c) /\ Active(d) /\ handler[c] = "kernel" /\ handler[d] = "kernel"
      BY <2>5 DEF InKernel, Active
    <3> QED
      BY <2>1, <2>5, <3>1 DEF HandlerInv, Handlers
  <2> QED
    BY <2>3, <2>4, <2>5
<1> QED
  BY <1>1, Invariance, PTL

\* The tick never interrupts a timer's handler, under the same condition.
THEOREM TickStaysOutermost == Spec => []TickIsOutermost
<1>1. IInv => TickIsOutermost
  <2> SUFFICES ASSUME IInv, ~late, NEW h \in Timers, Active(h) PROVE RunsHandler(h)
    BY DEF TickIsOutermost
  <2>1. OrderInv /\ HandlerInv
    BY DEF IInv
  <2>2. tick_priority = 15
    BY <2>1 DEF OrderInv, HandlerInv
  <2>3. PriorityOf(h) = 4 /\ \A g \in Handlers : PriorityOf(g) \in {4, 15}
    BY <2>2, InterruptsAssumption DEF PriorityOf, TimerPriority, Handlers
  <2> QED
    BY <2>3 DEF RunsHandler
<1> QED
  BY <1>1, Invariance, PTL
=============================================================================
