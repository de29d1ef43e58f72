------------------------------- MODULE Timer --------------------------------
(***************************************************************************)
(* Timer (timer.h, timer.cc): one general-purpose timer, a thread that     *)
(* configures, stops and destroys it, and the timer's interrupt, which     *)
(* runs the action the thread has installed.  The interrupt comes between  *)
(* any two steps of the thread and is over before the thread's next step.  *)
(* An action may Stop() its timer, as a one-shot does.                     *)
(*                                                                         *)
(* The HAL and the timer's registers are modelled by what the code uses of *)
(* them.  The interrupt is enabled in the NVIC before its source is        *)
(* enabled in the timer, so the NVIC has no variable of its own.  Periods  *)
(* are floats, in seconds, and are converted with the arithmetic of Floats.*)
(***************************************************************************)
EXTENDS Floats

CONSTANTS Actions,      \* the functions a user installs
          None,         \* nullptr
          Torn,         \* a std::function in the middle of an assignment
          Ids,          \* the timers objects are made for
          Frequencies,  \* the values of frequency_hz_
          Seconds,      \* the periods that are asked for, floats
          Apb1Hz,       \* what ResetAndClockControl says of the two buses
          Apb2Hz,
          HalfWord,     \* 2^16, of the prescaler and of most counters
          Word          \* 2^32, of the arithmetic and of TIM2 and TIM5

ASSUME TimerAssumption == None \notin Actions /\ Torn \notin Actions /\ None # Torn
ASSUME ClockAssumption ==
  /\ Frequencies \subseteq Nat \ {0}
  /\ Seconds \subseteq Nat
  /\ {Apb1Hz, Apb2Hz, HalfWord, Word} \subseteq Nat \ {0}
  /\ HalfWord < Word
  /\ Apb1Hz * 2 <= Word /\ Apb2Hz * 2 <= Word

\* The float 1.0f / frequency, and the period divided by it.
ClockSeconds(frequency) == Quotient(Unit, Float(frequency))
PeriodF(seconds, frequency) == Quotient(seconds, ClockSeconds(frequency))

\* No result overflows or is near zero, and the cast to uint32_t is defined.
ASSUME PeriodAssumption == \A f \in Frequencies :
  /\ InRange(f * Unit, 1)
  /\ InRange(Unit * Unit, Float(f)) /\ Lowest * Float(f) <= Unit * Unit
  /\ \A seconds \in Seconds : /\ InRange(seconds * Unit, ClockSeconds(f))
                               /\ Truncated(PeriodF(seconds, f)) < Word

VARIABLES
  gp_timer_id_, frequency_hz_,
  initialized,  \* initialized_
  started,      \* started_
  action,       \* action_
  argument,     \* the action that a Periodic() in progress was given
  pc,           \* where the thread is inside a method of the timer
  counting,     \* CR1.CEN: the counter runs
  uie,          \* DIER.UIE: an update raises the interrupt
  uif,          \* SR.UIF: there was an update
  psc,          \* PSC: a clock of the counter is psc + 1 clocks of the timer
  arr,          \* ARR: an update comes every arr + 1 clocks of the counter
  asked,        \* history: the period these two stand for, 0 before the first
  stopped       \* history: who last called Stop(), until the next Periodic()

object == <<initialized, started, action, argument>>
interval == <<psc, arr, asked>>
registers == <<counting, uie, uif, interval>>
config == <<gp_timer_id_, frequency_hz_>>
vars == <<config, object, pc, registers, stopped>>

TypeOK ==
  /\ {initialized, started, counting, uie, uif} \subseteq BOOLEAN
  /\ action \in Actions \cup {None, Torn}
  /\ argument \in Actions \cup {None}
  /\ pc \in {"idle", "assign", "configure", "start", "set_started", "stop",
             "destroy_stop", "destroyed"}
  /\ stopped \in {"no", "thread", "action"}
  /\ pc = "assign" => argument # None
  /\ gp_timer_id_ \in Ids
  /\ frequency_hz_ \in Frequencies
  /\ psc \in 0..HalfWord - 1
  /\ arr \in 0..Word - 1
  /\ asked \in Seconds \cup {0}

Init ==
  /\ gp_timer_id_ \in Ids
  /\ frequency_hz_ \in Frequencies
  /\ initialized = FALSE
  /\ started = FALSE
  /\ action = None
  /\ argument = None
  /\ pc = "idle"
  /\ counting = FALSE /\ uie = FALSE /\ uif = FALSE
  /\ psc = 0 /\ arr = 0 /\ asked = 0
  /\ stopped = "no"

Return == pc' = "idle"
-----------------------------------------------------------------------------
(* The arithmetic of Periodic(). *)

\* The ids with a case in the switches.
KnownIds == {"GpTimer2", "GpTimer3", "GpTimer4", "GpTimer5", "GpTimer8"}
TimebaseHz == IF gp_timer_id_ = "GpTimer8" THEN Apb2Hz ELSE Apb1Hz

\* In uint32_t: a frequency that is too high gives a very large prescaler.
PrescalerRaw == ((TimebaseHz * 2) \div frequency_hz_ - 1) % Word

\* fault: - 1 left out
PeriodInClocks(seconds) == Truncated(PeriodF(seconds, frequency_hz_))
\* fault: cast to uint16_t
PeriodCast(seconds) == (Truncated(PeriodF(seconds, frequency_hz_)) - 1) % HalfWord
Period(seconds) == Truncated(PeriodF(seconds, frequency_hz_)) - 1

\* What Periodic() checks, in its order.
ArgumentsOk(seconds) == /\ gp_timer_id_ \in KnownIds
                        /\ PrescalerRaw <= HalfWord - 1
                        /\ PeriodF(seconds, frequency_hz_) >= Unit

\* The counters of TIM2 and TIM5 have 32 bits, the others keep 16 of them.
IsWide == gp_timer_id_ \in {"GpTimer2", "GpTimer5"}
Arr(period) == period % (IF IsWide THEN Word ELSE HalfWord)
-----------------------------------------------------------------------------
(* Initialize and Periodic. *)

Initialize ==
  /\ pc = "idle"
  /\ ~initialized
  /\ initialized' = TRUE
  /\ UNCHANGED <<started, action, argument, pc, registers, stopped>>

IsAction(a) == a # None

\* Periodic(period, action): the assignment of action_ begins.
PeriodicWithAction(a) ==
  /\ pc = "idle"
  /\ IsAction(a)
  /\ argument' = a
  /\ action' = Torn
  /\ pc' = "assign"
  /\ stopped' = "no"
  /\ UNCHANGED <<initialized, started, registers>>

\* It ends, and the interrupt is enabled in the NVIC; an id without a case in
\* the switch ends the call.
ActionAssigned ==
  /\ pc = "assign"
  /\ action' = argument
  /\ argument' = None
  /\ pc' = IF gp_timer_id_ \in KnownIds THEN "configure" ELSE "idle"
  /\ UNCHANGED <<initialized, started, registers, stopped>>

\* Periodic(period), called by a user.
Periodic ==
  /\ pc = "idle"
  /\ pc' = "configure"
  /\ stopped' = "no"
  /\ UNCHANGED <<object, registers>>

\* Periodic up to HAL_TIM_Base_Init, which generates an update to load the
\* prescaler.
Configure(seconds) ==
  /\ pc = "configure"
  /\ initialized
  /\ ArgumentsOk(seconds)
  /\ psc' = PrescalerRaw
  /\ arr' = Arr(Period(seconds))
  /\ asked' = seconds
  /\ uif' \in {uif, TRUE}
  /\ pc' = "start"
  /\ UNCHANGED <<object, counting, uie, stopped>>

\* An early return: not initialized, or an argument out of range.
PeriodicRefuses(seconds) ==
  /\ pc = "configure"
  /\ ~initialized \/ ~ArgumentsOk(seconds)
  /\ Return
  /\ UNCHANGED <<object, registers, stopped>>

\* An error of the HAL, before or after the registers were written.
PeriodicFails ==
  /\ pc \in {"configure", "start"}
  /\ initialized
  /\ Return
  /\ UNCHANGED <<object, registers, stopped>>

\* Which of HAL_TIM_Base_Start and HAL_TIM_Base_Start_IT, and of
\* HAL_TIM_Base_Stop and HAL_TIM_Base_Stop_IT, a method calls.
UsesInterruptSwapped == action = None   \* fault: the two branches swapped
UsesInterrupt == action # None

\* HAL_TIM_Base_Start leaves the interrupt as it finds it.
StartCounter ==
  /\ pc = "start"
  /\ initialized
  /\ counting' = TRUE
  /\ uie' = (uie \/ UsesInterrupt)
  /\ pc' = "set_started"
  /\ UNCHANGED <<object, uif, interval, stopped>>

SetStartedForgotten ==  \* fault: started_ = true left out
  /\ pc = "set_started"
  /\ Return
  /\ UNCHANGED <<object, registers, stopped>>

SetStarted ==
  /\ pc = "set_started"
  /\ started' = TRUE
  /\ Return
  /\ UNCHANGED <<initialized, action, argument, registers, stopped>>
-----------------------------------------------------------------------------
(* Stop and ~Timer. *)

HalStop ==
  /\ counting' = FALSE
  /\ uie' = (uie /\ ~UsesInterrupt)

\* Stop() of a timer that is not started returns at once.
CallStop(next, done) ==
  /\ pc = "idle"
  /\ started' = FALSE
  /\ IF started
     THEN pc' = next /\ UNCHANGED stopped
     ELSE pc' = done /\ stopped' = IF initialized THEN "thread" ELSE stopped
  /\ UNCHANGED <<initialized, action, argument, registers>>

Stop == CallStop("stop", "idle")

DestroyOnly ==         \* fault: a destructor that does not Stop()
  /\ pc = "idle"
  /\ pc' = "destroyed"
  /\ UNCHANGED <<object, registers, stopped>>

\* ~Timer.
Destroy == CallStop("destroy_stop", "destroyed")

StopReturns ==
  /\ pc \in {"stop", "destroy_stop"}
  /\ HalStop
  /\ stopped' = "thread"
  /\ pc' = IF pc = "stop" THEN "idle" ELSE "destroyed"
  /\ UNCHANGED <<object, uif, interval>>
-----------------------------------------------------------------------------
(* The timer and its interrupt. *)

Update ==
  /\ counting
  /\ uif' = TRUE
  /\ UNCHANGED <<object, pc, counting, uie, interval, stopped>>

FlagKept == uif         \* fault: __HAL_TIM_CLEAR_IT left out
FlagCleared == FALSE

\* TIMx_IRQHandler and Handler.  The action leaves its timer alone or calls
\* Stop(); it does not call Periodic(), which would assign the function that
\* is running.  What a half-assigned action does is undefined.
Handler ==
  /\ uif /\ uie
  /\ uif' = FlagCleared
  /\ \/ UNCHANGED <<started, counting, uie, stopped>>
     \/ /\ action # None
        /\ stopped' = "action"
        /\ started' = FALSE
        /\ IF started THEN HalStop ELSE UNCHANGED <<counting, uie>>
  /\ UNCHANGED <<initialized, action, argument, pc, interval>>

\* The object is gone, and its timer is silent.
Gone == pc = "destroyed" /\ UNCHANGED vars

Step == \/ Initialize
        \/ \E a \in Actions \cup {None} : PeriodicWithAction(a)
        \/ ActionAssigned \/ Periodic
        \/ \E seconds \in Seconds : Configure(seconds) \/ PeriodicRefuses(seconds)
        \/ PeriodicFails \/ StartCounter \/ SetStarted
        \/ Stop \/ Destroy \/ StopReturns
        \/ Update

Next == \/ Step /\ UNCHANGED config
        \/ Handler /\ UNCHANGED config
        \/ Gone

Spec == Init /\ [][Next]_vars
-----------------------------------------------------------------------------
(* Properties. *)

\* After a Stop() of the thread the timer is silent until the next Periodic(),
\* also when its action calls Stop() at the same time.
ThreadStopIsQuiet == stopped = "thread" => ~uie /\ ~counting

\* The interrupt never reaches the Handler of a timer that has been destroyed:
\* the table of handlers still holds a pointer to it.
DestroyedIsQuiet == pc = "destroyed" => ~uie

\* The interrupt finds a half-assigned action only if Periodic() is called
\* with a new action while the timer is started.
TornOnlyWhenRestarted == action = Torn /\ uie => started

\* The clock the timer really has: twice that of its bus, unless the bus runs at
\* the core's frequency, as APB2 does.
TimClockHz == IF gp_timer_id_ = "GpTimer8" THEN Apb2Hz ELSE Apb1Hz * 2

\* The interval of the registers and the one that was asked for, both in the
\* unit of floats and times TimClockHz.
Given == (psc + 1) * (arr + 1) * Unit
Asked == asked * TimClockHz

\* A rounding changes a number by at most one part in Parts, 2^24.
Parts == 2 * Lowest

\* No update of a timer on APB1 comes later than was asked for, except for the
\* three roundings of the period: what is cut off, the fraction of a prescaler,
\* of a period, or the upper half of a period in a 16-bit counter, only makes
\* the timer faster.
NeverLate ==
  asked # 0 /\ gp_timer_id_ # "GpTimer8" =>
    Given * (Parts * (Parts - 1)) <= Asked * ((Parts + 1) * (Parts + 1))

\* A 32-bit timer whose frequency divides the clock is early by less than one
\* clock of that frequency, except for the three roundings.
WideTimersAreExact ==
  asked # 0 /\ IsWide /\ TimClockHz % frequency_hz_ = 0 =>
    (Given + (psc + 1) * Unit) * (Parts * (Parts + 1)) > Asked * ((Parts - 1) * (Parts - 1))

\* Whoever calls it, Stop() stops the interrupts of the timer.
StopIsQuiet == pc = "idle" /\ stopped # "no" => ~uie
=============================================================================
