-------------------------------- MODULE Pwm ---------------------------------
(***************************************************************************)
(* PWM (pwm.h, pwm.cc): several PWM objects, each with a pin and a channel *)
(* of its own, share the timer TIM4.  A method is one step.                *)
(*                                                                         *)
(* Outputs and duty cycles are floats, and are computed with as the code   *)
(* does, in the arithmetic of Floats.                                      *)
(***************************************************************************)
EXTENDS Floats

CONSTANTS Objects,
          Port, Pin,        \* [Objects -> ...]: of pwm_pin_
          Configs,          \* the PWMConfig records that Initialize is given
          Outputs,          \* the values that SetOutput is given, floats
          CompareValues,    \* the values that SetCCR is given
          SystemCoreClock,  \* in Hz
          HalfWord,         \* 2^16, of the registers of TIM4
          LongWord,         \* 2^32, of the integers of the code
          Unset             \* stands for a value that has not been given

PWMConfig == [frequency_hz : Nat \ {0},
              min_duty_cycle : 0..Unit, max_duty_cycle : 0..Unit,
              min_output_value : Int, max_output_value : Int]

ASSUME PwmAssumption ==
         /\ Port \in [Objects -> {"A", "B", "D"}]
         /\ Pin \in [Objects -> 0..15]
         /\ Configs \subseteq PWMConfig
         /\ \A c \in Configs : /\ c.frequency_hz < SystemCoreClock
                               /\ c.min_duty_cycle <= c.max_duty_cycle
                               /\ c.min_output_value < c.max_output_value
         /\ Outputs \subseteq Int
         /\ Unset \notin Outputs
         /\ CompareValues \subseteq Nat
         /\ SystemCoreClock \in Nat
         /\ HalfWord \in Nat \ {0} /\ HalfWord <= 2 * Lowest
         /\ LongWord \in Nat

VARIABLES
  pwm_initialized,  \* [Objects -> BOOLEAN]: initialized_
  config,           \* [Objects -> Configs]: config_, once it is initialized
  error,            \* [Objects -> ...]: what the last SetOutput returned
  set,              \* history: the value of the last SetOutput that ccr comes from
  period,           \* TIM4: its auto-reload register
  ccr,              \* TIM4: the compare register of each channel
  enabled           \* TIM4: the channels whose output is on

pwm_vars == <<pwm_initialized, config, error, set, period, ccr, enabled>>

TimerChannels == 1..4

\* The values of a register of TIM4, and what it keeps of a 32-bit value.
Words == 0..HalfWord - 1
Word(n) == n % HalfWord

\* ConfigurePins: the channel of a pin; 0 for a pin it refuses.
Channel(o) == CASE Port[o] = "A" /\ Pin[o] \in 8..11 -> Pin[o] - 7
                [] Port[o] = "D" /\ Pin[o] \in 12..15 -> Pin[o] - 11
                [] OTHER -> 0

PwmTypeOK ==
  /\ pwm_initialized \in [Objects -> BOOLEAN]
  /\ \A o \in Objects : pwm_initialized[o] => config[o] \in Configs
  /\ error \in [Objects -> {"none", "UNINITIALIZED", "INVALID_PINS"}]
  /\ set \in [Objects -> Outputs \cup {Unset}]
  /\ period \in Words
  /\ ccr \in [TimerChannels -> Words]
  /\ enabled \subseteq TimerChannels
  /\ \A c \in TimerChannels :    \* what no object owns is as the reset left it
       ccr[c] # 0 \/ c \in enabled => \E o \in Objects : pwm_initialized[o] /\ Channel(o) = c

PwmInit ==
  /\ pwm_initialized = [o \in Objects |-> FALSE]
  /\ config = [o \in Objects |-> Unset]
  /\ error = [o \in Objects |-> "none"]
  /\ set = [o \in Objects |-> Unset]
  /\ period = HalfWord - 1
  /\ ccr = [c \in TimerChannels |-> 0]
  /\ enabled = {}
-----------------------------------------------------------------------------
(* The arithmetic of Initialize and SetOutput. *)

TimerPeriod(c) == (SystemCoreClock \div c.frequency_hz) - 1
PeriodF(c) == Float(TimerPeriod(c))
MinCcr(c) == Truncated(Product(PeriodF(c), c.min_duty_cycle))
MaxCcr(c) == Truncated(Product(PeriodF(c), c.max_duty_cycle))
SpanF(c) == Float(MaxCcr(c) - MinCcr(c))

\* output_range_ is a uint32_t: the fraction of the range is cut off.
RangeF(c) == Difference(c.max_output_value, c.min_output_value)
OutputRange(c) == Truncated(RangeF(c))

ClampBelow(c, v) ==         \* fault: no upper bound
  IF v < c.min_output_value THEN c.min_output_value ELSE v
Clamp(c, v) == CASE v < c.min_output_value -> c.min_output_value
                 [] v > c.max_output_value -> c.max_output_value
                 [] OTHER -> v

RangePercent(c, v) ==
  Quotient(Difference(Clamp(c, v), c.min_output_value), Float(OutputRange(c)))

\* The values of the local ccr.  A range of 0 divides by zero, and what the
\* conversion of the quotient yields is undefined: it saturates on this core.
Ccr(c, v) == IF OutputRange(c) > 0
             THEN {MinCcr(c) + Truncated(Product(SpanF(c), RangePercent(c, v)))}
             ELSE {MinCcr(c), MinCcr(c) - 1}

\* No result overflows, and the casts to uint32_t are defined.
ASSUME RangeAssumption == \A c \in Configs :
  /\ InRange(TimerPeriod(c) * Unit, 1)
  /\ InRange(PeriodF(c) * c.max_duty_cycle, Unit) /\ MaxCcr(c) < LongWord
  /\ InRange((MaxCcr(c) - MinCcr(c)) * Unit, 1)
  /\ InRange(c.max_output_value - c.min_output_value, 1)
  /\ InRange(OutputRange(c) * Unit, 1) /\ OutputRange(c) < LongWord
  /\ LET top == RangePercent(c, c.max_output_value)
     IN  OutputRange(c) > 0 => /\ InRange(RangeF(c) * Unit, Float(OutputRange(c)))
                               /\ InRange(SpanF(c) * top, Unit)
                               /\ Truncated(Product(SpanF(c), top)) < LongWord
-----------------------------------------------------------------------------
(* Initialize. *)

TimerPeriodUsed == 60000
Pulse == 30000

InitializePwm(o, c) ==
  /\ ~pwm_initialized[o]
  /\ Channel(o) # 0
  /\ pwm_initialized' = [pwm_initialized EXCEPT ![o] = TRUE]
  /\ config' = [config EXCEPT ![o] = c]
  /\ period' = Word(TimerPeriodUsed)
  /\ ccr' = [ccr EXCEPT ![Channel(o)] = Word(Pulse)]
  /\ UNCHANGED <<error, set, enabled>>

\* HAL_TIM_PWM_Init works and HAL_TIM_PWM_ConfigChannel does not.
InitializeFails(o) ==
  /\ ~pwm_initialized[o]
  /\ Channel(o) # 0
  /\ period' = Word(TimerPeriodUsed)
  /\ UNCHANGED <<pwm_initialized, config, error, set, ccr, enabled>>

\* Enable and Disable do not check initialized_; their caller has to.
Enable(o) ==
  /\ pwm_initialized[o]
  /\ enabled' = enabled \cup {Channel(o)}
  /\ UNCHANGED <<pwm_initialized, config, error, set, period, ccr>>

Disable(o) ==
  /\ pwm_initialized[o]
  /\ enabled' = enabled \ {Channel(o)}
  /\ UNCHANGED <<pwm_initialized, config, error, set, period, ccr>>
-----------------------------------------------------------------------------
(* SetOutput and SetCCR. *)

\* The switch over pwm_pin_.Pin() in both; 0 for its default.
\* fault: the cases shifted by one
RegisterShifted(o) == IF Pin[o] \in 12..15 THEN ((Pin[o] - 11) % 4) + 1 ELSE 0
Register(o) == IF Pin[o] \in 12..15 THEN Pin[o] - 11 ELSE 0

Write(o, n) == ccr' = [ccr EXCEPT ![Register(o)] = Word(n)]

SetOutput(o, v) ==
  /\ pwm_initialized[o] /\ Register(o) # 0
  /\ \E n \in Ccr(config[o], v) : Write(o, n)
  /\ set' = [set EXCEPT ![o] = v]
  /\ error' = [error EXCEPT ![o] = "none"]
  /\ UNCHANGED <<pwm_initialized, config, period, enabled>>

SetOutputFails(o) ==
  /\ ~pwm_initialized[o] \/ Register(o) = 0
  /\ error' = [error EXCEPT ![o] = IF pwm_initialized[o] THEN "INVALID_PINS"
                                                     ELSE "UNINITIALIZED"]
  /\ UNCHANGED <<pwm_initialized, config, set, period, ccr, enabled>>

SetCCR(o, n) ==
  /\ pwm_initialized[o] /\ Register(o) # 0
  /\ Write(o, n)
  /\ set' = [set EXCEPT ![o] = Unset]
  /\ UNCHANGED <<pwm_initialized, config, error, period, enabled>>
-----------------------------------------------------------------------------
PwmNext == \E o \in Objects :
          \/ \E c \in Configs : InitializePwm(o, c)
          \/ InitializeFails(o)
          \/ Enable(o) \/ Disable(o)
          \/ \E v \in Outputs : SetOutput(o, v)
          \/ SetOutputFails(o)
          \/ \E n \in CompareValues : SetCCR(o, n)

PwmSpec == PwmInit /\ [][PwmNext]_pwm_vars
-----------------------------------------------------------------------------
(* Properties. *)

Compare(o) == ccr[Channel(o)]

\* Configurations that the code's integers can represent: the range has to be a
\* whole number after the subtraction in floats, which that of 0.3f and 1.3f is not.
Fits(c) == TimerPeriod(c) < HalfWord
Integral(c) == RangeF(c) > 0 /\ RangeF(c) % Unit = 0

\* The outputs of all objects are scaled to their ranges of duty cycles: the
\* ends are reached and not exceeded, and more output is never less duty,
\* whatever the objects that share the timer did in between.
OutputIsScaled ==
  \A o, p \in Objects :
    LET c == config[o] IN
    set[o] # Unset /\ Fits(c) /\ Integral(c) =>
      /\ Compare(o) \in MinCcr(c)..MaxCcr(c)
      /\ set[o] <= c.min_output_value => Compare(o) = MinCcr(c)
      /\ set[o] >= c.max_output_value => Compare(o) = MaxCcr(c)
      /\ set[p] # Unset /\ config[p] = c /\ set[o] <= set[p] => Compare(o) <= Compare(p)
=============================================================================
