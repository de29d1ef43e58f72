------------------------------- MODULE MCPwm --------------------------------
(* Instances of Pwm for TLC: pins, configurations and outputs. *)
EXTENDS Pwm

CONSTANTS o1, o2

\* Two channels of TIM4.
PortD == [o \in Objects |-> "D"]
TwoPins == [o \in Objects |-> IF o = o1 THEN 12 ELSE 13]

\* Duty cycles and ends of ranges in units: 1.0 is 256, and floats have 6 bits.
Config(f, low, high, from, to) ==
  [frequency_hz |-> f, min_duty_cycle |-> low, max_duty_cycle |-> high,
   min_output_value |-> from, max_output_value |-> to]

\* A motor's -1.0 to 1.0, 0.0 to 2.0 in the middle of the range, and a servo, whose
\* period does not fit into the timer.
WholeRanges == {Config(100, 0, 256, -256, 256), Config(200, 64, 192, 0, 512),
                Config(60, 13, 26, 0, 256)}
\* Ranges of 1.5 and of 0.5.
Fractions == {Config(100, 26, 232, 0, 384), Config(100, 26, 232, 0, 128)}
\* Two ranges from about 0.3 to 1.3: the difference of the first is rounded to 1.0,
\* that of the second to a little less.
AroundOne == {Config(100, 26, 232, 76, 336), Config(100, 26, 232, 78, 328)}
AllConfigs == WholeRanges \cup Fractions \cup AroundOne

Values == {-512, -256, -80, 0, 100, 256, 304, 512, 896}
=============================================================================
