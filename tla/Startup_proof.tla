--------------------------- MODULE Startup_proof ----------------------------
(***************************************************************************)
(* Proofs about Startup, and through it about Board, for any delay, any    *)
(* timeout of the oscillator, any modulus of the tick counter and any      *)
(* number of resets.                                                       *)
(***************************************************************************)
EXTENDS Startup, TLAPS

\* Where main() is before InitializeHardware has set its flag, and after.
Early == {"base_pin", "hal_init", "oscillators", "hse_wait", "bus_clocks", "systick",
          "peripheral_clocks", "core_clock"}
Looping == {"toggle", "delay", "delaying"}
Ticking == {"peripheral_clocks", "core_clock", "gpio_init", "clear"} \cup Looping

\* TypeOK, one variable at a time.
FlagsOK ==
  /\ hse \in BOOLEAN /\ hal_ready \in BOOLEAN /\ pll_ready \in BOOLEAN
  /\ clocked \in BOOLEAN /\ rcc_initialized \in BOOLEAN
  /\ pin_initialized \in BOOLEAN /\ odr \in BOOLEAN
DataOK ==
  /\ pc \in Labels \cup BootLabels
  /\ sysclk \in {"HSI", "PLL"}
  /\ SystemCoreClock \in {0, 8, 36, 72} /\ reload \in {0, 8, 36, 72}
  /\ apb1 \in {0, 8, 36, 72} /\ apb2 \in {0, 8, 36, 72}
  /\ mode \in {"input", "output"}
  /\ uwTick \in 0..TickModulus - 1
  /\ tickstart \in 0..TickModulus - 1
  /\ age \in 0..DELAY

\* Until main() begins the registers have their reset values.
RegisterInv == pc \in BootLabels =>
  /\ hal_ready = FALSE /\ pll_ready = FALSE /\ sysclk = "HSI" /\ reload = 0
  /\ clocked = FALSE /\ mode = "input" /\ odr = FALSE /\ age = DELAY /\ tickstart = 0

\* The loops of Reset_Handler have been through the words before this one.
RamInv ==
  /\ pc \in {"copy_data", "zero_bss"} => word \in 1..6
  /\ pc = "copy_data" => word \in 1..2 /\ (word > 1 => SystemCoreClock = 8)
  /\ pc \in {"zero_bss", "system_init", "construct"} => SystemCoreClock = 8
  /\ pc = "zero_bss" => /\ word > 1 => apb1 = 0
                        /\ word > 2 => apb2 = 0
                        /\ word > 3 => uwTick = 0
                        /\ word > 4 => ~rcc_initialized
  /\ pc \in {"system_init", "construct"} =>
       apb1 = 0 /\ apb2 = 0 /\ uwTick = 0 /\ ~rcc_initialized

\* main() starts afresh and is the first to initialize anything.
MainInv ==
  /\ pc = "write_pin" => Init
  /\ pc \in Early => ~rcc_initialized
  /\ pc = "base_pin" => ~pin_initialized

\* SystemCoreClock is the clock the core has, the tick is derived from it, and
\* the recorded frequencies are those of the PLL.
ClockInv ==
  /\ pc \in Labels => SystemCoreClock = Hclk
  /\ pc \in Ticking => reload = Hclk
  /\ pc \in Ticking \cup {"systick"} => apb1 = 36 /\ apb2 = 72

\* Before its first toggle the LED has never changed.
DarkInv ==
  /\ pc \in Labels \ Looping => odr = FALSE /\ age = DELAY
  /\ pc = "toggle" => age = DELAY

\* A flag is set exactly for the resets since they were cleared, and the pin.
SourceInv ==
  /\ causes \subseteq csr /\ csr \subseteq causes \cup {"PinReset"}
  /\ csr \subseteq {"PowerOnReset", "IndependentWatchdogReset", "PinReset",
                    "SoftwareReset", "WindowedWatchdogReset", "LowPowerReset"}
  /\ causes = {} => csr = {}

\* The inductive invariant, but for the length of a delay.
ControlInv == FlagsOK /\ DataOK /\ RegisterInv /\ RamInv /\ MainInv /\ ClockInv /\ DarkInv

\* What the bounds on the constants say of the modulus.
LEMMA Modulus == TickModulus \in Nat /\ TickModulus > 2 /\ DELAY \in Nat /\ DELAY > 0
BY BoardAssumption

\* The initial states, after a power-on, satisfy the invariant.
LEMMA InitControl == BootInit => ControlInv
<1> SUFFICES ASSUME BootInit PROVE ControlInv
  OBVIOUS
<1>1. /\ pc = "copy_data" /\ word = 1
      /\ SystemCoreClock \in {0, 72} /\ apb1 \in {0, 36} /\ apb2 \in {0, 72}
      /\ rcc_initialized \in BOOLEAN /\ uwTick \in {0, TickModulus - 1}
      /\ hse \in BOOLEAN /\ hal_ready = FALSE
      /\ pll_ready = FALSE /\ sysclk = "HSI" /\ reload = 0
      /\ clocked = FALSE /\ mode = "input" /\ odr = FALSE /\ age = DELAY
      /\ pin_initialized = FALSE /\ tickstart = 0
  BY DEF BootInit, PowerOn
<1>2. FlagsOK
  BY <1>1 DEF FlagsOK
<1>2a. DataOK
  BY <1>1, Modulus DEF DataOK, BootLabels
<1>3. RegisterInv /\ RamInv
  BY <1>1 DEF RegisterInv, RamInv
<1>4. MainInv /\ ClockInv /\ DarkInv
  BY <1>1 DEF MainInv, ClockInv, DarkInv, Early, Looping, Ticking, Labels
<1> QED
  BY <1>2, <1>2a, <1>3, <1>4 DEF ControlInv

\* A reset leaves the RAM behind, and starts Reset_Handler.
LEMMA ResetControl == ASSUME ControlInv, NEW cause, Reset(cause) PROVE ControlInv'
<1>1. /\ pc' = "copy_data" /\ word' = 1
      /\ hse' \in BOOLEAN /\ hal_ready' = FALSE
      /\ pll_ready' = FALSE /\ sysclk' = "HSI" /\ reload' = 0
      /\ clocked' = FALSE /\ mode' = "input" /\ odr' = FALSE /\ age' = DELAY /\ tickstart' = 0
      /\ UNCHANGED <<SystemCoreClock, apb1, apb2, rcc_initialized, uwTick, pin_initialized>>
  BY DEF Reset
<1>2. FlagsOK'
  BY <1>1 DEF ControlInv, FlagsOK
<1>2a. DataOK'
  BY <1>1, Modulus DEF ControlInv, DataOK, BootLabels
<1>3. RegisterInv' /\ RamInv'
  BY <1>1 DEF RegisterInv, RamInv
<1>4. MainInv' /\ ClockInv' /\ DarkInv'
  BY <1>1 DEF MainInv, ClockInv, DarkInv, Early, Looping, Ticking, Labels
<1> QED
  BY <1>2, <1>2a, <1>3, <1>4 DEF ControlInv

\* Reset_Handler preserves the invariant, and establishes what main() needs.
LEMMA BootControl == ASSUME ControlInv, Boot PROVE ControlInv'
<1> USE Modulus DEF ControlInv, FlagsOK, DataOK, RegisterInv, RamInv, MainInv, ClockInv, DarkInv,
                    Early, Looping, Ticking, Labels, BootLabels
<1>1. CASE CopyDataInit
  BY <1>1 DEF CopyDataInit, BelowEnd, Data, HSI_VALUE, gpio
<1>2. CASE DataCopied
  BY <1>2 DEF DataCopied, BelowEnd, Data, clocks, gpio
<1>3. CASE FillZerobss
  BY <1>3 DEF FillZerobss, BelowEnd, Bss, gpio
<1>4. CASE BssZeroed
  BY <1>4 DEF BssZeroed, BelowEnd, Bss, clocks, gpio
<1>5. CASE SystemInit
  BY <1>5 DEF SystemInit, boot, gpio
<1>6. CASE Construct
  BY <1>6 DEF Construct, boot, clocks, Init, Hclk, HSI_VALUE
<1> QED
  BY <1>1, <1>2, <1>3, <1>4, <1>5, <1>6 DEF Boot

\* A step of main() preserves the invariant, but for the value of age at the end
\* of a delay, which is shown below.
LEMMA MainControl ==
  ASSUME ControlInv, Main, UNCHANGED boot, HalDelayReturns => age = DELAY
  PROVE  ControlInv'
<1> USE Modulus DEF ControlInv, FlagsOK, DataOK, RegisterInv, RamInv, MainInv, ClockInv, DarkInv,
                    Early, Looping, Ticking, Labels, BootLabels, boot, Hclk
<1>1. CASE WritePin
  BY <1>1 DEF WritePin, WriteOdr, pin_state_, Init, clocks, gpio
<1>2. CASE BasePin
  BY <1>2 DEF BasePin, clocks, gpio
<1>3. CASE HalInit
  BY <1>3 DEF HalInit, clocks, gpio
<1>4. CASE InitializeOscillators
  BY <1>4 DEF InitializeOscillators, clocks, gpio
<1>5. CASE OscConfigReturns
  BY <1>5 DEF OscConfigReturns, gpio
<1>6. CASE InitializeBusClocks
  BY <1>6 DEF InitializeBusClocks, RecordedApb1, gpio, HSE_VALUE, PLL_MUL, HSI_VALUE
<1>7. CASE InitializeSysTick
  BY <1>7 DEF InitializeSysTick, SysTickLoad, clocks, gpio
<1>8. CASE EnablePeripheralClocks
  BY <1>8 DEF EnablePeripheralClocks, EnablesPortA, clocks
<1>9. CASE UpdateCoreClock
  BY <1>9 DEF UpdateCoreClock, gpio, HSE_VALUE, PLL_MUL, HSI_VALUE
<1>10. CASE GpioInit
  BY <1>10 DEF GpioInit, clocks
<1>11. CASE Clear
  <2>1. /\ pc = "clear" /\ pc' = "toggle" /\ odr = FALSE /\ age = DELAY
        /\ UNCHANGED <<clocks, gpio, hal_ready, reload, rcc_initialized, uwTick, tickstart, word>>
    BY <1>11 DEF Clear
  <2>2. odr' = FALSE /\ age' = DELAY
    <3>1. CASE pin_initialized /\ clocked
      BY <1>11, <2>1, <3>1 DEF Clear, WriteOdr
    <3>2. CASE ~pin_initialized \/ ~clocked
      BY <1>11, <2>1, <3>2 DEF Clear, WriteOdr
    <3> QED
      BY <3>1, <3>2
  <2>3. odr' \in BOOLEAN
    BY <2>2
  <2> QED
    BY <2>1, <2>2, <2>3 DEF clocks, gpio
<1>12. CASE Toggle
  <2>1. /\ pc = "toggle" /\ pc' = "delay"
        /\ UNCHANGED <<clocks, gpio, hal_ready, reload, rcc_initialized, uwTick, tickstart, word>>
    BY <1>12 DEF Toggle
  <2>2. odr' \in BOOLEAN
    <3>1. odr' = odr \/ odr' = ~odr
      BY <1>12 DEF Toggle, WriteOdr
    <3>2. odr \in BOOLEAN
      OBVIOUS
    <3> QED
      BY <3>1, <3>2
  <2>3. age' \in 0..DELAY
    BY <1>12 DEF Toggle, WriteOdr
  <2> QED
    BY <2>1, <2>2, <2>3 DEF clocks, gpio
<1>13. CASE HalDelay
  BY <1>13 DEF HalDelay, clocks, gpio
<1>14. CASE HalDelayReturns
  BY <1>14 DEF HalDelayReturns, LoopHead, clocks, gpio
<1> QED
  BY <1>1, <1>2, <1>3, <1>4, <1>5, <1>6, <1>7, <1>8, <1>9, <1>10, <1>11, <1>12, <1>13, <1>14 DEF Main

\* The tick changes its counter and the history of the LED.
LEMMA TickControl ==
  ASSUME ControlInv, SysTick_Handler, UNCHANGED boot PROVE ControlInv'
<1>1. /\ reload # 0 /\ uwTick' = (uwTick + 1) % TickModulus
      /\ age' = IF age < DELAY THEN age + 1 ELSE age
      /\ UNCHANGED <<pc, word, clocks, gpio, hal_ready, reload, rcc_initialized, odr, tickstart>>
  BY DEF SysTick_Handler, HAL_IncTick, boot
<1>2. uwTick' \in 0..TickModulus - 1
  BY <1>1, Modulus DEF ControlInv, DataOK
<1>3. pc \notin BootLabels /\ pc # "write_pin"
  BY <1>1 DEF ControlInv, RegisterInv, MainInv, Init
<1> QED
  BY <1>1, <1>2, <1>3, Modulus
     DEF ControlInv, FlagsOK, DataOK, RegisterInv, RamInv, MainInv, ClockInv, DarkInv,
         Early, Looping, Ticking, Labels, BootLabels, Hclk, clocks, gpio

\* Reading the source of the reset changes the flags only.
LEMMA ClearControl == ASSUME ControlInv, ClearResetSource PROVE ControlInv'
BY DEF ClearResetSource, ControlInv, FlagsOK, DataOK, RegisterInv, RamInv, MainInv, Init,
       ClockInv, DarkInv, Hclk, vars

\* Remainders by the modulus, where they are simple.
LEMMA SmallRemainder == ASSUME NEW x \in 0..TickModulus - 1 PROVE x % TickModulus = x
BY Modulus

\* A difference below zero wraps once.
LEMMA NegativeRemainder ==
  ASSUME NEW x \in Int, x < 0, x >= -TickModulus + 1 PROVE x % TickModulus = x + TickModulus
BY Modulus

\* The modulus itself leaves no remainder.
LEMMA NoRemainder == TickModulus % TickModulus = 0
BY Modulus

\* A tick makes the time that has elapsed longer by one, or makes it nothing.
LEMMA TickElapses ==
  ASSUME NEW u \in 0..TickModulus - 1, NEW s \in 0..TickModulus - 1
  PROVE  (((u + 1) % TickModulus) - s) % TickModulus <= ((u - s) % TickModulus) + 1
<1>1. CASE u + 1 = TickModulus
  <2>1. (u + 1) % TickModulus = 0
    BY <1>1, NoRemainder
  <2>2. (0 - s) % TickModulus = IF s = 0 THEN 0 ELSE TickModulus - s
    BY Modulus, SmallRemainder, NegativeRemainder
  <2>3. (u - s) % TickModulus = u - s
    <3>1. u - s \in 0..TickModulus - 1
      BY <1>1, Modulus
    <3> QED
      BY <3>1, SmallRemainder
  <2> QED
    BY <1>1, <2>1, <2>2, <2>3, Modulus
<1>2. CASE u + 1 < TickModulus
  <2>1. (u + 1) % TickModulus = u + 1
    BY <1>2, SmallRemainder, Modulus
  <2>2. CASE u >= s
    <3>1. u - s \in 0..TickModulus - 1 /\ (u + 1) - s \in 0..TickModulus - 1
      BY <1>2, <2>2, Modulus
    <3>2. (u - s) % TickModulus = u - s /\ ((u + 1) - s) % TickModulus = (u + 1) - s
      BY <3>1, SmallRemainder
    <3> QED
      BY <2>1, <3>2
  <2>3. CASE u + 1 = s
    <3>1. ((u + 1) - s) % TickModulus = 0 /\ (u - s) % TickModulus = TickModulus - 1
      BY <2>3, SmallRemainder, NegativeRemainder, Modulus
    <3> QED
      BY <2>1, <3>1, Modulus
  <2>4. CASE u + 1 < s
    <3>1. /\ u - s \in Int /\ u - s < 0 /\ u - s >= -TickModulus + 1
          /\ (u + 1) - s \in Int /\ (u + 1) - s < 0 /\ (u + 1) - s >= -TickModulus + 1
      BY <2>4, Modulus
    <3>2. /\ (u - s) % TickModulus = u - s + TickModulus
          /\ ((u + 1) - s) % TickModulus = (u + 1) - s + TickModulus
      BY <3>1, NegativeRemainder
    <3> QED
      BY <2>1, <3>2, Modulus
  <2> QED
    BY <2>2, <2>3, <2>4
<1> QED
  BY <1>1, <1>2, Modulus

\* While main() waits, the LED has been in its state for as long as it has waited.
AgeInv == pc = "delaying" => age = DELAY \/ age >= Elapsed

\* The inductive invariant.
IInv == ControlInv /\ AgeInv /\ SourceInv

\* The initial states satisfy it.
LEMMA InitInv == BootInit => IInv
<1> SUFFICES ASSUME BootInit PROVE IInv
  OBVIOUS
<1>1. AgeInv
  BY DEF BootInit, AgeInv
<1>2. SourceInv
  BY DEF BootInit, PowerOn, SourceInv
<1> QED
  BY <1>1, <1>2, InitControl DEF IInv

\* When a delay is over the LED has been in its state for DELAY ticks.
LEMMA DelayIsOver == ASSUME ControlInv, AgeInv, HalDelayReturns PROVE age = DELAY
<1>1. Elapsed >= DELAY + 1 /\ (age = DELAY \/ age >= Elapsed) /\ age \in 0..DELAY
  BY DEF HalDelayReturns, AgeInv, ControlInv, DataOK
<1>2. Elapsed \in Int
  BY Modulus DEF Elapsed, ControlInv, DataOK
<1> QED
  BY <1>1, <1>2, Modulus

\* A step of main() or of the tick preserves AgeInv.
LEMMA MainAge == ASSUME ControlInv, AgeInv, Main PROVE AgeInv'
<1>1. CASE HalDelay
  <2>1. pc' = "delaying" /\ tickstart' = uwTick /\ uwTick' = uwTick /\ age' = age
    BY <1>1 DEF HalDelay
  <2>2. uwTick - uwTick = 0 /\ 0 % TickModulus = 0 /\ age >= 0
    BY Modulus, SmallRemainder DEF ControlInv, DataOK
  <2> QED
    BY <2>1, <2>2 DEF AgeInv, Elapsed
<1>2. CASE ~HalDelay
  <2>1. pc' # "delaying"
    BY <1>2 DEF Main, WritePin, BasePin, HalInit, InitializeOscillators, OscConfigReturns,
                InitializeBusClocks, InitializeSysTick, EnablePeripheralClocks,
                UpdateCoreClock, GpioInit, Clear, Toggle, HalDelayReturns, LoopHead
  <2> QED
    BY <2>1 DEF AgeInv
<1> QED
  BY <1>1, <1>2

\* A tick within a delay adds to the LED's age as much as to the time that has elapsed.
LEMMA TickAge == ASSUME ControlInv, AgeInv, SysTick_Handler PROVE AgeInv'
<1> SUFFICES ASSUME pc = "delaying" PROVE (age = DELAY \/ age >= Elapsed)'
  BY DEF AgeInv, SysTick_Handler
<1>1. /\ uwTick' = (uwTick + 1) % TickModulus /\ tickstart' = tickstart
      /\ age' = IF age < DELAY THEN age + 1 ELSE age
  BY DEF SysTick_Handler, HAL_IncTick
<1>2. uwTick \in 0..TickModulus - 1 /\ tickstart \in 0..TickModulus - 1 /\ age \in 0..DELAY
  BY DEF ControlInv, DataOK
<1>3. Elapsed' <= Elapsed + 1
  BY <1>1, <1>2, TickElapses DEF Elapsed
<1>4. Elapsed \in Int /\ Elapsed' \in Int
  BY <1>1, <1>2, Modulus DEF Elapsed
<1>5. age = DELAY \/ age >= Elapsed
  BY DEF AgeInv
<1> HIDE DEF Elapsed
<1> QED
  BY <1>1, <1>2, <1>3, <1>4, <1>5, Modulus

\* Every step preserves the invariant.
LEMMA StepInv == IInv /\ [BootNext]_allvars => IInv'
<1> SUFFICES ASSUME IInv, [BootNext]_allvars PROVE IInv'
  OBVIOUS
<1>0. ControlInv /\ AgeInv /\ SourceInv
  BY DEF IInv
<1>1. ASSUME NEW cause \in Sources \ {"PowerOnReset"}, Reset(cause) PROVE IInv'
  <2>1. ControlInv'
    BY <1>0, <1>1, ResetControl
  <2>2. AgeInv'
    BY <1>1 DEF Reset, AgeInv
  <2>3. cause \in {"IndependentWatchdogReset", "PinReset", "SoftwareReset",
                   "WindowedWatchdogReset", "LowPowerReset"}
    BY DEF Sources, ByPriority
  <2>4. SourceInv'
    BY <1>0, <1>1, <2>3 DEF Reset, FlagsAfter, SourceInv
  <2> QED
    BY <2>1, <2>2, <2>4 DEF IInv
<1>2. CASE Boot
  <2>1. ControlInv'
    BY <1>0, <1>2, BootControl
  <2>2. pc' # "delaying" /\ UNCHANGED <<csr, causes>>
    BY <1>2, <1>0 DEF Boot, CopyDataInit, DataCopied, FillZerobss, BssZeroed, SystemInit,
                 Construct, boot
  <2>3. AgeInv' /\ SourceInv'
    BY <1>0, <2>2 DEF AgeInv, SourceInv
  <2> QED
    BY <2>1, <2>3 DEF IInv
<1>3. CASE Main /\ UNCHANGED boot
  <2>1. ControlInv'
    BY <1>0, <1>3, DelayIsOver, MainControl
  <2>2. AgeInv'
    BY <1>0, <1>3, MainAge
  <2>3. SourceInv'
    BY <1>0, <1>3 DEF SourceInv, boot
  <2> QED
    BY <2>1, <2>2, <2>3 DEF IInv
<1>4. CASE SysTick_Handler /\ UNCHANGED boot
  <2>1. ControlInv'
    BY <1>0, <1>4, TickControl
  <2>2. AgeInv'
    BY <1>0, <1>4, TickAge
  <2>3. SourceInv'
    BY <1>0, <1>4 DEF SourceInv, boot
  <2> QED
    BY <2>1, <2>2, <2>3 DEF IInv
<1>5. CASE ClearResetSource
  <2>1. ControlInv'
    BY <1>0, <1>5, ClearControl
  <2>2. AgeInv' /\ SourceInv'
    BY <1>0, <1>5 DEF ClearResetSource, AgeInv, SourceInv, vars, Elapsed
  <2> QED
    BY <2>1, <2>2 DEF IInv
<1>6. CASE UNCHANGED allvars
  BY <1>0, <1>6 DEF allvars, boot, IInv, ControlInv, FlagsOK, DataOK, RegisterInv, RamInv,
                    MainInv, Init, ClockInv, DarkInv, Hclk, AgeInv, Elapsed, SourceInv, vars
<1> QED
  BY <1>1, <1>2, <1>3, <1>4, <1>5, <1>6 DEF BootNext

\* The invariant holds in every reachable state.
THEOREM Invariance == Spec => []IInv
<1>1. BootInit => IInv
  BY InitInv
<1>2. IInv /\ [BootNext]_allvars => IInv'
  BY StepInv
<1> QED
  BY <1>1, <1>2, PTL DEF Spec

\* Every variable keeps its type.
THEOREM TypeCorrect == Spec => []TypeOK
<1>1. ASSUME FlagsOK
      PROVE  {hse, hal_ready, pll_ready, clocked, rcc_initialized, pin_initialized, odr}
               \subseteq BOOLEAN
  BY <1>1, Zenon DEF FlagsOK
<1>2. ASSUME DataOK PROVE {SystemCoreClock, reload, apb1, apb2} \subseteq {0, 8, 36, 72}
  BY <1>2 DEF DataOK
<1>3. IInv => TypeOK
  BY <1>1, <1>2 DEF IInv, ControlInv, DataOK, TypeOK
<1> QED
  BY <1>3, Invariance, PTL

\* Whatever is in the RAM and wherever a reset comes, main() starts from Init.
THEOREM StartsAfresh == Spec => []MainStartsAfresh
<1>1. IInv => MainStartsAfresh
  BY DEF IInv, ControlInv, MainInv, MainStartsAfresh
<1> QED
  BY <1>1, Invariance, PTL

\* Once it is set up the tick is a millisecond, with and without the PLL.
THEOREM TicksAreMilliseconds == Spec => []TickIsOneMillisecond
<1>1. IInv => TickIsOneMillisecond
  BY DEF IInv, ControlInv, ClockInv, Ticking, Looping, TickIsOneMillisecond
<1> QED
  BY <1>1, Invariance, PTL

\* GetResetSource reports the first of the flags that are set.
LEMMA FirstFlag ==
  ASSUME SourceInv
  PROVE  /\ GetResetSource = "PowerOnReset" <=> "PowerOnReset" \in csr
         /\ GetResetSource = "IndependentWatchdogReset" <=>
              "IndependentWatchdogReset" \in csr /\ "PowerOnReset" \notin csr
         /\ GetResetSource = "Unknown" <=> csr = {}
<1> DEFINE IsFirst(i) == /\ ByPriority[i] \in csr
                         /\ \A j \in 1..i - 1 : ByPriority[j] \notin csr
           first == CHOOSE i \in 1..Len(ByPriority) : IsFirst(i)
<1>1. /\ Len(ByPriority) = 6
      /\ ByPriority[1] = "PowerOnReset" /\ ByPriority[2] = "IndependentWatchdogReset"
      /\ ByPriority[3] = "PinReset" /\ ByPriority[4] = "SoftwareReset"
      /\ ByPriority[5] = "WindowedWatchdogReset" /\ ByPriority[6] = "LowPowerReset"
  BY DEF ByPriority
<1>2. CASE csr = {}
  BY <1>2 DEF GetResetSource
<1>3. CASE csr # {}
  <2>1. \E i \in 1..6 : ByPriority[i] \in csr
    <3>1. PICK flag \in csr : TRUE
      BY <1>3
    <3>2. flag \in {"PowerOnReset", "IndependentWatchdogReset", "PinReset", "SoftwareReset",
                   "WindowedWatchdogReset", "LowPowerReset"}
      BY <3>1 DEF SourceInv
    <3>3. \E i \in 1..6 : ByPriority[i] = flag
      <4>1. 1 \in 1..6 /\ 2 \in 1..6 /\ 3 \in 1..6 /\ 4 \in 1..6 /\ 5 \in 1..6 /\ 6 \in 1..6
        OBVIOUS
      <4> QED
        BY <1>1, <3>2, <4>1, Zenon
    <3> QED
      BY <3>1, <3>3
  <2>2. \E i \in 1..6 : IsFirst(i)
    BY <2>1
  <2>3. first \in 1..6 /\ IsFirst(first)
    <3> HIDE DEF IsFirst
    <3> QED
      BY <1>1, <2>2
  <2>4. GetResetSource = ByPriority[first]
    BY <1>3 DEF GetResetSource
  <2> HIDE DEF first
  <2>5. /\ "PowerOnReset" \in csr => first = 1
        /\ "IndependentWatchdogReset" \in csr /\ "PowerOnReset" \notin csr => first = 2
    BY <1>1, <2>3
  <2> QED
    BY <1>1, <1>3, <2>3, <2>4, <2>5
<1> QED
  BY <1>2, <1>3

\* What is reported has happened, the power-on before the watchdog.
THEOREM SourcesAreTrue == Spec => []SourceIsTrue
<1>1. ASSUME SourceInv
      PROVE  /\ "PowerOnReset" \in csr <=> "PowerOnReset" \in causes
             /\ "IndependentWatchdogReset" \in csr <=> "IndependentWatchdogReset" \in causes
             /\ csr = {} <=> causes = {}
  BY <1>1 DEF SourceInv
<1>2. IInv => SourceIsTrue
  BY <1>1, FirstFlag DEF IInv, SourceIsTrue
<1> QED
  BY <1>2, Invariance, PTL

\* No step but a reset changes the LED before it has been in its state for DELAY ticks.
THEOREM DelaysAreKept == Spec => HalfPeriod
<1> DEFINE Kept == odr' # odr => age = DELAY \/ pc' = "copy_data"
<1>1. IInv /\ [BootNext]_allvars => [Kept]_vars
  <2> SUFFICES ASSUME IInv, [BootNext]_allvars, odr' # odr, pc' # "copy_data" PROVE age = DELAY
    OBVIOUS
  <2>1. CASE Main
    BY <2>1 DEF Main, WritePin, BasePin, HalInit, InitializeOscillators, OscConfigReturns,
                InitializeBusClocks, InitializeSysTick, EnablePeripheralClocks,
                UpdateCoreClock, GpioInit, Clear, Toggle, HalDelay, HalDelayReturns,
                IInv, ControlInv, MainInv, Init, DarkInv, Labels, Looping
  <2>2. ~(\E cause : Reset(cause)) /\ ~Boot /\ ~SysTick_Handler /\ ~ClearResetSource
    BY DEF Reset, Boot, CopyDataInit, DataCopied, FillZerobss, BssZeroed, SystemInit, Construct,
           SysTick_Handler, ClearResetSource, vars
  <2>3. BootNext
    BY DEF allvars, vars
  <2> QED
    BY <2>1, <2>2, <2>3 DEF BootNext
<1> QED
  BY <1>1, Invariance, PTL DEF Spec, HalfPeriod
=============================================================================
