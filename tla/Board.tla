------------------------------- MODULE Board --------------------------------
(***************************************************************************)
(* The program that is built today: main() brings up the board through     *)
(* Hardware, OutputPin, BaseGPIOPin and ResetAndClockControl and then      *)
(* blinks LED 1 for ever, while the SysTick interrupt counts milliseconds. *)
(*                                                                         *)
(* main() is one thread of control, so its next step is a label; the tick  *)
(* interrupt comes between any two steps.  The HAL is not in the           *)
(* repository and is modelled by what the code uses of it.  Frequencies    *)
(* are in MHz.  The external oscillator (HSE) may fail to start.           *)
(***************************************************************************)
EXTENDS Integers

CONSTANTS DELAY,                \* the argument of HAL_Delay, in ticks
          HSE_STARTUP_TIMEOUT,  \* in ticks
          TickModulus           \* uwTick wraps here: 2^32 on the target

ASSUME BoardAssumption == /\ DELAY \in Nat \ {0}
                          /\ HSE_STARTUP_TIMEOUT \in Nat \ {0}
                          /\ TickModulus \in Nat
                          /\ DELAY + 1 < TickModulus
                          /\ HSE_STARTUP_TIMEOUT + 1 < TickModulus

HSI_VALUE == 8
HSE_VALUE == 8
PLL_MUL == 9
pin_state_ == FALSE   \* the level led1_pin_ is constructed with

VARIABLES
  pc,               \* the next step of main()
  hse,              \* does the external oscillator start?
  hal_ready,        \* HAL_Init has been called
  pll_ready,        \* RCC: the PLL runs
  sysclk,           \* RCC: the clock in use, "HSI" or "PLL"
  SystemCoreClock,  \* the CMSIS variable
  apb1, apb2,       \* apb1_timer_frequency_hz_ and apb2_timer_frequency_hz_
  reload,           \* SysTick: thousands of core cycles per tick; 0: stopped
  clocked,          \* RCC: GPIOA has its clock
  rcc_initialized,  \* ResetAndClockControl::initialized_
  pin_initialized,  \* led1_base_pin_.initialized_
  mode,             \* GPIOA: the mode of the LED's pin
  odr,              \* GPIOA: the output bit of the LED's pin
  uwTick,           \* the HAL's tick counter
  tickstart,        \* the tick at which the current wait began
  age               \* history: ticks since odr last changed, up to DELAY

clocks == <<hse, pll_ready, sysclk, SystemCoreClock, apb1, apb2>>
gpio == <<clocked, pin_initialized, mode>>
vars == <<pc, hse, hal_ready, pll_ready, sysclk, SystemCoreClock, apb1, apb2,
          reload, clocked, rcc_initialized, pin_initialized, mode, odr,
          uwTick, tickstart, age>>

Labels == {"write_pin", "base_pin", "hal_init", "oscillators", "hse_wait",
           "bus_clocks", "systick", "peripheral_clocks", "core_clock",
           "gpio_init", "clear", "toggle", "delay", "delaying"}
BootLabels == {"copy_data", "zero_bss", "system_init", "construct"}  \* in Startup

TypeOK ==
  /\ pc \in Labels \cup BootLabels
  /\ {hse, hal_ready, pll_ready, clocked, rcc_initialized, pin_initialized, odr}
        \subseteq BOOLEAN
  /\ sysclk \in {"HSI", "PLL"}
  /\ {SystemCoreClock, reload, apb1, apb2} \subseteq {0, 8, 36, 72}
  /\ mode \in {"input", "output"}
  /\ uwTick \in 0..TickModulus - 1
  /\ tickstart \in 0..TickModulus - 1
  /\ age \in 0..DELAY

\* After Reset_Handler and SystemInit, as main() has built its objects: what
\* Startup has to establish, whatever happened before.
Init ==
  /\ pc = "write_pin"
  /\ hse \in BOOLEAN
  /\ hal_ready = FALSE
  /\ pll_ready = FALSE
  /\ sysclk = "HSI"
  /\ SystemCoreClock = HSI_VALUE
  /\ apb1 = 0 /\ apb2 = 0
  /\ reload = 0
  /\ clocked = FALSE
  /\ rcc_initialized = FALSE
  /\ pin_initialized = FALSE
  /\ mode = "input"
  /\ odr = FALSE
  /\ uwTick = 0
  /\ tickstart = 0
  /\ age = DELAY

\* What the core really runs at.
Hclk == IF sysclk = "PLL" THEN HSE_VALUE * PLL_MUL ELSE HSI_VALUE

\* Ticks since tickstart, in the unsigned arithmetic of uint32_t.
Elapsed == (uwTick - tickstart) % TickModulus

\* A write reaches the output register only of a port that has its clock.
WriteOdr(level) ==
  /\ odr' = IF clocked THEN level ELSE odr
  /\ age' = IF odr' # odr THEN 0 ELSE age
-----------------------------------------------------------------------------
(* Hardware::Initialize: OutputPin::Initialize, which writes the pin first. *)

WritePin ==
  /\ pc = "write_pin"
  /\ WriteOdr(pin_state_)
  /\ pc' = "base_pin"
  /\ UNCHANGED <<clocks, gpio, hal_ready, reload, rcc_initialized, uwTick, tickstart>>

\* BaseGPIOPin::Initialize up to the early return of InitializeHardware.
BasePin ==
  /\ pc = "base_pin"
  /\ pc' = IF pin_initialized THEN "clear"
           ELSE IF rcc_initialized THEN "gpio_init" ELSE "hal_init"
  /\ UNCHANGED <<clocks, gpio, hal_ready, reload, rcc_initialized, odr, age,
                 uwTick, tickstart>>

\* HAL_Init starts the tick from the SystemCoreClock it finds.
HalInit ==
  /\ pc = "hal_init"
  /\ hal_ready' = TRUE
  /\ reload' = SystemCoreClock
  /\ pc' = "oscillators"
  /\ UNCHANGED <<clocks, gpio, rcc_initialized, odr, age, uwTick, tickstart>>

\* InitializeOscillators: HAL_RCC_OscConfig turns HSE on and waits for it.
InitializeOscillators ==
  /\ pc = "oscillators"
  /\ tickstart' = uwTick
  /\ pc' = "hse_wait"
  /\ UNCHANGED <<clocks, gpio, hal_ready, reload, rcc_initialized, odr, age, uwTick>>

\* It starts the PLL from HSE, or returns HAL_TIMEOUT, which nobody looks at.
OscConfigReturns ==
  /\ pc = "hse_wait"
  /\ hse \/ Elapsed > HSE_STARTUP_TIMEOUT
  /\ pll_ready' = hse
  /\ pc' = "bus_clocks"
  /\ UNCHANGED <<hse, sysclk, SystemCoreClock, apb1, apb2, gpio, hal_ready, reload,
                 rcc_initialized, odr, age, uwTick, tickstart>>

RecordedApb1AsCommented == 42       \* fault: the value of the comment beside it
RecordedApb1 == 36

\* HAL_RCC_ClockConfig switches to the PLL and restarts the tick, or fails
\* because there is no PLL; the constants are set in both cases.
InitializeBusClocks ==
  /\ pc = "bus_clocks"
  /\ IF pll_ready
     THEN /\ sysclk' = "PLL"
          /\ SystemCoreClock' = HSE_VALUE * PLL_MUL
          /\ reload' = SystemCoreClock'
     ELSE UNCHANGED <<sysclk, SystemCoreClock, reload>>
  /\ apb1' = RecordedApb1
  /\ apb2' = 72
  /\ pc' = "systick"
  /\ UNCHANGED <<hse, pll_ready, gpio, hal_ready, rcc_initialized, odr, age,
                 uwTick, tickstart>>

SysTickLoadConstant == 72           \* fault: the frequency main expects
SysTickLoad == SystemCoreClock      \* HAL_RCC_GetHCLKFreq() / 1000

InitializeSysTick ==
  /\ pc = "systick"
  /\ reload' = SysTickLoad
  /\ pc' = "peripheral_clocks"
  /\ UNCHANGED <<clocks, gpio, hal_ready, rcc_initialized, odr, age, uwTick, tickstart>>

PortAForgotten == FALSE             \* fault: GPIOA's line commented out, too
EnablesPortA == TRUE

\* EnablePeripheralClocks, EnableRTCClock and the end of SystemClockConfig.
EnablePeripheralClocks ==
  /\ pc = "peripheral_clocks"
  /\ clocked' = EnablesPortA
  /\ pc' = "core_clock"
  /\ UNCHANGED <<clocks, pin_initialized, mode, hal_ready, reload,
                 rcc_initialized, odr, age, uwTick, tickstart>>

\* SystemCoreClockUpdate reads the frequency back from the RCC registers.
UpdateCoreClock ==
  /\ pc = "core_clock"
  /\ SystemCoreClock' = Hclk
  /\ rcc_initialized' = TRUE
  /\ pc' = "gpio_init"
  /\ UNCHANGED <<hse, pll_ready, sysclk, apb1, apb2, gpio, hal_ready, reload,
                 odr, age, uwTick, tickstart>>

GpioInit ==
  /\ pc = "gpio_init"
  /\ mode' = IF clocked THEN "output" ELSE mode
  /\ pin_initialized' = TRUE
  /\ pc' = "clear"
  /\ UNCHANGED <<clocks, clocked, hal_ready, reload, rcc_initialized, odr, age,
                 uwTick, tickstart>>
-----------------------------------------------------------------------------
(* main() after hw.Initialize(). *)

\* OutputPin::Clear, a no-op on a pin that is not initialized.
Clear ==
  /\ pc = "clear"
  /\ IF pin_initialized THEN WriteOdr(FALSE) ELSE UNCHANGED <<odr, age>>
  /\ pc' = "toggle"
  /\ UNCHANGED <<clocks, gpio, hal_ready, reload, rcc_initialized, uwTick, tickstart>>

Toggle ==
  /\ pc = "toggle"
  /\ IF pin_initialized THEN WriteOdr(~odr) ELSE UNCHANGED <<odr, age>>
  /\ pc' = "delay"
  /\ UNCHANGED <<clocks, gpio, hal_ready, reload, rcc_initialized, uwTick, tickstart>>

\* HAL_Delay adds a tick to wait for at least DELAY full ones.
HalDelay ==
  /\ pc = "delay"
  /\ tickstart' = uwTick
  /\ pc' = "delaying"
  /\ UNCHANGED <<clocks, gpio, hal_ready, reload, rcc_initialized, odr, age, uwTick>>

LoopHeadClears == "clear"           \* fault: Clear() inside the loop
LoopHead == "toggle"

HalDelayReturns ==
  /\ pc = "delaying"
  /\ Elapsed >= DELAY + 1
  /\ pc' = LoopHead
  /\ UNCHANGED <<clocks, gpio, hal_ready, reload, rcc_initialized, odr, age,
                 uwTick, tickstart>>

Main == \/ WritePin \/ BasePin \/ HalInit
        \/ InitializeOscillators \/ OscConfigReturns \/ InitializeBusClocks
        \/ InitializeSysTick \/ EnablePeripheralClocks \/ UpdateCoreClock
        \/ GpioInit \/ Clear \/ Toggle \/ HalDelay \/ HalDelayReturns
-----------------------------------------------------------------------------
HAL_IncTick(n) == (n + 1) % TickModulus

\* The interrupt, as long as main()'s wait loops see every value of the
\* counter: they are a few instructions long, a tick is a millisecond.
SysTick_Handler ==
  /\ reload # 0
  /\ pc = "delaying" => Elapsed <= DELAY + 1
  /\ pc = "hse_wait" => Elapsed <= HSE_STARTUP_TIMEOUT + 1
  /\ uwTick' = HAL_IncTick(uwTick)
  /\ age' = IF age < DELAY THEN age + 1 ELSE age
  /\ UNCHANGED <<pc, clocks, gpio, hal_ready, reload, rcc_initialized, odr, tickstart>>

-----------------------------------------------------------------------------
(* Properties, of Startup's behaviours. *)

\* Once InitializeSysTick has run, a tick is one millisecond of the clock the
\* core really has, whether or not the PLL could be started.
TickIsOneMillisecond ==
  pc \in {"peripheral_clocks", "core_clock", "gpio_init", "clear", "toggle",
          "delay", "delaying"} => reload = Hclk

\* The LED is on, for those who look at the board.
Lit == mode = "output" /\ odr
=============================================================================
