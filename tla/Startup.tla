------------------------------ MODULE Startup -------------------------------
(***************************************************************************)
(* Board from the reset on (startup_stm32f334x8.s, SystemInit and the      *)
(* reset flags of ResetAndClockControl).  A reset may come at any time.  It *)
(* puts the registers back and leaves the RAM as it is, so that the static *)
(* variables of the last run, ResetAndClockControl::initialized_ among     *)
(* them, are still there until Reset_Handler has copied .data and cleared  *)
(* .bss, word by word.                                                     *)
(***************************************************************************)
EXTENDS Board, Sequences, FiniteSets

CONSTANTS MaxResets  \* bound: resets after the first one

VARIABLES
  word,    \* Reset_Handler: the word its loop has reached
  csr,     \* RCC_CSR: the flags of the resets
  causes,  \* history: the resets since the flags were cleared
  resets   \* history: how often the board was reset, up to MaxResets

boot == <<word, csr, causes, resets>>
allvars == <<vars, boot>>

\* The static variables of Board, in the order of their addresses.
Data == <<"SystemCoreClock">>
Bss == <<"apb1", "apb2", "uwTick", "initialized_">>

\* The resets GetResetSource tells apart, in the order in which it looks.
ByPinSecond == <<"PowerOnReset", "PinReset", "IndependentWatchdogReset",
                 "SoftwareReset", "WindowedWatchdogReset", "LowPowerReset">>
                                    \* fault: the pin before the watchdog
ByPriority == <<"PowerOnReset", "IndependentWatchdogReset", "PinReset",
                "SoftwareReset", "WindowedWatchdogReset", "LowPowerReset">>
Sources == {ByPriority[i] : i \in 1..Len(ByPriority)}

\* The first of them whose flag is set.
GetResetSource ==
  IF csr = {} THEN "Unknown"
  ELSE LET first == CHOOSE i \in 1..Len(ByPriority) :
                      /\ ByPriority[i] \in csr
                      /\ \A j \in 1..i - 1 : ByPriority[j] \notin csr
       IN  ByPriority[first]

\* Every reset but a wake-up from standby pulls the NRST pin down and sets
\* its flag, too; only a power-on clears the others.
FlagsAfter(cause) ==
  IF cause = "PowerOnReset" THEN {cause, "PinReset"} ELSE csr \cup {cause, "PinReset"}

-----------------------------------------------------------------------------
(* Resets. *)

\* Power-on: the RAM holds anything.
PowerOn ==
  /\ SystemCoreClock \in {0, 72}
  /\ apb1 \in {0, 36} /\ apb2 \in {0, 72}
  /\ rcc_initialized \in BOOLEAN
  /\ uwTick \in {0, TickModulus - 1}
  /\ csr = {"PowerOnReset", "PinReset"}
  /\ causes = {"PowerOnReset"}

BootInit ==
  /\ pc = "copy_data"
  /\ word = 1
  /\ PowerOn
  /\ hse \in BOOLEAN
  /\ hal_ready = FALSE
  /\ pll_ready = FALSE /\ sysclk = "HSI" /\ reload = 0
  /\ clocked = FALSE /\ mode = "input" /\ odr = FALSE /\ age = DELAY
  /\ pin_initialized = FALSE
  /\ tickstart = 0
  /\ resets = 0

\* The registers start from their reset values, and the crystal may behave
\* differently than before.  A power-on would be a new behaviour.
Reset(cause) ==
  /\ resets < MaxResets
  /\ resets' = resets + 1
  /\ csr' = FlagsAfter(cause)
  /\ causes' = causes \cup {cause}
  /\ pc' = "copy_data"
  /\ word' = 1
  /\ hse' \in BOOLEAN
  /\ hal_ready' = FALSE
  /\ pll_ready' = FALSE /\ sysclk' = "HSI" /\ reload' = 0
  /\ clocked' = FALSE /\ mode' = "input" /\ odr' = FALSE /\ age' = DELAY
  /\ tickstart' = 0
  /\ UNCHANGED <<SystemCoreClock, apb1, apb2, rcc_initialized, uwTick, pin_initialized>>
-----------------------------------------------------------------------------
(* Reset_Handler. *)

BelowEndOffByOne(w, section) == w < Len(section)  \* fault: bcc after a subtraction
BelowEnd(w, section) == w <= Len(section)         \* cmp, bcc

\* One round of the loop from CopyDataInit.
CopyDataInit ==
  /\ pc = "copy_data"
  /\ BelowEnd(word, Data)
  /\ SystemCoreClock' = IF Data[word] = "SystemCoreClock" THEN HSI_VALUE ELSE SystemCoreClock
  /\ word' = word + 1
  /\ UNCHANGED <<pc, hse, pll_ready, sysclk, apb1, apb2, hal_ready, reload, gpio,
                 rcc_initialized, odr, age, uwTick, tickstart, csr, causes, resets>>

DataCopied ==
  /\ pc = "copy_data"
  /\ ~BelowEnd(word, Data)
  /\ pc' = "zero_bss"
  /\ word' = 1
  /\ UNCHANGED <<clocks, hal_ready, reload, gpio, rcc_initialized, odr, age, uwTick,
                 tickstart, csr, causes, resets>>

\* One round of the loop from FillZerobss.
FillZerobss ==
  /\ pc = "zero_bss"
  /\ BelowEnd(word, Bss)
  /\ apb1' = IF Bss[word] = "apb1" THEN 0 ELSE apb1
  /\ apb2' = IF Bss[word] = "apb2" THEN 0 ELSE apb2
  /\ uwTick' = IF Bss[word] = "uwTick" THEN 0 ELSE uwTick
  /\ rcc_initialized' = (rcc_initialized /\ Bss[word] # "initialized_")
  /\ word' = word + 1
  /\ UNCHANGED <<pc, hse, pll_ready, sysclk, SystemCoreClock, hal_ready, reload, gpio,
                 odr, age, tickstart, csr, causes, resets>>

BssZeroed ==
  /\ pc = "zero_bss"
  /\ ~BelowEnd(word, Bss)
  /\ pc' = "system_init"
  /\ word' = 1
  /\ UNCHANGED <<clocks, hal_ready, reload, gpio, rcc_initialized, odr, age, uwTick,
                 tickstart, csr, causes, resets>>

SystemInit ==
  /\ pc = "system_init"
  /\ sysclk' = "HSI"
  /\ pll_ready' = FALSE
  /\ pc' = "construct"
  /\ UNCHANGED <<hse, SystemCoreClock, apb1, apb2, hal_ready, reload, gpio, rcc_initialized,
                 odr, age, uwTick, tickstart, boot>>

\* main() builds the board's objects on its stack.
Construct ==
  /\ pc = "construct"
  /\ pin_initialized' = FALSE
  /\ pc' = "write_pin"
  /\ UNCHANGED <<clocks, clocked, mode, hal_ready, reload, rcc_initialized,
                 odr, age, uwTick, tickstart, boot>>

\* A user of the board's ResetAndClockControl has read the source.
ClearResetSource ==
  /\ pc = "toggle"
  /\ csr' = {}
  /\ causes' = {}
  /\ UNCHANGED <<vars, word, resets>>
-----------------------------------------------------------------------------
Boot == CopyDataInit \/ DataCopied \/ FillZerobss \/ BssZeroed \/ SystemInit \/ Construct

BootNext == \/ \E cause \in Sources \ {"PowerOnReset"} : Reset(cause)
            \/ Boot
            \/ Main /\ UNCHANGED boot
            \/ SysTick_Handler /\ UNCHANGED boot
            \/ ClearResetSource

Spec == BootInit /\ [][BootNext]_allvars

\* The processor executes Reset_Handler and main(), and the timer that it
\* started keeps ticking.  Resets stop at MaxResets.
FairSpec ==
  /\ Spec
  /\ WF_allvars(Boot)
  /\ WF_allvars(Main /\ UNCHANGED boot)
  /\ WF_allvars(SysTick_Handler /\ UNCHANGED boot)
-----------------------------------------------------------------------------
(* Properties. *)

\* Whatever an earlier run left in the RAM and wherever the reset came, main()
\* starts from the state that Board assumes.
MainStartsAfresh == pc = "write_pin" => Init

\* A power-on and a watchdog are reported exactly if they have happened since
\* the flags were cleared, the power-on first; other resets only if one has
\* happened, but software, window watchdog and low-power as the pin they pull.
SourceIsTrue ==
  /\ GetResetSource = "PowerOnReset" <=> "PowerOnReset" \in causes
  /\ GetResetSource = "IndependentWatchdogReset" <=>
       "IndependentWatchdogReset" \in causes /\ "PowerOnReset" \notin causes
  /\ GetResetSource = "Unknown" <=> causes = {}

\* The LED never changes before it has been in its state for DELAY ticks, but
\* by a reset, also when the tick counter wraps in the middle of HAL_Delay.
HalfPeriod == [][odr' # odr => age = DELAY \/ pc' = "copy_data"]_vars

\* Once the resets stop the board comes up, with and without its crystal, and
\* the LED blinks.
Blinks == []<>Lit /\ []<>~Lit
=============================================================================
