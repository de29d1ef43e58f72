------------------------------- MODULE Serial -------------------------------
(***************************************************************************)
(* The drivers SPI, I2C and UART (spi.cc, i2c.cc, uart.cc), one object of  *)
(* each, used by tasks of different priorities without any lock but the    *)
(* HAL's.  All three initialize themselves on first use in the same way:   *)
(* a check of initialized_, their pins one by one, the HAL's Init of the   *)
(* peripheral, and at last initialized_ = true; a second task may come in  *)
(* between.  SPI also lends its slave to one task at a time.               *)
(*                                                                         *)
(* The kernel preempts by priority and the HAL's calls poll, so that a     *)
(* task in a call is interrupted by higher tasks, which finish their own   *)
(* calls first, and by equal ones, with which it is time-sliced.           *)
(* InitializeHardware has been called before (Board).  Lengths and         *)
(* contents of transfers are left out.                                     *)
(***************************************************************************)
EXTENDS Integers, Sequences

CONSTANTS Tasks,      \* the tasks that use the drivers
          Priority,   \* [Tasks -> Nat], not necessarily different ones
          MayBlock,   \* the tasks that may wait for something while they have the slave
          Uses,       \* [Tasks -> SUBSET Drivers]: the drivers a task calls
          Static      \* the drivers whose objects are static, and so begin as zeros

Drivers == {"SPI", "I2C", "UART"}

ASSUME SerialAssumption ==
  /\ Priority \in [Tasks -> Nat]
  /\ MayBlock \subseteq Tasks
  /\ Uses \in [Tasks -> SUBSET Drivers]
  /\ Static \subseteq Drivers

VARIABLES
  at,           \* where a task is inside a call
  driver,       \* the object it has called, "none" outside
  pin,          \* how many pins its ConfigurePins has been through
  wired,        \* the drivers that were given pins they can work with
  initialized,  \* initialized_ of the objects
  State, Lock,  \* of the HAL's handles: "reset", "ready" or "busy"; locked?
  configured,   \* history: the peripheral is set up, and nobody is setting it up
  mode,         \* the pins' alternate functions, "none" before Initialize
  cs_state,     \* pin_state_ of the chip select
  cs,           \* the chip select's output: low, FALSE, selects the slave
  held          \* the tasks that were told that they selected it

calls == <<at, driver, pin>>
handles == <<initialized, State, Lock, configured>>
slave == <<cs, held>>
wiring == <<wired, cs_state>>
vars == <<calls, handles, mode, wiring, slave>>

\* The pins of the drivers, in the order of ConfigurePins, each an object of
\* its own.  The chip select comes after those of SPI.
PinsCtsTwice == [SPI |-> <<"miso", "mosi", "sclk">>, I2C |-> <<"scl", "sda">>,
                 UART |-> <<"tx", "rx", "cts", "cts">>]  \* fault: rts_ forgotten
Pins == [SPI |-> <<"miso", "mosi", "sclk">>, I2C |-> <<"scl", "sda">>,
         UART |-> <<"tx", "rx", "cts", "rts">>]
AlternateFunction == [SPI |-> "GPIO_AF6_SPI3", I2C |-> "GPIO_AF4_I2C1",
                      UART |-> "GPIO_AF7_USART3"]
AllPins == {"miso", "mosi", "sclk", "scl", "sda", "tx", "rx", "cts", "rts"}
Needs == [SPI |-> {"miso", "mosi", "sclk"}, I2C |-> {"scl", "sda"},
          UART |-> {"tx", "rx", "cts", "rts"}]

Initializing == {"pins", "cs_write", "cs_set", "hal_init", "hal_returns", "set_flag"}

TypeOK ==
  /\ at \in [Tasks -> Initializing \cup {"idle", "select", "deselect", "transfer"}]
  /\ driver \in [Tasks -> Drivers \cup {"none"}]
  /\ pin \in [Tasks -> 0..4]
  /\ initialized \in [Drivers -> BOOLEAN]
  /\ State \in [Drivers -> {"reset", "ready", "busy"}]
  /\ Lock \in [Drivers -> BOOLEAN]
  /\ configured \in [Drivers -> BOOLEAN]
  /\ mode \in [AllPins -> {"none", "GPIO_AF6_SPI3", "GPIO_AF4_I2C1", "GPIO_AF7_USART3"}]
  /\ wired \subseteq Drivers
  /\ cs_state \in BOOLEAN /\ cs \in BOOLEAN
  /\ held \subseteq Tasks

\* The constructors set initialized_ and not the handles.
Init ==
  /\ at = [t \in Tasks |-> "idle"]
  /\ driver = [t \in Tasks |-> "none"]
  /\ pin = [t \in Tasks |-> 0]
  /\ initialized = [d \in Drivers |-> FALSE]
  /\ wired \in {W \in SUBSET Drivers : "SPI" \in W}
  /\ State \in [Drivers -> {"reset", "ready"}]
  /\ Lock \in [Drivers -> BOOLEAN]
  /\ \A d \in Static : State[d] = "reset" /\ ~Lock[d]
  /\ configured = [d \in Drivers |-> FALSE]
  /\ mode = [p \in AllPins |-> "none"]
  /\ cs_state \in BOOLEAN
  /\ cs = TRUE             \* the level of the line while the pin is an input
  /\ held = {}
-----------------------------------------------------------------------------
(* The scheduler. *)

\* A task that is running, or would be if no higher one were.
Occupied(t) == at[t] # "idle" \/ (t \in held /\ t \notin MayBlock)

Scheduled(t) == \A u \in Tasks : Occupied(u) => Priority[u] <= Priority[t]

Idle(t) == at[t] = "idle" /\ Scheduled(t)
Goes(t, label) == at' = [at EXCEPT ![t] = label]
Enters(t, d, label) == Goes(t, label) /\ driver' = [driver EXCEPT ![t] = d]
Returns(t) == Enters(t, "none", "idle")
-----------------------------------------------------------------------------
(* Initialize. *)

GuardDropped(d) == FALSE                  \* fault: the early return left out
AlreadyInitialized(d) == initialized[d]

\* Up to ConfigurePins, which compares the pins of I2C and UART first and
\* returns INVALID_PINS, as an early return does, without a trace.
Initialize(t, d) ==
  /\ Idle(t) /\ d \in Uses[t]
  /\ ~AlreadyInitialized(d) /\ d \in wired
  /\ Enters(t, d, "pins")
  /\ UNCHANGED <<pin, handles, mode, wiring, slave>>

\* BaseGPIOPin::Initialize of the next pin.  It cannot fail.
ConfigurePin(t) ==
  /\ at[t] = "pins" /\ Scheduled(t)
  /\ pin[t] < Len(Pins[driver[t]])
  /\ pin' = [pin EXCEPT ![t] = @ + 1]
  /\ mode' = [mode EXCEPT ![Pins[driver[t]][pin'[t]]] =
                IF @ = "none" THEN AlternateFunction[driver[t]] ELSE @]
  /\ UNCHANGED <<at, driver, handles, wiring, slave>>

PinsConfigured(t) ==
  /\ at[t] = "pins" /\ Scheduled(t)
  /\ pin[t] = Len(Pins[driver[t]])
  /\ Goes(t, IF driver[t] = "SPI" THEN "cs_write" ELSE "hal_init")
  /\ pin' = [pin EXCEPT ![t] = 0]
  /\ UNCHANGED <<driver, handles, mode, wiring, slave>>

\* OutputPin::Initialize writes the pin's first level every time.
CsInitialize(t) ==
  /\ at[t] = "cs_write" /\ Scheduled(t)
  /\ cs' = cs_state
  /\ Goes(t, "cs_set")
  /\ UNCHANGED <<driver, pin, handles, mode, wiring, held>>

CsSetForgotten(t) ==  \* fault: "disable initially" left out
  /\ at[t] = "cs_set" /\ Scheduled(t)
  /\ Goes(t, "hal_init")
  /\ UNCHANGED <<driver, pin, handles, mode, wiring, slave>>

CsSet(t) ==
  /\ at[t] = "cs_set" /\ Scheduled(t)
  /\ cs' = TRUE
  /\ Goes(t, "hal_init")
  /\ UNCHANGED <<driver, pin, handles, mode, wiring, held>>

ResetsNothing(d) == FALSE                   \* fault: the assignment to State left out
ResetsState(d) == d = "I2C"

\* The HAL's Init unlocks only a handle that is in the reset state.
HalInit(t) ==
  LET d == driver[t]
  IN  /\ at[t] = "hal_init" /\ Scheduled(t)
      /\ Lock' = [Lock EXCEPT ![d] = @ /\ ~(ResetsState(d) \/ State[d] = "reset")]
      /\ State' = [State EXCEPT ![d] = "busy"]
      /\ configured' = [configured EXCEPT ![d] = FALSE]
      /\ Goes(t, "hal_returns")
      /\ UNCHANGED <<driver, pin, initialized, mode, wiring, slave>>

HalInitReturns(t) ==
  /\ at[t] = "hal_returns" /\ Scheduled(t)
  /\ State' = [State EXCEPT ![driver[t]] = "ready"]
  /\ configured' = [configured EXCEPT ![driver[t]] = TRUE]
  /\ Goes(t, "set_flag")
  /\ UNCHANGED <<driver, pin, initialized, Lock, mode, wiring, slave>>

\* An error ends Initialize; the handle is left in the state of a call.
HalInitFails(t) ==
  /\ at[t] = "hal_returns" /\ Scheduled(t)
  /\ Returns(t)
  /\ UNCHANGED <<pin, handles, mode, wiring, slave>>

SetFlag(t) ==
  /\ at[t] = "set_flag" /\ Scheduled(t)
  /\ initialized' = [initialized EXCEPT ![driver[t]] = TRUE]
  /\ Returns(t)
  /\ UNCHANGED <<pin, State, Lock, configured, mode, wiring, slave>>
-----------------------------------------------------------------------------
(* Transmit and Receive, Write and Read. *)

\* The HAL refuses a handle that is locked or busy, the driver an object that
\* is not initialized; both leave everything as it is.  A user of SPI selects
\* the slave first.
Transfer(t, d) ==
  /\ Idle(t) /\ d \in Uses[t]
  /\ d = "SPI" => t \in held
  /\ initialized[d]
  /\ State[d] = "ready" /\ ~Lock[d]
  /\ State' = [State EXCEPT ![d] = "busy"]
  /\ Lock' = [Lock EXCEPT ![d] = TRUE]
  /\ Enters(t, d, "transfer")
  /\ UNCHANGED <<pin, initialized, configured, mode, wiring, slave>>

\* With all the bytes, with an error of the bus or at the timeout.
TransferReturns(t) ==
  /\ at[t] = "transfer" /\ Scheduled(t)
  /\ State' = [State EXCEPT ![driver[t]] = "ready"]
  /\ Lock' = [Lock EXCEPT ![driver[t]] = FALSE]
  /\ Returns(t)
  /\ UNCHANGED <<pin, initialized, configured, mode, wiring, slave>>
-----------------------------------------------------------------------------
(* SelectSlave and DeselectSlave: a look at the chip select, then a write. *)

NotLooked == TRUE               \* fault: the look at the chip select left out
Unselected == cs

SelectSlave(t) ==
  /\ Idle(t) /\ "SPI" \in Uses[t] /\ t \notin held
  /\ initialized["SPI"]
  /\ Unselected
  /\ Enters(t, "SPI", "select")
  /\ UNCHANGED <<pin, handles, mode, wiring, slave>>

CsClear(t) ==
  /\ at[t] = "select" /\ Scheduled(t)
  /\ cs' = FALSE
  /\ held' = held \cup {t}
  /\ Returns(t)
  /\ UNCHANGED <<pin, handles, mode, wiring>>

\* Called by a task that has selected the slave.
DeselectSlave(t) ==
  /\ Idle(t) /\ t \in held
  /\ ~cs
  /\ Enters(t, "SPI", "deselect")
  /\ UNCHANGED <<pin, handles, mode, wiring, slave>>

CsSetAgain(t) ==
  /\ at[t] = "deselect" /\ Scheduled(t)
  /\ cs' = TRUE
  /\ held' = held \ {t}
  /\ Returns(t)
  /\ UNCHANGED <<pin, handles, mode, wiring>>
-----------------------------------------------------------------------------
Next == \E t \in Tasks :
          \/ \E d \in Drivers : Initialize(t, d) \/ Transfer(t, d)
          \/ ConfigurePin(t) \/ PinsConfigured(t) \/ CsInitialize(t) \/ CsSet(t)
          \/ HalInit(t) \/ HalInitReturns(t) \/ HalInitFails(t) \/ SetFlag(t)
          \/ TransferReturns(t)
          \/ SelectSlave(t) \/ CsClear(t) \/ DeselectSlave(t) \/ CsSetAgain(t)

Spec == Init /\ [][Next]_vars
-----------------------------------------------------------------------------
(* Properties. *)

\* What some of them need, and neither the code nor the kernel sees to: the tasks
\* that share a driver are not time-sliced with each other, and only the lowest of
\* those that share the slave blocks while it has it.
Distinct(d) ==
  \A t, u \in Tasks : d \in Uses[t] \cap Uses[u] /\ Priority[t] = Priority[u] => t = u
LowestBlocks ==
  \A t \in MayBlock, u \in Tasks :
    "SPI" \in Uses[t] \cap Uses[u] /\ u # t => Priority[u] > Priority[t]

\* Though SelectSlave looks at the chip select before it writes it, and
\* Initialize writes it whoever has the slave, the slave is lent to one task
\* at a time and taken back only by that task, if Distinct("SPI") and LowestBlocks.
SL == INSTANCE SlaveLock
SlaveLockSpec == SL!Spec

\* The slave of a task that was told so is selected: nobody else's Initialize
\* or DeselectSlave raises the chip select in between, and the task's own
\* DeselectSlave is not refused, if Distinct("SPI") and LowestBlocks.
HeldIsSelected == held # {} => ~cs

\* SelectSlave is refused only because some task has the slave, if the chip
\* select was built with the level that deselects it.  With the default level
\* a task that is still inside Initialize makes it refuse, too.
RefusalIsHonest ==
  \A t \in Tasks : Idle(t) /\ initialized["SPI"] /\ ~cs =>
    held # {} \/ (~cs_state /\ \E u \in Tasks : at[u] = "cs_set")

\* No transfer runs on a peripheral that is not set up, or that another task
\* begins to set up again, if Distinct holds of every driver.
TransfersUndisturbed == \A t \in Tasks : at[t] = "transfer" => configured[driver[t]]

\* An initialized driver has every pin it needs in its alternate function.
PinsAreConfigured ==
  \A d \in Drivers : initialized[d] => \A p \in Needs[d] : mode[p] = AlternateFunction[d]

\* The handle of an initialized driver is free when nobody uses it, if the
\* object is static or its Initialize resets the handle's state: I2C's does.
IsIdleHandleFree ==
  \A d \in Static \cup {"I2C"} :
    initialized[d] /\ (\A t \in Tasks : driver[t] # d) => ~Lock[d]
=============================================================================
