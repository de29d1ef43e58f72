---------------------------- MODULE LedNotifier -----------------------------
(***************************************************************************)
(* SimpleLedNotifier (simple_led_notifier.h, simple_led_notifier.cc) and   *)
(* its OutputPins (gpio.h, gpio.cc): each notifier switches its pins one   *)
(* by one.  A notifier is used by one context; the contexts are tasks and  *)
(* interrupts, so that steps of different notifiers come in any order, and *)
(* their pins may be bits of one port's output register.                   *)
(*                                                                         *)
(* HAL_GPIO_WritePin writes the pin alone, through BSRR.  Versions of the  *)
(* HAL differ in HAL_GPIO_TogglePin: all read the output register, and     *)
(* then write either the pin alone or the register back as a whole.        *)
(* The board has been initialized.                                         *)
(***************************************************************************)
EXTENDS Integers, Sequences

CONSTANTS Notifiers,
          Pins,
          output_pins_,     \* [Notifiers -> Seq(Pins)]
          Port,             \* [Pins -> ...]: the pin's port
          pin_state_,       \* [Pins -> BOOLEAN]: the level it is constructed with
          ToggleWritesPort, \* the version of HAL_GPIO_TogglePin
          None

ASSUME LedAssumption ==
         /\ \A n \in Notifiers : output_pins_[n] \in Seq(Pins) /\ output_pins_[n] # <<>>
         /\ \A m, n \in Notifiers :
              \A i \in 1..Len(output_pins_[m]), j \in 1..Len(output_pins_[n]) :
                output_pins_[m][i] = output_pins_[n][j] => m = n /\ i = j
         /\ pin_state_ \in [Pins -> BOOLEAN]
         /\ ToggleWritesPort \in BOOLEAN

VARIABLES
  initialized,      \* [Notifiers -> BOOLEAN]: initialized_
  op,               \* [Notifiers -> ...]: the method in progress
  it,               \* [Notifiers -> Nat]: the iterator of its loop
  seen,             \* what a Toggle() of a pin in progress has read
  pin_initialized,  \* the pins whose initialized_ is set
  odr               \* the output registers: the pins that are high

vars == <<initialized, op, it, seen, pin_initialized, odr>>

Switches == {"on", "off", "toggle"}
PinsOf(n) == {output_pins_[n][i] : i \in 1..Len(output_pins_[n])}

TypeOK ==
  /\ initialized \in [Notifiers -> BOOLEAN]
  /\ op \in [Notifiers -> Switches \cup {"none", "initialize"}]
  /\ it \in [Notifiers -> Nat \ {0}]
  /\ \A n \in Notifiers : it[n] <= Len(output_pins_[n]) + 1
  /\ seen \in [Notifiers -> (SUBSET Pins) \cup {None}]
  /\ pin_initialized \subseteq Pins
  /\ odr \subseteq pin_initialized
  /\ \A n \in Notifiers : initialized[n] => PinsOf(n) \subseteq pin_initialized

Init ==
  /\ initialized = [n \in Notifiers |-> FALSE]
  /\ op = [n \in Notifiers |-> "none"]
  /\ it = [n \in Notifiers |-> 1]
  /\ seen = [n \in Notifiers |-> None]
  /\ pin_initialized = {}
  /\ odr = {}
-----------------------------------------------------------------------------
(* The loops. *)

Pin(n) == output_pins_[n][it[n]]
MissesLast(n) == it[n] = Len(output_pins_[n])      \* fault: the last pin left out
AtEnd(n) == it[n] = Len(output_pins_[n]) + 1

SkipsFirst == 2                                    \* fault: a loop from the second pin
First == 1

Begin(n, method) ==
  /\ op[n] = "none"
  /\ op' = [op EXCEPT ![n] = method]
  /\ it' = [it EXCEPT ![n] = First]
  /\ UNCHANGED <<initialized, seen, pin_initialized, odr>>

NextPin(n) == it' = [it EXCEPT ![n] = @ + 1]

Return(n) == op' = [op EXCEPT ![n] = "none"]
-----------------------------------------------------------------------------
(* Initialize. *)

Initialize(n) == ~initialized[n] /\ Begin(n, "initialize")

\* OutputPin::Initialize writes the pin's first level, each time it is called.
InitializePin(n) ==
  /\ op[n] = "initialize" /\ ~AtEnd(n)
  /\ odr' = IF pin_state_[Pin(n)] THEN odr \cup {Pin(n)} ELSE odr \ {Pin(n)}
  /\ pin_initialized' = pin_initialized \cup {Pin(n)}
  /\ NextPin(n)
  /\ UNCHANGED <<initialized, op, seen>>

\* A pin's error ends the loop; OutputPin has none, other pins may.
PinFails(n) ==
  /\ op[n] = "initialize" /\ ~AtEnd(n)
  /\ Return(n)
  /\ UNCHANGED <<initialized, it, seen, pin_initialized, odr>>

InitializeReturns(n) ==
  /\ op[n] = "initialize" /\ AtEnd(n)
  /\ initialized' = [initialized EXCEPT ![n] = TRUE]
  /\ Return(n)
  /\ UNCHANGED <<it, seen, pin_initialized, odr>>
-----------------------------------------------------------------------------
(* On, Off, Toggle, GetState. *)

Switch(n, method) == initialized[n] /\ Begin(n, method)

\* OutputPin::Set and OutputPin::Clear.
WritePin(n) ==
  /\ op[n] \in {"on", "off"} /\ ~AtEnd(n)
  /\ odr' = IF Pin(n) \notin pin_initialized THEN odr
            ELSE IF op[n] = "on" THEN odr \cup {Pin(n)} ELSE odr \ {Pin(n)}
  /\ NextPin(n)
  /\ UNCHANGED <<initialized, op, seen, pin_initialized>>

\* OutputPin::Toggle: HAL_GPIO_TogglePin reads ...
ReadPort(n) ==
  /\ op[n] = "toggle" /\ ~AtEnd(n)
  /\ seen[n] = None
  /\ seen' = [seen EXCEPT ![n] = odr]
  /\ UNCHANGED <<initialized, op, it, pin_initialized, odr>>

\* ... and writes.
Toggled(old, p) == IF p \in old THEN old \ {p} ELSE old \cup {p}
OthersWritten(n) ==
  {p \in Pins : ToggleWritesPort /\ Port[p] = Port[Pin(n)]}
WriteBack(n) ==
  {p \in Pins : IF p = Pin(n) \/ p \in OthersWritten(n)
                THEN p \in Toggled(seen[n], Pin(n)) ELSE p \in odr}

TogglePin(n) ==
  /\ seen[n] # None
  /\ odr' = WriteBack(n)
  /\ seen' = [seen EXCEPT ![n] = None]
  /\ NextPin(n)
  /\ UNCHANGED <<initialized, op, pin_initialized>>

SwitchReturns(n) ==
  /\ op[n] \in Switches /\ AtEnd(n)
  /\ Return(n)
  /\ UNCHANGED <<initialized, it, seen, pin_initialized, odr>>

GetState(n) == IF ~initialized[n] THEN "unknown"
               ELSE IF output_pins_[n][1] \in odr THEN "on" ELSE "off"
-----------------------------------------------------------------------------
Next == \E n \in Notifiers :
          \/ Initialize(n) \/ InitializePin(n) \/ PinFails(n) \/ InitializeReturns(n)
          \/ \E method \in Switches : Switch(n, method)
          \/ WritePin(n) \/ ReadPort(n) \/ TogglePin(n) \/ SwitchReturns(n)

Spec == Init /\ [][Next]_vars
-----------------------------------------------------------------------------
(* Properties. *)

\* The pins of one notifier are constructed with one level.  Nothing in the code
\* sees to it, and Initialize() leaves other pins as they were constructed.
SameLevel == \A n \in Notifiers : \A p, q \in PinsOf(n) : pin_state_[p] = pin_state_[q]

\* Nor to this: where the HAL's toggle writes a whole port, no two notifiers have
\* pins of one port.
Independent ==
  ToggleWritesPort =>
    \A m, n \in Notifiers : m # n =>
      \A p \in PinsOf(m), q \in PinsOf(n) : Port[p] # Port[q]

\* Between two calls all the pins of a notifier are in the state GetState()
\* reports, though it looks only at the first of them, if SameLevel and Independent.
PinsAgree ==
  \A n \in Notifiers :
    initialized[n] /\ op[n] = "none" => PinsOf(n) \subseteq odr \/ PinsOf(n) \cap odr = {}

\* The notifiers are lights that only their own calls switch, each once, at
\* the moment it writes its first pin; Toggle() takes two steps for each pin.
\* This, too, if SameLevel and Independent.
CallOf(n) == IF op[n] = "initialize" THEN "none"
             ELSE IF op[n] # "none" /\ it[n] > 1 THEN "done" ELSE op[n]
FirstLight(n) == IF pin_state_[output_pins_[n][1]] THEN "on" ELSE "off"
Bank == INSTANCE LedBank WITH Initial <- [n \in Notifiers |-> FirstLight(n)],
                              light <- [n \in Notifiers |-> GetState(n)],
                              call <- [n \in Notifiers |-> CallOf(n)]
BankSpec == Bank!Spec
=============================================================================
