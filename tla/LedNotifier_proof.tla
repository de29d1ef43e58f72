------------------------- MODULE LedNotifier_proof --------------------------
(***************************************************************************)
(* Proofs about LedNotifier for any notifiers with any number of pins.     *)
(* What depends on it is proved for Independent: where the HAL's toggle    *)
(* writes a whole port, no two notifiers have pins of one port, and for    *)
(* SameLevel: the pins of one notifier are constructed with one level.     *)
(***************************************************************************)
EXTENDS LedNotifier, SequenceTheorems, TLAPS

Index(n) == 1..Len(output_pins_[n])

High(n, i) == output_pins_[n][i] \in odr
Initially(n) == pin_state_[output_pins_[n][1]]

\* A Toggle() of a pin in progress is inside the loop and has read pins that
\* are initialized.
SeenInv == \A n \in Notifiers :
  seen[n] # None => /\ op[n] = "toggle" /\ it[n] \in Index(n)
                    /\ seen[n] \subseteq pin_initialized

\* Initialize() is over once all pins are initialized; the others come later.
InitializeInv == \A n \in Notifiers :
  /\ op[n] = "initialize" => /\ ~initialized[n]
                             /\ \A i \in Index(n) : i < it[n] =>
                                  output_pins_[n][i] \in pin_initialized
  /\ op[n] \in Switches => initialized[n]

\* What a Toggle() has read is still true of the pins it may write.
FreshInv == \A n \in Notifiers :
  seen[n] # None =>
    \A p \in Pins : p = Pin(n) \/ p \in OthersWritten(n) => (p \in seen[n] <=> p \in odr)

\* Where a loop has been, the pins have their new state, and ahead of it the
\* old one, which all of them share.
Levels(n) ==
  /\ op[n] = "none" /\ initialized[n] => \A i, j \in Index(n) : High(n, i) <=> High(n, j)
  /\ op[n] = "initialize" => \A i \in Index(n) : i < it[n] => (High(n, i) <=> Initially(n))
  /\ op[n] = "on" => \A i \in Index(n) : i < it[n] => High(n, i)
  /\ op[n] = "off" => \A i \in Index(n) : i < it[n] => ~High(n, i)
  /\ op[n] \in Switches =>
       \A i, j \in Index(n) : it[n] <= i /\ it[n] <= j => (High(n, i) <=> High(n, j))
  /\ op[n] = "toggle" =>
       /\ \A i, j \in Index(n) : i < it[n] /\ j < it[n] => (High(n, i) <=> High(n, j))
       /\ \A i, j \in Index(n) : i < it[n] /\ it[n] <= j => (High(n, i) <=> ~High(n, j))

LevelInv == \A n \in Notifiers : Levels(n)

IInv == /\ TypeOK
        /\ SeenInv
        /\ InitializeInv
        /\ Independent => FreshInv
        /\ Independent /\ SameLevel => LevelInv
-----------------------------------------------------------------------------
\* The pins of a notifier.
LEMMA PinsAreListed ==
  ASSUME NEW n \in Notifiers
  PROVE  /\ Len(output_pins_[n]) \in Nat \ {0}
         /\ \A i \in Index(n) : output_pins_[n][i] \in Pins /\ output_pins_[n][i] \in PinsOf(n)
         /\ 1 \in Index(n)
<1>1. output_pins_[n] \in Seq(Pins) /\ output_pins_[n] # <<>>
  BY LedAssumption
<1>2. Len(output_pins_[n]) \in Nat \ {0}
  BY <1>1, EmptySeq, LenProperties
<1>3. \A i \in 1..Len(output_pins_[n]) : output_pins_[n][i] \in Pins
  BY <1>1, ElementOfSeq
<1> QED
  BY <1>2, <1>3 DEF Index, PinsOf

\* No pin is listed twice.
LEMMA PinsDiffer ==
  ASSUME NEW m \in Notifiers, NEW n \in Notifiers, NEW i \in Index(m), NEW j \in Index(n),
         output_pins_[m][i] = output_pins_[n][j]
  PROVE  m = n /\ i = j
BY LedAssumption DEF Index

\* Every step is one of these: the case split of the proofs below.
LEMMA StepCases ==
  ASSUME [Next]_vars
  PROVE  \/ \E n \in Notifiers :
              \/ Initialize(n) \/ \E method \in Switches : Switch(n, method)
              \/ InitializePin(n) \/ PinFails(n) \/ InitializeReturns(n)
              \/ WritePin(n) \/ ReadPort(n) \/ TogglePin(n) \/ SwitchReturns(n)
         \/ UNCHANGED vars
BY DEF Next

\* Every step keeps types, and the order of loops and initializations.
LEMMA BasicStep ==
  ASSUME TypeOK, SeenInv, InitializeInv, [Next]_vars
  PROVE  TypeOK' /\ SeenInv' /\ InitializeInv'
<1> USE DEF TypeOK, SeenInv, InitializeInv, Index, Switches
<1>0. \A n \in Notifiers : Len(output_pins_[n]) \in Nat \ {0}
  BY PinsAreListed
<1>1. ASSUME NEW n \in Notifiers, Initialize(n)
      PROVE  TypeOK' /\ SeenInv' /\ InitializeInv'
  BY <1>0, <1>1 DEF Initialize, Begin, First
<1>2. ASSUME NEW n \in Notifiers, NEW method \in Switches, Switch(n, method)
      PROVE  TypeOK' /\ SeenInv' /\ InitializeInv'
  BY <1>0, <1>2 DEF Switch, Begin, First
<1>3. ASSUME NEW n \in Notifiers, InitializePin(n)
      PROVE  TypeOK' /\ SeenInv' /\ InitializeInv'
  <2>1. it[n] \in Index(n) /\ Pin(n) \in Pins
    BY <1>0, <1>3, PinsAreListed DEF InitializePin, AtEnd, Pin
  <2>2. TypeOK'
    BY <1>0, <1>3, <2>1 DEF InitializePin, NextPin
  <2>3. SeenInv'
    BY <1>0, <1>3, <2>1 DEF InitializePin, NextPin
  <2>4. InitializeInv'
    <3>1. \A i \in Index(n) : i < it'[n] => i < it[n] \/ i = it[n]
      BY <1>0, <1>3, <2>1 DEF InitializePin, NextPin
    <3>2. \A i \in Index(n) : i < it'[n] => output_pins_[n][i] \in pin_initialized'
      BY <1>3, <2>1, <3>1 DEF InitializePin, Pin
    <3> QED
      BY <1>3, <3>2 DEF InitializePin, NextPin
  <2> QED
    BY <2>2, <2>3, <2>4
<1>4. ASSUME NEW n \in Notifiers, PinFails(n)
      PROVE  TypeOK' /\ SeenInv' /\ InitializeInv'
  BY <1>4 DEF PinFails, Return
<1>5. ASSUME NEW n \in Notifiers, InitializeReturns(n)
      PROVE  TypeOK' /\ SeenInv' /\ InitializeInv'
  <2>1. PinsOf(n) \subseteq pin_initialized
    <3>1. \A i \in Index(n) : i < it[n]
      BY <1>0, <1>5 DEF InitializeReturns, AtEnd
    <3>2. \A i \in Index(n) : output_pins_[n][i] \in pin_initialized
      BY <1>5, <3>1 DEF InitializeReturns
    <3> QED
      BY <3>2 DEF PinsOf
  <2>2. TypeOK'
    BY <1>5, <2>1 DEF InitializeReturns, Return, PinsOf
  <2>3. SeenInv'
    BY <1>5 DEF InitializeReturns, Return
  <2>4. InitializeInv'
    BY <1>5 DEF InitializeReturns, Return
  <2> QED
    BY <2>2, <2>3, <2>4
<1>6. ASSUME NEW n \in Notifiers, WritePin(n)
      PROVE  TypeOK' /\ SeenInv' /\ InitializeInv'
  BY <1>0, <1>6 DEF WritePin, AtEnd, NextPin
<1>7. ASSUME NEW n \in Notifiers, ReadPort(n)
      PROVE  TypeOK' /\ SeenInv' /\ InitializeInv'
  BY <1>0, <1>7 DEF ReadPort, AtEnd
<1>8. ASSUME NEW n \in Notifiers, TogglePin(n)
      PROVE  TypeOK' /\ SeenInv' /\ InitializeInv'
  <2>1. it[n] \in Index(n) /\ seen[n] \subseteq pin_initialized /\ initialized[n]
    BY <1>8 DEF TogglePin
  <2>2. Pin(n) \in pin_initialized
    BY <2>1, PinsAreListed DEF Pin
  <2>3. WriteBack(n) \subseteq pin_initialized
    BY <2>1, <2>2 DEF WriteBack, Toggled
  <2> QED
    BY <1>0, <1>8, <2>1, <2>3 DEF TogglePin, NextPin
<1>9. ASSUME NEW n \in Notifiers, SwitchReturns(n)
      PROVE  TypeOK' /\ SeenInv' /\ InitializeInv'
  BY <1>0, <1>9 DEF SwitchReturns, AtEnd, Return
<1>10. CASE UNCHANGED vars
  BY <1>10 DEF vars, PinsOf
<1> QED
  BY <1>1, <1>2, <1>3, <1>4, <1>5, <1>6, <1>7, <1>8, <1>9, <1>10, StepCases

-----------------------------------------------------------------------------
(* The levels of the pins. *)

\* What a step of n that writes only the pin at its iterator does.
OnlyPin(n) ==
  \A m \in Notifiers : \A i \in Index(m) :
    m # n \/ i # it[n] => (High(m, i)' <=> High(m, i))

\* A toggle writes back what the other pins have, and its own pin inverted.
LEMMA ToggleWritesItsPin ==
  ASSUME TypeOK, SeenInv, FreshInv, Independent, NEW n \in Notifiers, TogglePin(n)
  PROVE  /\ it[n] \in Index(n)
         /\ OnlyPin(n)
         /\ Pin(n) \in odr' <=> Pin(n) \notin odr
         /\ \A p \in Pins : p # Pin(n) => (p \in odr' <=> p \in odr)
<1>1. it[n] \in Index(n) /\ seen[n] # None /\ Pin(n) \in Pins
  BY PinsAreListed DEF SeenInv, TogglePin, Pin
<1>2. \A p \in Pins : p = Pin(n) \/ p \in OthersWritten(n) => (p \in seen[n] <=> p \in odr)
  BY <1>1 DEF FreshInv
<1>3. \A p \in Pins : p # Pin(n) => (p \in odr' <=> p \in odr)
  BY <1>1, <1>2 DEF TogglePin, WriteBack, Toggled
<1>4. Pin(n) \in odr' <=> Pin(n) \notin odr
  BY <1>1, <1>2 DEF TogglePin, WriteBack, Toggled
<1>5. OnlyPin(n)
  <2> SUFFICES ASSUME NEW m \in Notifiers, NEW i \in Index(m), m # n \/ i # it[n]
               PROVE  High(m, i)' <=> High(m, i)
    BY DEF OnlyPin
  <2>1. output_pins_[m][i] # Pin(n)
    BY <1>1, PinsDiffer DEF Pin
  <2>2. output_pins_[m][i] \in Pins
    BY PinsAreListed
  <2> QED
    BY <1>3, <2>1, <2>2 DEF High
<1> QED
  BY <1>1, <1>3, <1>4, <1>5

\* So do the steps of Initialize(), On() and Off().
LEMMA WriteWritesItsPin ==
  ASSUME TypeOK, InitializeInv, NEW n \in Notifiers, InitializePin(n) \/ WritePin(n)
  PROVE  /\ it[n] \in Index(n)
         /\ OnlyPin(n)
         /\ Pin(n) \in odr' <=> op[n] = "on" \/ (op[n] = "initialize" /\ pin_state_[Pin(n)])
         /\ \A p \in Pins : p # Pin(n) => (p \in odr' <=> p \in odr)
<1>1. it[n] \in Index(n)
  BY PinsAreListed DEF TypeOK, InitializePin, WritePin, AtEnd, Index
<1>2. Pin(n) \in Pins /\ Pin(n) \in PinsOf(n)
  BY <1>1, PinsAreListed DEF Pin
<1>3. odr' = IF op[n] = "on" \/ (op[n] = "initialize" /\ pin_state_[Pin(n)])
             THEN odr \cup {Pin(n)} ELSE odr \ {Pin(n)}
  <2>1. CASE InitializePin(n)
    BY <2>1 DEF InitializePin
  <2>2. CASE WritePin(n)
    BY <1>2, <2>2 DEF WritePin, TypeOK, InitializeInv, Switches
  <2> QED
    BY <2>1, <2>2
<1>4. OnlyPin(n)
  <2> SUFFICES ASSUME NEW m \in Notifiers, NEW i \in Index(m), m # n \/ i # it[n]
               PROVE  High(m, i)' <=> High(m, i)
    BY DEF OnlyPin
  <2>1. output_pins_[m][i] # Pin(n)
    BY <1>1, PinsDiffer DEF Pin
  <2> QED
    BY <1>3, <2>1 DEF High
<1> QED
  BY <1>1, <1>3, <1>4

\* The pins of a notifier that does not move keep their levels, and so do all
\* if none is written.
LEMMA LevelsStay ==
  ASSUME NEW m \in Notifiers, Levels(m),
         op'[m] = op[m], it'[m] = it[m], initialized'[m] = initialized[m],
         \A i \in Index(m) : High(m, i)' <=> High(m, i)
  PROVE  Levels(m)'
BY DEF Levels

\* Every step keeps the levels in order.
LEMMA LevelStep ==
  ASSUME IInv, Independent, SameLevel, [Next]_vars
  PROVE  LevelInv'
<1>0. \A n \in Notifiers : Len(output_pins_[n]) \in Nat \ {0} /\ it[n] \in Nat \ {0}
  BY PinsAreListed DEF IInv, TypeOK
<1> USE DEF IInv
<1>1. ASSUME odr' = odr, NEW n \in Notifiers, Levels(n)',
             \A m \in Notifiers \ {n} :
               op'[m] = op[m] /\ it'[m] = it[m] /\ initialized'[m] = initialized[m]
      PROVE  LevelInv'
  <2>1. ASSUME NEW m \in Notifiers, m # n
        PROVE  Levels(m)'
    BY <1>1, <2>1, LevelsStay DEF LevelInv, High
  <2> QED
    BY <1>1, <2>1 DEF LevelInv
<1>2. ASSUME NEW n \in Notifiers, Initialize(n)
      PROVE  LevelInv'
  <2>1. Levels(n)'
    BY <1>0, <1>2 DEF Initialize, Begin, First, TypeOK, Levels, Index, Switches
  <2> QED
    BY <1>1, <1>2, <2>1 DEF Initialize, Begin, TypeOK
<1>3. ASSUME NEW n \in Notifiers, NEW method \in Switches, Switch(n, method)
      PROVE  LevelInv'
  <2>1. \A i, j \in Index(n) : High(n, i)' <=> High(n, j)'
    BY <1>3 DEF Switch, Begin, LevelInv, Levels, High
  <2>2. op'[n] = method /\ it'[n] = 1 /\ odr' = odr
    BY <1>3 DEF Switch, Begin, First, TypeOK
  <2>3. Levels(n)'
    BY <1>0, <2>1, <2>2 DEF Levels, Index, Switches
  <2> QED
    BY <1>1, <1>3, <2>2, <2>3 DEF Switch, Begin, TypeOK
<1>4. ASSUME NEW n \in Notifiers, PinFails(n)
      PROVE  LevelInv'
  <2>1. Levels(n)'
    BY <1>4 DEF PinFails, Return, TypeOK, InitializeInv, Levels, Switches
  <2> QED
    BY <1>1, <1>4, <2>1 DEF PinFails, Return, TypeOK
<1>5. ASSUME NEW n \in Notifiers, InitializeReturns(n)
      PROVE  LevelInv'
  <2>1. \A i \in Index(n) : i < it[n]
    BY <1>0, <1>5 DEF InitializeReturns, AtEnd, Index
  <2>2. \A i \in Index(n) : High(n, i)' <=> Initially(n)
    BY <1>5, <2>1 DEF InitializeReturns, LevelInv, Levels, High
  <2>3. Levels(n)'
    BY <1>5, <2>2 DEF InitializeReturns, Return, TypeOK, Levels, Switches
  <2> QED
    BY <1>1, <1>5, <2>3 DEF InitializeReturns, Return, TypeOK
<1>6. ASSUME NEW n \in Notifiers, SwitchReturns(n)
      PROVE  LevelInv'
  <2>1. \A i \in Index(n) : i < it[n]
    BY <1>0, <1>6 DEF SwitchReturns, AtEnd, Index
  <2>2. \A i, j \in Index(n) : High(n, i)' <=> High(n, j)'
    BY <1>6, <2>1 DEF SwitchReturns, LevelInv, Levels, High, Switches
  <2>3. Levels(n)'
    BY <1>6, <2>2 DEF SwitchReturns, Return, TypeOK, Levels, Switches
  <2> QED
    BY <1>1, <1>6, <2>3 DEF SwitchReturns, Return, TypeOK
<1>7. ASSUME NEW n \in Notifiers, ReadPort(n)
      PROVE  LevelInv'
  <2>1. Levels(n)'
    BY <1>7, LevelsStay DEF ReadPort, LevelInv, High
  <2> QED
    BY <1>1, <1>7, <2>1 DEF ReadPort
\* The steps that write the pin at the iterator and go on to the next.
<1>8. ASSUME NEW n \in Notifiers, OnlyPin(n), it[n] \in Index(n),
             it' = [it EXCEPT ![n] = @ + 1], op' = op, initialized' = initialized,
             op[n] \in Switches \cup {"initialize"},
             Pin(n) \in odr' <=> \/ op[n] = "on" \/ (op[n] = "toggle" /\ Pin(n) \notin odr)
                                 \/ op[n] = "initialize" /\ Initially(n)
      PROVE  LevelInv'
  <2>1. ASSUME NEW m \in Notifiers, m # n
        PROVE  Levels(m)'
    BY <1>8, <2>1, LevelsStay DEF LevelInv, OnlyPin, TypeOK
  <2>2. it'[n] = it[n] + 1 /\ it[n] \in Nat
    BY <1>0, <1>8 DEF TypeOK
  <2>3. \A i \in Index(n) : /\ i < it'[n] <=> i < it[n] \/ i = it[n]
                            /\ it'[n] <= i <=> it[n] <= i /\ i # it[n]
                            /\ ~(i < it[n] /\ it[n] <= i)
                            /\ i < it[n] \/ it[n] <= i
    BY <2>2 DEF Index
  <2>4. \A i \in Index(n) : i # it[n] => (High(n, i)' <=> High(n, i))
    BY <1>8 DEF OnlyPin
  <2>5. \A i \in Index(n) : i = it[n] =>
          (High(n, i)' <=> \/ op[n] = "on" \/ (op[n] = "toggle" /\ ~High(n, i))
                           \/ op[n] = "initialize" /\ Initially(n))
    BY <1>8 DEF High, Pin
  <2>6. Levels(n)
    BY DEF LevelInv
  <2>7. Levels(n)'
    <3>1. CASE op[n] = "initialize"
      BY <1>8, <2>3, <2>4, <2>5, <2>6, <3>1 DEF Levels, Switches
    <3>2. CASE op[n] = "on"
      BY <1>8, <2>3, <2>4, <2>5, <2>6, <3>2 DEF Levels, Switches
    <3>3. CASE op[n] = "off"
      BY <1>8, <2>3, <2>4, <2>5, <2>6, <3>3 DEF Levels, Switches
    <3>4. CASE op[n] = "toggle"
      <4> DEFINE c == it[n]
      <4>1. /\ \A i \in Index(n) : i < c => (High(n, i) <=> ~High(n, c))
            /\ \A i \in Index(n) : c <= i => (High(n, i) <=> High(n, c))
        BY <1>8, <2>2, <2>6, <3>4 DEF Levels, Switches
      <4>2. \A i \in Index(n) : i < it'[n] => (High(n, i)' <=> ~High(n, c))
        BY <2>3, <2>4, <2>5, <3>4, <4>1
      <4>3. \A i \in Index(n) : it'[n] <= i => (High(n, i)' <=> High(n, c))
        BY <2>3, <2>4, <4>1
      <4> HIDE DEF c
      <4> QED
        BY <1>8, <3>4, <4>2, <4>3 DEF Levels
    <3> QED
      BY <1>8, <3>1, <3>2, <3>3, <3>4 DEF Switches
  <2> QED
    BY <2>1, <2>7 DEF LevelInv
<1>9. ASSUME NEW n \in Notifiers, InitializePin(n) \/ WritePin(n)
      PROVE  LevelInv'
  <2>1. /\ it[n] \in Index(n) /\ OnlyPin(n)
        /\ Pin(n) \in odr' <=> op[n] = "on" \/ (op[n] = "initialize" /\ pin_state_[Pin(n)])
    BY <1>9, WriteWritesItsPin
  <2>1a. pin_state_[Pin(n)] <=> Initially(n)
    <3>1. Pin(n) \in PinsOf(n) /\ output_pins_[n][1] \in PinsOf(n)
      BY <2>1, PinsAreListed DEF Pin
    <3> QED
      BY <3>1 DEF SameLevel, Initially
  <2>2. op[n] \in {"initialize", "on", "off"} /\ op' = op /\ initialized' = initialized
        /\ it' = [it EXCEPT ![n] = @ + 1]
    BY <1>9 DEF InitializePin, WritePin, NextPin
  <2> QED
    BY <1>8, <2>1, <2>1a, <2>2 DEF Switches
<1>10. ASSUME NEW n \in Notifiers, TogglePin(n)
       PROVE  LevelInv'
  <2>1. it[n] \in Index(n) /\ OnlyPin(n) /\ (Pin(n) \in odr' <=> Pin(n) \notin odr)
    BY <1>10, ToggleWritesItsPin
  <2>2. op[n] = "toggle" /\ op' = op /\ initialized' = initialized
        /\ it' = [it EXCEPT ![n] = @ + 1]
    BY <1>10 DEF TogglePin, NextPin, SeenInv
  <2> QED
    BY <1>8, <2>1, <2>2 DEF Switches
<1>11. CASE UNCHANGED vars
  BY <1>11, LevelsStay DEF vars, LevelInv, High
<1> QED
  BY <1>2, <1>3, <1>4, <1>5, <1>6, <1>7, <1>9, <1>10, <1>11, StepCases

-----------------------------------------------------------------------------
\* No step of another notifier writes what a toggle in progress has read.
LEMMA FreshStep ==
  ASSUME IInv, Independent, [Next]_vars
  PROVE  FreshInv'
<1> USE DEF IInv
<1>1. ASSUME NEW m \in Notifiers, it'[m] = it[m], seen'[m] = seen[m],
             \A p \in Pins : p = Pin(m) \/ p \in OthersWritten(m) => (p \in odr' <=> p \in odr)
      PROVE  (seen[m] # None =>
                \A p \in Pins : p = Pin(m) \/ p \in OthersWritten(m) =>
                                  (p \in seen[m] <=> p \in odr))'
  BY <1>1 DEF FreshInv, Pin, OthersWritten
<1>2. ASSUME NEW n \in Notifiers,
             Initialize(n) \/ \E method \in Switches : Switch(n, method)
      PROVE  FreshInv'
  <2>1. seen[n] = None /\ seen' = seen /\ odr' = odr
    BY <1>2 DEF Initialize, Switch, Begin, SeenInv
  <2>2. \A m \in Notifiers \ {n} : it'[m] = it[m]
    BY <1>2 DEF Initialize, Switch, Begin, TypeOK
  <2> QED
    BY <1>1, <2>1, <2>2 DEF FreshInv
<1>3. ASSUME NEW n \in Notifiers, PinFails(n) \/ InitializeReturns(n) \/ SwitchReturns(n)
      PROVE  FreshInv'
  BY <1>1, <1>3 DEF PinFails, InitializeReturns, SwitchReturns, FreshInv
<1>4. ASSUME NEW n \in Notifiers, ReadPort(n)
      PROVE  FreshInv'
  <2>1. seen' = [seen EXCEPT ![n] = odr] /\ it' = it /\ odr' = odr
    BY <1>4 DEF ReadPort
  <2>2. ASSUME NEW m \in Notifiers, m # n
        PROVE  seen'[m] = seen[m]
    BY <2>1, <2>2 DEF TypeOK
  <2>3. seen'[n] = odr'
    BY <2>1 DEF TypeOK
  <2> QED
    BY <1>1, <2>1, <2>2, <2>3 DEF FreshInv
\* The steps that write a pin, after which their own notifier has read nothing.
<1>5. ASSUME NEW n \in Notifiers, it[n] \in Index(n), seen'[n] = None,
             \A m \in Notifiers \ {n} : it'[m] = it[m] /\ seen'[m] = seen[m],
             \A p \in Pins : p # Pin(n) => (p \in odr' <=> p \in odr)
      PROVE  FreshInv'
  <2>1. ASSUME NEW m \in Notifiers, m # n, seen[m] # None, NEW p \in Pins,
               p = Pin(m) \/ p \in OthersWritten(m)
        PROVE  p # Pin(n)
    <3>1. it[m] \in Index(m)
      BY <2>1 DEF SeenInv
    <3>2. Pin(m) # Pin(n)
      BY <1>5, <2>1, <3>1, PinsDiffer DEF Pin
    <3>3. Pin(m) \in PinsOf(m) /\ Pin(n) \in PinsOf(n)
      BY <1>5, <3>1, PinsAreListed DEF Pin
    <3>4. ToggleWritesPort => Port[Pin(m)] # Port[Pin(n)]
      BY <2>1, <3>3 DEF Independent
    <3> QED
      BY <2>1, <3>2, <3>4 DEF OthersWritten
  <2>2. ASSUME NEW m \in Notifiers, m # n, seen[m] # None
        PROVE  (\A p \in Pins : p = Pin(m) \/ p \in OthersWritten(m) =>
                                  (p \in seen[m] <=> p \in odr))'
    BY <1>1, <1>5, <2>1, <2>2
  <2> QED
    BY <1>5, <2>2 DEF FreshInv
<1>6. ASSUME NEW n \in Notifiers, InitializePin(n) \/ WritePin(n)
      PROVE  FreshInv'
  <2>1. seen[n] = None /\ seen' = seen
    BY <1>6 DEF InitializePin, WritePin, SeenInv
  <2>2. \A m \in Notifiers \ {n} : it'[m] = it[m]
    BY <1>6 DEF InitializePin, WritePin, NextPin, TypeOK
  <2> QED
    BY <1>5, <1>6, <2>1, <2>2, WriteWritesItsPin
<1>7. ASSUME NEW n \in Notifiers, TogglePin(n)
      PROVE  FreshInv'
  <2>1. seen'[n] = None /\ \A m \in Notifiers \ {n} : it'[m] = it[m] /\ seen'[m] = seen[m]
    BY <1>7 DEF TogglePin, NextPin, TypeOK
  <2> QED
    BY <1>5, <1>7, <2>1, ToggleWritesItsPin
<1>8. CASE UNCHANGED vars
  BY <1>1, <1>8 DEF vars, FreshInv
<1> QED
  BY <1>2, <1>3, <1>4, <1>6, <1>7, <1>8, StepCases

\* The inductive invariant holds initially and is kept by every step.
THEOREM Invariance == Spec => []IInv
<1>1. Init => IInv
  <2> SUFFICES ASSUME Init PROVE IInv
    OBVIOUS
  <2>1. TypeOK
    BY PinsAreListed DEF Init, TypeOK
  <2>2. \A n \in Notifiers : op[n] = "none" /\ ~initialized[n] /\ seen[n] = None
    BY Zenon DEF Init
  <2>3. SeenInv /\ InitializeInv /\ FreshInv
    BY <2>2 DEF SeenInv, InitializeInv, FreshInv, Switches
  <2>4. ASSUME NEW n \in Notifiers
        PROVE  Levels(n)
    <3>1. op[n] = "none" /\ ~initialized[n]
      BY <2>2
    <3> QED
      BY <3>1 DEF Levels, Switches
  <2> QED
    BY <2>1, <2>3, <2>4 DEF IInv, LevelInv
<1>2. IInv /\ [Next]_vars => IInv'
  BY BasicStep, FreshStep, LevelStep DEF IInv, Independent, SameLevel
<1> QED
  BY <1>1, <1>2, PTL DEF Spec

\* The variables keep their types, and only pins that are initialized are high.
THEOREM TypeCorrect == Spec => []TypeOK
<1>1. IInv => TypeOK
  BY DEF IInv
<1> QED
  BY <1>1, Invariance, PTL

\* Between two calls the pins of a notifier agree: GetState() is right about
\* all of them although it looks at one, if they were constructed with one level
\* and no other notifier's toggle writes them.
THEOREM PinsAlwaysAgree == Independent /\ SameLevel => (Spec => []PinsAgree)
<1> SUFFICES ASSUME Independent, SameLevel PROVE Spec => []PinsAgree
  OBVIOUS
<1>1. IInv => PinsAgree
  <2> SUFFICES ASSUME IInv, NEW n \in Notifiers, initialized[n], op[n] = "none"
               PROVE  PinsOf(n) \subseteq odr \/ PinsOf(n) \cap odr = {}
    BY DEF PinsAgree
  <2>1. \A i, j \in Index(n) : High(n, i) <=> High(n, j)
    BY DEF IInv, LevelInv, Levels
  <2> QED
    BY <2>1 DEF High, PinsOf, Index
<1> QED
  BY <1>1, Invariance, PTL

-----------------------------------------------------------------------------
\* The steps of LedNotifier seen through the refinement mapping of Bank.

\* What GetState() reports of a notifier, and how far its call has come, depend
\* on its own variables and its first pin.
LEMMA LightStays ==
  ASSUME NEW m \in Notifiers, op'[m] = op[m], it'[m] = it[m],
         initialized'[m] = initialized[m], High(m, 1)' <=> High(m, 1)
  PROVE  GetState(m)' = GetState(m) /\ CallOf(m)' = CallOf(m)
BY DEF GetState, CallOf, High

\* A step that changes neither is a stutter of the bank.
LEMMA BankStutters ==
  ASSUME \A m \in Notifiers : GetState(m)' = GetState(m) /\ CallOf(m)' = CallOf(m)
  PROVE  UNCHANGED Bank!vars
BY DEF Bank!vars

\* One that changes them for one notifier changes one light and one call.
LEMMA BankMoves ==
  ASSUME NEW n \in Notifiers, NEW light, NEW call, GetState(n)' = light, CallOf(n)' = call,
         \A m \in Notifiers \ {n} : GetState(m)' = GetState(m) /\ CallOf(m)' = CallOf(m)
  PROVE  /\ [m \in Notifiers |-> GetState(m)]'
              = [[m \in Notifiers |-> GetState(m)] EXCEPT ![n] = light]
         /\ [m \in Notifiers |-> CallOf(m)]'
              = [[m \in Notifiers |-> CallOf(m)] EXCEPT ![n] = call]
OBVIOUS

\* Every step of the notifiers is one of the bank of lights, or a stutter.
LEMMA BankStep ==
  ASSUME IInv, Independent, SameLevel, [Next]_vars
  PROVE  [Bank!Next]_(Bank!vars)
<1> USE DEF IInv
<1>0. \A n \in Notifiers : /\ Len(output_pins_[n]) \in Nat \ {0} /\ it[n] \in Nat \ {0}
                          /\ 1 \in Index(n)
  BY PinsAreListed DEF TypeOK
\* The other notifiers do not move in a step that writes no pin of theirs.
<1>1. ASSUME NEW n \in Notifiers,
             odr' = odr \/ OnlyPin(n),
             \A m \in Notifiers \ {n} :
               op'[m] = op[m] /\ it'[m] = it[m] /\ initialized'[m] = initialized[m]
      PROVE  \A m \in Notifiers \ {n} : GetState(m)' = GetState(m) /\ CallOf(m)' = CallOf(m)
  <2> SUFFICES ASSUME NEW m \in Notifiers \ {n} PROVE High(m, 1)' <=> High(m, 1)
    BY <1>1, LightStays
  <2> QED
    BY <1>0, <1>1 DEF High, OnlyPin
<1>2. ASSUME NEW n \in Notifiers, Initialize(n)
      PROVE  [Bank!Next]_(Bank!vars)
  <2>1. GetState(n)' = GetState(n) /\ CallOf(n)' = CallOf(n)
    BY <1>2 DEF Initialize, Begin, First, TypeOK, GetState, CallOf
  <2>2. \A m \in Notifiers \ {n} : GetState(m)' = GetState(m) /\ CallOf(m)' = CallOf(m)
    BY <1>1, <1>2 DEF Initialize, Begin, TypeOK
  <2> QED
    BY <2>1, <2>2, BankStutters
<1>3. ASSUME NEW n \in Notifiers, NEW method \in Switches, Switch(n, method)
      PROVE  [Bank!Next]_(Bank!vars)
  <2>1. GetState(n)' = GetState(n) /\ CallOf(n) = "none" /\ CallOf(n)' = method
        /\ GetState(n) # "unknown"
    BY <1>3 DEF Switch, Begin, First, Switches, TypeOK, GetState, CallOf
  <2>2. \A m \in Notifiers \ {n} : GetState(m)' = GetState(m) /\ CallOf(m)' = CallOf(m)
    BY <1>1, <1>3 DEF Switch, Begin, TypeOK
  <2>3. Bank!Call(n, method)
    BY <2>1, <2>2, BankMoves DEF Bank!Call
  <2> QED
    BY <2>3 DEF Bank!Next, Switches
<1>4. ASSUME NEW n \in Notifiers, PinFails(n)
      PROVE  [Bank!Next]_(Bank!vars)
  <2>1. GetState(n)' = GetState(n) /\ CallOf(n)' = CallOf(n)
    BY <1>4 DEF PinFails, Return, TypeOK, GetState, CallOf
  <2>2. \A m \in Notifiers \ {n} : GetState(m)' = GetState(m) /\ CallOf(m)' = CallOf(m)
    BY <1>1, <1>4 DEF PinFails, Return, TypeOK
  <2> QED
    BY <2>1, <2>2, BankStutters
<1>5. ASSUME NEW n \in Notifiers, InitializeReturns(n)
      PROVE  [Bank!Next]_(Bank!vars)
  <2>1. GetState(n) = "unknown" /\ CallOf(n) = "none" /\ CallOf(n)' = "none"
    BY <1>5 DEF InitializeReturns, Return, TypeOK, InitializeInv, GetState, CallOf
  <2>2. GetState(n)' = FirstLight(n)
    <3>1. High(n, 1) <=> Initially(n)
      BY <1>0, <1>5 DEF InitializeReturns, AtEnd, LevelInv, Levels
    <3> QED
      BY <1>5, <3>1 DEF InitializeReturns, TypeOK, GetState, High, FirstLight, Initially
  <2>3. \A m \in Notifiers \ {n} : GetState(m)' = GetState(m) /\ CallOf(m)' = CallOf(m)
    BY <1>1, <1>5 DEF InitializeReturns, Return, TypeOK
  <2>4. Bank!Initialize(n)
    BY <2>1, <2>2, <2>3, BankMoves DEF Bank!Initialize
  <2> QED
    BY <2>4 DEF Bank!Next
<1>6. ASSUME NEW n \in Notifiers, SwitchReturns(n)
      PROVE  [Bank!Next]_(Bank!vars)
  <2>1. GetState(n)' = GetState(n) /\ CallOf(n) = "done" /\ CallOf(n)' = "none"
    BY <1>0, <1>6 DEF SwitchReturns, AtEnd, Return, Switches, TypeOK, GetState, CallOf
  <2>2. \A m \in Notifiers \ {n} : GetState(m)' = GetState(m) /\ CallOf(m)' = CallOf(m)
    BY <1>1, <1>6 DEF SwitchReturns, Return, TypeOK
  <2>3. Bank!Return(n)
    BY <2>1, <2>2, BankMoves DEF Bank!Return
  <2> QED
    BY <2>3 DEF Bank!Next
<1>7. ASSUME NEW n \in Notifiers, ReadPort(n)
      PROVE  [Bank!Next]_(Bank!vars)
  BY <1>7, BankStutters DEF ReadPort, GetState, CallOf
<1>8. ASSUME NEW n \in Notifiers, InitializePin(n)
      PROVE  [Bank!Next]_(Bank!vars)
  <2>1. OnlyPin(n)
    BY <1>8, WriteWritesItsPin
  <2>2. GetState(n)' = GetState(n) /\ CallOf(n)' = CallOf(n)
    BY <1>8 DEF InitializePin, InitializeInv, GetState, CallOf
  <2>3. \A m \in Notifiers \ {n} : GetState(m)' = GetState(m) /\ CallOf(m)' = CallOf(m)
    BY <1>1, <1>8, <2>1 DEF InitializePin, NextPin, TypeOK
  <2> QED
    BY <2>2, <2>3, BankStutters
\* The steps that switch a pin: the first takes effect, the others stutter.
<1>9. ASSUME NEW n \in Notifiers, OnlyPin(n), it[n] \in Index(n), op[n] \in Switches,
             it' = [it EXCEPT ![n] = @ + 1], op' = op, initialized' = initialized,
             Pin(n) \in odr' <=> op[n] = "on" \/ (op[n] = "toggle" /\ Pin(n) \notin odr)
      PROVE  [Bank!Next]_(Bank!vars)
  <2>1. initialized[n] /\ it'[n] = it[n] + 1
    BY <1>9 DEF InitializeInv, TypeOK
  <2>2. \A m \in Notifiers \ {n} : GetState(m)' = GetState(m) /\ CallOf(m)' = CallOf(m)
    BY <1>1, <1>9 DEF TypeOK
  <2>3. CASE it[n] = 1
    <3>1. CallOf(n) = op[n] /\ CallOf(n)' = "done"
      BY <1>9, <2>1, <2>3 DEF CallOf, Switches
    <3>2. GetState(n)' = Bank!Switched(op[n], GetState(n))
      BY <1>9, <2>1, <2>3 DEF GetState, Pin, Switches, Bank!Switched
    <3>3. Bank!TakeEffect(n)
      BY <1>9, <2>2, <3>1, <3>2, BankMoves DEF Bank!TakeEffect, Switches
    <3> QED
      BY <3>3 DEF Bank!Next
  <2>4. CASE it[n] # 1
    <3>1. it[n] > 1 /\ it'[n] > 1
      BY <1>0, <2>1, <2>4
    <3>2. CallOf(n)' = CallOf(n)
      BY <1>9, <3>1 DEF CallOf, Switches
    <3>3. GetState(n)' = GetState(n)
      BY <1>0, <1>9, <2>4 DEF GetState, OnlyPin, High
    <3> QED
      BY <2>2, <3>2, <3>3, BankStutters
  <2> QED
    BY <2>3, <2>4
<1>10. ASSUME NEW n \in Notifiers, WritePin(n)
       PROVE  [Bank!Next]_(Bank!vars)
  <2>1. it[n] \in Index(n) /\ OnlyPin(n) /\ (Pin(n) \in odr' <=> op[n] = "on")
    BY <1>10, WriteWritesItsPin DEF WritePin
  <2>2. op[n] \in {"on", "off"} /\ op' = op /\ initialized' = initialized
        /\ it' = [it EXCEPT ![n] = @ + 1]
    BY <1>10 DEF WritePin, NextPin
  <2> QED
    BY <1>9, <2>1, <2>2 DEF Switches
<1>11. ASSUME NEW n \in Notifiers, TogglePin(n)
       PROVE  [Bank!Next]_(Bank!vars)
  <2>1. it[n] \in Index(n) /\ OnlyPin(n) /\ (Pin(n) \in odr' <=> Pin(n) \notin odr)
    BY <1>11, ToggleWritesItsPin
  <2>2. op[n] = "toggle" /\ op' = op /\ initialized' = initialized
        /\ it' = [it EXCEPT ![n] = @ + 1]
    BY <1>11 DEF TogglePin, NextPin, SeenInv
  <2> QED
    BY <1>9, <2>1, <2>2 DEF Switches
<1>12. CASE UNCHANGED vars
  BY <1>12, BankStutters DEF vars, GetState, CallOf
<1> QED
  BY <1>2, <1>3, <1>4, <1>5, <1>6, <1>7, <1>8, <1>10, <1>11, <1>12, StepCases

\* Each call switches its notifier's light once, at one moment, and nothing
\* else does, however the loops and the toggles of several notifiers interleave, if
\* the pins of each were constructed with one level and no other's toggle writes them.
THEOREM Refinement == Independent /\ SameLevel => (Spec => BankSpec)
<1> SUFFICES ASSUME Independent, SameLevel PROVE Spec => BankSpec
  OBVIOUS
<1>1. Init => Bank!Init
  BY DEF Init, Bank!Init, GetState, CallOf
<1>2. IInv /\ [Next]_vars => [Bank!Next]_(Bank!vars)
  BY BankStep
<1> QED
  BY <1>1, <1>2, Invariance, PTL DEF Spec, BankSpec, Bank!Spec
=============================================================================
