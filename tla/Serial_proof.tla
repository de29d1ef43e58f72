---------------------------- MODULE Serial_proof ----------------------------
(***************************************************************************)
(* Proofs about Serial, for any set of tasks.  What makes the drivers safe *)
(* without a lock is the scheduler: a task that is inside a call runs only *)
(* when no other one inside a call has a higher priority.  If the tasks    *)
(* that share a driver have different priorities it is enough to know, for *)
(* each window between a look and a write, that those who came in between  *)
(* are higher and still there.  Theorems that need different priorities,   *)
(* or that only the lowest task blocks with the slave, say so.             *)
(***************************************************************************)
EXTENDS Serial, TLAPS

\* A call is one of a driver.
CallInv == TypeOK /\ \A t \in Tasks : at[t] # "idle" => driver[t] \in Drivers

\* A task calls the drivers it uses, and only SPI has a slave.
UsersInv ==
  /\ \A t \in Tasks : at[t] # "idle" => driver[t] \in Uses[t]
  /\ \A t \in Tasks : at[t] \in {"select", "deselect", "cs_write", "cs_set"} => driver[t] = "SPI"
  /\ \A t \in held : "SPI" \in Uses[t]

\* Between the look at initialized_ or at the chip select and its write.
InWindow(t) ==
  \/ at[t] \in {"cs_write", "cs_set", "select"}
  \/ at[t] = "pins" /\ driver[t] = "SPI"

\* The slave is lent only after SPI was initialized.
LentInv ==
  /\ held # {} => initialized["SPI"]
  /\ \A t \in Tasks : at[t] \in {"select", "deselect"} => initialized["SPI"]

\* Whoever got the slave while a task was in its window preempted that task.
WindowInv == \A t \in Tasks : InWindow(t) => \A u \in held : Priority[u] > Priority[t]

\* There is one holder, it is the one that deselects, and its slave is selected.
HolderInv ==
  /\ held # {} => ~cs
  /\ \A t, u \in held : t = u
  /\ \A t \in Tasks : at[t] = "deselect" => t \in held

\* The inductive invariant of the slave.
LendingInv == CallInv /\ UsersInv /\ LentInv /\ WindowInv /\ HolderInv

\* What a task in a call that runs has interrupted is lower than itself, if the two
\* do not share a priority.
LEMMA Preempted ==
  ASSUME NEW t \in Tasks, NEW u \in Tasks, Scheduled(t), at[u] # "idle", u # t,
         NEW d, d \in Uses[t], d \in Uses[u], Distinct(d)
  PROVE  Priority[u] < Priority[t]
<1>1. Priority[u] <= Priority[t]
  BY DEF Scheduled, Occupied
<1>2. Priority[u] # Priority[t]
  BY DEF Distinct
<1>3. Priority[u] \in Nat /\ Priority[t] \in Nat
  BY SerialAssumption
<1> QED
  BY <1>1, <1>2, <1>3

\* A window is one of a task that uses SPI.
LEMMA WindowOfUser ==
  ASSUME UsersInv, NEW t \in Tasks, InWindow(t) PROVE "SPI" \in Uses[t] /\ at[t] # "idle"
BY DEF UsersInv, InWindow

\* A task in its window runs only when nobody has the slave: a holder that is
\* higher is either running or the one that may wait, which is the lowest.
LEMMA NobodyHolds ==
  ASSUME LowestBlocks, LendingInv, NEW t \in Tasks, InWindow(t), Scheduled(t)
  PROVE  held = {}
<1> SUFFICES ASSUME NEW u \in held PROVE FALSE
  OBVIOUS
<1>1. u \in Tasks /\ Priority[u] > Priority[t]
  BY DEF LendingInv, CallInv, TypeOK, WindowInv
<1>2. Priority[u] \in Nat /\ Priority[t] \in Nat
  BY <1>1, SerialAssumption
<1>3. "SPI" \in Uses[u] \cap Uses[t]
  BY WindowOfUser DEF LendingInv, UsersInv
<1>4. u \notin MayBlock
  BY <1>1, <1>2, <1>3 DEF LowestBlocks
<1>5. Priority[u] <= Priority[t]
  BY <1>1, <1>4 DEF Scheduled, Occupied
<1> QED
  BY <1>1, <1>2, <1>5

\* The initial states satisfy the inductive invariant of the slave.
LEMMA InitLending == Init => LendingInv
BY DEF Init, LendingInv, CallInv, UsersInv, TypeOK, LentInv, WindowInv, HolderInv, InWindow, Drivers

\* A driver has four pins or less.
LEMMA PinCounts == \A d \in Drivers : Len(Pins[d]) \in 0..4
<1>1. Len(Pins["SPI"]) = 3 /\ Len(Pins["I2C"]) = 2 /\ Len(Pins["UART"]) = 4
  BY DEF Pins
<1> QED
  BY <1>1 DEF Drivers

\* Every step keeps the types.
LEMMA StepCall == CallInv /\ [Next]_vars => CallInv'
<1> SUFFICES ASSUME CallInv, [Next]_vars PROVE CallInv'
  OBVIOUS
<1> USE SerialAssumption DEF CallInv, TypeOK, Initializing
<1>1. ASSUME NEW t \in Tasks, NEW d \in Drivers, Initialize(t, d) PROVE CallInv'
  BY <1>1 DEF Initialize, Idle, Enters, Goes, handles, wiring, slave
<1>2. ASSUME NEW t \in Tasks, NEW d \in Drivers, Transfer(t, d) PROVE CallInv'
  BY <1>2 DEF Transfer, Idle, Enters, Goes, wiring, slave
<1>3. ASSUME NEW t \in Tasks, ConfigurePin(t) PROVE CallInv'
  <2>1. driver[t] \in Drivers /\ pin[t] \in 0..4 /\ pin[t] < Len(Pins[driver[t]])
    BY <1>3 DEF ConfigurePin
  <2>2. Len(Pins[driver[t]]) \in 0..4
    BY <2>1, PinCounts, Zenon
  <2>2a. \A i, n \in 0..4 : i < n => i + 1 \in 0..4
    OBVIOUS
  <2>3. AlternateFunction[driver[t]] \in {"none", "GPIO_AF6_SPI3", "GPIO_AF4_I2C1", "GPIO_AF7_USART3"}
    BY <2>1 DEF AlternateFunction, Drivers
  <2>2b. pin[t] + 1 \in 0..4
    BY <2>1, <2>2, <2>2a, Zenon
  <2>4. pin' \in [Tasks -> 0..4]
    BY <1>3, <2>2b DEF ConfigurePin
  <2>5. mode' \in [AllPins -> {"none", "GPIO_AF6_SPI3", "GPIO_AF4_I2C1", "GPIO_AF7_USART3"}]
    BY <1>3, <2>3 DEF ConfigurePin
  <2> QED
    BY <1>3, <2>4, <2>5 DEF ConfigurePin, handles, wiring, slave
<1>4. ASSUME NEW t \in Tasks, PinsConfigured(t) PROVE CallInv'
  BY <1>4 DEF PinsConfigured, Goes, handles, wiring, slave
<1>5. ASSUME NEW t \in Tasks, CsInitialize(t) PROVE CallInv'
  BY <1>5 DEF CsInitialize, Goes, handles, wiring
<1>6. ASSUME NEW t \in Tasks, CsSet(t) PROVE CallInv'
  BY <1>6 DEF CsSet, Goes, handles, wiring
<1>7. ASSUME NEW t \in Tasks, HalInit(t) PROVE CallInv'
  BY <1>7 DEF HalInit, Goes, wiring, slave
<1>8. ASSUME NEW t \in Tasks, HalInitReturns(t) PROVE CallInv'
  BY <1>8 DEF HalInitReturns, Goes, wiring, slave
<1>9. ASSUME NEW t \in Tasks, HalInitFails(t) \/ SetFlag(t) PROVE CallInv'
  BY <1>9 DEF HalInitFails, SetFlag, Returns, Enters, Goes, handles, wiring, slave
<1>10. ASSUME NEW t \in Tasks, TransferReturns(t) PROVE CallInv'
  BY <1>10 DEF TransferReturns, Returns, Enters, Goes, wiring, slave
<1>11. ASSUME NEW t \in Tasks, SelectSlave(t) \/ DeselectSlave(t) PROVE CallInv'
  <2>1. /\ at' = [at EXCEPT ![t] = "select"] \/ at' = [at EXCEPT ![t] = "deselect"]
        /\ driver' = [driver EXCEPT ![t] = "SPI"] /\ "SPI" \in Drivers
        /\ UNCHANGED <<pin, initialized, State, Lock, configured, mode, wired, cs_state, cs, held>>
    BY <1>11 DEF SelectSlave, DeselectSlave, Enters, Goes, handles, wiring, slave, Drivers
  <2> QED
    BY <2>1
<1>12. ASSUME NEW t \in Tasks, CsClear(t) \/ CsSetAgain(t) PROVE CallInv'
  BY <1>12 DEF CsClear, CsSetAgain, Returns, Enters, Goes, handles, wiring
<1>13. CASE UNCHANGED vars
  BY <1>13 DEF vars, calls, handles, wiring, slave
<1> HIDE SerialAssumption DEF CallInv, TypeOK, Initializing
<1> QED
  BY <1>1, <1>2, <1>3, <1>4, <1>5, <1>6, <1>7, <1>8, <1>9, <1>10, <1>11, <1>12, <1>13,
     ZenonT(60) DEF Next

\* Every step is taken by a task that uses the driver.
LEMMA StepUsers == CallInv /\ UsersInv /\ [Next]_vars => UsersInv'
<1> SUFFICES ASSUME CallInv, UsersInv, [Next]_vars PROVE UsersInv'
  OBVIOUS
<1>0. /\ at \in [Tasks -> Initializing \cup {"idle", "select", "deselect", "transfer"}]
      /\ driver \in [Tasks -> Drivers \cup {"none"}]
  BY DEF CallInv, TypeOK
<1>1. ASSUME NEW t \in Tasks, NEW d \in Drivers, Initialize(t, d) \/ Transfer(t, d) PROVE UsersInv'
  <2>1. /\ d \in Uses[t] /\ held' = held
        /\ \E l \in {"pins", "transfer"} : at' = [at EXCEPT ![t] = l]
        /\ driver' = [driver EXCEPT ![t] = d]
    BY <1>1 DEF Initialize, Transfer, Enters, Goes, slave
  <2> QED
    BY <1>0, <2>1 DEF UsersInv
<1>2. ASSUME NEW t \in Tasks,
             \/ ConfigurePin(t) \/ PinsConfigured(t) \/ CsInitialize(t) \/ CsSet(t)
             \/ HalInit(t) \/ HalInitReturns(t)
      PROVE  UsersInv'
  <2>1. /\ at[t] # "idle" /\ UNCHANGED <<driver, held>>
        /\ \E l \in Initializing : at' = [at EXCEPT ![t] = l]
                 /\ (l \in {"cs_write", "cs_set"} => driver[t] = "SPI")
    <3>1. CASE ConfigurePin(t)
      <4>1. at[t] = "pins" /\ at' = [at EXCEPT ![t] = "pins"] /\ UNCHANGED <<driver, held>>
        BY <1>0, <3>1 DEF ConfigurePin, slave
      <4> QED
        BY <4>1 DEF Initializing
    <3>2. CASE PinsConfigured(t)
      <4>1. /\ at[t] = "pins" /\ UNCHANGED <<driver, held>>
            /\ at' = [at EXCEPT ![t] = IF driver[t] = "SPI" THEN "cs_write" ELSE "hal_init"]
        BY <3>2 DEF PinsConfigured, Goes, slave
      <4> QED
        BY <4>1 DEF Initializing
    <3>3. CASE CsInitialize(t) \/ CsSet(t)
      BY <3>3 DEF CsInitialize, CsSet, Goes, UsersInv, Initializing
    <3>4. CASE HalInit(t) \/ HalInitReturns(t)
      BY <3>4 DEF HalInit, HalInitReturns, Goes, slave, Initializing
    <3> QED
      BY <1>2, <3>1, <3>2, <3>3, <3>4
  <2> QED
    BY <1>0, <2>1 DEF UsersInv, Initializing
<1>3. ASSUME NEW t \in Tasks,
             \/ HalInitFails(t) \/ SetFlag(t) \/ TransferReturns(t)
             \/ CsClear(t) \/ CsSetAgain(t)
      PROVE  UsersInv'
  <2>1. /\ at' = [at EXCEPT ![t] = "idle"] /\ driver' = [driver EXCEPT ![t] = "none"]
        /\ held' \subseteq held \cup {t} /\ (t \in held' \ held => at[t] = "select")
    BY <1>3 DEF HalInitFails, SetFlag, TransferReturns, CsClear, CsSetAgain, Returns, Enters, Goes, slave
  <2>2. \A u \in held' : "SPI" \in Uses[u]
    BY <2>1, <1>3 DEF UsersInv
  <2> QED
    BY <1>0, <2>1, <2>2 DEF UsersInv
<1>4. ASSUME NEW t \in Tasks, SelectSlave(t) \/ DeselectSlave(t) PROVE UsersInv'
  <2>1. /\ "SPI" \in Uses[t] /\ held' = held
        /\ \E l \in {"select", "deselect"} : at' = [at EXCEPT ![t] = l]
        /\ driver' = [driver EXCEPT ![t] = "SPI"]
    BY <1>4 DEF SelectSlave, DeselectSlave, Enters, Goes, slave, UsersInv
  <2> QED
    BY <1>0, <2>1 DEF UsersInv
<1>5. CASE UNCHANGED vars
  BY <1>5 DEF vars, calls, slave, UsersInv
<1> QED
  BY <1>1, <1>2, <1>3, <1>4, <1>5, ZenonT(60) DEF Next

\* A step that neither touches the slave nor ends or begins a window preserves
\* what is known of the slave.
LEMMA LendingFrame ==
  ASSUME LendingInv, CallInv', UsersInv', UNCHANGED slave,
         \A d \in Drivers : initialized[d] => initialized'[d],
         \A t \in Tasks : InWindow(t)' => InWindow(t) \/ held = {},
         \A t \in Tasks : at'[t] \in {"select", "deselect"} => at[t] = at'[t]
  PROVE  LendingInv'
<1>1. LentInv'
  BY DEF LendingInv, LentInv, slave, Drivers
<1>2. WindowInv'
  BY DEF LendingInv, WindowInv, slave
<1>3. HolderInv'
  BY DEF LendingInv, HolderInv, slave
<1> QED
  BY <1>1, <1>2, <1>3 DEF LendingInv

\* Every step preserves the inductive invariant of the slave.
LEMMA StepLending == Distinct("SPI") /\ LowestBlocks /\ LendingInv /\ [Next]_vars => LendingInv'
<1> SUFFICES ASSUME Distinct("SPI"), LowestBlocks, LendingInv, [Next]_vars PROVE LendingInv'
  OBVIOUS
<1>0. CallInv /\ CallInv' /\ UsersInv /\ UsersInv'
  BY StepCall, StepUsers DEF LendingInv
<1>1. ASSUME NEW t \in Tasks, NEW d \in Drivers, Initialize(t, d) PROVE LendingInv'
  <2>1. at' = [at EXCEPT ![t] = "pins"] /\ driver' = [driver EXCEPT ![t] = d]
    BY <1>1 DEF Initialize, Enters, Goes
  <2>2. UNCHANGED <<initialized, slave>> /\ ~initialized[d]
    BY <1>1 DEF Initialize, handles, AlreadyInitialized
  <2>3. \A u \in Tasks : InWindow(u)' => InWindow(u) \/ held = {}
    BY <2>1, <2>2, <1>0 DEF InWindow, LendingInv, LentInv, CallInv, TypeOK
  <2>4. \A u \in Tasks : at'[u] \in {"select", "deselect"} => at[u] = at'[u]
    BY <2>1, <1>0 DEF CallInv, TypeOK
  <2> QED
    BY <1>0, <2>2, <2>3, <2>4, LendingFrame
<1>2. ASSUME NEW t \in Tasks, NEW d \in Drivers, Transfer(t, d) PROVE LendingInv'
  <2>1. at' = [at EXCEPT ![t] = "transfer"] /\ driver' = [driver EXCEPT ![t] = d]
    BY <1>2 DEF Transfer, Enters, Goes
  <2>2. UNCHANGED <<initialized, slave>>
    BY <1>2 DEF Transfer
  <2>3. \A u \in Tasks : InWindow(u)' => InWindow(u) \/ held = {}
    BY <2>1, <1>0 DEF InWindow, CallInv, TypeOK
  <2>4. \A u \in Tasks : at'[u] \in {"select", "deselect"} => at[u] = at'[u]
    BY <2>1, <1>0 DEF CallInv, TypeOK
  <2> QED
    BY <1>0, <2>2, <2>3, <2>4, LendingFrame
<1>3. ASSUME NEW t \in Tasks, ConfigurePin(t) PROVE LendingInv'
  <2>1. UNCHANGED <<at, driver, initialized, slave>>
    BY <1>3 DEF ConfigurePin, handles
  <2>2. \A u \in Tasks : InWindow(u)' => InWindow(u) \/ held = {}
    BY <2>1 DEF InWindow
  <2> QED
    BY <1>0, <2>1, <2>2, LendingFrame
<1>4. ASSUME NEW t \in Tasks, PinsConfigured(t) PROVE LendingInv'
  <2>1. /\ at[t] = "pins"
        /\ at' = [at EXCEPT ![t] = IF driver[t] = "SPI" THEN "cs_write" ELSE "hal_init"]
        /\ UNCHANGED <<driver, initialized, slave>>
    BY <1>4 DEF PinsConfigured, Goes, handles
  <2>2. \A u \in Tasks : InWindow(u)' => InWindow(u) \/ held = {}
    BY <2>1, <1>0 DEF InWindow, CallInv, TypeOK
  <2>3. \A u \in Tasks : at'[u] \in {"select", "deselect"} => at[u] = at'[u]
    BY <2>1, <1>0 DEF CallInv, TypeOK
  <2> QED
    BY <1>0, <2>1, <2>2, <2>3, LendingFrame
<1>5. ASSUME NEW t \in Tasks, CsInitialize(t) \/ CsSet(t) PROVE LendingInv'
  <2>1. /\ at[t] \in {"cs_write", "cs_set"} /\ Scheduled(t)
        /\ at' = [at EXCEPT ![t] = "cs_set"] \/ at' = [at EXCEPT ![t] = "hal_init"]
        /\ UNCHANGED <<initialized, held>>
    BY <1>5 DEF CsInitialize, CsSet, Goes, handles
  <2>2. held = {}
    BY <2>1, NobodyHolds DEF InWindow
  <2>3. \A u \in Tasks : at'[u] \in {"select", "deselect"} => at[u] = at'[u]
    BY <2>1, <1>0 DEF CallInv, TypeOK
  <2>4. LentInv' /\ HolderInv'
    BY <2>1, <2>2, <2>3 DEF LendingInv, LentInv, HolderInv
  <2>5. WindowInv'
    BY <2>1, <2>2 DEF WindowInv
  <2> QED
    BY <1>0, <2>4, <2>5 DEF LendingInv
<1>6. ASSUME NEW t \in Tasks,
             HalInit(t) \/ HalInitReturns(t) \/ HalInitFails(t) \/ SetFlag(t) \/ TransferReturns(t)
      PROVE  LendingInv'
  <2>1. \E l \in {"hal_returns", "set_flag", "idle"} : at' = [at EXCEPT ![t] = l]
    BY <1>6 DEF HalInit, HalInitReturns, HalInitFails, SetFlag, TransferReturns, Returns, Enters, Goes
  <2>2. driver' = driver \/ driver' = [driver EXCEPT ![t] = "none"]
    BY <1>6 DEF HalInit, HalInitReturns, HalInitFails, SetFlag, TransferReturns, Returns, Enters
  <2>3. UNCHANGED slave
    BY <1>6 DEF HalInit, HalInitReturns, HalInitFails, SetFlag, TransferReturns
  <2>4. initialized' = initialized \/ initialized' = [initialized EXCEPT ![driver[t]] = TRUE]
    BY <1>6 DEF HalInit, HalInitReturns, HalInitFails, SetFlag, TransferReturns, handles
  <2>5. \A d \in Drivers : initialized[d] => initialized'[d]
    BY <2>4, <1>0 DEF CallInv, TypeOK
  <2>6. \A u \in Tasks : InWindow(u)' => InWindow(u) \/ held = {}
    BY <2>1, <2>2, <1>0 DEF InWindow, CallInv, TypeOK
  <2>7. \A u \in Tasks : at'[u] \in {"select", "deselect"} => at[u] = at'[u]
    BY <2>1, <1>0 DEF CallInv, TypeOK
  <2> QED
    BY <1>0, <2>3, <2>5, <2>6, <2>7, LendingFrame
<1>7. ASSUME NEW t \in Tasks, SelectSlave(t) PROVE LendingInv'
  <2>1. /\ at' = [at EXCEPT ![t] = "select"] /\ driver' = [driver EXCEPT ![t] = "SPI"]
        /\ UNCHANGED <<initialized, slave>>
        /\ cs /\ initialized["SPI"]
    BY <1>7 DEF SelectSlave, Enters, Goes, Unselected, handles
  <2>2. held = {}
    BY <2>1 DEF LendingInv, HolderInv
  <2>3. LentInv' /\ WindowInv' /\ HolderInv'
    BY <2>1, <2>2, <1>0 DEF LendingInv, LentInv, WindowInv, HolderInv, CallInv, TypeOK, slave
  <2> QED
    BY <1>0, <2>3 DEF LendingInv
<1>8. ASSUME NEW t \in Tasks, CsClear(t) PROVE LendingInv'
  <2>1. /\ at[t] = "select" /\ Scheduled(t)
        /\ at' = [at EXCEPT ![t] = "idle"] /\ driver' = [driver EXCEPT ![t] = "none"]
        /\ cs' = FALSE /\ held' = held \cup {t} /\ initialized' = initialized
    BY <1>8 DEF CsClear, Returns, Enters, Goes, handles
  <2>2. held' = {t} /\ held = {}
    BY <2>1, NobodyHolds DEF InWindow
  <2>3. LentInv' /\ HolderInv'
    BY <2>1, <2>2, <1>0 DEF LendingInv, LentInv, HolderInv, CallInv, TypeOK
  <2>4. ASSUME NEW u \in Tasks, InWindow(u)' PROVE Priority[t] > Priority[u]
    <3>1. u # t /\ at[u] # "idle"
      BY <2>1, <2>4, <1>0 DEF InWindow, CallInv, TypeOK
    <3>2. "SPI" \in Uses[t] /\ "SPI" \in Uses[u]
      BY <1>0, <2>1, <2>4, <3>1 DEF InWindow, UsersInv, CallInv, TypeOK
    <3>3. Priority[u] < Priority[t]
      BY <2>1, <3>1, <3>2, Preempted
    <3> QED
      BY <3>3, SerialAssumption
  <2>5. WindowInv'
    BY <2>2, <2>4 DEF WindowInv
  <2> QED
    BY <1>0, <2>3, <2>5 DEF LendingInv
<1>9. ASSUME NEW t \in Tasks, DeselectSlave(t) PROVE LendingInv'
  <2>1. /\ at' = [at EXCEPT ![t] = "deselect"] /\ driver' = [driver EXCEPT ![t] = "SPI"]
        /\ UNCHANGED <<initialized, slave>> /\ t \in held
    BY <1>9 DEF DeselectSlave, Enters, Goes, handles
  <2>2. LentInv' /\ HolderInv'
    BY <2>1, <1>0 DEF LendingInv, LentInv, HolderInv, CallInv, TypeOK, slave
  <2>3. \A u \in Tasks : InWindow(u)' => InWindow(u)
    BY <2>1, <1>0 DEF InWindow, CallInv, TypeOK
  <2>4. WindowInv'
    BY <2>1, <2>3 DEF LendingInv, WindowInv, slave
  <2> QED
    BY <1>0, <2>2, <2>4 DEF LendingInv
<1>10. ASSUME NEW t \in Tasks, CsSetAgain(t) PROVE LendingInv'
  <2>1. /\ at[t] = "deselect" /\ at' = [at EXCEPT ![t] = "idle"]
        /\ driver' = [driver EXCEPT ![t] = "none"]
        /\ cs' = TRUE /\ held' = held \ {t} /\ initialized' = initialized
    BY <1>10 DEF CsSetAgain, Returns, Enters, Goes, handles
  <2>2. held' = {}
    BY <2>1, <1>0 DEF LendingInv, HolderInv, CallInv, TypeOK
  <2>3. \A u \in Tasks : at'[u] = "deselect" => u # t /\ at[u] = "deselect"
    BY <2>1, <1>0 DEF CallInv, TypeOK
  <2>4. \A u \in Tasks : at'[u] # "deselect"
    BY <2>1, <2>3, <1>0 DEF LendingInv, HolderInv, CallInv, TypeOK
  <2>5. LentInv' /\ WindowInv' /\ HolderInv'
    BY <2>1, <2>2, <2>4, <1>0 DEF LendingInv, LentInv, WindowInv, HolderInv, CallInv, TypeOK
  <2> QED
    BY <1>0, <2>5 DEF LendingInv
<1>11. CASE UNCHANGED vars
  <2>1. UNCHANGED <<at, driver, initialized, slave>>
    BY <1>11 DEF vars, calls, handles
  <2>2. \A u \in Tasks : InWindow(u)' => InWindow(u) \/ held = {}
    BY <2>1 DEF InWindow
  <2> QED
    BY <1>0, <2>1, <2>2, LendingFrame
<1> QED
  BY <1>1, <1>2, <1>3, <1>4, <1>5, <1>6, <1>7, <1>8, <1>9, <1>10, <1>11, ZenonT(60) DEF Next

\* The slave's invariant holds in every reachable state.
THEOREM LendingInvariance == Distinct("SPI") /\ LowestBlocks => (Spec => []LendingInv)
<1> SUFFICES ASSUME Distinct("SPI"), LowestBlocks PROVE Spec => []LendingInv
  OBVIOUS
<1>1. Init => LendingInv
  BY InitLending
<1>2. LendingInv /\ [Next]_vars => LendingInv'
  BY StepLending
<1> QED
  BY <1>1, <1>2, PTL DEF Spec

\* Every variable keeps its type, and calls are of drivers the task uses, whatever
\* the priorities.
LEMMA CallInvariance == Spec => [](CallInv /\ UsersInv)
<1>1. Init => CallInv /\ UsersInv
  BY InitLending DEF LendingInv
<1>2. CallInv /\ UsersInv /\ [Next]_vars => CallInv' /\ UsersInv'
  BY StepCall, StepUsers
<1> QED
  BY <1>1, <1>2, PTL DEF Spec

\* Every variable keeps its type.
THEOREM TypeCorrect == Spec => []TypeOK
<1>1. CallInv => TypeOK
  BY DEF CallInv
<1> QED
  BY <1>1, CallInvariance, PTL

\* A task that was told that the slave is selected finds it selected, whatever
\* the others do between their looks at the chip select and their writes: if the
\* tasks that use SPI have different priorities, and only the lowest of them blocks
\* while it has the slave.
THEOREM SlaveIsSelected == Distinct("SPI") /\ LowestBlocks => (Spec => []HeldIsSelected)
<1> SUFFICES ASSUME Distinct("SPI"), LowestBlocks PROVE Spec => []HeldIsSelected
  OBVIOUS
<1>1. LendingInv => HeldIsSelected
  BY DEF LendingInv, HolderInv, HeldIsSelected
<1>2. Spec => []LendingInv
  BY LendingInvariance
<1> QED
  BY <1>1, <1>2, PTL

\* SPI implements the abstract lock: a step of the drivers lends the slave when
\* nobody has it, gives it back for its holder, or leaves it alone.
LEMMA StepLock == LowestBlocks /\ LendingInv /\ [Next]_vars => [SL!Next]_held
<1> SUFFICES ASSUME LowestBlocks, LendingInv, [Next]_vars PROVE [SL!Next]_held
  OBVIOUS
<1>1. ASSUME NEW t \in Tasks, CsClear(t) PROVE SL!Select(t)
  <2>1. at[t] = "select" /\ Scheduled(t) /\ held' = held \cup {t}
    BY <1>1 DEF CsClear
  <2>2. held = {}
    BY <2>1, NobodyHolds DEF InWindow
  <2> QED
    BY <2>1, <2>2 DEF SL!Select
<1>2. ASSUME NEW t \in Tasks, CsSetAgain(t) PROVE SL!Deselect(t)
  <2>1. at[t] = "deselect" /\ held' = held \ {t}
    BY <1>2 DEF CsSetAgain
  <2>2. held = {t}
    BY <2>1 DEF LendingInv, HolderInv, CallInv, TypeOK
  <2> QED
    BY <2>1, <2>2 DEF SL!Deselect
<1>3. ASSUME NEW t \in Tasks, NEW d \in Drivers, Initialize(t, d) \/ Transfer(t, d)
      PROVE  held' = held
  BY <1>3 DEF Initialize, Transfer, slave
<1>4. ASSUME NEW t \in Tasks,
             ConfigurePin(t) \/ PinsConfigured(t) \/ CsInitialize(t) \/ CsSet(t)
      PROVE  held' = held
  BY <1>4 DEF ConfigurePin, PinsConfigured, CsInitialize, CsSet, slave
<1>5. ASSUME NEW t \in Tasks,
             \/ HalInit(t) \/ HalInitReturns(t) \/ HalInitFails(t) \/ SetFlag(t)
             \/ TransferReturns(t) \/ SelectSlave(t) \/ DeselectSlave(t)
      PROVE  held' = held
  BY <1>5 DEF HalInit, HalInitReturns, HalInitFails, SetFlag, TransferReturns,
              SelectSlave, DeselectSlave, slave
<1>6. CASE UNCHANGED vars
  BY <1>6 DEF vars, slave
<1>7. Next => SL!Next \/ held' = held
  BY <1>1, <1>2, <1>3, <1>4, <1>5, ZenonT(60) DEF Next, SL!Next
<1> QED
  BY <1>6, <1>7

\* SelectSlave and DeselectSlave, with Initialize beside them, implement a lock
\* that one task has at a time: if the tasks that use SPI have different priorities,
\* and only the lowest of them blocks while it has the slave.
THEOREM Refinement == Distinct("SPI") /\ LowestBlocks => (Spec => SlaveLockSpec)
<1> SUFFICES ASSUME Distinct("SPI"), LowestBlocks PROVE Spec => SlaveLockSpec
  OBVIOUS
<1>1. Init => SL!Init
  BY DEF Init, SL!Init
<1>2. LendingInv /\ [Next]_vars => [SL!Next]_held
  BY StepLock
<1>3. Spec => []LendingInv
  BY LendingInvariance
<1> QED
  BY <1>1, <1>2, <1>3, PTL DEF Spec, SlaveLockSpec, SL!Spec
-----------------------------------------------------------------------------
(* Refusals. *)

\* The chip select is low only for a holder, or inside an Initialize that was
\* given the other level.
LowInv == ~cs => held # {} \/ (~cs_state /\ \E u \in Tasks : at[u] = "cs_set")

\* Every step preserves it.
LEMMA StepLow == CallInv /\ LowInv /\ [Next]_vars => LowInv'
<1> SUFFICES ASSUME CallInv, LowInv, [Next]_vars PROVE LowInv'
  OBVIOUS
<1>0. at \in [Tasks -> Initializing \cup {"idle", "select", "deselect", "transfer"}]
  BY DEF CallInv, TypeOK
<1>1. ASSUME NEW t \in Tasks, NEW d \in Drivers, Initialize(t, d) \/ Transfer(t, d)
      PROVE  LowInv'
  BY <1>0, <1>1 DEF Initialize, Transfer, Idle, Enters, Goes, slave, wiring, LowInv
<1>2. ASSUME NEW t \in Tasks, ConfigurePin(t) \/ PinsConfigured(t) PROVE LowInv'
  BY <1>0, <1>2 DEF ConfigurePin, PinsConfigured, Goes, slave, wiring, LowInv
<1>3. ASSUME NEW t \in Tasks, CsInitialize(t) PROVE LowInv'
  BY <1>0, <1>3 DEF CsInitialize, Goes, wiring, LowInv
<1>4. ASSUME NEW t \in Tasks, CsSet(t) \/ CsSetAgain(t) PROVE LowInv'
  BY <1>4 DEF CsSet, CsSetAgain, LowInv
<1>5. ASSUME NEW t \in Tasks, HalInit(t) \/ HalInitReturns(t) PROVE LowInv'
  BY <1>0, <1>5 DEF HalInit, HalInitReturns, Goes, slave, wiring, LowInv
<1>6. ASSUME NEW t \in Tasks, HalInitFails(t) \/ SetFlag(t) \/ TransferReturns(t)
      PROVE  LowInv'
  BY <1>0, <1>6 DEF HalInitFails, SetFlag, TransferReturns, Returns, Enters, Goes,
                    slave, wiring, LowInv
<1>7. ASSUME NEW t \in Tasks, SelectSlave(t) \/ DeselectSlave(t) PROVE LowInv'
  BY <1>0, <1>7 DEF SelectSlave, DeselectSlave, Idle, Enters, Goes, slave, wiring, LowInv
<1>8. ASSUME NEW t \in Tasks, CsClear(t) PROVE LowInv'
  BY <1>8 DEF CsClear, LowInv
<1>9. CASE UNCHANGED vars
  BY <1>9 DEF vars, calls, slave, wiring, LowInv
<1> QED
  BY <1>1, <1>2, <1>3, <1>4, <1>5, <1>6, <1>7, <1>8, <1>9, ZenonT(60) DEF Next

\* A refused SelectSlave has a holder to blame, if the chip select was built
\* with the level that deselects, whatever the priorities.
THEOREM RefusalsAreHonest == Spec => []RefusalIsHonest
<1>1. Init => LowInv
  BY DEF Init, LowInv
<1>2. CallInv /\ LowInv /\ [Next]_vars => LowInv'
  BY StepLow
<1>3. LowInv => RefusalIsHonest
  BY DEF LowInv, RefusalIsHonest
<1> QED
  BY <1>1, <1>2, <1>3, CallInvariance, PTL DEF Spec
-----------------------------------------------------------------------------
(* Transfers. *)

\* A transfer runs on an initialized driver whose peripheral is set up.
RunningInv == \A t \in Tasks :
  at[t] = "transfer" => initialized[driver[t]] /\ configured[driver[t]]

\* The same holds of a handle that is ready, of a driver that is or soon will
\* be initialized.
ReadyInv == \A d \in Drivers :
  /\ initialized[d] \/ \E t \in Tasks : at[t] = "set_flag" /\ driver[t] = d
  /\ State[d] = "ready"
  => configured[d]

\* Whoever transfers on a driver preempted whoever is initializing it.
PreemptInv == \A t, u \in Tasks :
  at[t] = "transfer" /\ at[u] \in Initializing /\ driver[u] = driver[t]
    => Priority[t] > Priority[u]

\* The inductive invariant of the transfers.
TransferInv == CallInv /\ UsersInv /\ RunningInv /\ ReadyInv /\ PreemptInv

\* A step that leaves the handles alone, and after which no other task
\* initializes, transfers or is about to set a flag, preserves it.
LEMMA TransferFrame ==
  ASSUME TransferInv, CallInv', UsersInv', UNCHANGED <<initialized, State, configured>>,
         \A t \in Tasks : at'[t] = "transfer" \/ at'[t] \in Initializing =>
           driver'[t] = driver[t],
         \A t \in Tasks : at'[t] = "transfer" => at[t] = "transfer",
         \A t \in Tasks : at'[t] = "set_flag" => at[t] = "set_flag",
         \A t \in Tasks : at'[t] \in Initializing => at[t] \in Initializing
  PROVE  TransferInv'
<1>1. RunningInv'
  BY DEF TransferInv, RunningInv
<1>2. ReadyInv'
  BY DEF TransferInv, ReadyInv, Initializing
<1>3. PreemptInv'
  BY DEF TransferInv, PreemptInv
<1> QED
  BY <1>1, <1>2, <1>3 DEF TransferInv

\* No two tasks that share a driver share a priority.
AllDistinct == \A d \in Drivers : Distinct(d)

\* Every step preserves it.
LEMMA StepTransfer == AllDistinct /\ TransferInv /\ [Next]_vars => TransferInv'
<1> SUFFICES ASSUME AllDistinct, TransferInv, [Next]_vars PROVE TransferInv'
  OBVIOUS
<1>0. CallInv /\ CallInv' /\ UsersInv /\ UsersInv'
  BY StepCall, StepUsers DEF TransferInv
<1>0a. /\ at \in [Tasks -> Initializing \cup {"idle", "select", "deselect", "transfer"}]
       /\ driver \in [Tasks -> Drivers \cup {"none"}]
       /\ State \in [Drivers -> {"reset", "ready", "busy"}]
       /\ initialized \in [Drivers -> BOOLEAN] /\ configured \in [Drivers -> BOOLEAN]
  BY <1>0 DEF CallInv, TypeOK
<1>1. ASSUME NEW t \in Tasks, NEW d \in Drivers, Initialize(t, d) PROVE TransferInv'
  <2>1. /\ at' = [at EXCEPT ![t] = "pins"] /\ driver' = [driver EXCEPT ![t] = d]
        /\ UNCHANGED <<initialized, State, configured>> /\ ~initialized[d]
    BY <1>1 DEF Initialize, Enters, Goes, handles, AlreadyInitialized
  <2>2. RunningInv' /\ ReadyInv'
    BY <2>1, <1>0a DEF TransferInv, RunningInv, ReadyInv
  <2>3. PreemptInv'
    BY <2>1, <1>0a DEF TransferInv, RunningInv, PreemptInv
  <2> QED
    BY <1>0, <2>2, <2>3 DEF TransferInv
<1>2. ASSUME NEW t \in Tasks, NEW d \in Drivers, Transfer(t, d) PROVE TransferInv'
  <2>1. /\ at' = [at EXCEPT ![t] = "transfer"] /\ driver' = [driver EXCEPT ![t] = d]
        /\ State' = [State EXCEPT ![d] = "busy"] /\ UNCHANGED <<initialized, configured>>
        /\ at[t] = "idle" /\ Scheduled(t)
        /\ initialized[d] /\ State[d] = "ready"
    BY <1>2 DEF Transfer, Idle, Enters, Goes
  <2>2. RunningInv' /\ ReadyInv'
    BY <2>1, <1>0a DEF TransferInv, RunningInv, ReadyInv
  <2>3. ASSUME NEW u \in Tasks, at'[u] \in Initializing, driver'[u] = d
        PROVE  Priority[t] > Priority[u]
    <3>1. u # t /\ at[u] # "idle" /\ driver[u] = d
      BY <2>1, <2>3, <1>0a DEF Initializing
    <3>2. d \in Uses[t] /\ d \in Uses[u] /\ Distinct(d)
      BY <1>0, <1>2, <3>1 DEF Transfer, UsersInv, AllDistinct
    <3>3. Priority[u] < Priority[t]
      BY <2>1, <3>1, <3>2, Preempted
    <3> QED
      BY <3>3, SerialAssumption
  <2>4. ASSUME NEW v \in Tasks, NEW u \in Tasks, at'[v] = "transfer",
               at'[u] \in Initializing, driver'[u] = driver'[v]
        PROVE  Priority[v] > Priority[u]
    <3>1. u # t /\ at[u] \in Initializing /\ driver'[u] = driver[u]
      BY <2>1, <2>4, <1>0a DEF Initializing
    <3>2. CASE v = t
      BY <2>1, <2>3, <2>4, <3>2, <1>0a
    <3>3. CASE v # t
      BY <2>1, <2>4, <3>1, <3>3, <1>0a DEF TransferInv, PreemptInv
    <3> QED
      BY <3>2, <3>3
  <2> QED
    BY <1>0, <2>2, <2>4 DEF TransferInv, PreemptInv
<1>3. ASSUME NEW t \in Tasks,
             ConfigurePin(t) \/ PinsConfigured(t) \/ CsInitialize(t) \/ CsSet(t)
      PROVE  TransferInv'
  <2>1. /\ at[t] \in Initializing
        /\ \E l \in {"pins", "cs_write", "cs_set", "hal_init"} : at' = [at EXCEPT ![t] = l]
    BY <1>3, <1>0a DEF ConfigurePin, PinsConfigured, CsInitialize, CsSet, Goes, Initializing
  <2>2. UNCHANGED <<driver, initialized, State, configured>>
    BY <1>3 DEF ConfigurePin, PinsConfigured, CsInitialize, CsSet, handles
  <2> QED
    BY <1>0, <1>0a, <2>1, <2>2, TransferFrame
<1>4. ASSUME NEW t \in Tasks, HalInit(t) PROVE TransferInv'
  <2> DEFINE d == driver[t]
  <2>1. /\ at[t] = "hal_init" /\ Scheduled(t) /\ d \in Drivers
        /\ at' = [at EXCEPT ![t] = "hal_returns"] /\ UNCHANGED <<driver, initialized>>
        /\ State' = [State EXCEPT ![d] = "busy"]
        /\ configured' = [configured EXCEPT ![d] = FALSE]
    BY <1>0, <1>4 DEF HalInit, Goes, CallInv
  <2>2. \A u \in Tasks : at[u] = "transfer" => driver[u] # d
    <3> SUFFICES ASSUME NEW u \in Tasks, at[u] = "transfer", driver[u] = d PROVE FALSE
      OBVIOUS
    <3>1. Priority[u] > Priority[t]
      BY <2>1 DEF TransferInv, PreemptInv, Initializing
    <3>2. d \in Uses[t] /\ d \in Uses[u] /\ Distinct(d)
      BY <1>0, <2>1 DEF UsersInv, AllDistinct
    <3>3. Priority[u] < Priority[t]
      BY <2>1, <3>2, Preempted
    <3> QED
      BY <3>1, <3>3, SerialAssumption
  <2>3. RunningInv'
    BY <2>1, <2>2, <1>0a DEF TransferInv, RunningInv
  <2>4. ReadyInv'
    BY <2>1, <1>0a DEF TransferInv, ReadyInv
  <2>5. PreemptInv'
    BY <2>1, <1>0a DEF TransferInv, PreemptInv, Initializing
  <2> QED
    BY <1>0, <2>3, <2>4, <2>5 DEF TransferInv
<1>5. ASSUME NEW t \in Tasks, HalInitReturns(t) PROVE TransferInv'
  <2> DEFINE d == driver[t]
  <2>1. /\ at[t] = "hal_returns" /\ d \in Drivers
        /\ at' = [at EXCEPT ![t] = "set_flag"] /\ UNCHANGED <<driver, initialized>>
        /\ State' = [State EXCEPT ![d] = "ready"]
        /\ configured' = [configured EXCEPT ![d] = TRUE]
    BY <1>0, <1>5 DEF HalInitReturns, Goes, CallInv
  <2>2. RunningInv'
    BY <2>1, <1>0a DEF TransferInv, RunningInv
  <2>3. ReadyInv'
    BY <2>1, <1>0a DEF TransferInv, ReadyInv
  <2>4. PreemptInv'
    BY <2>1, <1>0a DEF TransferInv, PreemptInv, Initializing
  <2> QED
    BY <1>0, <2>2, <2>3, <2>4 DEF TransferInv
<1>6. ASSUME NEW t \in Tasks, HalInitFails(t) \/ CsClear(t) \/ CsSetAgain(t) PROVE TransferInv'
  <2>1. /\ at' = [at EXCEPT ![t] = "idle"] /\ driver' = [driver EXCEPT ![t] = "none"]
        /\ UNCHANGED <<initialized, State, configured>>
    BY <1>6 DEF HalInitFails, CsClear, CsSetAgain, Returns, Enters, Goes, handles
  <2> QED
    BY <1>0, <1>0a, <2>1, TransferFrame DEF Initializing
<1>7. ASSUME NEW t \in Tasks, SetFlag(t) PROVE TransferInv'
  <2>1. /\ at[t] = "set_flag" /\ driver[t] \in Drivers
        /\ at' = [at EXCEPT ![t] = "idle"] /\ driver' = [driver EXCEPT ![t] = "none"]
        /\ initialized' = [initialized EXCEPT ![driver[t]] = TRUE]
        /\ UNCHANGED <<State, configured>>
    BY <1>0, <1>7 DEF SetFlag, Returns, Enters, Goes, CallInv
  <2>2. RunningInv' /\ ReadyInv'
    BY <2>1, <1>0, <1>0a DEF TransferInv, RunningInv, ReadyInv, CallInv
  <2>3. PreemptInv'
    BY <2>1, <1>0a DEF TransferInv, PreemptInv, Initializing
  <2> QED
    BY <1>0, <2>2, <2>3 DEF TransferInv
<1>8. ASSUME NEW t \in Tasks, TransferReturns(t) PROVE TransferInv'
  <2>1. /\ at[t] = "transfer" /\ driver[t] \in Drivers
        /\ at' = [at EXCEPT ![t] = "idle"] /\ driver' = [driver EXCEPT ![t] = "none"]
        /\ State' = [State EXCEPT ![driver[t]] = "ready"]
        /\ UNCHANGED <<initialized, configured>>
    BY <1>0, <1>8 DEF TransferReturns, Returns, Enters, Goes, CallInv
  <2>2. RunningInv' /\ ReadyInv'
    BY <2>1, <1>0a DEF TransferInv, RunningInv, ReadyInv
  <2>3. PreemptInv'
    BY <2>1, <1>0a DEF TransferInv, PreemptInv, Initializing
  <2> QED
    BY <1>0, <2>2, <2>3 DEF TransferInv
<1>9. ASSUME NEW t \in Tasks, SelectSlave(t) \/ DeselectSlave(t) PROVE TransferInv'
  <2>1. /\ at' = [at EXCEPT ![t] = "select"] \/ at' = [at EXCEPT ![t] = "deselect"]
        /\ driver' = [driver EXCEPT ![t] = "SPI"]
        /\ UNCHANGED <<initialized, State, configured>>
    BY <1>9 DEF SelectSlave, DeselectSlave, Enters, Goes, handles
  <2> QED
    BY <1>0, <1>0a, <2>1, TransferFrame DEF Initializing
<1>10. CASE UNCHANGED vars
  <2>1. UNCHANGED <<at, driver, initialized, State, configured>>
    BY <1>10 DEF vars, calls, handles
  <2> QED
    BY <1>0, <2>1, TransferFrame
<1> QED
  BY <1>1, <1>2, <1>3, <1>4, <1>5, <1>6, <1>7, <1>8, <1>9, <1>10, ZenonT(60) DEF Next

\* No peripheral is set up again under a transfer, though two tasks can be
\* inside Initialize of one object at the same time: if the tasks that share a
\* driver have different priorities.
THEOREM TransfersAreUndisturbed ==
  (\A d \in Drivers : Distinct(d)) => (Spec => []TransfersUndisturbed)
<1> SUFFICES ASSUME AllDistinct PROVE Spec => []TransfersUndisturbed
  BY DEF AllDistinct
<1>1. Init => TransferInv
  BY InitLending DEF Init, LendingInv, TransferInv, RunningInv, ReadyInv, PreemptInv
<1>2. TransferInv /\ [Next]_vars => TransferInv'
  BY StepTransfer
<1>3. TransferInv => TransfersUndisturbed
  BY DEF TransferInv, RunningInv, TransfersUndisturbed
<1> QED
  BY <1>1, <1>2, <1>3, PTL DEF Spec
-----------------------------------------------------------------------------
(* Handles. *)

\* The drivers whose handles begin, or are put, in the reset state.
Resettable == Static \cup {"I2C"}

\* From the HAL's Init on the handle of such a driver is locked only by a
\* transfer; the handle of a static object is so from the start.
LockInv == \A d \in Resettable :
  /\ Lock[d]
  /\ \/ d \in Static \/ initialized[d]
     \/ \E t \in Tasks : at[t] \in {"hal_returns", "set_flag"} /\ driver[t] = d
  => \E t \in Tasks : at[t] = "transfer" /\ driver[t] = d

\* A step that leaves the locks alone, and begins or ends neither a transfer
\* nor the HAL's Init, preserves it.
LEMMA LockFrame ==
  ASSUME LockInv, UNCHANGED <<initialized, Lock>>,
         \A t \in Tasks : at'[t] \in {"hal_returns", "set_flag"} =>
           at[t] \in {"hal_returns", "set_flag"} /\ driver'[t] = driver[t],
         \A t \in Tasks : at[t] = "transfer" => at'[t] = "transfer" /\ driver'[t] = driver[t]
  PROVE  LockInv'
BY DEF LockInv, Resettable

\* Every step preserves it.
LEMMA StepLockInv == CallInv /\ LockInv /\ [Next]_vars => LockInv'
<1> SUFFICES ASSUME CallInv, LockInv, [Next]_vars PROVE LockInv'
  OBVIOUS
<1>0. /\ at \in [Tasks -> Initializing \cup {"idle", "select", "deselect", "transfer"}]
      /\ driver \in [Tasks -> Drivers \cup {"none"}]
      /\ State \in [Drivers -> {"reset", "ready", "busy"}]
      /\ initialized \in [Drivers -> BOOLEAN] /\ Lock \in [Drivers -> BOOLEAN]
      /\ Resettable \subseteq Drivers
  BY SerialAssumption DEF CallInv, TypeOK, Resettable, Drivers
<1>1. ASSUME NEW t \in Tasks, NEW d \in Drivers, Initialize(t, d) PROVE LockInv'
  <2>1. /\ at[t] = "idle" /\ at' = [at EXCEPT ![t] = "pins"]
        /\ driver' = [driver EXCEPT ![t] = d] /\ UNCHANGED <<initialized, Lock>>
    BY <1>1 DEF Initialize, Idle, Enters, Goes, handles
  <2> QED
    BY <1>0, <2>1, LockFrame
<1>2. ASSUME NEW t \in Tasks, NEW d \in Drivers, Transfer(t, d) PROVE LockInv'
  <2>1. /\ at[t] = "idle" /\ at' = [at EXCEPT ![t] = "transfer"]
        /\ driver' = [driver EXCEPT ![t] = d]
        /\ Lock' = [Lock EXCEPT ![d] = TRUE] /\ initialized' = initialized
    BY <1>2 DEF Transfer, Idle, Enters, Goes
  <2>2. at'[t] = "transfer" /\ driver'[t] = d
    BY <1>0, <2>1
  <2>3. ASSUME NEW e \in Resettable, e # d PROVE LockInv!(e) => LockInv!(e)'
    BY <1>0, <2>1, <2>3
  <2> QED
    BY <2>2, <2>3 DEF LockInv
<1>3. ASSUME NEW t \in Tasks,
             ConfigurePin(t) \/ PinsConfigured(t) \/ CsInitialize(t) \/ CsSet(t)
      PROVE  LockInv'
  <2>1. at[t] \notin {"transfer", "idle"}
    BY <1>3 DEF ConfigurePin, PinsConfigured, CsInitialize, CsSet
  <2>2. \E l \in {"pins", "cs_write", "cs_set", "hal_init"} : at' = [at EXCEPT ![t] = l]
    BY <1>3, <1>0 DEF ConfigurePin, PinsConfigured, CsInitialize, CsSet, Goes
  <2>3. UNCHANGED <<driver, initialized, Lock>>
    BY <1>3 DEF ConfigurePin, PinsConfigured, CsInitialize, CsSet, handles
  <2> QED
    BY <1>0, <2>1, <2>2, <2>3, LockFrame
<1>4. ASSUME NEW t \in Tasks, HalInit(t) PROVE LockInv'
  <2> DEFINE d == driver[t]
  <2>1. /\ at[t] = "hal_init" /\ d \in Drivers
        /\ at' = [at EXCEPT ![t] = "hal_returns"] /\ UNCHANGED <<driver, initialized>>
        /\ Lock' = [Lock EXCEPT ![d] = @ /\ ~(ResetsState(d) \/ State[d] = "reset")]
    BY <1>4 DEF HalInit, Goes, CallInv
  <2>2. \A u \in Tasks : at[u] = "transfer" => at'[u] = "transfer"
    BY <1>0, <2>1
  <2>3. ASSUME NEW e \in Resettable, Lock'[e],
               \/ e \in Static \/ initialized'[e]
               \/ \E u \in Tasks : at'[u] \in {"hal_returns", "set_flag"} /\ driver'[u] = e
        PROVE  \E u \in Tasks : at[u] = "transfer" /\ driver[u] = e
    <3>1. Lock[e]
      BY <1>0, <2>1, <2>3
    <3>2. e = d => e \in Static
      BY <1>0, <2>1, <2>3 DEF Resettable, ResetsState
    <3>3. e # d => \A u \in Tasks : at'[u] \in {"hal_returns", "set_flag"} /\ driver'[u] = e
                     => at[u] \in {"hal_returns", "set_flag"} /\ driver[u] = e
      BY <1>0, <2>1
    <3> QED
      BY <2>1, <2>3, <3>1, <3>2, <3>3 DEF LockInv
  <2> QED
    BY <2>1, <2>2, <2>3 DEF LockInv
<1>5. ASSUME NEW t \in Tasks, HalInitReturns(t) PROVE LockInv'
  <2>1. /\ at[t] = "hal_returns" /\ at' = [at EXCEPT ![t] = "set_flag"]
        /\ UNCHANGED <<driver, initialized, Lock>>
    BY <1>5 DEF HalInitReturns, Goes
  <2> QED
    BY <1>0, <2>1, LockFrame
<1>6. ASSUME NEW t \in Tasks, HalInitFails(t) \/ CsClear(t) \/ CsSetAgain(t) PROVE LockInv'
  <2>1. /\ at[t] \in {"hal_returns", "select", "deselect"}
        /\ at' = [at EXCEPT ![t] = "idle"] /\ driver' = [driver EXCEPT ![t] = "none"]
        /\ UNCHANGED <<initialized, Lock>>
    BY <1>6 DEF HalInitFails, CsClear, CsSetAgain, Returns, Enters, Goes, handles
  <2> QED
    BY <1>0, <2>1, LockFrame
<1>7. ASSUME NEW t \in Tasks, SetFlag(t) PROVE LockInv'
  <2>1. /\ at[t] = "set_flag" /\ at' = [at EXCEPT ![t] = "idle"]
        /\ driver' = [driver EXCEPT ![t] = "none"] /\ Lock' = Lock
        /\ initialized' = [initialized EXCEPT ![driver[t]] = TRUE]
    BY <1>7 DEF SetFlag, Returns, Enters, Goes
  <2>2. \A u \in Tasks : at[u] = "transfer" => at'[u] = "transfer" /\ driver'[u] = driver[u]
    BY <1>0, <2>1
  <2>3. \A e \in Resettable : initialized'[e] => initialized[e] \/ e = driver[t]
    BY <1>0, <2>1
  <2>4. \A u \in Tasks : at'[u] \in {"hal_returns", "set_flag"} =>
          at[u] \in {"hal_returns", "set_flag"} /\ driver'[u] = driver[u]
    BY <1>0, <2>1
  <2> QED
    BY <2>1, <2>2, <2>3, <2>4 DEF LockInv
<1>8. ASSUME NEW t \in Tasks, TransferReturns(t) PROVE LockInv'
  <2> DEFINE d == driver[t]
  <2>1. /\ at[t] = "transfer" /\ d \in Drivers
        /\ at' = [at EXCEPT ![t] = "idle"] /\ driver' = [driver EXCEPT ![t] = "none"]
        /\ Lock' = [Lock EXCEPT ![d] = FALSE] /\ initialized' = initialized
    BY <1>8 DEF TransferReturns, Returns, Enters, Goes, CallInv
  <2>2. ~Lock'[d]
    BY <1>0, <2>1
  <2>3. \A e \in Resettable : e # d => Lock'[e] = Lock[e]
    BY <1>0, <2>1
  <2>4. \A u \in Tasks : at'[u] \in {"hal_returns", "set_flag"} =>
          at[u] \in {"hal_returns", "set_flag"} /\ driver'[u] = driver[u]
    BY <1>0, <2>1
  <2>5. \A u \in Tasks : at[u] = "transfer" /\ driver[u] # d =>
          at'[u] = "transfer" /\ driver'[u] = driver[u]
    BY <1>0, <2>1
  <2> QED
    BY <2>1, <2>2, <2>3, <2>4, <2>5 DEF LockInv
<1>9. ASSUME NEW t \in Tasks, SelectSlave(t) \/ DeselectSlave(t) PROVE LockInv'
  <2>1. /\ at[t] = "idle"
        /\ at' = [at EXCEPT ![t] = "select"] \/ at' = [at EXCEPT ![t] = "deselect"]
        /\ driver' = [driver EXCEPT ![t] = "SPI"] /\ UNCHANGED <<initialized, Lock>>
    BY <1>9 DEF SelectSlave, DeselectSlave, Idle, Enters, Goes, handles
  <2> QED
    BY <1>0, <2>1, LockFrame
<1>10. CASE UNCHANGED vars
  <2>1. UNCHANGED <<at, driver, initialized, Lock>>
    BY <1>10 DEF vars, calls, handles
  <2> QED
    BY <2>1, LockFrame
<1> QED
  BY <1>1, <1>2, <1>3, <1>4, <1>5, <1>6, <1>7, <1>8, <1>9, <1>10, ZenonT(60) DEF Next

\* The handle of an initialized driver nobody uses is free, if it began, or
\* was put, in the reset state.
THEOREM IdleHandlesAreFree == Spec => []IsIdleHandleFree
<1>1. Init => CallInv /\ LockInv
  BY InitLending, SerialAssumption
     DEF Init, LendingInv, CallInv, LockInv, Resettable, Drivers
<1>2. CallInv /\ LockInv /\ [Next]_vars => CallInv' /\ LockInv'
  BY StepCall, StepLockInv
<1>3. CallInv /\ LockInv => IsIdleHandleFree
  BY DEF LockInv, Resettable, IsIdleHandleFree
<1> QED
  BY <1>1, <1>2, <1>3, PTL DEF Spec
-----------------------------------------------------------------------------
(* Pins. *)

\* The pins that ConfigurePins goes through are the ones the driver needs, each
\* of them of this driver only.
LEMMA PinFacts ==
  /\ \A d \in Drivers : AlternateFunction[d] # "none" /\ Len(Pins[d]) \in 0..4
  /\ \A d \in Drivers : \A i \in 1..Len(Pins[d]) : Pins[d][i] \in Needs[d]
  /\ \A d \in Drivers : \A p \in Needs[d] : \E i \in 1..Len(Pins[d]) : p = Pins[d][i]
  /\ \A d, e \in Drivers : d # e => Needs[d] \cap Needs[e] = {}
  /\ \A d \in Drivers : Needs[d] \subseteq AllPins
<1> USE DEF Drivers
<1>1. /\ Len(Pins["SPI"]) = 3
      /\ Pins["SPI"][1] = "miso" /\ Pins["SPI"][2] = "mosi" /\ Pins["SPI"][3] = "sclk"
  BY DEF Pins
<1>2. Len(Pins["I2C"]) = 2 /\ Pins["I2C"][1] = "scl" /\ Pins["I2C"][2] = "sda"
  BY DEF Pins
<1>3. /\ Len(Pins["UART"]) = 4 /\ Pins["UART"][1] = "tx" /\ Pins["UART"][2] = "rx"
      /\ Pins["UART"][3] = "cts" /\ Pins["UART"][4] = "rts"
  BY DEF Pins
<1>4. \A d \in Drivers : AlternateFunction[d] # "none" /\ Len(Pins[d]) \in 0..4
  BY <1>1, <1>2, <1>3 DEF AlternateFunction
<1>5. /\ Needs["SPI"] = {"miso", "mosi", "sclk"}
      /\ Needs["I2C"] = {"scl", "sda"}
      /\ Needs["UART"] = {"tx", "rx", "cts", "rts"}
  BY DEF Needs
<1>6. \A d \in Drivers : \A i \in 1..Len(Pins[d]) : Pins[d][i] \in Needs[d]
  <2>1. \A i \in 1..3 : Pins["SPI"][i] \in Needs["SPI"]
    BY <1>1, <1>5
  <2>2. \A i \in 1..2 : Pins["I2C"][i] \in Needs["I2C"]
    BY <1>2, <1>5
  <2>3. \A i \in 1..4 : Pins["UART"][i] \in Needs["UART"]
    BY <1>3, <1>5
  <2> QED
    BY <1>1, <1>2, <1>3, <2>1, <2>2, <2>3
<1>7. \A d \in Drivers : \A p \in Needs[d] : \E i \in 1..Len(Pins[d]) : p = Pins[d][i]
  <2>1. \A p \in Needs["SPI"] : \E i \in 1..3 : p = Pins["SPI"][i]
    BY <1>1, <1>5
  <2>2. \A p \in Needs["I2C"] : \E i \in 1..2 : p = Pins["I2C"][i]
    BY <1>2, <1>5
  <2>3. \A p \in Needs["UART"] : \E i \in 1..4 : p = Pins["UART"][i]
    BY <1>3, <1>5
  <2> QED
    BY <1>1, <1>2, <1>3, <2>1, <2>2, <2>3
<1>8. \A d, e \in Drivers : d # e => Needs[d] \cap Needs[e] = {}
  BY <1>5
<1>9. \A d \in Drivers : Needs[d] \subseteq AllPins
  BY <1>5 DEF AllPins
<1> QED
  BY <1>4, <1>6, <1>7, <1>8, <1>9

\* The first n pins of a driver have its alternate function.
Wired(d, n) == \A i \in 1..n : mode[Pins[d][i]] = AlternateFunction[d]

\* The inductive invariant of the pins: nobody gives a pin the function of
\* another driver, and Initialize has set up the pins it has been through.
WiringInv ==
  /\ \A d \in Drivers : \A p \in Needs[d] : mode[p] \in {"none", AlternateFunction[d]}
  /\ \A t \in Tasks : at[t] = "pins" =>
       pin[t] \in 0..Len(Pins[driver[t]]) /\ Wired(driver[t], pin[t])
  /\ \A t \in Tasks : at[t] # "pins" => pin[t] = 0
  /\ \A t \in Tasks : at[t] \in Initializing \ {"pins"} =>
       Wired(driver[t], Len(Pins[driver[t]]))
  /\ \A d \in Drivers : initialized[d] => Wired(d, Len(Pins[d]))

\* A step that leaves the pins and initialized_ alone, and begins nothing but
\* an Initialize, preserves it.
LEMMA WiringFrame ==
  ASSUME WiringInv, UNCHANGED <<mode, pin, initialized>>,
         \A t \in Tasks : at'[t] \in Initializing =>
           /\ driver'[t] = driver[t]
           /\ (at'[t] = "pins" <=> at[t] = "pins") /\ at[t] \in Initializing,
         \A t \in Tasks : at'[t] \notin Initializing => at[t] # "pins"
  PROVE  WiringInv'
<1>1. \A t \in Tasks : at'[t] = "pins" =>
        /\ driver'[t] = driver[t] /\ pin[t] \in 0..Len(Pins[driver[t]])
        /\ Wired(driver[t], pin[t])'
  BY DEF WiringInv, Wired, Initializing
<1> QED
  BY <1>1 DEF WiringInv, Wired, Initializing

\* Every step preserves it.
LEMMA StepWiring == CallInv /\ WiringInv /\ [Next]_vars => WiringInv'
<1> SUFFICES ASSUME CallInv, WiringInv, [Next]_vars PROVE WiringInv'
  OBVIOUS
<1>0. /\ at \in [Tasks -> Initializing \cup {"idle", "select", "deselect", "transfer"}]
      /\ driver \in [Tasks -> Drivers \cup {"none"}] /\ pin \in [Tasks -> 0..4]
      /\ mode \in [AllPins -> {"none", "GPIO_AF6_SPI3", "GPIO_AF4_I2C1", "GPIO_AF7_USART3"}]
      /\ initialized \in [Drivers -> BOOLEAN]
  BY DEF CallInv, TypeOK
<1>1. ASSUME NEW t \in Tasks, NEW d \in Drivers, Initialize(t, d) PROVE WiringInv'
  <2>1. /\ at[t] = "idle" /\ at' = [at EXCEPT ![t] = "pins"]
        /\ driver' = [driver EXCEPT ![t] = d] /\ UNCHANGED <<mode, pin, initialized>>
    BY <1>1 DEF Initialize, Idle, Enters, Goes, handles
  <2>2. pin[t] = 0
    BY <2>1 DEF WiringInv
  <2>3. Wired(d, 0) /\ 0 \in 0..Len(Pins[d])
    BY PinFacts DEF Wired
  <2>4. \A u \in Tasks : at'[u] = "pins" =>
          pin[u] \in 0..Len(Pins[driver'[u]]) /\ Wired(driver'[u], pin[u])
    BY <1>0, <2>1, <2>2, <2>3 DEF WiringInv
  <2>5. \A u \in Tasks : at'[u] # "pins" => u # t /\ at'[u] = at[u] /\ driver'[u] = driver[u]
    BY <1>0, <2>1
  <2> QED
    BY <2>1, <2>4, <2>5 DEF WiringInv, Wired
<1>2. ASSUME NEW t \in Tasks, ConfigurePin(t) PROVE WiringInv'
  <2> DEFINE d == driver[t]
             n == pin[t] + 1
             p == Pins[d][n]
  <2>1. /\ at[t] = "pins" /\ d \in Drivers /\ n \in 1..Len(Pins[d])
        /\ UNCHANGED <<at, driver, initialized>>
        /\ pin' = [pin EXCEPT ![t] = n]
        /\ mode' = [mode EXCEPT ![p] = IF @ = "none" THEN AlternateFunction[d] ELSE @]
    <3>1. /\ at[t] = "pins" /\ pin[t] < Len(Pins[d]) /\ UNCHANGED <<at, driver, initialized>>
          /\ pin' = [pin EXCEPT ![t] = n]
      BY <1>2 DEF ConfigurePin, handles
    <3>2. d \in Drivers
      BY <3>1 DEF CallInv
    <3>3. \A i, l \in 0..4 : i < l => i + 1 \in 1..l
      OBVIOUS
    <3>4. Len(Pins[d]) \in 0..4
      BY <3>2, PinFacts, Zenon
    <3>5. pin[t] \in 0..4
      BY <1>0
    <3>6. n \in 1..Len(Pins[d])
      BY <3>1, <3>3, <3>4, <3>5, Zenon
    <3>7. pin'[t] = n
      BY <1>0, <3>1
    <3>8. mode' = [mode EXCEPT ![Pins[d][pin'[t]]] = IF @ = "none" THEN AlternateFunction[d] ELSE @]
      BY <1>2, Zenon DEF ConfigurePin
    <3>9. mode' = [mode EXCEPT ![p] = IF @ = "none" THEN AlternateFunction[d] ELSE @]
      BY <3>7, <3>8, Zenon
    <3> QED
      BY <3>1, <3>2, <3>6, <3>9
  <2>2. p \in Needs[d] /\ p \in AllPins
    BY <2>1, PinFacts
  <2> HIDE DEF p
  <2>3. mode'[p] = AlternateFunction[d]
    BY <1>0, <2>1, <2>2 DEF WiringInv
  <2>4. \A e \in Drivers : \A q \in Needs[e] :
          /\ mode[q] = AlternateFunction[e] => mode'[q] = AlternateFunction[e]
          /\ mode'[q] \in {"none", AlternateFunction[e]}
    <3> SUFFICES ASSUME NEW e \in Drivers, NEW q \in Needs[e]
                 PROVE  /\ mode[q] = AlternateFunction[e] => mode'[q] = AlternateFunction[e]
                        /\ mode'[q] \in {"none", AlternateFunction[e]}
      OBVIOUS
    <3>1. mode[q] \in {"none", AlternateFunction[e]}
      BY DEF WiringInv
    <3>2. q \in AllPins
      BY PinFacts
    <3>3. CASE q = p
      <4>1. e = d
        BY <2>1, <2>2, <3>3, PinFacts
      <4> QED
        BY <2>3, <3>3, <4>1
    <3>4. CASE q # p
      BY <1>0, <2>1, <3>1, <3>2, <3>4
    <3> QED
      BY <3>3, <3>4
  <2>5. ASSUME NEW e \in Drivers, NEW l, l \in 0..Len(Pins[e]), Wired(e, l), NEW i \in 1..l
        PROVE  mode'[Pins[e][i]] = AlternateFunction[e]
    <3>1. Len(Pins[e]) \in 0..4
      BY PinFacts
    <3>2. i \in 1..Len(Pins[e])
      BY <2>5, <3>1
    <3>3. Pins[e][i] \in Needs[e]
      BY <3>2, PinFacts
    <3>4. mode[Pins[e][i]] = AlternateFunction[e]
      BY <2>5 DEF Wired
    <3> QED
      BY <2>4, <3>3, <3>4
  <2>6. ASSUME NEW u \in Tasks, at[u] = "pins"
        PROVE  pin'[u] \in 0..Len(Pins[driver[u]]) /\ Wired(driver[u], pin[u])'
    <3>1. driver[u] \in Drivers /\ driver'[u] = driver[u]
      BY <2>1, <2>6 DEF CallInv
    <3>2. pin[u] \in 0..Len(Pins[driver[u]]) /\ Wired(driver[u], pin[u])
      BY <2>6 DEF WiringInv
    <3>3. \A i \in 1..pin[u] : mode'[Pins[driver[u]][i]] = AlternateFunction[driver[u]]
      BY <2>5, <3>1, <3>2
    <3>4. CASE u = t
      <4>1. pin'[u] = n /\ n \in 0..Len(Pins[d]) /\ pin[u] \in Nat
        BY <1>0, <2>1, <3>4, PinFacts
      <4>2. \A i \in 1..n : i = n \/ i \in 1..pin[u]
        BY <3>4, <4>1
      <4>3. \A i \in 1..n : mode'[Pins[d][i]] = AlternateFunction[d]
        BY <2>3, <3>3, <3>4, <4>2 DEF p
      <4> QED
        BY <3>1, <3>4, <4>1, <4>3 DEF Wired
    <3>5. CASE u # t
      <4>1. pin'[u] = pin[u]
        BY <1>0, <2>1, <3>5
      <4> QED
        BY <3>1, <3>2, <3>3, <4>1 DEF Wired
    <3> QED
      BY <3>4, <3>5
  <2>7. \A u \in Tasks : at'[u] # "pins" => pin'[u] = 0
    BY <1>0, <2>1 DEF WiringInv
  <2>8. ASSUME NEW e \in Drivers, Wired(e, Len(Pins[e])) PROVE Wired(e, Len(Pins[e]))'
    <3>1. Len(Pins[e]) \in 0..Len(Pins[e])
      BY PinFacts
    <3> QED
      BY <2>5, <2>8, <3>1 DEF Wired
  <2>9. \A u \in Tasks : at[u] \in Initializing \ {"pins"} => Wired(driver[u], Len(Pins[driver[u]]))'
    <3> SUFFICES ASSUME NEW u \in Tasks, at[u] \in Initializing \ {"pins"}
                 PROVE  Wired(driver[u], Len(Pins[driver[u]]))'
      OBVIOUS
    <3>1. driver[u] \in Drivers /\ driver'[u] = driver[u]
      BY <2>1 DEF CallInv, Initializing
    <3>2. Wired(driver[u], Len(Pins[driver[u]]))
      BY DEF WiringInv
    <3> QED
      BY <2>8, <3>1, <3>2 DEF Wired
  <2> QED
    BY <2>1, <2>4, <2>6, <2>7, <2>8, <2>9 DEF WiringInv
<1>3. ASSUME NEW t \in Tasks, PinsConfigured(t) PROVE WiringInv'
  <2>1. /\ at[t] = "pins" /\ pin[t] = Len(Pins[driver[t]])
        /\ \E l \in {"cs_write", "hal_init"} : at' = [at EXCEPT ![t] = l]
        /\ pin' = [pin EXCEPT ![t] = 0] /\ UNCHANGED <<driver, mode, initialized>>
    BY <1>3 DEF PinsConfigured, Goes, handles
  <2>2. Wired(driver[t], Len(Pins[driver[t]]))
    BY <2>1 DEF WiringInv
  <2>3. at'[t] \in {"cs_write", "hal_init"} /\ pin'[t] = 0
    BY <1>0, <2>1
  <2>4. \A u \in Tasks : u # t => at'[u] = at[u] /\ pin'[u] = pin[u]
    BY <1>0, <2>1
  <2> QED
    BY <2>1, <2>2, <2>3, <2>4 DEF WiringInv, Wired
<1>4. ASSUME NEW t \in Tasks, CsInitialize(t) \/ CsSet(t) \/ HalInit(t) \/ HalInitReturns(t)
      PROVE  WiringInv'
  <2>1. /\ at[t] \in Initializing \ {"pins"} /\ UNCHANGED <<driver, pin, mode, initialized>>
        /\ \E l \in {"cs_set", "hal_init", "hal_returns", "set_flag"} : at' = [at EXCEPT ![t] = l]
    BY <1>4 DEF CsInitialize, CsSet, HalInit, HalInitReturns, Goes, handles, Initializing
  <2> QED
    BY <1>0, <2>1, WiringFrame DEF Initializing
<1>5. ASSUME NEW t \in Tasks,
             \/ HalInitFails(t) \/ TransferReturns(t) \/ CsClear(t) \/ CsSetAgain(t)
      PROVE  WiringInv'
  <2>1. at[t] # "pins" /\ UNCHANGED <<pin, mode, initialized>>
    BY <1>5 DEF HalInitFails, TransferReturns, CsClear, CsSetAgain, handles
  <2>2. at' = [at EXCEPT ![t] = "idle"] /\ driver' = [driver EXCEPT ![t] = "none"]
    BY <1>5 DEF HalInitFails, TransferReturns, CsClear, CsSetAgain, Returns, Enters, Goes
  <2> QED
    BY <1>0, <2>1, <2>2, WiringFrame DEF Initializing
<1>6. ASSUME NEW t \in Tasks, SetFlag(t) PROVE WiringInv'
  <2>1. /\ at[t] = "set_flag" /\ at' = [at EXCEPT ![t] = "idle"]
        /\ driver' = [driver EXCEPT ![t] = "none"] /\ UNCHANGED <<pin, mode>>
        /\ initialized' = [initialized EXCEPT ![driver[t]] = TRUE]
    BY <1>6 DEF SetFlag, Returns, Enters, Goes
  <2>2. Wired(driver[t], Len(Pins[driver[t]]))
    BY <2>1 DEF WiringInv, Initializing
  <2>3. \A d \in Drivers : initialized'[d] => initialized[d] \/ d = driver[t]
    BY <1>0, <2>1
  <2>4. \A u \in Tasks : u # t => at'[u] = at[u] /\ driver'[u] = driver[u]
    BY <1>0, <2>1
  <2>5. at'[t] = "idle" /\ pin[t] = 0
    BY <1>0, <2>1 DEF WiringInv
  <2> QED
    BY <2>1, <2>2, <2>3, <2>4, <2>5 DEF WiringInv, Wired, Initializing
<1>7. ASSUME NEW t \in Tasks,
             \/ \E d \in Drivers : Transfer(t, d)
             \/ SelectSlave(t) \/ DeselectSlave(t)
      PROVE  WiringInv'
  <2>1. at[t] = "idle" /\ UNCHANGED <<pin, mode, initialized>>
    BY <1>7 DEF Transfer, SelectSlave, DeselectSlave, Idle, handles
  <2>2. /\ \E l \in {"transfer", "select", "deselect"} : at' = [at EXCEPT ![t] = l]
        /\ \E d \in Drivers : driver' = [driver EXCEPT ![t] = d]
    BY <1>7 DEF Transfer, SelectSlave, DeselectSlave, Enters, Goes, Drivers
  <2> QED
    BY <1>0, <2>1, <2>2, WiringFrame DEF Initializing
<1>8. CASE UNCHANGED vars
  <2>1. UNCHANGED <<at, driver, pin, mode, initialized>>
    BY <1>8 DEF vars, calls, handles
  <2> QED
    BY <2>1 DEF WiringInv, Wired
<1> QED
  BY <1>1, <1>2, <1>3, <1>4, <1>5, <1>6, <1>7, <1>8, ZenonT(60) DEF Next

\* Two tasks that initialize one driver at the same time leave all its pins in
\* its alternate function.
THEOREM PinsStayConfigured == Spec => []PinsAreConfigured
<1>1. Init => CallInv /\ WiringInv
  <2>1. Init => CallInv
    BY InitLending DEF LendingInv
  <2>2. Init => \A d \in Drivers : \A p \in Needs[d] : mode[p] = "none"
    BY PinFacts DEF Init
  <2> QED
    BY <2>1, <2>2 DEF Init, WiringInv, Initializing
<1>2. CallInv /\ WiringInv /\ [Next]_vars => CallInv' /\ WiringInv'
  BY StepCall, StepWiring
<1>3. CallInv /\ WiringInv => PinsAreConfigured
  BY PinFacts DEF WiringInv, Wired, PinsAreConfigured
<1> QED
  BY <1>1, <1>2, <1>3, PTL DEF Spec
=============================================================================
