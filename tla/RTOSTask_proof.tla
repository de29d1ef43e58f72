--------------------------- MODULE RTOSTask_proof ---------------------------
(***************************************************************************)
(* Proofs about RTOSTask for every set of tasks, clients and event bits,   *)
(* every assignment of owners and priorities and every timeout.  Two       *)
(* hypotheses are stated where they are needed, because the code does not  *)
(* ensure them: only the bits the exit mask clears are in use (LowBits),   *)
(* and every task is started by a context of higher priority.              *)
(***************************************************************************)
EXTENDS RTOSTask, TLAPS

LowBits == \A b \in EventBits : b < 16

OwnersOutrank == \A t \in Tasks : Priority[t] < Priority[Owner[t]]

\* How far Start() is tells the kernel state of a task without a handle.
StartInv == \A t \in Tasks :
  /\ handle[t] => starting[t] = "no" /\ kstate[t] \notin {"none", "deleted"}
  /\ starting[t] = "create" => kstate[t] = "none"
  /\ starting[t] = "assign" => kstate[t] = "ready"
  /\ starting[t] = "no" /\ ~handle[t] => kstate[t] \in {"none", "deleted"}

\* A task without a handle never gets past WaitForNotification's first line.
NoHandleInv == \A t \in Tasks :
  ~handle[t] => pc[t] = "wait" /\ notified[t] = {} /\ notifyState[t] = "idle"

\* A task blocked in xTaskNotifyWait is known to the kernel as waiting.
BlockedInv == \A t \in Tasks :
  kstate[t] = "blocked" /\ pc[t] = "waiting" => notifyState[t] = "waiting"

\* A received notification has left a bit.
ReceivedInv == \A t \in Tasks : notifyState[t] = "received" => notified[t] # {}

\* The kernel's notification state agrees with its notification value.
MailInv == \A t \in Tasks : notified[t] # {} => notifyState[t] = "received"

IInv == /\ TypeOK
        /\ StartInv
        /\ NoHandleInv
        /\ BlockedInv
        /\ ReceivedInv
        /\ LowBits => MailInv
        /\ OwnersOutrank => OwnWaitValid
-----------------------------------------------------------------------------
\* Every step is one of these: the case split of the proofs below.
LEMMA StepCases ==
  ASSUME [Next]_vars
  PROVE  \/ \E t \in Tasks :
               \/ \E b \in Bits : SetEventBitHandler(t, b) \/ SendNotification(t, b)
               \/ Start(t) \/ Suspend(t) \/ Resume(t) \/ Delete(t)
               \/ xTaskCreateStatic(t) \/ AssignHandle(t) \/ Expire(t)
               \/ WaitForNotification(t) \/ WaitReturns(t)
               \/ \E b \in EventBits : RunHandler(t, b)
               \/ DelayReturns(t) \/ NotificationReceivedReturns(t)
         \/ UNCHANGED vars
BY DEF Next, CallStep, StartStep, TaskStep, AllDestroyed

\* An owner that is free to call a method of t is not inside Start() of t.
LEMMA OwnerIdle ==
  ASSUME NEW t \in Tasks, TypeOK, CanCall(Owner[t])
  PROVE  starting[t] = "no"
BY ConstantsAssumption DEF CanCall, Busy, TypeOK

\* Every step keeps every variable in its type.
LEMMA TypeStep ==
  ASSUME TypeOK, [Next]_vars
  PROVE  TypeOK'
<1> USE DEF TypeOK, EventBits, MAX_EVENT_BIT, ValidBit, FirstEventBit, taskVars, tcbVars
<1>1. ASSUME NEW t \in Tasks, NEW b \in Bits, SetEventBitHandler(t, b)
      PROVE  TypeOK'
  BY <1>1 DEF SetEventBitHandler
<1>2. ASSUME NEW t \in Tasks, Start(t)
      PROVE  TypeOK'
  BY <1>2 DEF Start
<1>3. ASSUME NEW t \in Tasks, xTaskCreateStatic(t)
      PROVE  TypeOK'
  BY <1>3 DEF xTaskCreateStatic
<1>4. ASSUME NEW t \in Tasks, AssignHandle(t)
      PROVE  TypeOK'
  BY <1>4 DEF AssignHandle
<1>5. ASSUME NEW t \in Tasks, Suspend(t)
      PROVE  TypeOK'
  BY <1>5 DEF Suspend
<1>6. ASSUME NEW t \in Tasks, Resume(t)
      PROVE  TypeOK'
  BY <1>6 DEF Resume
<1>7. ASSUME NEW t \in Tasks, Delete(t)
      PROVE  TypeOK'
  BY <1>7 DEF Delete
<1>8. ASSUME NEW t \in Tasks, NEW b \in Bits, SendNotification(t, b)
      PROVE  TypeOK'
  BY <1>8 DEF SendNotification
<1>9. ASSUME NEW t \in Tasks, Expire(t)
      PROVE  TypeOK'
  BY <1>9 DEF Expire
<1>10. ASSUME NEW t \in Tasks, WaitForNotification(t)
      PROVE  TypeOK'
  BY <1>10 DEF WaitForNotification
<1>11. ASSUME NEW t \in Tasks, WaitReturns(t)
      PROVE  TypeOK'
  BY <1>11 DEF WaitReturns
<1>12. ASSUME NEW t \in Tasks, NEW b \in EventBits, RunHandler(t, b)
      PROVE  TypeOK'
  BY <1>12, ConstantsAssumption DEF RunHandler
<1>13. ASSUME NEW t \in Tasks, DelayReturns(t)
      PROVE  TypeOK'
  BY <1>13 DEF DelayReturns
<1>14. ASSUME NEW t \in Tasks, NotificationReceivedReturns(t)
      PROVE  TypeOK'
  BY <1>14 DEF NotificationReceivedReturns
<1>15. CASE UNCHANGED vars
  BY <1>15 DEF vars
<1> QED
  BY <1>1, <1>2, <1>3, <1>4, <1>5, <1>6, <1>7, <1>8, <1>9, <1>10,
     <1>11, <1>12, <1>13, <1>14, <1>15, StepCases

\* Type correctness: in particular the event bits of the kernel's word, of
\* notification_value_ and of the handler table stay below MAX_EVENT_BIT, and
\* the dispatch loop never indexes past the table.
THEOREM TypeCorrect == Spec => []TypeOK
<1>1. Init => TypeOK
  BY DEF Init, TypeOK, MAX_EVENT_BIT
<1>2. TypeOK /\ [Next]_vars => TypeOK'
  BY TypeStep
<1> QED
  BY <1>1, <1>2, PTL DEF Spec

\* Start() publishes the handle only of a task that the kernel knows, and
\* creates the task only once.
LEMMA StartInvStep ==
  ASSUME TypeOK, StartInv, NoHandleInv, [Next]_vars
  PROVE  StartInv'
<1> USE DEF TypeOK, StartInv, NoHandleInv, taskVars, tcbVars
<1>1. ASSUME NEW t \in Tasks, NEW b \in Bits, SetEventBitHandler(t, b)
      PROVE  StartInv'
  BY <1>1 DEF SetEventBitHandler
<1>2. ASSUME NEW t \in Tasks, Start(t)
      PROVE  StartInv'
  BY <1>2, OwnerIdle DEF Start
<1>3. ASSUME NEW t \in Tasks, xTaskCreateStatic(t)
      PROVE  StartInv'
  BY <1>3 DEF xTaskCreateStatic
<1>4. ASSUME NEW t \in Tasks, AssignHandle(t)
      PROVE  StartInv'
  BY <1>4 DEF AssignHandle
<1>5. ASSUME NEW t \in Tasks, Suspend(t)
      PROVE  StartInv'
  BY <1>5 DEF Suspend
<1>6. ASSUME NEW t \in Tasks, Resume(t)
      PROVE  StartInv'
  BY <1>6 DEF Resume
<1>7. ASSUME NEW t \in Tasks, Delete(t)
      PROVE  StartInv'
  BY <1>7, OwnerIdle DEF Delete
<1>8. ASSUME NEW t \in Tasks, NEW b \in Bits, SendNotification(t, b)
      PROVE  StartInv'
  BY <1>8 DEF SendNotification
<1>9. ASSUME NEW t \in Tasks, Expire(t)
      PROVE  StartInv'
  BY <1>9 DEF Expire
<1>10. ASSUME NEW t \in Tasks, WaitForNotification(t)
      PROVE  StartInv'
  BY <1>10 DEF WaitForNotification, Running
<1>11. ASSUME NEW t \in Tasks, WaitReturns(t)
      PROVE  StartInv'
  BY <1>11 DEF WaitReturns
<1>12. ASSUME NEW t \in Tasks, NEW b \in EventBits, RunHandler(t, b)
      PROVE  StartInv'
  BY <1>12 DEF RunHandler
<1>13. ASSUME NEW t \in Tasks, DelayReturns(t)
      PROVE  StartInv'
  BY <1>13 DEF DelayReturns
<1>14. ASSUME NEW t \in Tasks, NotificationReceivedReturns(t)
      PROVE  StartInv'
  BY <1>14 DEF NotificationReceivedReturns
<1>15. CASE UNCHANGED vars
  BY <1>15 DEF vars
<1> QED
  BY <1>1, <1>2, <1>3, <1>4, <1>5, <1>6, <1>7, <1>8, <1>9, <1>10,
     <1>11, <1>12, <1>13, <1>14, <1>15, StepCases

\* Without a handle a task gets no notification and never waits for one.
LEMMA NoHandleInvStep ==
  ASSUME TypeOK, StartInv, NoHandleInv, [Next]_vars
  PROVE  NoHandleInv'
<1> USE DEF TypeOK, StartInv, NoHandleInv, taskVars, tcbVars
<1>1. ASSUME NEW t \in Tasks, NEW b \in Bits, SetEventBitHandler(t, b)
      PROVE  NoHandleInv'
  BY <1>1 DEF SetEventBitHandler
<1>2. ASSUME NEW t \in Tasks, Start(t)
      PROVE  NoHandleInv'
  BY <1>2 DEF Start
<1>3. ASSUME NEW t \in Tasks, xTaskCreateStatic(t)
      PROVE  NoHandleInv'
  BY <1>3 DEF xTaskCreateStatic
<1>4. ASSUME NEW t \in Tasks, AssignHandle(t)
      PROVE  NoHandleInv'
  BY <1>4 DEF AssignHandle
<1>5. ASSUME NEW t \in Tasks, Suspend(t)
      PROVE  NoHandleInv'
  BY <1>5 DEF Suspend
<1>6. ASSUME NEW t \in Tasks, Resume(t)
      PROVE  NoHandleInv'
  BY <1>6 DEF Resume
<1>7. ASSUME NEW t \in Tasks, Delete(t)
      PROVE  NoHandleInv'
  BY <1>7 DEF Delete
<1>8. ASSUME NEW t \in Tasks, NEW b \in Bits, SendNotification(t, b)
      PROVE  NoHandleInv'
  BY <1>8 DEF SendNotification
<1>9. ASSUME NEW t \in Tasks, Expire(t)
      PROVE  NoHandleInv'
  BY <1>9 DEF Expire
<1>10. ASSUME NEW t \in Tasks, WaitForNotification(t)
      PROVE  NoHandleInv'
  BY <1>10 DEF WaitForNotification
<1>11. ASSUME NEW t \in Tasks, WaitReturns(t)
      PROVE  NoHandleInv'
  BY <1>11 DEF WaitReturns
<1>12. ASSUME NEW t \in Tasks, NEW b \in EventBits, RunHandler(t, b)
      PROVE  NoHandleInv'
  BY <1>12 DEF RunHandler
<1>13. ASSUME NEW t \in Tasks, DelayReturns(t)
      PROVE  NoHandleInv'
  BY <1>13 DEF DelayReturns
<1>14. ASSUME NEW t \in Tasks, NotificationReceivedReturns(t)
      PROVE  NoHandleInv'
  BY <1>14 DEF NotificationReceivedReturns
<1>15. CASE UNCHANGED vars
  BY <1>15 DEF vars
<1> QED
  BY <1>1, <1>2, <1>3, <1>4, <1>5, <1>6, <1>7, <1>8, <1>9, <1>10,
     <1>11, <1>12, <1>13, <1>14, <1>15, StepCases

\* Only xTaskNotifyWait blocks a task in the middle of WaitForNotification.
LEMMA BlockedInvStep ==
  ASSUME TypeOK, NoHandleInv, BlockedInv, [Next]_vars
  PROVE  BlockedInv'
<1> USE DEF TypeOK, NoHandleInv, BlockedInv, taskVars, tcbVars
<1>1. ASSUME NEW t \in Tasks, NEW b \in Bits, SetEventBitHandler(t, b)
      PROVE  BlockedInv'
  BY <1>1 DEF SetEventBitHandler
<1>2. ASSUME NEW t \in Tasks, Start(t)
      PROVE  BlockedInv'
  BY <1>2 DEF Start
<1>3. ASSUME NEW t \in Tasks, xTaskCreateStatic(t)
      PROVE  BlockedInv'
  BY <1>3 DEF xTaskCreateStatic
<1>4. ASSUME NEW t \in Tasks, AssignHandle(t)
      PROVE  BlockedInv'
  BY <1>4 DEF AssignHandle
<1>5. ASSUME NEW t \in Tasks, Suspend(t)
      PROVE  BlockedInv'
  BY <1>5 DEF Suspend
<1>6. ASSUME NEW t \in Tasks, Resume(t)
      PROVE  BlockedInv'
  BY <1>6 DEF Resume
<1>7. ASSUME NEW t \in Tasks, Delete(t)
      PROVE  BlockedInv'
  BY <1>7 DEF Delete
<1>8. ASSUME NEW t \in Tasks, NEW b \in Bits, SendNotification(t, b)
      PROVE  BlockedInv'
  BY <1>8 DEF SendNotification
<1>9. ASSUME NEW t \in Tasks, Expire(t)
      PROVE  BlockedInv'
  BY <1>9 DEF Expire
<1>10. ASSUME NEW t \in Tasks, WaitForNotification(t)
      PROVE  BlockedInv'
  BY <1>10 DEF WaitForNotification, Running
<1>11. ASSUME NEW t \in Tasks, WaitReturns(t)
      PROVE  BlockedInv'
  BY <1>11 DEF WaitReturns, Running
<1>12. ASSUME NEW t \in Tasks, NEW b \in EventBits, RunHandler(t, b)
      PROVE  BlockedInv'
  BY <1>12 DEF RunHandler
<1>13. ASSUME NEW t \in Tasks, DelayReturns(t)
      PROVE  BlockedInv'
  BY <1>13 DEF DelayReturns, Running
<1>14. ASSUME NEW t \in Tasks, NotificationReceivedReturns(t)
      PROVE  BlockedInv'
  BY <1>14 DEF NotificationReceivedReturns, Running
<1>15. CASE UNCHANGED vars
  BY <1>15 DEF vars
<1> QED
  BY <1>1, <1>2, <1>3, <1>4, <1>5, <1>6, <1>7, <1>8, <1>9, <1>10,
     <1>11, <1>12, <1>13, <1>14, <1>15, StepCases

\* A notification is received by its bit, and both are consumed together.
LEMMA ReceivedInvStep ==
  ASSUME TypeOK, ReceivedInv, [Next]_vars
  PROVE  ReceivedInv'
<1> USE DEF TypeOK, ReceivedInv, taskVars, tcbVars
<1>1. ASSUME NEW t \in Tasks, NEW b \in Bits, SetEventBitHandler(t, b)
      PROVE  ReceivedInv'
  BY <1>1 DEF SetEventBitHandler
<1>2. ASSUME NEW t \in Tasks, Start(t)
      PROVE  ReceivedInv'
  BY <1>2 DEF Start
<1>3. ASSUME NEW t \in Tasks, xTaskCreateStatic(t)
      PROVE  ReceivedInv'
  BY <1>3 DEF xTaskCreateStatic
<1>4. ASSUME NEW t \in Tasks, AssignHandle(t)
      PROVE  ReceivedInv'
  BY <1>4 DEF AssignHandle
<1>5. ASSUME NEW t \in Tasks, Suspend(t)
      PROVE  ReceivedInv'
  BY <1>5 DEF Suspend
<1>6. ASSUME NEW t \in Tasks, Resume(t)
      PROVE  ReceivedInv'
  BY <1>6 DEF Resume
<1>7. ASSUME NEW t \in Tasks, Delete(t)
      PROVE  ReceivedInv'
  BY <1>7 DEF Delete
<1>8. ASSUME NEW t \in Tasks, NEW b \in Bits, SendNotification(t, b)
      PROVE  ReceivedInv'
  BY <1>8 DEF SendNotification
<1>9. ASSUME NEW t \in Tasks, Expire(t)
      PROVE  ReceivedInv'
  BY <1>9 DEF Expire
<1>10. ASSUME NEW t \in Tasks, WaitForNotification(t)
      PROVE  ReceivedInv'
  BY <1>10 DEF WaitForNotification
<1>11. ASSUME NEW t \in Tasks, WaitReturns(t)
      PROVE  ReceivedInv'
  BY <1>11 DEF WaitReturns
<1>12. ASSUME NEW t \in Tasks, NEW b \in EventBits, RunHandler(t, b)
      PROVE  ReceivedInv'
  BY <1>12 DEF RunHandler
<1>13. ASSUME NEW t \in Tasks, DelayReturns(t)
      PROVE  ReceivedInv'
  BY <1>13 DEF DelayReturns
<1>14. ASSUME NEW t \in Tasks, NotificationReceivedReturns(t)
      PROVE  ReceivedInv'
  BY <1>14 DEF NotificationReceivedReturns
<1>15. CASE UNCHANGED vars
  BY <1>15 DEF vars
<1> QED
  BY <1>1, <1>2, <1>3, <1>4, <1>5, <1>6, <1>7, <1>8, <1>9, <1>10,
     <1>11, <1>12, <1>13, <1>14, <1>15, StepCases

\* With an exit mask that covers the bits in use, no bit outlives its round.
LEMMA MailInvStep ==
  ASSUME LowBits, TypeOK, MailInv, [Next]_vars
  PROVE  MailInv'
<1> USE DEF LowBits, TypeOK, MailInv, taskVars, tcbVars
<1>1. ASSUME NEW t \in Tasks, NEW b \in Bits, SetEventBitHandler(t, b)
      PROVE  MailInv'
  BY <1>1 DEF SetEventBitHandler
<1>2. ASSUME NEW t \in Tasks, Start(t)
      PROVE  MailInv'
  BY <1>2 DEF Start
<1>3. ASSUME NEW t \in Tasks, xTaskCreateStatic(t)
      PROVE  MailInv'
  BY <1>3 DEF xTaskCreateStatic
<1>4. ASSUME NEW t \in Tasks, AssignHandle(t)
      PROVE  MailInv'
  BY <1>4 DEF AssignHandle
<1>5. ASSUME NEW t \in Tasks, Suspend(t)
      PROVE  MailInv'
  BY <1>5 DEF Suspend
<1>6. ASSUME NEW t \in Tasks, Resume(t)
      PROVE  MailInv'
  BY <1>6 DEF Resume
<1>7. ASSUME NEW t \in Tasks, Delete(t)
      PROVE  MailInv'
  BY <1>7 DEF Delete
<1>8. ASSUME NEW t \in Tasks, NEW b \in Bits, SendNotification(t, b)
      PROVE  MailInv'
  BY <1>8 DEF SendNotification
<1>9. ASSUME NEW t \in Tasks, Expire(t)
      PROVE  MailInv'
  BY <1>9 DEF Expire
<1>10. ASSUME NEW t \in Tasks, WaitForNotification(t)
      PROVE  MailInv'
  BY <1>10 DEF WaitForNotification
<1>11. ASSUME NEW t \in Tasks, WaitReturns(t)
      PROVE  MailInv'
  BY <1>11 DEF WaitReturns, ClearOnExit
<1>12. ASSUME NEW t \in Tasks, NEW b \in EventBits, RunHandler(t, b)
      PROVE  MailInv'
  BY <1>12 DEF RunHandler
<1>13. ASSUME NEW t \in Tasks, DelayReturns(t)
      PROVE  MailInv'
  BY <1>13 DEF DelayReturns
<1>14. ASSUME NEW t \in Tasks, NotificationReceivedReturns(t)
      PROVE  MailInv'
  BY <1>14 DEF NotificationReceivedReturns
<1>15. CASE UNCHANGED vars
  BY <1>15 DEF vars
<1> QED
  BY <1>1, <1>2, <1>3, <1>4, <1>5, <1>6, <1>7, <1>8, <1>9, <1>10,
     <1>11, <1>12, <1>13, <1>14, <1>15, StepCases

\* The argument against the start race: a task that runs without a handle is
\* one whose owner is still inside Start(), so an owner of higher priority is
\* runnable and the task is not scheduled.
LEMMA ScheduledHasHandle ==
  ASSUME OwnersOutrank, TypeOK, StartInv, NEW t \in Tasks, Running(t)
  PROVE  handle[t]
<1> SUFFICES ASSUME ~handle[t] PROVE FALSE
  OBVIOUS
<1>1. starting[t] # "no"
  BY DEF Running, StartInv, TypeOK
<1>2. Owner[t] \in Clients /\ Owner[t] \notin Tasks
  BY ConstantsAssumption
<1>3. Runnable(Owner[t])
  BY <1>1, <1>2 DEF Runnable, Busy
<1>4. Priority[Owner[t]] <= Priority[t]
  BY <1>2, <1>3 DEF Running, Scheduled
<1>5. Priority[t] \in Nat /\ Priority[Owner[t]] \in Nat
  BY <1>2, ConstantsAssumption
<1> QED
  BY <1>4, <1>5 DEF OwnersOutrank

\* So with owners of higher priority no wait is refused.
LEMMA OwnWaitValidStep ==
  ASSUME OwnersOutrank, TypeOK, StartInv, OwnWaitValid, [Next]_vars
  PROVE  OwnWaitValid'
<1> USE DEF TypeOK, OwnWaitValid, taskVars, tcbVars
<1>1. ASSUME NEW t \in Tasks, NEW b \in Bits, SetEventBitHandler(t, b)
      PROVE  OwnWaitValid'
  BY <1>1 DEF SetEventBitHandler
<1>2. ASSUME NEW t \in Tasks, Start(t)
      PROVE  OwnWaitValid'
  BY <1>2 DEF Start
<1>3. ASSUME NEW t \in Tasks, xTaskCreateStatic(t)
      PROVE  OwnWaitValid'
  BY <1>3 DEF xTaskCreateStatic
<1>4. ASSUME NEW t \in Tasks, AssignHandle(t)
      PROVE  OwnWaitValid'
  BY <1>4 DEF AssignHandle
<1>5. ASSUME NEW t \in Tasks, Suspend(t)
      PROVE  OwnWaitValid'
  BY <1>5 DEF Suspend
<1>6. ASSUME NEW t \in Tasks, Resume(t)
      PROVE  OwnWaitValid'
  BY <1>6 DEF Resume
<1>7. ASSUME NEW t \in Tasks, Delete(t)
      PROVE  OwnWaitValid'
  BY <1>7 DEF Delete
<1>8. ASSUME NEW t \in Tasks, NEW b \in Bits, SendNotification(t, b)
      PROVE  OwnWaitValid'
  BY <1>8 DEF SendNotification
<1>9. ASSUME NEW t \in Tasks, Expire(t)
      PROVE  OwnWaitValid'
  BY <1>9 DEF Expire
<1>10. ASSUME NEW t \in Tasks, WaitForNotification(t)
      PROVE  OwnWaitValid'
  <2>1. handle[t]
    BY <1>10, ScheduledHasHandle DEF WaitForNotification
  <2> QED
    BY <1>10, <2>1 DEF WaitForNotification
<1>11. ASSUME NEW t \in Tasks, WaitReturns(t)
      PROVE  OwnWaitValid'
  BY <1>11 DEF WaitReturns
<1>12. ASSUME NEW t \in Tasks, NEW b \in EventBits, RunHandler(t, b)
      PROVE  OwnWaitValid'
  BY <1>12 DEF RunHandler
<1>13. ASSUME NEW t \in Tasks, DelayReturns(t)
      PROVE  OwnWaitValid'
  BY <1>13 DEF DelayReturns
<1>14. ASSUME NEW t \in Tasks, NotificationReceivedReturns(t)
      PROVE  OwnWaitValid'
  BY <1>14 DEF NotificationReceivedReturns
<1>15. CASE UNCHANGED vars
  BY <1>15 DEF vars
<1> QED
  BY <1>1, <1>2, <1>3, <1>4, <1>5, <1>6, <1>7, <1>8, <1>9, <1>10,
     <1>11, <1>12, <1>13, <1>14, <1>15, StepCases

-----------------------------------------------------------------------------
\* The inductive invariant.  StartInv and NoHandleInv support each other;
\* BlockedInv and MailInv relate the task's place in MainLoop to the kernel's
\* two words, which is what the properties about lost wake-ups need.
THEOREM Invariance == Spec => []IInv
<1>1. Init => IInv
  <2> SUFFICES ASSUME Init PROVE IInv
    OBVIOUS
  <2>1. TypeOK
    BY DEF Init, TypeOK, MAX_EVENT_BIT
  <2>2. StartInv /\ NoHandleInv /\ BlockedInv /\ ReceivedInv /\ MailInv /\ OwnWaitValid
    BY DEF Init, StartInv, NoHandleInv, BlockedInv, ReceivedInv, MailInv, OwnWaitValid
  <2> QED
    BY <2>1, <2>2 DEF IInv
<1>2. IInv /\ [Next]_vars => IInv'
  <2> SUFFICES ASSUME IInv, [Next]_vars PROVE IInv'
    OBVIOUS
  <2>1. TypeOK' /\ StartInv' /\ NoHandleInv' /\ BlockedInv' /\ ReceivedInv'
    BY TypeStep, StartInvStep, NoHandleInvStep, BlockedInvStep, ReceivedInvStep DEF IInv
  <2>2. LowBits => MailInv'
    BY MailInvStep DEF IInv
  <2>3. OwnersOutrank => OwnWaitValid'
    BY OwnWaitValidStep DEF IInv
  <2> QED
    BY <2>1, <2>2, <2>3 DEF IInv, LowBits, OwnersOutrank, EventBits, MAX_EVENT_BIT
<1> QED
  BY <1>1, <1>2, PTL DEF Spec

\* No task started by a context of higher priority is ever told by its own
\* WaitForNotification that it has not been started.
THEOREM OwnWaitIsValid == OwnersOutrank => (Spec => []OwnWaitValid)
<1> SUFFICES ASSUME OwnersOutrank PROVE Spec => []OwnWaitValid
  OBVIOUS
<1>1. IInv => OwnWaitValid
  BY DEF IInv
<1> QED
  BY <1>1, Invariance, PTL

\* A task asleep in WaitForNotification has an empty mailbox.
THEOREM NoMissedWakeups == LowBits => (Spec => []NoMissedWakeup)
<1> SUFFICES ASSUME LowBits PROVE Spec => []NoMissedWakeup
  OBVIOUS
<1>1. IInv => NoMissedWakeup
  BY DEF IInv, TypeOK, BlockedInv, MailInv, NoMissedWakeup
<1> QED
  BY <1>1, Invariance, PTL

\* WaitForNotification reports a timeout only for an empty mailbox, wherever
\* the event, the tick and the suspension of the task fall.
THEOREM TimeoutsMeanEmpty == LowBits => (Spec => TimeoutMeansEmpty)
<1> SUFFICES ASSUME LowBits PROVE Spec => TimeoutMeansEmpty
  OBVIOUS
<1>1. IInv /\ [Next]_vars =>
        [\A t \in Tasks : WaitReturns(t) /\ error'[t] = "timed_out" => notified[t] = {}]_vars
  BY DEF IInv, TypeOK, MailInv, WaitReturns
<1> QED
  BY <1>1, Invariance, PTL DEF Spec, TimeoutMeansEmpty

-----------------------------------------------------------------------------
\* The steps of RTOSTask seen through the refinement mapping of Mailbox.

\* A step that leaves the mapped state alone is a stutter of the mailbox.
LEMMA MailboxStutters ==
  ASSUME \A u \in Tasks : (kstate'[u] # "deleted") = (kstate[u] # "deleted"),
         \A u \in Tasks : Due(u)' = Due(u),
         notified' = notified, handlers' = handlers, cursor' = cursor
  PROVE  UNCHANGED Mailbox!vars
BY DEF Mailbox!vars

\* Steps that change neither the place of a task in the dispatch loop nor its
\* bits change nothing of what is due.
LEMMA DueStays ==
  ASSUME handlers' = handlers, UNCHANGED <<notification_value, pc, cursor>>
  PROVE  \A u \in Tasks : Due(u)' = Due(u)
BY DEF Due

\* The same for one task among others.
LEMMA DueStaysOf ==
  ASSUME NEW u \in Tasks, handlers'[u] = handlers[u], pc'[u] = pc[u],
         notification_value'[u] = notification_value[u], cursor'[u] = cursor[u]
  PROVE  Due(u)' = Due(u)
BY DEF Due

\* Every step of RTOSTask is one of the mailbox, or a stutter.
LEMMA MailboxStep ==
  ASSUME LowBits, IInv, [Next]_vars
  PROVE  [Mailbox!Next]_(Mailbox!vars)
<1> USE DEF IInv, TypeOK
<1>1. ASSUME NEW t \in Tasks, NEW b \in Bits, SetEventBitHandler(t, b)
      PROVE  [Mailbox!Next]_(Mailbox!vars)
  <2>1. Mailbox!SetHandlers(t)
    <3>1. notified[t] = {} /\ Due(t) = {}
      BY <1>1 DEF SetEventBitHandler, StartInv, NoHandleInv, Due
    <3>2. handlers' = [handlers EXCEPT ![t] = handlers[t] \cup {b}]
          /\ handlers[t] \cup {b} \in SUBSET EventBits
      BY <1>1 DEF SetEventBitHandler, EventBits, ValidBit
    <3>3. ASSUME NEW u \in Tasks PROVE Due(u)' = Due(u)
      <4>1. CASE u = t
        BY <1>1, <3>1, <4>1 DEF SetEventBitHandler, Due, StartInv, NoHandleInv
      <4>2. CASE u # t
        BY <1>1, <4>2, DueStaysOf DEF SetEventBitHandler
      <4> QED
        BY <4>1, <4>2
    <3>4. UNCHANGED <<kstate, notified, cursor>>
      BY <1>1 DEF SetEventBitHandler, tcbVars
    <3> QED
      BY <3>1, <3>2, <3>3, <3>4 DEF Mailbox!SetHandlers
  <2> QED
    BY <2>1 DEF Mailbox!Next
<1>2. ASSUME NEW t \in Tasks, Start(t)
      PROVE  [Mailbox!Next]_(Mailbox!vars)
  <2>1. \A u \in Tasks : (kstate'[u] # "deleted") = (kstate[u] # "deleted")
    BY <1>2 DEF Start, StartInv, tcbVars
  <2>2. \A u \in Tasks : Due(u)' = Due(u)
    BY <1>2, DueStays DEF Start, taskVars
  <2> QED
    BY <1>2, <2>1, <2>2, MailboxStutters DEF Start, taskVars, tcbVars
<1>3. ASSUME NEW t \in Tasks, xTaskCreateStatic(t)
      PROVE  [Mailbox!Next]_(Mailbox!vars)
  <2>1. notified' = notified
    BY <1>3 DEF xTaskCreateStatic, StartInv, NoHandleInv
  <2>2. \A u \in Tasks : (kstate'[u] # "deleted") = (kstate[u] # "deleted")
    BY <1>3 DEF xTaskCreateStatic, StartInv
  <2> QED
    BY <1>3, <2>1, <2>2, DueStays, MailboxStutters DEF xTaskCreateStatic, taskVars
<1>4. ASSUME NEW t \in Tasks, AssignHandle(t)
      PROVE  [Mailbox!Next]_(Mailbox!vars)
  <2>1. \A u \in Tasks : (kstate'[u] # "deleted") = (kstate[u] # "deleted")
    BY <1>4 DEF AssignHandle, StartInv, tcbVars
  <2>2. \A u \in Tasks : Due(u)' = Due(u)
    BY <1>4, DueStays DEF AssignHandle, taskVars
  <2> QED
    BY <1>4, <2>1, <2>2, MailboxStutters DEF AssignHandle, taskVars, tcbVars
<1>5. ASSUME NEW t \in Tasks, Suspend(t)
      PROVE  [Mailbox!Next]_(Mailbox!vars)
  <2>1. \A u \in Tasks : (kstate'[u] # "deleted") = (kstate[u] # "deleted")
    BY <1>5 DEF Suspend, StartInv, tcbVars
  <2>2. \A u \in Tasks : Due(u)' = Due(u)
    BY <1>5, DueStays DEF Suspend, taskVars
  <2> QED
    BY <1>5, <2>1, <2>2, MailboxStutters DEF Suspend, taskVars, tcbVars
<1>6. ASSUME NEW t \in Tasks, Resume(t)
      PROVE  [Mailbox!Next]_(Mailbox!vars)
  <2>1. \A u \in Tasks : (kstate'[u] # "deleted") = (kstate[u] # "deleted")
    BY <1>6 DEF Resume, StartInv, tcbVars
  <2>2. \A u \in Tasks : Due(u)' = Due(u)
    BY <1>6, DueStays DEF Resume, taskVars
  <2> QED
    BY <1>6, <2>1, <2>2, MailboxStutters DEF Resume, taskVars, tcbVars
<1>7. ASSUME NEW t \in Tasks, Delete(t)
      PROVE  [Mailbox!Next]_(Mailbox!vars)
  <2>1. \A u \in Tasks : Due(u)' = IF u = t THEN {} ELSE Due(u)
    BY <1>7 DEF Delete, Due
  <2>2. Mailbox!Close(t)
    BY <1>7, <2>1 DEF Delete, StartInv, Mailbox!Close
  <2> QED
    BY <2>2 DEF Mailbox!Next
<1>8. ASSUME NEW t \in Tasks, NEW b \in Bits, SendNotification(t, b)
      PROVE  [Mailbox!Next]_(Mailbox!vars)
  <2>1. \A u \in Tasks : Due(u)' = Due(u)
    BY <1>8, DueStays DEF SendNotification, taskVars
  <2>2. b \in EventBits /\ Mailbox!Post(t, b)
    BY <1>8, <2>1 DEF SendNotification, StartInv, taskVars, EventBits, ValidBit, Mailbox!Post
  <2> QED
    BY <2>2 DEF Mailbox!Next
<1>9. ASSUME NEW t \in Tasks, Expire(t)
      PROVE  [Mailbox!Next]_(Mailbox!vars)
  <2>1. \A u \in Tasks : (kstate'[u] # "deleted") = (kstate[u] # "deleted")
    BY <1>9 DEF Expire, StartInv, tcbVars
  <2>2. \A u \in Tasks : Due(u)' = Due(u)
    BY <1>9, DueStays DEF Expire, taskVars
  <2> QED
    BY <1>9, <2>1, <2>2, MailboxStutters DEF Expire, taskVars, tcbVars
<1>10. ASSUME NEW t \in Tasks, WaitForNotification(t)
      PROVE  [Mailbox!Next]_(Mailbox!vars)
  <2>1. \A u \in Tasks : (kstate'[u] # "deleted") = (kstate[u] # "deleted")
    BY <1>10 DEF WaitForNotification, StartInv, tcbVars
  <2>2. \A u \in Tasks : Due(u)' = Due(u)
    <3> SUFFICES ASSUME NEW u \in Tasks
                 PROVE  Due(u)' = Due(u)
      OBVIOUS
    <3>1. /\ handlers' = handlers /\ cursor' = cursor
          /\ u # t => notification_value'[u] = notification_value[u] /\ pc'[u] = pc[u]
      BY <1>10 DEF WaitForNotification
    <3>2. pc[t] = "wait" /\ pc'[t] \in {"wait", "waiting"}
      BY <1>10 DEF WaitForNotification, TypeOK
    <3>3. CASE u = t
      BY <3>2, <3>3 DEF Due
    <3>4. CASE u # t
      BY <3>1, <3>4 DEF Due
    <3> QED
      BY <3>3, <3>4
  <2> QED
    BY <1>10, <2>1, <2>2, MailboxStutters DEF WaitForNotification, taskVars, tcbVars
<1>11. ASSUME NEW t \in Tasks, WaitReturns(t)
      PROVE  [Mailbox!Next]_(Mailbox!vars)
  <2>1. Due(t) = {}
    BY <1>11 DEF WaitReturns, Due
  <2>2. CASE notifyState[t] = "received"
    <3>1. notified[t] # {}
      BY <1>11, <2>2 DEF WaitReturns, ReceivedInv
    <3>2. notified' = [notified EXCEPT ![t] = {}]
      BY <1>11, <2>2 DEF WaitReturns, LowBits, ClearOnExit
    <3>3. Due(t)' = notified[t] \cap handlers[t]
      <4>1. /\ pc'[t] = "dispatch" /\ cursor'[t] = 0
            /\ handlers'[t] = handlers[t] /\ notification_value'[t] = notified[t]
        BY <1>11, <2>2 DEF WaitReturns, FirstEventBit
      <4>2. \A d \in handlers[t] : d >= 0
        BY ConstantsAssumption DEF EventBits
      <4> QED
        BY <4>1, <4>2 DEF Due
    <3>4. ASSUME NEW u \in Tasks \ {t} PROVE Due(u)' = Due(u)
      BY <1>11, <2>2, DueStaysOf DEF WaitReturns
    <3>5. [u \in Tasks |-> Due(u)]' =
            [[u \in Tasks |-> Due(u)] EXCEPT ![t] = notified[t] \cap handlers[t]]
      BY <3>3, <3>4
    <3>6. /\ UNCHANGED <<kstate, handlers>>
          /\ cursor' = [cursor EXCEPT ![t] = 0]
      BY <1>11, <2>2 DEF WaitReturns, FirstEventBit
    <3>7. Mailbox!Take(t)
      BY <2>1, <3>1, <3>2, <3>5, <3>6 DEF Mailbox!Take
    <3> QED
      BY <3>7 DEF Mailbox!Next
  <2>3. CASE notifyState[t] # "received"
    <3>1. \A u \in Tasks : Due(u)' = Due(u)
      BY <1>11, <2>3 DEF WaitReturns, Due
    <3> QED
      BY <1>11, <2>3, <3>1, MailboxStutters DEF WaitReturns
  <2> QED
    BY <2>2, <2>3
<1>12. ASSUME NEW t \in Tasks, NEW b \in EventBits, RunHandler(t, b)
      PROVE  [Mailbox!Next]_(Mailbox!vars)
  <2>1. b \in Due(t) /\ \A d \in Due(t) : b <= d
    BY <1>12 DEF RunHandler, Pending
  <2>2. Due(t)' = Due(t) \ {b}
    <3> DEFINE B == handlers[t] \cap notification_value[t]
    <3>1. /\ pc'[t] \in {"dispatch", "delay"} /\ cursor'[t] = b + 1
          /\ handlers'[t] = handlers[t] /\ notification_value'[t] = notification_value[t]
      BY <1>12 DEF RunHandler
    <3>2. Due(t)' = {d \in B : d >= b + 1}
      BY <3>1 DEF Due
    <3>3. B \subseteq Nat /\ b \in Nat
      BY ConstantsAssumption DEF EventBits
    <3>4. Due(t) = {d \in B : d >= cursor[t]}
      BY <1>12 DEF RunHandler, Due
    <3>5. cursor[t] \in Nat /\ cursor[t] <= b
      BY <2>1, <3>4 DEF MAX_EVENT_BIT
    <3>6. ASSUME NEW d \in B PROVE d >= b + 1 <=> d >= cursor[t] /\ d # b
      BY <2>1, <3>3, <3>4, <3>5
    <3> QED
      BY <3>2, <3>4, <3>6
  <2>3. ASSUME NEW u \in Tasks \ {t} PROVE Due(u)' = Due(u)
    BY <1>12, DueStaysOf DEF RunHandler
  <2>4. [u \in Tasks |-> Due(u)]' =
          [[u \in Tasks |-> Due(u)] EXCEPT ![t] = Due(t) \ {b}]
    BY <2>2, <2>3
  <2>5. \A u \in Tasks : (kstate'[u] # "deleted") = (kstate[u] # "deleted")
    BY <1>12 DEF RunHandler, Running
  <2>6. /\ UNCHANGED <<handlers, notified>>
        /\ cursor' = [cursor EXCEPT ![t] = b + 1]
    BY <1>12 DEF RunHandler
  <2>7. Mailbox!Serve(t, b)
    BY <2>1, <2>4, <2>5, <2>6 DEF Mailbox!Serve
  <2> QED
    BY <2>7 DEF Mailbox!Next
<1>13. ASSUME NEW t \in Tasks, DelayReturns(t)
      PROVE  [Mailbox!Next]_(Mailbox!vars)
  <2>1. \A u \in Tasks : (kstate'[u] # "deleted") = (kstate[u] # "deleted")
    BY <1>13 DEF DelayReturns, StartInv, tcbVars
  <2>2. \A u \in Tasks : Due(u)' = Due(u)
    BY <1>13 DEF DelayReturns, Due
  <2> QED
    BY <1>13, <2>1, <2>2, MailboxStutters DEF DelayReturns, taskVars, tcbVars
<1>14. ASSUME NEW t \in Tasks, NotificationReceivedReturns(t)
      PROVE  [Mailbox!Next]_(Mailbox!vars)
  <2>1. \A u \in Tasks : (kstate'[u] # "deleted") = (kstate[u] # "deleted")
    BY <1>14 DEF NotificationReceivedReturns, StartInv, tcbVars
  <2>2. \A u \in Tasks : Due(u)' = Due(u)
    BY <1>14 DEF NotificationReceivedReturns, Due, LoopEnds
  <2> QED
    BY <1>14, <2>1, <2>2, MailboxStutters DEF NotificationReceivedReturns, taskVars, tcbVars
<1>15. CASE UNCHANGED vars
  <2>1. \A u \in Tasks : Due(u)' = Due(u)
    BY <1>15, DueStays DEF vars
  <2> QED
    BY <1>15, <2>1, MailboxStutters DEF vars
<1> QED
  BY <1>1, <1>2, <1>3, <1>4, <1>5, <1>6, <1>7, <1>8, <1>9, <1>10,
     <1>11, <1>12, <1>13, <1>14, <1>15, StepCases

\* Events are exchanged as the mailbox promises: nothing lost, nothing run
\* twice, nothing out of order, however senders, timeouts, suspension, handler
\* delays and the preemption of tasks interleave.
THEOREM Refinement == LowBits => (Spec => MailboxSpec)
<1> SUFFICES ASSUME LowBits PROVE Spec => MailboxSpec
  OBVIOUS
<1>1. Init => Mailbox!Init
  BY DEF Init, Mailbox!Init, Due
<1>2. IInv /\ [Next]_vars => [Mailbox!Next]_(Mailbox!vars)
  BY MailboxStep
<1> QED
  BY <1>1, <1>2, Invariance, PTL DEF Spec, MailboxSpec, Mailbox!Spec
-----------------------------------------------------------------------------
(* What becomes of an event, whichever bits are in use. *)

\* An event is taken out of the mailbox only into the round that begins, unless
\* nobody handles it, and it leaves the round only through its handler, or with
\* the task itself: no timeout, suspension or reset of the value in between.
EventsLeaveOnlyServed ==
  [][\A t \in Tasks, b \in EventBits :
        /\ b \in notified[t] \cap handlers[t] /\ b \notin notified'[t] =>
             b \in Due(t)' \/ Delete(t)
        /\ b \in Due(t) /\ b \notin Due(t)' => RunHandler(t, b) \/ Delete(t)]_vars

\* An event beyond the exit mask, once sent, is in the mailbox for good, and
\* every round that begins runs its handler again.
HighEventsReturn ==
  [][\A t \in Tasks, b \in EventBits \ ClearOnExit :
        b \in notified[t] =>
          /\ b \in notified'[t] \/ Delete(t)
          /\ WaitReturns(t) /\ error'[t] = "none" /\ b \in handlers[t] => b \in Due(t)']_vars

\* What a task takes out of its mailbox is due in the round that begins.
LEMMA TakenIsDue ==
  ASSUME TypeOK, NEW t \in Tasks, WaitReturns(t), error'[t] = "none"
  PROVE  Due(t)' = notified[t] \cap handlers[t]
<1>1. /\ pc'[t] = "dispatch" /\ cursor'[t] = 0
      /\ handlers'[t] = handlers[t] /\ notification_value'[t] = notified[t]
  BY DEF TypeOK, WaitReturns, FirstEventBit
<1>2. \A d \in handlers[t] : d >= 0
  BY ConstantsAssumption DEF TypeOK, EventBits
<1> QED
  BY <1>1, <1>2 DEF Due

\* Every step keeps what is due at t, unless it runs the handler or ends t.
LEMMA DueStep ==
  ASSUME IInv, [Next]_vars, NEW t \in Tasks, NEW b \in Due(t)
  PROVE  b \in Due(t)' \/ RunHandler(t, b) \/ Delete(t)
<1> DEFINE Goal == b \in Due(t)' \/ RunHandler(t, b) \/ Delete(t)
<1> USE DEF IInv, TypeOK
<1>1. ASSUME NEW u \in Tasks, NEW c \in Bits, SetEventBitHandler(u, c)
      PROVE  Goal
  <2>1. /\ handlers[t] \subseteq handlers'[t] /\ pc' = pc /\ cursor' = cursor
        /\ notification_value' = notification_value
    BY <1>1 DEF SetEventBitHandler, tcbVars
  <2> QED
    BY <2>1 DEF Due
<1>2. ASSUME NEW u \in Tasks,
             \/ Start(u) \/ xTaskCreateStatic(u) \/ AssignHandle(u) \/ Suspend(u)
             \/ Resume(u) \/ Expire(u) \/ \E c \in Bits : SendNotification(u, c)
      PROVE  Goal
  <2>1. UNCHANGED taskVars
    BY <1>2 DEF Start, xTaskCreateStatic, AssignHandle, Suspend, Resume, Expire, SendNotification
  <2> QED
    BY <2>1, DueStays DEF taskVars
<1>3. ASSUME NEW u \in Tasks, Delete(u)
      PROVE  Goal
  <2>1. CASE u = t
    BY <1>3, <2>1
  <2>2. CASE u # t
    BY <1>3, <2>2, DueStaysOf DEF Delete
  <2> QED
    BY <2>1, <2>2
<1>4. ASSUME NEW u \in Tasks, WaitForNotification(u) \/ WaitReturns(u)
      PROVE  Goal
  <2>1. u # t
    BY <1>4 DEF WaitForNotification, WaitReturns, Due
  <2> QED
    BY <1>4, <2>1, DueStaysOf DEF WaitForNotification, WaitReturns
<1>5. ASSUME NEW u \in Tasks, NEW c \in EventBits, RunHandler(u, c)
      PROVE  Goal
  <2>1. CASE u # t
    BY <1>5, <2>1, DueStaysOf DEF RunHandler
  <2>2. CASE u = t /\ b = c
    BY <1>5, <2>2
  <2>3. CASE u = t /\ b # c
    <3>1. /\ pc'[t] \in {"dispatch", "delay"} /\ cursor'[t] = c + 1 /\ handlers' = handlers
          /\ notification_value'[t] = notification_value[t]
      BY <1>5, <2>3 DEF RunHandler
    <3>2. b >= c + 1
      <4>1. b \in Nat /\ c \in Nat /\ c <= b
        BY <1>5, <2>3, ConstantsAssumption DEF RunHandler, Pending, Due, EventBits
      <4> QED
        BY <2>3, <4>1
    <3> QED
      BY <3>1, <3>2 DEF Due
  <2> QED
    BY <2>1, <2>2, <2>3
<1>6. ASSUME NEW u \in Tasks, DelayReturns(u) \/ NotificationReceivedReturns(u)
      PROVE  Goal
  <2>1. CASE u # t
    BY <1>6, <2>1, DueStaysOf DEF DelayReturns, NotificationReceivedReturns
  <2>2. CASE u = t
    BY <1>6, <2>2 DEF DelayReturns, NotificationReceivedReturns, LoopEnds, Due
  <2> QED
    BY <2>1, <2>2
<1>7. CASE UNCHANGED vars
  BY <1>7, DueStays DEF vars
<1> QED
  BY <1>1, <1>2, <1>3, <1>4, <1>5, <1>6, <1>7, StepCases

\* A mailbox loses events only when its task takes them or ends.
LEMMA MailboxLoses ==
  ASSUME IInv, [Next]_vars, NEW t \in Tasks, ~(notified[t] \subseteq notified'[t])
  PROVE  \/ WaitReturns(t) /\ error'[t] = "none" /\ notified'[t] = notified[t] \ ClearOnExit
         \/ Delete(t)
<1> DEFINE Kept == notified[t] \subseteq notified'[t]
<1> USE DEF IInv, TypeOK
<1>1. ASSUME NEW u \in Tasks, NEW c \in Bits, SetEventBitHandler(u, c) \/ SendNotification(u, c)
      PROVE  Kept
  BY <1>1 DEF SetEventBitHandler, SendNotification, tcbVars
<1>2. ASSUME NEW u \in Tasks, \/ Start(u) \/ AssignHandle(u) \/ Suspend(u) \/ Resume(u)
                              \/ Expire(u) \/ WaitForNotification(u) \/ DelayReturns(u)
                              \/ NotificationReceivedReturns(u)
      PROVE  Kept
  BY <1>2 DEF Start, AssignHandle, Suspend, Resume, Expire, WaitForNotification,
              DelayReturns, NotificationReceivedReturns, tcbVars
<1>3. ASSUME NEW u \in Tasks, xTaskCreateStatic(u) PROVE Kept
  BY <1>3 DEF xTaskCreateStatic, StartInv, NoHandleInv
<1>4. ASSUME NEW u \in Tasks, Delete(u) PROVE Kept \/ Delete(t)
  BY <1>4 DEF Delete
<1>5. ASSUME NEW u \in Tasks, WaitReturns(u)
      PROVE  \/ Kept
             \/ WaitReturns(t) /\ error'[t] = "none" /\ notified'[t] = notified[t] \ ClearOnExit
  <2>1. CASE u = t /\ notifyState[t] = "received"
    BY <1>5, <2>1 DEF WaitReturns
  <2>2. CASE u # t \/ notifyState[t] # "received"
    BY <1>5, <2>2 DEF WaitReturns
  <2> QED
    BY <2>1, <2>2
<1>6. ASSUME NEW u \in Tasks, NEW c \in EventBits, RunHandler(u, c) PROVE Kept
  BY <1>6 DEF RunHandler
<1> QED
  BY <1>1, <1>2, <1>3, <1>4, <1>5, <1>6, StepCases DEF vars

\* No event with a handler is ever dropped while its task exists, even one of
\* the high bits that the exit mask leaves behind.
THEOREM NoEventIsDropped == Spec => EventsLeaveOnlyServed
<1>1. IInv /\ [Next]_vars =>
        [\A t \in Tasks, b \in EventBits :
           /\ b \in notified[t] \cap handlers[t] /\ b \notin notified'[t] =>
                b \in Due(t)' \/ Delete(t)
           /\ b \in Due(t) /\ b \notin Due(t)' => RunHandler(t, b) \/ Delete(t)]_vars
  <2> SUFFICES ASSUME IInv, [Next]_vars, NEW t \in Tasks, NEW b \in EventBits
               PROVE  /\ b \in notified[t] \cap handlers[t] /\ b \notin notified'[t] =>
                           b \in Due(t)' \/ Delete(t)
                      /\ b \in Due(t) /\ b \notin Due(t)' => RunHandler(t, b) \/ Delete(t)
    OBVIOUS
  <2>1. ASSUME b \in notified[t] \cap handlers[t], b \notin notified'[t], ~Delete(t)
        PROVE  b \in Due(t)'
    <3>1. WaitReturns(t) /\ error'[t] = "none"
      BY <2>1, MailboxLoses
    <3> QED
      BY <2>1, <3>1, TakenIsDue DEF IInv
  <2>2. ASSUME b \in Due(t), b \notin Due(t)' PROVE RunHandler(t, b) \/ Delete(t)
    BY <2>2, DueStep
  <2> QED
    BY <2>1, <2>2
<1> QED
  BY <1>1, Invariance, PTL DEF Spec, EventsLeaveOnlyServed

\* Whoever sends a bit of 16 or above gets its handler run in every round from
\* then on, until the task is destroyed: not in one scenario but in all.
THEOREM HighEventsStay == Spec => HighEventsReturn
<1>1. IInv /\ [Next]_vars =>
        [\A t \in Tasks, b \in EventBits \ ClearOnExit :
           b \in notified[t] =>
             /\ b \in notified'[t] \/ Delete(t)
             /\ WaitReturns(t) /\ error'[t] = "none" /\ b \in handlers[t] => b \in Due(t)']_vars
  <2> SUFFICES ASSUME IInv, [Next]_vars, NEW t \in Tasks, NEW b \in EventBits \ ClearOnExit,
                      b \in notified[t]
               PROVE  /\ b \in notified'[t] \/ Delete(t)
                      /\ WaitReturns(t) /\ error'[t] = "none" /\ b \in handlers[t] => b \in Due(t)'
    OBVIOUS
  <2>1. b \in notified'[t] \/ Delete(t)
    BY MailboxLoses
  <2>2. ASSUME WaitReturns(t), error'[t] = "none", b \in handlers[t] PROVE b \in Due(t)'
    BY <2>2, TakenIsDue DEF IInv
  <2> QED
    BY <2>1, <2>2
<1> QED
  BY <1>1, Invariance, PTL DEF Spec, HighEventsReturn
=============================================================================
