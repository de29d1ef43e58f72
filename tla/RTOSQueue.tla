----------------------------- MODULE RTOSQueue ------------------------------
(***************************************************************************)
(* RTOSQueue<ItemType, MAX_ITEMS> (rtos_queue.h, rtos_queue.cc): a FreeRTOS *)
(* queue of std::shared_ptr objects, which the kernel copies byte by byte. *)
(* Send makes a copy that counts as a use and hands its bytes to the queue;*)
(* Receive turns the bytes back into a shared_ptr without counting again.  *)
(*                                                                         *)
(* The kernel's queue is modelled by its contract.  Threads are tasks or   *)
(* interrupt handlers: any step of one may come between any two steps of   *)
(* another.  A Send from an interrupt is the same sequence of steps, taken *)
(* without a wait and without another thread in between, so it is one of   *)
(* the behaviours of this module.                                          *)
(***************************************************************************)
EXTENDS Integers, Sequences, FiniteSets

CONSTANTS Threads,       \* the contexts that use the queue
          Initializers,  \* those of them that may call Initialize()
          Items,         \* the objects the shared pointers manage
          None,          \* a null shared_ptr
          MAX_ITEMS,     \* the capacity of the queue
          MaxUseCount    \* bound of this model: where failed Sends stop counting

ASSUME QueueAssumption == /\ IsFiniteSet(Threads)
                          /\ Initializers \subseteq Threads
                          /\ None \notin Items
                          /\ MAX_ITEMS \in Nat \ {0}  \* the static_assert
                          /\ MaxUseCount \in Nat

VARIABLES handle,     \* handle_ # NULL
          destroyed,  \* the RTOSQueue object has been destroyed
          queue,      \* the shared pointers whose bytes are in item_buffer_
          use_count,  \* [Items -> Nat]: the use count; 0: the object is gone
          holds,      \* [Threads -> Items or None]: a thread's own shared_ptr
          mem,        \* the copy a Send in progress has built in its buffer
          pc          \* where a thread is inside a method of the queue

vars == <<handle, destroyed, queue, use_count, holds, mem, pc>>

TypeOK ==
  /\ handle \in BOOLEAN
  /\ destroyed \in BOOLEAN
  /\ queue \in Seq(Items)
  /\ Len(queue) <= MAX_ITEMS
  /\ use_count \in [Items -> Nat]
  /\ holds \in [Threads -> Items \cup {None}]
  /\ mem \in [Threads -> Items \cup {None}]
  /\ pc \in [Threads -> {"idle", "initialize", "send", "sending", "receiving"}]

Init ==
  /\ handle = FALSE
  /\ destroyed = FALSE
  /\ queue = <<>>
  /\ use_count = [i \in Items |-> 0]
  /\ holds = [p \in Threads |-> None]
  /\ mem = [p \in Threads |-> None]
  /\ pc = [p \in Threads |-> "idle"]

Goto(p, label) == pc' = [pc EXCEPT ![p] = label]
-----------------------------------------------------------------------------
(* The threads' own use of shared pointers. *)

MakeItem(p, i) ==
  /\ pc[p] = "idle" /\ holds[p] = None
  /\ use_count[i] = 0
  /\ use_count' = [use_count EXCEPT ![i] = 1]
  /\ holds' = [holds EXCEPT ![p] = i]
  /\ UNCHANGED <<handle, destroyed, queue, mem, pc>>

\* The last owner's release destroys the object: its count is 0.
ReleaseItem(p) ==
  /\ pc[p] = "idle" /\ holds[p] # None
  /\ use_count' = [use_count EXCEPT ![holds[p]] = @ - 1]
  /\ holds' = [holds EXCEPT ![p] = None]
  /\ UNCHANGED <<handle, destroyed, queue, mem, pc>>
-----------------------------------------------------------------------------
(* Initialize and ~RTOSQueueBase. *)

NotChecked == TRUE           \* fault: Initialize without its early return
NotInitialized == ~handle

Initialize(p) ==
  /\ p \in Initializers /\ pc[p] = "idle" /\ ~destroyed
  /\ NotInitialized
  /\ Goto(p, "initialize")
  /\ UNCHANGED <<handle, destroyed, queue, use_count, holds, mem>>

\* The kernel's queue begins empty, whatever its buffer held before.
xQueueCreateStatic(p) ==
  /\ pc[p] = "initialize"
  /\ queue' = <<>>
  /\ handle' = TRUE
  /\ Goto(p, "idle")
  /\ UNCHANGED <<destroyed, use_count, holds, mem>>

\* Nobody may be inside a method of an object that is destroyed.  The items
\* still queued are forgotten, and no shared_ptr to them is destroyed.
Destroy(p) ==
  /\ p \in Initializers /\ ~destroyed
  /\ \A q \in Threads : pc[q] = "idle"
  /\ destroyed' = TRUE
  /\ queue' = <<>>
  /\ UNCHANGED <<handle, use_count, holds, mem, pc>>
-----------------------------------------------------------------------------
(* Send. *)

CopyBytes(n) == n            \* fault: a memcpy of the caller's shared_ptr
CopyConstruct(n) == n + 1

\* The copy constructor, in the caller's local buffer.
Send(p) ==
  /\ pc[p] = "idle" /\ ~destroyed
  /\ holds[p] # None
  /\ use_count[holds[p]] < MaxUseCount
  /\ use_count' = [use_count EXCEPT ![holds[p]] = CopyConstruct(@)]
  /\ mem' = [mem EXCEPT ![p] = holds[p]]
  /\ Goto(p, "send")
  /\ UNCHANGED <<handle, destroyed, queue, holds>>

\* Send returns RTOSQUEUE_UNINITIALIZED or RTOSQUEUE_IS_FULL; the buffer goes
\* away and the shared_ptr in it is not destroyed.
SendFails(p) ==
  /\ \/ pc[p] = "send" /\ ~handle
     \/ pc[p] = "sending" /\ Len(queue) = MAX_ITEMS
  /\ mem' = [mem EXCEPT ![p] = None]
  /\ Goto(p, "idle")
  /\ UNCHANGED <<handle, destroyed, queue, use_count, holds>>

CallSend(p) ==
  /\ pc[p] = "send" /\ handle
  /\ Goto(p, "sending")
  /\ UNCHANGED <<handle, destroyed, queue, use_count, holds, mem>>

\* At once, or after a wait for room that has not timed out.
xQueueSend(p) ==
  /\ pc[p] = "sending"
  /\ Len(queue) < MAX_ITEMS
  /\ queue' = Append(queue, mem[p])
  /\ mem' = [mem EXCEPT ![p] = None]
  /\ Goto(p, "idle")
  /\ UNCHANGED <<handle, destroyed, use_count, holds>>
-----------------------------------------------------------------------------
(* Receive, into a shared_ptr that is null. *)

Receive(p) ==
  /\ pc[p] = "idle" /\ ~destroyed
  /\ holds[p] = None
  /\ handle   \* or else it returns RTOSQUEUE_UNINITIALIZED
  /\ Goto(p, "receiving")
  /\ UNCHANGED <<handle, destroyed, queue, use_count, holds, mem>>

CopyOut(n) == n + 1          \* fault: a copy of the queue's shared_ptr
MoveOut(n) == n

xQueueReceive(p) ==
  /\ pc[p] = "receiving"
  /\ queue # <<>>
  /\ holds' = [holds EXCEPT ![p] = Head(queue)]
  /\ queue' = Tail(queue)
  /\ use_count' = [use_count EXCEPT ![Head(queue)] = MoveOut(@)]
  /\ Goto(p, "idle")
  /\ UNCHANGED <<handle, destroyed, mem>>

\* RTOSQUEUE_ITEM_NOT_RECEIVED: the item returned is null.
ReceiveFails(p) ==
  /\ pc[p] = "receiving"
  /\ queue = <<>>
  /\ Goto(p, "idle")
  /\ UNCHANGED <<handle, destroyed, queue, use_count, holds, mem>>
-----------------------------------------------------------------------------
QueueGone == destroyed /\ UNCHANGED vars

Next == \/ \E p \in Threads :
             \/ \E i \in Items : MakeItem(p, i)
             \/ ReleaseItem(p)
             \/ Initialize(p) \/ xQueueCreateStatic(p) \/ Destroy(p)
             \/ Send(p) \/ SendFails(p) \/ CallSend(p) \/ xQueueSend(p)
             \/ Receive(p) \/ xQueueReceive(p) \/ ReceiveFails(p)
        \/ QueueGone

Spec == Init /\ [][Next]_vars
-----------------------------------------------------------------------------
(* Properties. *)

\* The shared pointers to i that exist: the threads' own, the copies in the
\* buffers of Sends in progress, and the bytes in the queue.
Holding(i) == {p \in Threads : holds[p] = i}
Copied(i) == {p \in Threads : mem[p] = i}
Queued(i) == {k \in 1..Len(queue) : queue[k] = i}
Owners(i) == Cardinality(Holding(i)) + Cardinality(Copied(i)) + Cardinality(Queued(i))

\* No object is destroyed while a shared_ptr to it is left, in a thread or as
\* bytes in the queue: moving raw bytes never loses a use.
NoDanglingItem == \A i \in Items : Owners(i) <= use_count[i]

\* Sends that succeed, Receives and releases keep the count exact.  Uses are
\* left over only by a Send that fails and by the destruction of the queue.
LeaksOnlyOnFailure ==
  [][\A i \in Items : (use_count[i] - Owners(i))' # use_count[i] - Owners(i) =>
        \/ destroyed' # destroyed
        \/ \E p \in Threads : mem[p] = i /\ mem'[p] = None /\ Len(queue') <= Len(queue)]_vars

\* Every use that is counted belongs to a shared_ptr that exists: the copy
\* Send makes to count a use is, as its comment says, a temporary.
CountsAreExact == \A i \in Items : use_count[i] = Owners(i)

\* Send and Receive are those of a bounded FIFO queue of items.
Fifo == INSTANCE ItemQueue WITH
          open <- handle /\ ~destroyed,
          contents <- queue,
          offered <- mem,
          owned <- holds
FifoSpec == Fifo!Spec
=============================================================================
