--------------------------- MODULE RTOSQueue_proof --------------------------
(***************************************************************************)
(* Proofs about RTOSQueue for every set of threads and items and every     *)
(* capacity.  Two contexts that race inside Initialize() would empty a     *)
(* queue in use, so what depends on it is proved for OneInitializer.       *)
(***************************************************************************)
EXTENDS RTOSQueue, FiniteSetTheorems, FunctionTheorems, SequenceTheorems, TLAPS

-----------------------------------------------------------------------------
(* Counting occurrences. *)

\* 1 if a and b are the same, and 0 if they differ.
Same(a, b) == IF a = b THEN 1 ELSE 0

\* Where a function on D takes the value i.
Occurrences(D, f, i) == {q \in D : f[q] = i}

\* Changing a function at one point changes how often it takes a value by what
\* that point contributed and contributes.
LEMMA CountChange ==
  ASSUME NEW D, IsFiniteSet(D), NEW p \in D, NEW f, NEW g, NEW i,
         \A q \in D \ {p} : g[q] = f[q]
  PROVE  /\ Cardinality(Occurrences(D, g, i))
              = Cardinality(Occurrences(D, f, i)) - Same(f[p], i) + Same(g[p], i)
         /\ f[p] = i => Cardinality(Occurrences(D, f, i)) > 0
<1> DEFINE A == Occurrences(D, f, i)
           B == Occurrences(D, g, i)
           C == A \ {p}
<1>1. IsFiniteSet(A) /\ IsFiniteSet(C)
  BY FS_Subset DEF Occurrences
<1>2. Cardinality(A) \in Nat /\ Cardinality(C) \in Nat
  BY <1>1, FS_CardinalityType
<1>3. Cardinality(C) = IF p \in A THEN Cardinality(A) - 1 ELSE Cardinality(A)
  BY <1>1, FS_RemoveElement
<1>4. B = IF g[p] = i THEN C \cup {p} ELSE C
  BY DEF Occurrences
<1>5. Cardinality(C \cup {p}) = Cardinality(C) + 1
  BY <1>1, FS_AddElement
<1>6. p \in A <=> f[p] = i
  BY DEF Occurrences
<1> HIDE DEF A, B, C
<1>7. Cardinality(B) = Cardinality(C) + Same(g[p], i)
  BY <1>2, <1>4, <1>5 DEF Same
<1>8. Cardinality(C) = Cardinality(A) - Same(f[p], i)
  BY <1>2, <1>3, <1>6 DEF Same
<1>9. f[p] = i => Cardinality(A) > 0
  BY <1>2, <1>8 DEF Same
<1> QED
  BY <1>2, <1>7, <1>8, <1>9 DEF A, B

\* The positions of i in a sequence.
Positions(s, i) == {k \in 1..Len(s) : s[k] = i}

\* They can be counted.
LEMMA CountType ==
  ASSUME NEW S, NEW s \in Seq(S), NEW i
  PROVE  IsFiniteSet(Positions(s, i)) /\ Cardinality(Positions(s, i)) \in Nat
<1>1. IsFiniteSet(1..Len(s))
  BY FS_Interval
<1> QED
  BY <1>1, FS_Subset, FS_CardinalityType DEF Positions

\* Append adds an occurrence of what it appends.
LEMMA CountAppend ==
  ASSUME NEW S, NEW s \in Seq(S), NEW x \in S, NEW i
  PROVE  Cardinality(Positions(Append(s, x), i))
           = Cardinality(Positions(s, i)) + Same(x, i)
<1> DEFINE n == Len(s) + 1
<1>1. Positions(Append(s, x), i) =
        IF x = i THEN Positions(s, i) \cup {n} ELSE Positions(s, i)
  BY DEF Positions
<1>2. n \notin Positions(s, i)
  BY DEF Positions
<1>3. IsFiniteSet(Positions(s, i)) /\ Cardinality(Positions(s, i)) \in Nat
  BY CountType
<1>4. Cardinality(Positions(s, i) \cup {n}) = Cardinality(Positions(s, i)) + 1
  BY <1>2, <1>3, FS_AddElement
<1> QED
  BY <1>1, <1>3, <1>4 DEF Same

\* Tail removes the occurrence at the head.
LEMMA CountTail ==
  ASSUME NEW S, NEW s \in Seq(S), s # <<>>, NEW i
  PROVE  Cardinality(Positions(Tail(s), i))
           = Cardinality(Positions(s, i)) - Same(Head(s), i)
<1> DEFINE T == Positions(Tail(s), i)
           R == Positions(s, i) \ {1}
           g == [k \in T |-> k + 1]
<1>1. Len(s) \in Nat \ {0} /\ Len(Tail(s)) = Len(s) - 1
      /\ \A k \in 1..Len(Tail(s)) : Tail(s)[k] = s[k + 1]
  BY HeadTailProperties, LenProperties, EmptySeq
<1>2. \A k \in T : k + 1 \in R
  BY <1>1 DEF Positions
<1>3. \A m \in R : m - 1 \in T /\ (m - 1) + 1 = m
  <2> SUFFICES ASSUME NEW m \in R PROVE m - 1 \in T /\ (m - 1) + 1 = m
    OBVIOUS
  <2>1. m \in 2..Len(s) /\ s[m] = i
    BY <1>1 DEF Positions
  <2>2. m - 1 \in 1..Len(Tail(s)) /\ (m - 1) + 1 = m
    BY <1>1, <2>1
  <2> QED
    BY <1>1, <2>1, <2>2 DEF Positions
<1>4. g \in Bijection(T, R)
  <2>1. g \in [T -> R]
    BY <1>2
  <2>2. \A a, b \in T : g[a] = g[b] => a = b
    BY DEF Positions
  <2>3. \A m \in R : \E k \in T : g[k] = m
    BY <1>3
  <2> QED
    BY <2>1, <2>2, <2>3, Fun_IsBij
<1>5. ExistsBijection(T, R)
  BY <1>4 DEF ExistsBijection
<1>6. IsFiniteSet(T) /\ IsFiniteSet(Positions(s, i)) /\ Cardinality(Positions(s, i)) \in Nat
  BY CountType, HeadTailProperties
<1>7. Cardinality(R) = Cardinality(T)
  BY <1>5, <1>6, FS_Bijection
<1>8. 1 \in Positions(s, i) <=> Head(s) = i
  BY <1>1 DEF Positions
<1>9. Cardinality(R) = IF 1 \in Positions(s, i) THEN Cardinality(Positions(s, i)) - 1
                                                ELSE Cardinality(Positions(s, i))
  BY <1>6, FS_RemoveElement
<1> QED
  BY <1>6, <1>7, <1>8, <1>9 DEF Same

-----------------------------------------------------------------------------
(* The invariant. *)

OneInitializer == \A p, q \in Initializers : p = q

\* Types, with the use count's left to the counting invariant: that it never
\* goes below zero is a fact about shared pointers, not about their type.
BasicType ==
  /\ handle \in BOOLEAN /\ destroyed \in BOOLEAN
  /\ queue \in Seq(Items) /\ Len(queue) <= MAX_ITEMS
  /\ use_count \in [Items -> Int]
  /\ holds \in [Threads -> Items \cup {None}]
  /\ mem \in [Threads -> Items \cup {None}]
  /\ pc \in [Threads -> {"idle", "initialize", "send", "sending", "receiving"}]

\* What a thread inside a method can rely on.
CallInv == \A p \in Threads :
  /\ mem[p] # None <=> pc[p] \in {"send", "sending"}
  /\ pc[p] \in {"sending", "receiving"} => handle
  /\ pc[p] = "receiving" => holds[p] = None
  /\ pc[p] = "initialize" => p \in Initializers
  /\ pc[p] # "idle" => ~destroyed

\* There are items only in a queue that exists.
ContentsInv == ~handle \/ destroyed => queue = <<>>

\* A single initializer creates the queue once.
CreateInv == \A p \in Threads : pc[p] = "initialize" => ~handle

IInv == /\ BasicType
        /\ CallInv
        /\ ContentsInv
        /\ OneInitializer => CreateInv
        /\ NoDanglingItem

\* Every step is one of these: the case split of the proofs below.
LEMMA StepCases ==
  ASSUME [Next]_vars
  PROVE  \/ \E p \in Threads :
              \/ \E j \in Items : MakeItem(p, j)
              \/ ReleaseItem(p) \/ Initialize(p) \/ xQueueCreateStatic(p) \/ Destroy(p)
              \/ Send(p) \/ SendFails(p) \/ CallSend(p) \/ xQueueSend(p)
              \/ Receive(p) \/ xQueueReceive(p) \/ ReceiveFails(p)
         \/ UNCHANGED vars
BY DEF Next, QueueGone

\* Every step keeps the variables in their types.
LEMMA BasicTypeStep ==
  ASSUME BasicType, CallInv, [Next]_vars
  PROVE  BasicType'
<1> USE DEF BasicType, CallInv, Goto
<1>1. ASSUME NEW p \in Threads, NEW j \in Items, MakeItem(p, j)
      PROVE  BasicType'
  BY <1>1 DEF MakeItem
<1>2. ASSUME NEW p \in Threads, ReleaseItem(p)
      PROVE  BasicType'
  BY <1>2 DEF ReleaseItem
<1>3. ASSUME NEW p \in Threads, Initialize(p)
      PROVE  BasicType'
  BY <1>3 DEF Initialize
<1>4. ASSUME NEW p \in Threads, xQueueCreateStatic(p)
      PROVE  BasicType'
  BY <1>4, EmptySeq, QueueAssumption DEF xQueueCreateStatic
<1>5. ASSUME NEW p \in Threads, Destroy(p)
      PROVE  BasicType'
  BY <1>5, EmptySeq, QueueAssumption DEF Destroy
<1>6. ASSUME NEW p \in Threads, Send(p)
      PROVE  BasicType'
  BY <1>6 DEF Send, CopyConstruct
<1>7. ASSUME NEW p \in Threads, SendFails(p)
      PROVE  BasicType'
  BY <1>7 DEF SendFails
<1>8. ASSUME NEW p \in Threads, CallSend(p)
      PROVE  BasicType'
  BY <1>8 DEF CallSend
<1>9. ASSUME NEW p \in Threads, xQueueSend(p)
      PROVE  BasicType'
  <2>1. mem[p] \in Items
    BY <1>9 DEF xQueueSend
  <2>2. queue' \in Seq(Items) /\ Len(queue') = Len(queue) + 1
    BY <1>9, <2>1 DEF xQueueSend
  <2>3. Len(queue') <= MAX_ITEMS
    BY <1>9, <2>2, LenProperties, QueueAssumption DEF xQueueSend
  <2> QED
    BY <1>9, <2>2, <2>3 DEF xQueueSend
<1>10. ASSUME NEW p \in Threads, Receive(p)
      PROVE  BasicType'
  BY <1>10 DEF Receive
<1>11. ASSUME NEW p \in Threads, xQueueReceive(p)
      PROVE  BasicType'
  <2>1. Head(queue) \in Items /\ Tail(queue) \in Seq(Items) /\ Len(Tail(queue)) = Len(queue) - 1
    BY <1>11, HeadTailProperties DEF xQueueReceive
  <2>2. Len(queue') <= MAX_ITEMS
    BY <1>11, <2>1, LenProperties, QueueAssumption DEF xQueueReceive
  <2>3. use_count' \in [Items -> Int]
    BY <1>11, <2>1 DEF xQueueReceive, MoveOut
  <2> QED
    BY <1>11, <2>1, <2>2, <2>3 DEF xQueueReceive
<1>12. ASSUME NEW p \in Threads, ReceiveFails(p)
      PROVE  BasicType'
  BY <1>12 DEF ReceiveFails
<1>13. CASE UNCHANGED vars
  BY <1>13 DEF vars
<1> QED
  BY <1>1, <1>2, <1>3, <1>4, <1>5, <1>6, <1>7, <1>8, <1>9, <1>10, <1>11, <1>12, <1>13, StepCases

\* Every step keeps what threads inside a method rely on.
LEMMA CallInvStep ==
  ASSUME BasicType, CallInv, [Next]_vars
  PROVE  CallInv'
<1> USE DEF BasicType, CallInv, Goto
<1>1. ASSUME NEW p \in Threads, NEW j \in Items, MakeItem(p, j)
      PROVE  CallInv'
  BY <1>1 DEF MakeItem
<1>2. ASSUME NEW p \in Threads, ReleaseItem(p)
      PROVE  CallInv'
  BY <1>2 DEF ReleaseItem
<1>3. ASSUME NEW p \in Threads, Initialize(p)
      PROVE  CallInv'
  BY <1>3 DEF Initialize
<1>4. ASSUME NEW p \in Threads, xQueueCreateStatic(p)
      PROVE  CallInv'
  BY <1>4 DEF xQueueCreateStatic
<1>5. ASSUME NEW p \in Threads, Destroy(p)
      PROVE  CallInv'
  BY <1>5 DEF Destroy
<1>6. ASSUME NEW p \in Threads, Send(p)
      PROVE  CallInv'
  BY <1>6, QueueAssumption DEF Send
<1>7. ASSUME NEW p \in Threads, SendFails(p)
      PROVE  CallInv'
  BY <1>7 DEF SendFails
<1>8. ASSUME NEW p \in Threads, CallSend(p)
      PROVE  CallInv'
  BY <1>8 DEF CallSend
<1>9. ASSUME NEW p \in Threads, xQueueSend(p)
      PROVE  CallInv'
  BY <1>9 DEF xQueueSend
<1>10. ASSUME NEW p \in Threads, Receive(p)
      PROVE  CallInv'
  BY <1>10 DEF Receive
<1>11. ASSUME NEW p \in Threads, xQueueReceive(p)
      PROVE  CallInv'
  BY <1>11 DEF xQueueReceive
<1>12. ASSUME NEW p \in Threads, ReceiveFails(p)
      PROVE  CallInv'
  BY <1>12 DEF ReceiveFails
<1>13. CASE UNCHANGED vars
  BY <1>13 DEF vars
<1> QED
  BY <1>1, <1>2, <1>3, <1>4, <1>5, <1>6, <1>7, <1>8, <1>9, <1>10, <1>11, <1>12, <1>13, StepCases

\* Only an existing queue is filled.
LEMMA ContentsInvStep ==
  ASSUME BasicType, CallInv, ContentsInv, [Next]_vars
  PROVE  ContentsInv'
<1> USE DEF BasicType, CallInv, ContentsInv, Goto
<1>1. ASSUME NEW p \in Threads, NEW j \in Items, MakeItem(p, j)
      PROVE  ContentsInv'
  BY <1>1 DEF MakeItem
<1>2. ASSUME NEW p \in Threads, ReleaseItem(p)
      PROVE  ContentsInv'
  BY <1>2 DEF ReleaseItem
<1>3. ASSUME NEW p \in Threads, Initialize(p)
      PROVE  ContentsInv'
  BY <1>3 DEF Initialize
<1>4. ASSUME NEW p \in Threads, xQueueCreateStatic(p)
      PROVE  ContentsInv'
  BY <1>4 DEF xQueueCreateStatic
<1>5. ASSUME NEW p \in Threads, Destroy(p)
      PROVE  ContentsInv'
  BY <1>5 DEF Destroy
<1>6. ASSUME NEW p \in Threads, Send(p)
      PROVE  ContentsInv'
  BY <1>6 DEF Send
<1>7. ASSUME NEW p \in Threads, SendFails(p)
      PROVE  ContentsInv'
  BY <1>7 DEF SendFails
<1>8. ASSUME NEW p \in Threads, CallSend(p)
      PROVE  ContentsInv'
  BY <1>8 DEF CallSend
<1>9. ASSUME NEW p \in Threads, xQueueSend(p)
      PROVE  ContentsInv'
  BY <1>9 DEF xQueueSend
<1>10. ASSUME NEW p \in Threads, Receive(p)
      PROVE  ContentsInv'
  BY <1>10 DEF Receive
<1>11. ASSUME NEW p \in Threads, xQueueReceive(p)
      PROVE  ContentsInv'
  BY <1>11 DEF xQueueReceive
<1>12. ASSUME NEW p \in Threads, ReceiveFails(p)
      PROVE  ContentsInv'
  BY <1>12 DEF ReceiveFails
<1>13. CASE UNCHANGED vars
  BY <1>13 DEF vars
<1> QED
  BY <1>1, <1>2, <1>3, <1>4, <1>5, <1>6, <1>7, <1>8, <1>9, <1>10, <1>11, <1>12, <1>13, StepCases

\* One initializer passes the early return of Initialize() only once.
LEMMA CreateInvStep ==
  ASSUME OneInitializer, BasicType, CallInv, CreateInv, [Next]_vars
  PROVE  CreateInv'
<1> USE DEF OneInitializer, BasicType, CallInv, CreateInv, Goto
<1>1. ASSUME NEW p \in Threads, NEW j \in Items, MakeItem(p, j)
      PROVE  CreateInv'
  BY <1>1 DEF MakeItem
<1>2. ASSUME NEW p \in Threads, ReleaseItem(p)
      PROVE  CreateInv'
  BY <1>2 DEF ReleaseItem
<1>3. ASSUME NEW p \in Threads, Initialize(p)
      PROVE  CreateInv'
  BY <1>3 DEF Initialize, NotInitialized
<1>4. ASSUME NEW p \in Threads, xQueueCreateStatic(p)
      PROVE  CreateInv'
  BY <1>4 DEF xQueueCreateStatic
<1>5. ASSUME NEW p \in Threads, Destroy(p)
      PROVE  CreateInv'
  BY <1>5 DEF Destroy
<1>6. ASSUME NEW p \in Threads, Send(p)
      PROVE  CreateInv'
  BY <1>6 DEF Send
<1>7. ASSUME NEW p \in Threads, SendFails(p)
      PROVE  CreateInv'
  BY <1>7 DEF SendFails
<1>8. ASSUME NEW p \in Threads, CallSend(p)
      PROVE  CreateInv'
  BY <1>8 DEF CallSend
<1>9. ASSUME NEW p \in Threads, xQueueSend(p)
      PROVE  CreateInv'
  BY <1>9 DEF xQueueSend
<1>10. ASSUME NEW p \in Threads, Receive(p)
      PROVE  CreateInv'
  BY <1>10 DEF Receive
<1>11. ASSUME NEW p \in Threads, xQueueReceive(p)
      PROVE  CreateInv'
  BY <1>11 DEF xQueueReceive
<1>12. ASSUME NEW p \in Threads, ReceiveFails(p)
      PROVE  CreateInv'
  BY <1>12 DEF ReceiveFails
<1>13. CASE UNCHANGED vars
  BY <1>13 DEF vars
<1> QED
  BY <1>1, <1>2, <1>3, <1>4, <1>5, <1>6, <1>7, <1>8, <1>9, <1>10, <1>11, <1>12, <1>13, StepCases

-----------------------------------------------------------------------------
(* Use counts. *)

\* The three counts that make up Owners(i) are natural numbers.
LEMMA OwnersType ==
  ASSUME BasicType, NEW i \in Items
  PROVE  /\ Cardinality(Holding(i)) \in Nat /\ Cardinality(Copied(i)) \in Nat
         /\ Cardinality(Queued(i)) \in Nat /\ Owners(i) \in Nat
<1>1. IsFiniteSet(Holding(i)) /\ IsFiniteSet(Copied(i))
  BY FS_Subset, QueueAssumption DEF Holding, Copied
<1>2. Cardinality(Holding(i)) \in Nat /\ Cardinality(Copied(i)) \in Nat
  BY <1>1, FS_CardinalityType
<1>3. Cardinality(Queued(i)) \in Nat
  BY CountType DEF BasicType, Queued, Positions
<1> QED
  BY <1>2, <1>3 DEF Owners

\* The same in the next state.
LEMMA OwnersTypeNext ==
  ASSUME BasicType', NEW i \in Items
  PROVE  Owners(i)' \in Nat
<1>1. IsFiniteSet(Holding(i)') /\ IsFiniteSet(Copied(i)')
  BY FS_Subset, QueueAssumption DEF Holding, Copied
<1>2. Cardinality(Holding(i)') \in Nat /\ Cardinality(Copied(i)') \in Nat
  BY <1>1, FS_CardinalityType
<1>3. PICK q : q = queue'
  OBVIOUS
<1>4. Cardinality(Positions(q, i)) \in Nat
  BY <1>3, CountType DEF BasicType
<1>5. Queued(i)' = Positions(q, i)
  BY <1>3 DEF Queued, Positions
<1> QED
  BY <1>2, <1>4, <1>5 DEF Owners

\* How the three kinds of owners of i change when a thread's shared_ptr, its
\* buffer or the queue changes.
LEMMA HoldingChange ==
  ASSUME BasicType, NEW i \in Items, NEW p \in Threads,
         \A q \in Threads \ {p} : holds'[q] = holds[q]
  PROVE  /\ Cardinality(Holding(i))' = Cardinality(Holding(i)) - Same(holds[p], i) + Same(holds'[p], i)
         /\ holds[p] = i => Cardinality(Holding(i)) > 0
<1>1. PICK g : g = holds'
  OBVIOUS
<1>2. g[p] = holds'[p] /\ \A q \in Threads \ {p} : g[q] = holds[q]
  BY <1>1
<1>3. /\ Cardinality(Occurrences(Threads, g, i))
           = Cardinality(Occurrences(Threads, holds, i)) - Same(holds[p], i) + Same(g[p], i)
      /\ holds[p] = i => Cardinality(Occurrences(Threads, holds, i)) > 0
  BY <1>2, QueueAssumption, CountChange
<1>4. Occurrences(Threads, holds, i) = Holding(i) /\ Occurrences(Threads, g, i) = Holding(i)'
  BY <1>1 DEF Holding, Occurrences
<1> QED
  BY <1>2, <1>3, <1>4

\* The same for the copies that Sends in progress hold.
LEMMA CopiedChange ==
  ASSUME BasicType, NEW i \in Items, NEW p \in Threads,
         \A q \in Threads \ {p} : mem'[q] = mem[q]
  PROVE  Cardinality(Copied(i))' = Cardinality(Copied(i)) - Same(mem[p], i) + Same(mem'[p], i)
<1>1. PICK g : g = mem'
  OBVIOUS
<1>2. g[p] = mem'[p] /\ \A q \in Threads \ {p} : g[q] = mem[q]
  BY <1>1
<1>3. /\ Cardinality(Occurrences(Threads, g, i))
           = Cardinality(Occurrences(Threads, mem, i)) - Same(mem[p], i) + Same(g[p], i)
      /\ mem[p] = i => Cardinality(Occurrences(Threads, mem, i)) > 0
  BY <1>2, QueueAssumption, CountChange
<1>4. Occurrences(Threads, mem, i) = Copied(i) /\ Occurrences(Threads, g, i) = Copied(i)'
  BY <1>1 DEF Copied, Occurrences
<1> QED
  BY <1>2, <1>3, <1>4

\* An accepted item is one more place of its queue.
LEMMA QueuedAppend ==
  ASSUME BasicType, NEW i \in Items, NEW x \in Items, queue' = Append(queue, x)
  PROVE  Cardinality(Queued(i))' = Cardinality(Queued(i)) + Same(x, i)
<1>1. Cardinality(Positions(Append(queue, x), i))
        = Cardinality(Positions(queue, i)) + Same(x, i)
  BY CountAppend DEF BasicType
<1> QED
  BY <1>1 DEF Queued, Positions

\* The item taken out is one place fewer.
LEMMA QueuedTail ==
  ASSUME BasicType, NEW i \in Items, queue # <<>>, queue' = Tail(queue)
  PROVE  Cardinality(Queued(i))' = Cardinality(Queued(i)) - Same(Head(queue), i)
<1>1. Cardinality(Positions(Tail(queue), i))
        = Cardinality(Positions(queue, i)) - Same(Head(queue), i)
  BY CountTail DEF BasicType
<1> QED
  BY <1>1 DEF Queued, Positions

\* An emptied queue has no place for any item.
LEMMA QueuedEmpty ==
  ASSUME NEW i \in Items, queue' = <<>>
  PROVE  Cardinality(Queued(i))' = 0
<1>1. Queued(i)' = {}
  BY EmptySeq DEF Queued
<1> QED
  BY <1>1, FS_EmptySet

\* What every step does to the uses of i that no shared_ptr accounts for.
FailedSend(i) == \E p \in Threads : mem[p] = i /\ mem'[p] = None /\ Len(queue') <= Len(queue)

Surplus(i) == use_count[i] - Owners(i)

\* Every step counts the uses of i as it changes its shared pointers, but for
\* a Send that fails, the destruction of the queue, and a second creation.
LEMMA CountStep ==
  ASSUME IInv, NEW i \in Items, [Next]_vars
  PROVE  \/ Surplus(i)' = Surplus(i)
         \/ /\ Surplus(i)' >= Surplus(i)
            /\ destroyed' # destroyed \/ FailedSend(i) \/ ~OneInitializer
<1> DEFINE Goal == \/ Surplus(i)' = Surplus(i)
                   \/ /\ Surplus(i)' >= Surplus(i)
                      /\ destroyed' # destroyed \/ FailedSend(i) \/ ~OneInitializer
<1> USE DEF IInv
<1>a. /\ Cardinality(Holding(i)) \in Nat /\ Cardinality(Copied(i)) \in Nat
      /\ Cardinality(Queued(i)) \in Nat /\ Owners(i) \in Nat
  BY OwnersType
<1>b. /\ Surplus(i) = use_count[i] - (Cardinality(Holding(i)) + Cardinality(Copied(i))
                                      + Cardinality(Queued(i)))
      /\ Surplus(i)' = use_count'[i] - (Cardinality(Holding(i))' + Cardinality(Copied(i))'
                                        + Cardinality(Queued(i))')
  BY DEF Surplus, Owners
<1>c. use_count[i] \in Int /\ i # None /\ Owners(i) <= use_count[i]
  BY QueueAssumption DEF BasicType, NoDanglingItem
<1>d. Same(None, i) = 0 /\ \A x : Same(x, i) \in {0, 1}
  BY QueueAssumption DEF Same
<1>1. ASSUME NEW p \in Threads, NEW j \in Items, MakeItem(p, j)
      PROVE  Goal
  <2>1. /\ Cardinality(Copied(i))' = Cardinality(Copied(i))
        /\ Cardinality(Queued(i))' = Cardinality(Queued(i))
    BY <1>1 DEF MakeItem, Copied, Queued
  <2>2. Cardinality(Holding(i))' = Cardinality(Holding(i)) + Same(j, i)
    <3>1. holds'[p] = j /\ \A q \in Threads \ {p} : holds'[q] = holds[q]
      BY <1>1 DEF MakeItem, BasicType
    <3>2. Cardinality(Holding(i))' = Cardinality(Holding(i)) - Same(holds[p], i) + Same(holds'[p], i)
      BY <3>1, HoldingChange
    <3>3. holds[p] = None
      BY <1>1 DEF MakeItem
    <3> QED
      BY <1>a, <1>d, <3>1, <3>2, <3>3
  <2>3. CASE j = i
    <3>1. use_count[i] = 0 /\ use_count'[i] = 1
      BY <1>1, <2>3 DEF MakeItem, BasicType
    <3>2. Same(j, i) = 1
      BY <2>3 DEF Same
    <3> QED
      BY <1>a, <1>b, <1>c, <2>1, <2>2, <3>1, <3>2 DEF Owners
  <2>4. CASE j # i
    BY <1>1, <1>a, <1>b, <2>1, <2>2, <2>4 DEF MakeItem, BasicType, Same
  <2> QED
    BY <2>3, <2>4
<1>2. ASSUME NEW p \in Threads, ReleaseItem(p)
      PROVE  Goal
  <2>1. /\ Cardinality(Copied(i))' = Cardinality(Copied(i))
        /\ Cardinality(Queued(i))' = Cardinality(Queued(i))
    BY <1>2 DEF ReleaseItem, Copied, Queued
  <2>2. Cardinality(Holding(i))' = Cardinality(Holding(i)) - Same(holds[p], i)
    <3>1. holds'[p] = None /\ \A q \in Threads \ {p} : holds'[q] = holds[q]
      BY <1>2 DEF ReleaseItem, BasicType
    <3>2. Cardinality(Holding(i))' = Cardinality(Holding(i)) - Same(holds[p], i) + Same(holds'[p], i)
      BY <3>1, HoldingChange
    <3> QED
      BY <1>a, <1>d, <3>1, <3>2
  <2>3. use_count'[i] = use_count[i] - Same(holds[p], i)
    BY <1>2, <1>c DEF ReleaseItem, BasicType, Same
  <2> QED
    BY <1>a, <1>b, <1>c, <1>d, <2>1, <2>2, <2>3
<1>3. ASSUME NEW p \in Threads, Initialize(p)
      PROVE  Goal
  <2>1. /\ Cardinality(Holding(i))' = Cardinality(Holding(i))
        /\ Cardinality(Copied(i))' = Cardinality(Copied(i))
        /\ Cardinality(Queued(i))' = Cardinality(Queued(i))
    BY <1>3 DEF Initialize, Holding, Copied, Queued
  <2>2. use_count' = use_count
    BY <1>3 DEF Initialize
  <2> QED
    BY <1>b, <2>1, <2>2
<1>4. ASSUME NEW p \in Threads, xQueueCreateStatic(p)
      PROVE  Goal
  <2>1. /\ Cardinality(Holding(i))' = Cardinality(Holding(i))
        /\ Cardinality(Copied(i))' = Cardinality(Copied(i))
    BY <1>4 DEF xQueueCreateStatic, Holding, Copied
  <2>2. Cardinality(Queued(i))' = 0 /\ use_count' = use_count
    BY <1>4, QueuedEmpty DEF xQueueCreateStatic
  <2>3. CASE OneInitializer
    <3>1. queue' = queue
      BY <1>4, <2>3 DEF xQueueCreateStatic, CreateInv, ContentsInv
    <3>2. Cardinality(Queued(i))' = Cardinality(Queued(i))
      BY <3>1 DEF Queued
    <3> QED
      BY <1>b, <2>1, <2>2, <3>2
  <2>4. CASE ~OneInitializer
    <3>1. Surplus(i)' >= Surplus(i)
      BY <1>a, <1>b, <1>c, <2>1, <2>2
    <3> QED
      BY <2>4, <3>1
  <2> QED
    BY <2>3, <2>4
<1>5. ASSUME NEW p \in Threads, Destroy(p)
      PROVE  Goal
  <2>1. /\ Cardinality(Holding(i))' = Cardinality(Holding(i))
        /\ Cardinality(Copied(i))' = Cardinality(Copied(i))
    BY <1>5 DEF Destroy, Holding, Copied
  <2>2. Cardinality(Queued(i))' = 0 /\ use_count' = use_count
    BY <1>5, QueuedEmpty DEF Destroy
  <2>3. Surplus(i)' >= Surplus(i)
    BY <1>a, <1>b, <1>c, <2>1, <2>2
  <2>4. destroyed' # destroyed
    BY <1>5 DEF Destroy
  <2> QED
    BY <2>3, <2>4
<1>6. ASSUME NEW p \in Threads, Send(p)
      PROVE  Goal
  <2>1. /\ Cardinality(Holding(i))' = Cardinality(Holding(i))
        /\ Cardinality(Queued(i))' = Cardinality(Queued(i))
    BY <1>6 DEF Send, Holding, Queued
  <2>2. mem[p] = None
    BY <1>6 DEF Send, CallInv
  <2>3. Cardinality(Copied(i))' = Cardinality(Copied(i)) + Same(holds[p], i)
    <3>1. mem'[p] = holds[p] /\ \A q \in Threads \ {p} : mem'[q] = mem[q]
      BY <1>6 DEF Send, BasicType
    <3>2. Cardinality(Copied(i))' = Cardinality(Copied(i)) - Same(mem[p], i) + Same(mem'[p], i)
      BY <3>1, CopiedChange
    <3> QED
      BY <1>a, <1>d, <3>1, <3>2, <2>2
  <2>4. use_count'[i] = use_count[i] + Same(holds[p], i)
    BY <1>6, <1>c DEF Send, BasicType, Same, CopyConstruct
  <2> QED
    BY <1>a, <1>b, <1>c, <1>d, <2>1, <2>3, <2>4
<1>7. ASSUME NEW p \in Threads, SendFails(p)
      PROVE  Goal
  <2>1. /\ Cardinality(Holding(i))' = Cardinality(Holding(i))
        /\ Cardinality(Queued(i))' = Cardinality(Queued(i))
    BY <1>7 DEF SendFails, Holding, Queued
  <2>2. Cardinality(Copied(i))' = Cardinality(Copied(i)) - Same(mem[p], i)
    <3>1. mem'[p] = None /\ \A q \in Threads \ {p} : mem'[q] = mem[q]
      BY <1>7 DEF SendFails, BasicType
    <3>2. Cardinality(Copied(i))' = Cardinality(Copied(i)) - Same(mem[p], i) + Same(mem'[p], i)
      BY <3>1, CopiedChange
    <3> QED
      BY <1>a, <1>d, <3>1, <3>2
  <2>3. use_count' = use_count /\ queue' = queue /\ mem'[p] = None
    BY <1>7 DEF SendFails, BasicType
  <2>4. CASE mem[p] = i
    <3>1. FailedSend(i)
      BY <2>3, <2>4, LenProperties DEF FailedSend, BasicType
    <3>2. Surplus(i)' >= Surplus(i)
      BY <1>a, <1>b, <1>c, <1>d, <2>1, <2>2, <2>3
    <3> QED
      BY <3>1, <3>2
  <2>5. CASE mem[p] # i
    <3>1. Same(mem[p], i) = 0
      BY <2>5 DEF Same
    <3> QED
      BY <1>a, <1>b, <2>1, <2>2, <2>3, <3>1
  <2> QED
    BY <2>4, <2>5
<1>8. ASSUME NEW p \in Threads, CallSend(p)
      PROVE  Goal
  <2>1. /\ Cardinality(Holding(i))' = Cardinality(Holding(i))
        /\ Cardinality(Copied(i))' = Cardinality(Copied(i))
        /\ Cardinality(Queued(i))' = Cardinality(Queued(i))
    BY <1>8 DEF CallSend, Holding, Copied, Queued
  <2>2. use_count' = use_count
    BY <1>8 DEF CallSend
  <2> QED
    BY <1>b, <2>1, <2>2
<1>9. ASSUME NEW p \in Threads, xQueueSend(p)
      PROVE  Goal
  <2>1. /\ Cardinality(Holding(i))' = Cardinality(Holding(i))
    BY <1>9 DEF xQueueSend, Holding
  <2>2. mem[p] \in Items /\ use_count' = use_count
    BY <1>9 DEF xQueueSend, BasicType, CallInv
  <2>3. Cardinality(Copied(i))' = Cardinality(Copied(i)) - Same(mem[p], i)
    <3>1. mem'[p] = None /\ \A q \in Threads \ {p} : mem'[q] = mem[q]
      BY <1>9 DEF xQueueSend, BasicType
    <3>2. Cardinality(Copied(i))' = Cardinality(Copied(i)) - Same(mem[p], i) + Same(mem'[p], i)
      BY <3>1, CopiedChange
    <3> QED
      BY <1>a, <1>d, <3>1, <3>2
  <2>4. Cardinality(Queued(i))' = Cardinality(Queued(i)) + Same(mem[p], i)
    BY <1>9, <2>2, QueuedAppend DEF xQueueSend
  <2> QED
    BY <1>a, <1>b, <1>c, <1>d, <2>1, <2>2, <2>3, <2>4
<1>10. ASSUME NEW p \in Threads, Receive(p)
      PROVE  Goal
  <2>1. /\ Cardinality(Holding(i))' = Cardinality(Holding(i))
        /\ Cardinality(Copied(i))' = Cardinality(Copied(i))
        /\ Cardinality(Queued(i))' = Cardinality(Queued(i))
    BY <1>10 DEF Receive, Holding, Copied, Queued
  <2>2. use_count' = use_count
    BY <1>10 DEF Receive
  <2> QED
    BY <1>b, <2>1, <2>2
<1>11. ASSUME NEW p \in Threads, xQueueReceive(p)
      PROVE  Goal
  <2>1. /\ Cardinality(Copied(i))' = Cardinality(Copied(i))
    BY <1>11 DEF xQueueReceive, Copied
  <2>2. Head(queue) \in Items /\ holds[p] = None
    BY <1>11, HeadTailProperties DEF xQueueReceive, BasicType, CallInv
  <2>3. Cardinality(Holding(i))' = Cardinality(Holding(i)) + Same(Head(queue), i)
    <3>1. holds'[p] = Head(queue) /\ \A q \in Threads \ {p} : holds'[q] = holds[q]
      BY <1>11 DEF xQueueReceive, BasicType
    <3>2. Cardinality(Holding(i))' = Cardinality(Holding(i)) - Same(holds[p], i) + Same(holds'[p], i)
      BY <3>1, HoldingChange
    <3> QED
      BY <1>a, <1>d, <3>1, <3>2, <2>2
  <2>4. Cardinality(Queued(i))' = Cardinality(Queued(i)) - Same(Head(queue), i)
    BY <1>11, QueuedTail DEF xQueueReceive
  <2>5. use_count'[i] = use_count[i]
    BY <1>11, <2>2 DEF xQueueReceive, BasicType, MoveOut
  <2> QED
    BY <1>a, <1>b, <1>c, <1>d, <2>1, <2>3, <2>4, <2>5
<1>12. ASSUME NEW p \in Threads, ReceiveFails(p)
      PROVE  Goal
  <2>1. /\ Cardinality(Holding(i))' = Cardinality(Holding(i))
        /\ Cardinality(Copied(i))' = Cardinality(Copied(i))
        /\ Cardinality(Queued(i))' = Cardinality(Queued(i))
    BY <1>12 DEF ReceiveFails, Holding, Copied, Queued
  <2>2. use_count' = use_count
    BY <1>12 DEF ReceiveFails
  <2> QED
    BY <1>b, <2>1, <2>2
<1>13. CASE UNCHANGED vars
  BY <1>13 DEF vars, Surplus, Owners, Holding, Copied, Queued
<1> QED
  BY <1>1, <1>2, <1>3, <1>4, <1>5, <1>6, <1>7, <1>8, <1>9, <1>10, <1>11, <1>12, <1>13, StepCases

-----------------------------------------------------------------------------
(* The theorems. *)

\* The inductive invariant holds in every reachable state.
THEOREM Invariance == Spec => []IInv
<1>1. Init => IInv
  <2> SUFFICES ASSUME Init PROVE IInv
    OBVIOUS
  <2>1. BasicType
    <3>1. <<>> \in Seq(Items) /\ Len(<<>>) <= MAX_ITEMS
      BY EmptySeq, QueueAssumption
    <3>2. handle \in BOOLEAN /\ destroyed \in BOOLEAN /\ queue \in Seq(Items)
          /\ Len(queue) <= MAX_ITEMS
      BY <3>1 DEF Init
    <3>3. /\ use_count \in [Items -> Int]
          /\ holds \in [Threads -> Items \cup {None}]
          /\ mem \in [Threads -> Items \cup {None}]
      BY DEF Init
    <3>4. pc \in [Threads -> {"idle", "initialize", "send", "sending", "receiving"}]
      BY DEF Init
    <3> QED
      BY <3>2, <3>3, <3>4 DEF BasicType
  <2>2. CallInv /\ ContentsInv /\ CreateInv
    BY DEF Init, CallInv, ContentsInv, CreateInv
  <2>3. NoDanglingItem
    <3> SUFFICES ASSUME NEW i \in Items PROVE Owners(i) <= use_count[i]
      BY DEF NoDanglingItem
    <3>1. Holding(i) = {} /\ Copied(i) = {} /\ Queued(i) = {}
      BY QueueAssumption, EmptySeq DEF Init, Holding, Copied, Queued
    <3>2. Owners(i) = 0
      BY <3>1, FS_EmptySet DEF Owners
    <3> QED
      BY <3>2 DEF Init
  <2> QED
    BY <2>1, <2>2, <2>3 DEF IInv
<1>2. IInv /\ [Next]_vars => IInv'
  <2> SUFFICES ASSUME IInv, [Next]_vars PROVE IInv'
    OBVIOUS
  <2>1. BasicType' /\ CallInv' /\ ContentsInv' /\ (OneInitializer => CreateInv')
    BY BasicTypeStep, CallInvStep, ContentsInvStep, CreateInvStep DEF IInv
  <2>2. ASSUME NEW i \in Items PROVE Owners(i)' <= use_count'[i]
    <3>1. Surplus(i)' >= Surplus(i)
      BY CountStep, OwnersType DEF IInv, Surplus, BasicType
    <3>2. Owners(i) \in Nat /\ Owners(i)' \in Nat /\ use_count[i] \in Int /\ use_count'[i] \in Int
      BY <2>1, OwnersType, OwnersTypeNext DEF IInv, BasicType
    <3> QED
      BY <3>1, <3>2 DEF IInv, NoDanglingItem, Surplus
  <2> QED
    BY <2>1, <2>2 DEF IInv, NoDanglingItem, OneInitializer
<1> QED
  BY <1>1, <1>2, PTL DEF Spec

\* Every use count stays a natural number: no release is one too many.
THEOREM TypeCorrect == Spec => []TypeOK
<1>1. IInv => TypeOK
  <2> SUFFICES ASSUME IInv PROVE TypeOK
    OBVIOUS
  <2>1. ASSUME NEW i \in Items PROVE use_count[i] \in Nat
    BY OwnersType DEF IInv, BasicType, NoDanglingItem
  <2> QED
    BY <2>1 DEF IInv, BasicType, TypeOK
<1> QED
  BY <1>1, Invariance, PTL

\* However many threads send, receive, initialize, release and destroy at once, no
\* object is destroyed while a thread or the queue holds a shared_ptr to it.
THEOREM NoItemDangles == Spec => []NoDanglingItem
<1>1. IInv => NoDanglingItem
  BY DEF IInv
<1> QED
  BY <1>1, Invariance, PTL

\* With one initializer, uses are only left over where a Send fails or the
\* queue is destroyed.
THEOREM LeakFreeUnlessFailing == OneInitializer => (Spec => LeaksOnlyOnFailure)
<1> SUFFICES ASSUME OneInitializer PROVE Spec => LeaksOnlyOnFailure
  OBVIOUS
<1>1. IInv /\ [Next]_vars =>
        [\A i \in Items : (use_count[i] - Owners(i))' # use_count[i] - Owners(i) =>
           \/ destroyed' # destroyed
           \/ \E p \in Threads : mem[p] = i /\ mem'[p] = None /\ Len(queue') <= Len(queue)]_vars
  BY CountStep DEF Surplus, FailedSend
<1> QED
  BY <1>1, Invariance, PTL DEF Spec, LeaksOnlyOnFailure

\* An item with a use that belongs to no shared_ptr.
Leaked(i) == use_count[i] > Owners(i)

LeaksAreForever == [][\A i \in Items : Leaked(i) => Leaked(i)']_vars

\* An item that a failed Send or the destruction of the queue has leaked is never
\* destroyed: no later call of any thread makes up for the use left over.
THEOREM LeakedItemsStay == Spec => LeaksAreForever
<1>1. IInv /\ [Next]_vars => [\A i \in Items : Leaked(i) => Leaked(i)']_vars
  <2> SUFFICES ASSUME IInv, [Next]_vars, NEW i \in Items, Leaked(i)
               PROVE  Leaked(i)'
    OBVIOUS
  <2>1. Surplus(i)' >= Surplus(i)
    BY CountStep, OwnersType DEF IInv, Surplus, BasicType
  <2>2. Owners(i) \in Nat /\ Owners(i)' \in Nat /\ use_count[i] \in Int /\ use_count'[i] \in Int
    BY BasicTypeStep, OwnersType, OwnersTypeNext DEF IInv, BasicType
  <2> QED
    BY <2>1, <2>2 DEF Leaked, Surplus
<1> QED
  BY <1>1, Invariance, PTL DEF Spec, LeaksAreForever

-----------------------------------------------------------------------------
(* The refinement of ItemQueue. *)

\* Every step of RTOSQueue is one of the bounded FIFO queue, or a stutter.
LEMMA FifoStep ==
  ASSUME OneInitializer, IInv, [Next]_vars
  PROVE  [Fifo!Next]_(Fifo!vars)
<1> USE DEF IInv, BasicType, Goto
<1>1. ASSUME NEW p \in Threads, NEW j \in Items, MakeItem(p, j)
      PROVE  [Fifo!Next]_(Fifo!vars)
  <2>1. Fifo!Own(p)
    BY <1>1 DEF MakeItem, Fifo!Own
  <2> QED
    BY <2>1 DEF Fifo!Next
<1>2. ASSUME NEW p \in Threads, ReleaseItem(p)
      PROVE  [Fifo!Next]_(Fifo!vars)
  <2>1. Fifo!Own(p)
    BY <1>2 DEF ReleaseItem, Fifo!Own
  <2> QED
    BY <2>1 DEF Fifo!Next
<1>3. ASSUME NEW p \in Threads, Initialize(p)
      PROVE  [Fifo!Next]_(Fifo!vars)
  BY <1>3 DEF Initialize, Fifo!vars
<1>4. ASSUME NEW p \in Threads, xQueueCreateStatic(p)
      PROVE  [Fifo!Next]_(Fifo!vars)
  <2>1. ~handle /\ ~destroyed /\ queue = <<>>
    BY <1>4 DEF xQueueCreateStatic, CallInv, CreateInv, ContentsInv
  <2>2. Fifo!Open
    BY <1>4, <2>1 DEF xQueueCreateStatic, Fifo!Open
  <2> QED
    BY <2>2 DEF Fifo!Next
<1>5. ASSUME NEW p \in Threads, Destroy(p)
      PROVE  [Fifo!Next]_(Fifo!vars)
  <2>1. Fifo!Destroy
    BY <1>5 DEF Destroy, Fifo!Destroy
  <2> QED
    BY <2>1 DEF Fifo!Next
<1>6. ASSUME NEW p \in Threads, Send(p)
      PROVE  [Fifo!Next]_(Fifo!vars)
  <2>1. Fifo!Offer(p)
    BY <1>6 DEF Send, Fifo!Offer
  <2> QED
    BY <2>1 DEF Fifo!Next
<1>7. ASSUME NEW p \in Threads, SendFails(p)
      PROVE  [Fifo!Next]_(Fifo!vars)
  <2>1. Fifo!Refuse(p)
    BY <1>7 DEF SendFails, CallInv, Fifo!Refuse
  <2> QED
    BY <2>1 DEF Fifo!Next
<1>8. ASSUME NEW p \in Threads, CallSend(p)
      PROVE  [Fifo!Next]_(Fifo!vars)
  BY <1>8 DEF CallSend, Fifo!vars
<1>9. ASSUME NEW p \in Threads, xQueueSend(p)
      PROVE  [Fifo!Next]_(Fifo!vars)
  <2>1. Fifo!Accept(p)
    BY <1>9 DEF xQueueSend, CallInv, Fifo!Accept
  <2> QED
    BY <2>1 DEF Fifo!Next
<1>10. ASSUME NEW p \in Threads, Receive(p)
      PROVE  [Fifo!Next]_(Fifo!vars)
  BY <1>10 DEF Receive, Fifo!vars
<1>11. ASSUME NEW p \in Threads, xQueueReceive(p)
      PROVE  [Fifo!Next]_(Fifo!vars)
  <2>1. Fifo!Deliver(p)
    BY <1>11 DEF xQueueReceive, CallInv, Fifo!Deliver
  <2> QED
    BY <2>1 DEF Fifo!Next
<1>12. ASSUME NEW p \in Threads, ReceiveFails(p)
      PROVE  [Fifo!Next]_(Fifo!vars)
  BY <1>12 DEF ReceiveFails, Fifo!vars
<1>13. CASE UNCHANGED vars
  BY <1>13 DEF vars, Fifo!vars
<1> QED
  BY <1>1, <1>2, <1>3, <1>4, <1>5, <1>6, <1>7, <1>8, <1>9, <1>10, <1>11, <1>12, <1>13, StepCases

\* A queue initialized by one context is a bounded FIFO queue that loses, repeats
\* and reorders nothing and refuses an item only when it is full.
THEOREM Refinement == OneInitializer => (Spec => FifoSpec)
<1> SUFFICES ASSUME OneInitializer PROVE Spec => FifoSpec
  OBVIOUS
<1>1. Init => Fifo!Init
  BY DEF Init, Fifo!Init
<1>2. IInv /\ [Next]_vars => [Fifo!Next]_(Fifo!vars)
  BY FifoStep
<1> QED
  BY <1>1, <1>2, Invariance, PTL DEF Spec, FifoSpec, Fifo!Spec
=============================================================================
