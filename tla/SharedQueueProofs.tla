-------------------------- MODULE SharedQueueProofs --------------------------
(***************************************************************************)
(* For any number of writers, readers and pollers, any size and either     *)
(* setting of m_clear_on_full: the queue is well formed and bounded, no    *)
(* wakeup is lost, and it implements the bounded FIFO of DropQueue.        *)
(***************************************************************************)
EXTENDS SharedQueue, FiniteSetTheorems, SequenceTheorems, TLAPS

(* What one push() leaves: a sequence within the bound, at most one longer, *)
(* and exactly what Put of the abstract queue makes of it.                  *)
LEMMA PushedQueue ==
  ASSUME NEW q \in Seq(Items), Len(q) <= MaxSize, NEW item \in Items,
         NEW c, c = IF Len(q) >= MaxSize /\ ClearOnFull THEN <<>> ELSE q,
         NEW r, r = IF Len(c) < MaxSize THEN Append(c, item) ELSE c
  PROVE  /\ r \in Seq(Items)
         /\ Len(r) <= MaxSize
         /\ Len(r) <= Len(q) + 1
         /\ r = IF ~(Len(q) >= MaxSize) THEN Append(q, item)
                ELSE IF ClearOnFull /\ MaxSize > 0 THEN <<item>>
                ELSE IF ClearOnFull THEN <<>>
                ELSE q
<1> MaxSize \in Nat /\ ClearOnFull \in BOOLEAN
  BY QueueAssumption DEF QueueAssumption
<1>1. Len(q) \in Nat
  BY LenProperties
<1>2. CASE Len(q) < MaxSize
  <2>1. r = Append(q, item)
    BY <1>1, <1>2
  <2>2. QED
    BY <1>1, <1>2, <2>1, AppendProperties
<1>3. CASE Len(q) >= MaxSize /\ ~ClearOnFull
  BY <1>1, <1>3
<1>4. CASE Len(q) >= MaxSize /\ ClearOnFull
  <2>1. c = <<>> /\ c \in Seq(Items) /\ Len(c) = 0
    BY <1>4, EmptySeq
  <2>2. CASE MaxSize > 0
    <3>1. r = Append(c, item)
      BY <2>1, <2>2
    <3>2. r \in Seq(Items) /\ Len(r) = 1
      BY <2>1, <3>1, AppendProperties
    <3>3. r = <<item>>
      <4>1. r = Append(<<>>, item)
        BY <2>1, <3>1
      <4>2. Append(<<>>, item) = <<item>>
        OBVIOUS
      <4>3. QED
        BY <4>1, <4>2
    <3>4. QED
      BY <1>1, <1>4, <2>2, <3>2, <3>3
  <2>3. CASE MaxSize = 0
    BY <1>1, <1>4, <2>1, <2>3
  <2>4. QED
    BY <2>2, <2>3
<1>5. QED
  BY <1>1, <1>2, <1>3, <1>4

(* Push, in those terms.                                                    *)
LEMMA PushFacts ==
  ASSUME TypeOK, NEW w \in Writers, NEW item \in Items, Push(w, item)
  PROVE  /\ m_queue' \in Seq(Items)
         /\ Len(m_queue') <= MaxSize
         /\ Len(m_queue') <= Len(m_queue) + 1
         /\ Abstract!Put(item)
<1>1. m_queue \in Seq(Items) /\ Len(m_queue) <= MaxSize
  BY DEF TypeOK
<1>2. m_queue' = IF Len(Cleared) < MaxSize THEN Append(Cleared, item) ELSE Cleared
  BY DEF Push, HasRoom
<1>3. Cleared = IF Len(m_queue) >= MaxSize /\ ClearOnFull THEN <<>> ELSE m_queue
  BY DEF Cleared
<1>4. taken' = taken
  BY DEF Push
<1>5. QED
  BY <1>1, <1>2, <1>3, <1>4, PushedQueue DEF Abstract!Put, Abstract!Full

(* Taking the front item.                                                   *)
LEMMA TakeFacts ==
  ASSUME TypeOK, TakeFront
  PROVE  /\ m_queue' \in Seq(Items)
         /\ Len(m_queue') = Len(m_queue) - 1
         /\ taken' \in Seq(Items)
BY HeadTailProperties, AppendProperties DEF TypeOK, TakeFront

LEMMA InitTypeOK == Init => TypeOK
<1> MaxSize \in Nat /\ MaxPushes \in Nat
  BY QueueAssumption DEF QueueAssumption
<1>1. QED
  BY EmptySeq DEF Init, TypeOK

LEMMA NextTypeOK == TypeOK /\ [Next]_vars => TypeOK'
<1> SUFFICES ASSUME TypeOK, [Next]_vars PROVE TypeOK'
  OBVIOUS
<1>0. MaxSize \in Nat /\ MaxPushes \in Nat /\ Len(m_queue) \in Nat
  BY QueueAssumption, LenProperties DEF QueueAssumption, TypeOK
<1>1. ASSUME NEW w \in Writers, NEW item \in Items, Push(w, item) PROVE TypeOK'
  BY <1>0, <1>1, PushFacts DEF TypeOK, Push
<1>2. ASSUME NEW w \in Writers, Notify(w) PROVE TypeOK'
  BY <1>2 DEF TypeOK, Notify
<1>3. ASSUME NEW r \in Readers, SpuriousWakeup(r) PROVE TypeOK'
  BY <1>3 DEF TypeOK, SpuriousWakeup
<1>4. ASSUME NEW r \in Readers, CallPop(r) PROVE TypeOK'
  BY <1>4 DEF TypeOK, CallPop
<1>5. ASSUME NEW r \in Readers, PopWait(r) PROVE TypeOK'
  BY <1>5 DEF TypeOK, PopWait
<1>6. ASSUME NEW r \in Readers, Pop(r) PROVE TypeOK'
  <2>1. TakeFront
    BY <1>6 DEF Pop
  <2>2. QED
    BY <1>0, <1>6, <2>1, TakeFacts DEF TypeOK, Pop
<1>7. ASSUME NEW p \in Pollers, TryPop(p) PROVE TypeOK'
  <2>1. TakeFront
    BY <1>7 DEF TryPop
  <2>2. QED
    BY <1>0, <1>7, <2>1, TakeFacts DEF TypeOK, TryPop
<1>8. CASE UNCHANGED vars
  BY <1>8 DEF TypeOK, vars
<1>9. QED
  BY <1>1, <1>2, <1>3, <1>4, <1>5, <1>6, <1>7, <1>8 DEF Next

(* Every variable of the queue keeps its type and the queue its bound.      *)
THEOREM QueueTypeOK == Spec => []TypeOK
BY InitTypeOK, NextTypeOK, PTL DEF Spec

(* The sets whose sizes are compared are finite.                            *)
LEMMA Finite ==
  ASSUME TypeOK
  PROVE  /\ IsFiniteSet(notifying) /\ Cardinality(notifying) \in Nat
         /\ IsFiniteSet(Readers \ waiting) /\ Cardinality(Readers \ waiting) \in Nat
<1>1. IsFiniteSet(Writers) /\ IsFiniteSet(Readers)
  BY QueueAssumption DEF QueueAssumption
<1>2. IsFiniteSet(notifying) /\ IsFiniteSet(Readers \ waiting)
  <2>1. notifying \in SUBSET Writers /\ (Readers \ waiting) \in SUBSET Readers
    BY DEF TypeOK
  <2>2. QED
    BY <1>1, <2>1, FS_Subset
<1>3. QED
  BY <1>2, FS_CardinalityType

(* A reader that stops waiting is one more that is awake.                   *)
LEMMA WakeUp ==
  ASSUME TypeOK, NEW r \in waiting, waiting' = waiting \ {r}
  PROVE  Cardinality(Readers \ waiting') = Cardinality(Readers \ waiting) + 1
<1>1. r \in Readers
  BY DEF TypeOK
<1>2. Readers \ waiting' = (Readers \ waiting) \cup {r}
  BY <1>1
<1>3. QED
  BY <1>2, Finite, FS_AddElement

LEMMA NextNoLostWakeup ==
  TypeOK /\ NoLostWakeup /\ [Next]_vars => NoLostWakeup'
<1> SUFFICES ASSUME TypeOK, NoLostWakeup, [Next]_vars PROVE NoLostWakeup'
  OBVIOUS
<1>0. Len(m_queue) \in Nat
  BY LenProperties DEF TypeOK
<1>a. TypeOK'
  BY NextTypeOK
<1>1. ASSUME NEW w \in Writers, NEW item \in Items, Push(w, item) PROVE NoLostWakeup'
  <2>1. Cardinality(notifying') = Cardinality(notifying) + 1
    BY <1>1, Finite, FS_AddElement DEF Push
  <2>2. Len(m_queue') <= Len(m_queue) + 1 /\ Len(m_queue') \in Nat
    BY <1>1, <1>a, PushFacts, LenProperties DEF TypeOK
  <2>3. waiting' = waiting
    BY <1>1 DEF Push
  <2>4. QED
    BY <1>0, <2>1, <2>2, <2>3, Finite DEF NoLostWakeup
<1>2. ASSUME NEW w \in Writers, Notify(w) PROVE NoLostWakeup'
  <2>1. CASE waiting = {} /\ UNCHANGED waiting
    BY <2>1 DEF NoLostWakeup
  <2>2. CASE \E r \in waiting : waiting' = waiting \ {r}
    <3>1. PICK r \in waiting : waiting' = waiting \ {r}
      BY <2>2
    <3>2. Cardinality(Readers \ waiting') = Cardinality(Readers \ waiting) + 1
      BY <3>1, WakeUp
    <3>3. Cardinality(notifying') = Cardinality(notifying) - 1
      BY <1>2, Finite, FS_RemoveElement DEF Notify
    <3>4. m_queue' = m_queue /\ waiting # {}
      BY <1>2, <3>1 DEF Notify
    <3>5. QED
      BY <1>0, <3>2, <3>3, <3>4, Finite DEF NoLostWakeup
  <2>3. QED
    BY <1>2, <2>1, <2>2 DEF Notify
<1>3. ASSUME NEW r \in Readers, SpuriousWakeup(r) PROVE NoLostWakeup'
  <2>1. Cardinality(Readers \ waiting') = Cardinality(Readers \ waiting) + 1
    BY <1>3, WakeUp DEF SpuriousWakeup
  <2>2. m_queue' = m_queue /\ notifying' = notifying /\ waiting # {}
    BY <1>3 DEF SpuriousWakeup
  <2>3. QED
    BY <1>0, <2>1, <2>2, Finite DEF NoLostWakeup
<1>4. ASSUME NEW r \in Readers, CallPop(r) PROVE NoLostWakeup'
  BY <1>4 DEF NoLostWakeup, CallPop
<1>5. ASSUME NEW r \in Readers, PopWait(r) PROVE NoLostWakeup'
  <2>1. Len(m_queue') = 0
    BY <1>5, EmptySeq DEF PopWait
  <2>2. Cardinality(Readers \ waiting') \in Nat /\ Cardinality(notifying') \in Nat
    <3>1. notifying' \in SUBSET Writers /\ (Readers \ waiting') \in SUBSET Readers
      BY <1>a DEF TypeOK
    <3>2. IsFiniteSet(notifying') /\ IsFiniteSet(Readers \ waiting')
      BY <3>1, FS_Subset, QueueAssumption DEF QueueAssumption
    <3>3. QED
      BY <3>2, FS_CardinalityType
  <2>3. QED
    BY <2>1, <2>2 DEF NoLostWakeup
<1>6. ASSUME TakeFront, UNCHANGED <<notifying, waiting>> PROVE NoLostWakeup'
  BY <1>0, <1>6, TakeFacts, Finite DEF NoLostWakeup
<1>7. CASE UNCHANGED vars
  BY <1>7 DEF NoLostWakeup, vars
<1>8. ASSUME NEW r \in Readers, Pop(r) PROVE NoLostWakeup'
  BY <1>6, <1>8 DEF Pop
<1>9. ASSUME NEW p \in Pollers, TryPop(p) PROVE NoLostWakeup'
  BY <1>6, <1>9 DEF TryPop
<1>10. QED
  BY <1>1, <1>2, <1>3, <1>4, <1>5, <1>7, <1>8, <1>9 DEF Next

(* notify_one() after unlock() never loses a wakeup: while a reader is      *)
(* blocked in pop(), each queued item has a thread on the way to it.        *)
THEOREM WakeupsNotLost == Spec => []NoLostWakeup
<1>1. Init => NoLostWakeup
  BY DEF Init, NoLostWakeup
<1>2. QED
  BY <1>1, InitTypeOK, NextTypeOK, NextNoLostWakeup, PTL DEF Spec

(* Every step of the queue is a Put, a Take or nothing to its users.        *)
LEMMA StepImplements ==
  TypeOK /\ [Next]_vars => [Abstract!Next]_<<m_queue, taken>>
<1> SUFFICES ASSUME TypeOK, [Next]_vars
             PROVE  Abstract!Next \/ UNCHANGED <<m_queue, taken>>
  OBVIOUS
<1>1. ASSUME NEW w \in Writers, NEW item \in Items, Push(w, item) PROVE Abstract!Next
  BY <1>1, PushFacts DEF Abstract!Next
<1>2. ASSUME TakeFront PROVE Abstract!Next
  BY <1>2 DEF TakeFront, Abstract!Next, Abstract!Take
<1>3. ASSUME NEW w \in Writers, Notify(w) PROVE UNCHANGED <<m_queue, taken>>
  BY <1>3 DEF Notify
<1>4. ASSUME NEW r \in Readers, SpuriousWakeup(r) \/ CallPop(r) \/ PopWait(r)
      PROVE  UNCHANGED <<m_queue, taken>>
  BY <1>4 DEF SpuriousWakeup, CallPop, PopWait
<1>5. ASSUME NEW r \in Readers, Pop(r) PROVE TakeFront
  BY <1>5 DEF Pop
<1>6. ASSUME NEW p \in Pollers, TryPop(p) PROVE TakeFront
  BY <1>6 DEF TryPop
<1>7. CASE UNCHANGED vars
  BY <1>7 DEF vars
<1>8. QED
  BY <1>1, <1>2, <1>3, <1>4, <1>5, <1>6, <1>7 DEF Next

(* The queue of the code implements the bounded FIFO: push() never blocks   *)
(* and drops or clears only when full, pop() and try_pop() return items in  *)
(* the order they were kept.                                                *)
THEOREM QueueImplements == Spec => ImplementsDropQueue
<1>1. Init => Abstract!Init
  BY DEF Init, Abstract!Init
<1>2. QED
  BY <1>1, InitTypeOK, NextTypeOK, StepImplements, PTL
     DEF Spec, ImplementsDropQueue, Abstract!Spec

=============================================================================
