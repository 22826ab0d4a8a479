----------------------------- MODULE SharedQueue -----------------------------
(***************************************************************************)
(* SharedQueue of include/shared_queue.hh: a deque behind a mutex and a    *)
(* condition variable.  Every stretch of code that holds the mutex is one  *)
(* step; push() notifies only after it has released it, so that other      *)
(* threads run between the two.  A waiting thread may also wake for no     *)
(* reason, as condition variables allow.                                   *)
(*                                                                         *)
(* Writers call push() over and over, readers pop(), pollers try_pop().    *)
(***************************************************************************)
EXTENDS Integers, Sequences, FiniteSets

CONSTANTS
  Writers, Readers, Pollers,   \* the threads
  Items,                       \* what is pushed
  MaxSize,                     \* m_max_size
  ClearOnFull,                 \* m_clear_on_full
  MaxPushes                    \* bound: calls of push()

ASSUME QueueAssumption ==
  /\ IsFiniteSet(Writers) /\ IsFiniteSet(Readers)
  /\ Writers \cap Readers = {}
  /\ MaxSize \in Nat
  /\ ClearOnFull \in BOOLEAN
  /\ MaxPushes \in Nat

VARIABLES
  m_queue,     \* the items
  notifying,   \* writers between unlock() and notify_one()
  waiting,     \* readers blocked in m_cond.wait()
  popping,     \* readers inside pop() and not blocked
  pushes,      \* calls of push() so far
  taken        \* history: the items returned, in order

vars == <<m_queue, notifying, waiting, popping, pushes, taken>>

Init ==
  /\ m_queue = <<>>
  /\ notifying = {}
  /\ waiting = {}
  /\ popping = {}
  /\ pushes = 0
  /\ taken = <<>>

(* A full queue is emptied for the new item if it was made so.              *)
Cleared == IF Len(m_queue) >= MaxSize /\ ClearOnFull THEN <<>> ELSE m_queue

(* Mutant: one item too many.                                               *)
HasRoomForOneMore(q) == Len(q) <= MaxSize
HasRoom(q) == Len(q) < MaxSize

(* Mutant: notifies only when the queue was empty.                          *)
PushNotifyingFirst(w, item) ==
  /\ w \notin notifying
  /\ pushes < MaxPushes
  /\ m_queue' = IF HasRoom(Cleared) THEN Append(Cleared, item) ELSE Cleared
  /\ notifying' = IF m_queue = <<>> THEN notifying \cup {w} ELSE notifying
  /\ pushes' = pushes + 1
  /\ UNCHANGED <<waiting, popping, taken>>

(* push() up to unlock().                                                   *)
Push(w, item) ==
  /\ w \notin notifying
  /\ pushes < MaxPushes
  /\ m_queue' = IF HasRoom(Cleared) THEN Append(Cleared, item) ELSE Cleared
  /\ notifying' = notifying \cup {w}
  /\ pushes' = pushes + 1
  /\ UNCHANGED <<waiting, popping, taken>>

(* Mutant: nobody is woken.                                                 *)
NotifyNobody(w) ==
  /\ w \in notifying
  /\ notifying' = notifying \ {w}
  /\ UNCHANGED <<m_queue, waiting, popping, pushes, taken>>

(* notify_one(): one of the waiting threads, if there is one.               *)
Notify(w) ==
  /\ w \in notifying
  /\ notifying' = notifying \ {w}
  /\ \/ /\ waiting = {}
        /\ UNCHANGED <<waiting, popping>>
     \/ \E r \in waiting :
          /\ waiting' = waiting \ {r}
          /\ popping' = popping \cup {r}
  /\ UNCHANGED <<m_queue, pushes, taken>>

SpuriousWakeup(r) ==
  /\ r \in waiting
  /\ waiting' = waiting \ {r}
  /\ popping' = popping \cup {r}
  /\ UNCHANGED <<m_queue, notifying, pushes, taken>>

CallPop(r) ==
  /\ r \notin popping
  /\ r \notin waiting
  /\ popping' = popping \cup {r}
  /\ UNCHANGED <<m_queue, notifying, waiting, pushes, taken>>

(* The loop of pop() finds the queue empty.                                 *)
PopWait(r) ==
  /\ r \in popping
  /\ m_queue = <<>>
  /\ popping' = popping \ {r}
  /\ waiting' = waiting \cup {r}
  /\ UNCHANGED <<m_queue, notifying, pushes, taken>>

(* Mutant: takes from the wrong end.                                        *)
TakeBack ==
  /\ m_queue # <<>>
  /\ taken' = Append(taken, m_queue[Len(m_queue)])
  /\ m_queue' = SubSeq(m_queue, 1, Len(m_queue) - 1)

TakeFront ==
  /\ m_queue # <<>>
  /\ taken' = Append(taken, Head(m_queue))
  /\ m_queue' = Tail(m_queue)

Pop(r) ==
  /\ r \in popping
  /\ TakeFront
  /\ popping' = popping \ {r}
  /\ UNCHANGED <<notifying, waiting, pushes>>

(* try_pop() on an empty queue only returns false.                          *)
TryPop(p) ==
  /\ TakeFront
  /\ UNCHANGED <<notifying, waiting, popping, pushes>>

Next ==
  \/ \E w \in Writers : (\E item \in Items : Push(w, item)) \/ Notify(w)
  \/ \E r \in Readers : SpuriousWakeup(r) \/ CallPop(r) \/ PopWait(r) \/ Pop(r)
  \/ \E p \in Pollers : TryPop(p)

(* A writer that has pushed goes on to notify; a reader that is not blocked *)
(* goes through pop() and comes back for more.                              *)
Fairness ==
  /\ \A w \in Writers : WF_vars(Notify(w))
  /\ \A r \in Readers : WF_vars(CallPop(r)) /\ WF_vars(PopWait(r) \/ Pop(r))

Spec == Init /\ [][Next]_vars /\ Fairness
-----------------------------------------------------------------------------
TypeOK ==
  /\ m_queue \in Seq(Items) /\ Len(m_queue) <= MaxSize
  /\ notifying \subseteq Writers
  /\ waiting \subseteq Readers
  /\ popping \subseteq Readers \ waiting
  /\ pushes \in 0..MaxPushes
  /\ taken \in Seq(Items)

(* No wakeup is lost: while some reader is blocked, every item in the queue *)
(* has a thread of its own on the way to it, a reader that is not blocked   *)
(* or a writer about to notify.  push() notifies after unlock(), with any   *)
(* number of readers, pollers and spurious wakeups between.                 *)
NoLostWakeup ==
  waiting # {} =>
    Len(m_queue) <= Cardinality(Readers \ waiting) + Cardinality(notifying)

(* The queue is a bounded FIFO that drops at its tail, or clears.           *)
Abstract == INSTANCE DropQueue WITH queue <- m_queue

ImplementsDropQueue == Abstract!Spec

(* Once writers pause, readers take everything that was pushed and kept.    *)
EventuallyDrained == []<>(m_queue = <<>>)

=============================================================================
