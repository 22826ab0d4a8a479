------------------------------ MODULE DropQueue ------------------------------
(***************************************************************************)
(* What a SharedQueue promises its users: a bounded FIFO that never blocks *)
(* the writer.  An item put into a full queue is dropped, or pushes out    *)
(* everything before it when the queue is set to clear.                    *)
(***************************************************************************)
EXTENDS Naturals, Sequences

CONSTANTS Items, MaxSize, ClearOnFull

VARIABLES
  queue,   \* the items waiting
  taken    \* the items handed out, in order

Full == Len(queue) >= MaxSize

Put(item) ==
  /\ queue' = IF ~Full THEN Append(queue, item)
              ELSE IF ClearOnFull /\ MaxSize > 0 THEN <<item>>
              ELSE IF ClearOnFull THEN <<>>
              ELSE queue
  /\ UNCHANGED taken

Take ==
  /\ queue # <<>>
  /\ taken' = Append(taken, Head(queue))
  /\ queue' = Tail(queue)

Init == queue = <<>> /\ taken = <<>>

Next == (\E item \in Items : Put(item)) \/ Take

Spec == Init /\ [][Next]_<<queue, taken>>

=============================================================================
