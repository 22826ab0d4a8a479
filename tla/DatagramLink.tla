----------------------------- MODULE DatagramLink -----------------------------
(***************************************************************************)
(* What one link of the bridge promises its users: the messages handed to  *)
(* it are numbered in the order they are handed over, and what is released *)
(* at the other end is a message handed over before and later than all     *)
(* released so far: any may be missing, none is released twice, early or   *)
(* out of order.  A block that is no message at all may be released too,   *)
(* which the decoder does when it mixes groups.                            *)
(***************************************************************************)
EXTENDS Naturals, Sequences

VARIABLES
  handed,  \* number of messages handed to the link
  out      \* what was released, in order: message numbers, or Garbage

Garbage == 0

Init == handed = 0 /\ out = <<>>

Hand == handed' = handed + 1 /\ UNCHANGED out

ReleaseMessage ==
  /\ \E m \in 1..handed :
       /\ \A i \in 1..Len(out) : out[i] < m
       /\ out' = Append(out, m)
  /\ UNCHANGED handed

ReleaseGarbage ==
  /\ out' = Append(out, Garbage)
  /\ UNCHANGED handed

Next == Hand \/ ReleaseMessage \/ ReleaseGarbage

Spec == Init /\ [][Next]_<<handed, out>>

=============================================================================
