------------------------------ MODULE MCStatus ------------------------------
(***************************************************************************)
(* A small instance of the two bridges' counters for TLC.                  *)
(***************************************************************************)
EXTENDS Status

(* The ground receives on two ports, one of which loses, and the air sends. *)
MCIn == [air |-> 0, ground |-> 1]
MCLost == [p \in {0, 1} |-> IF p = 0 THEN 1 ELSE 0]
MCOut == [air |-> 1, ground |-> 0]

=============================================================================
