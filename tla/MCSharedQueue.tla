--------------------------- MODULE MCSharedQueue ---------------------------
(***************************************************************************)
(* Small instances of the queue for TLC.                                   *)
(***************************************************************************)
EXTENDS SharedQueue

=============================================================================
