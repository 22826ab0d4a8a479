------------------------------ MODULE MCTunSend ------------------------------
(***************************************************************************)
(* A coded and an uncoded link for TLC.                                    *)
(***************************************************************************)
EXTENDS TunSend, TLC

CONSTANTS coded, plain

MCLinks == {coded, plain}
MCNumBlocks == (coded :> 3) @@ (plain :> 0)
MCNumFecBlocks == (coded :> 2) @@ (plain :> 0)

=============================================================================
