----------------------------- MODULE MCFECLink -----------------------------
(***************************************************************************)
(* Small instances of the link for TLC.                                    *)
(***************************************************************************)
EXTENDS FECLink

=============================================================================
