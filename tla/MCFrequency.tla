---------------------------- MODULE MCFrequency -----------------------------
(***************************************************************************)
(* A small instance of the frequency setting for TLC.                      *)
(***************************************************************************)
EXTENDS Frequency, TLC

CONSTANTS c1, c2

(* Channel 2 is common to both cards.                                       *)
MCDevices == {c1, c2}
MCSupports == (c1 :> {1, 2}) @@ (c2 :> {2, 3})
MCConfFreqs == (c1 :> {1}) @@ (c2 :> {2})

=============================================================================
