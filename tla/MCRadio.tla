------------------------------ MODULE MCRadio ------------------------------
(***************************************************************************)
(* An air bridge, a ground repeater whose relay card is set to air, and a  *)
(* bridge as conf/wfb_bridge.conf shows it: mode air and a receiver with   *)
(* mode ground, so that it changes sides with its second configuration.    *)
(* Everybody in reach hears the relay, the air bridge it repeats included. *)
(* The number of the first link of the air bridge wraps.                   *)
(***************************************************************************)
EXTENDS Radio

Card(name, type, m) == [name |-> name, type |-> type, mode |-> m]

MCBridges == {"A", "R", "G"}

MCCards ==
  [b \in MCBridges |->
     CASE b = "A" -> <<Card("a1", "unspecified", "")>>
       [] b = "R" -> <<Card("r1", "relay", "air"), Card("r2", "receiver", "")>>
       [] b = "G" -> <<Card("g1", "receiver", "ground"), Card("g2", "transmitter", "")>>]

MCGlobalMode == [b \in MCBridges |-> IF b = "R" THEN "ground" ELSE "air"]

MCReach ==
  [c \in {"a1", "r1", "r2", "g1", "g2"} |->
     CASE c = "a1" -> {"r2", "g1"}
       [] c = "r1" -> {"a1", "g1"}
       [] c = "r2" -> {"a1", "g1"}
       [] c = "g1" -> {}
       [] c = "g2" -> {"a1", "r2", "g1"}]

MCTraffic ==
  [b \in MCBridges |-> CASE b = "A" -> <<4, 0>> [] b = "R" -> <<0, 0>> [] b = "G" -> <<0, 1>>]

MCLinkTypes == <<"data", "rts">>

=============================================================================
