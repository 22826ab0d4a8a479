-------------------------- MODULE MCWifiSupervisor --------------------------
(***************************************************************************)
(* Small instances of the supervisor for TLC.                              *)
(***************************************************************************)
EXTENDS WifiSupervisor, TLC

CONSTANTS both, rel

(* One card for sending and receiving, one for relaying.                    *)
MCDevices == {both, rel}
MCType == (both :> "unspecified") @@ (rel :> "relay")

(* A driver that raises events of the usb device with devtype "wlan", which *)
(* pass the filter, and one with the events of a network device only.       *)
MCEventTags == (both :> {<<"net", "wlan">>, <<"usb", "wlan">>}) @@ (rel :> {<<"net", "wlan">>})

=============================================================================
