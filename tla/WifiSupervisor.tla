--------------------------- MODULE WifiSupervisor ---------------------------
(***************************************************************************)
(* How wfb_bridge keeps its radio threads on the wifi cards that are       *)
(* plugged in: the loop at the end of main() (src/wfb_bridge.cc), the udev *)
(* monitor thread (src/udev_interface.cc), and the receive, send and relay *)
(* threads, which all watch the one flag reset_wifi.                       *)
(*                                                                         *)
(* A thread is "none" (null pointer), at the test of its loop ("test"), in *)
(* the blocking call of its body ("receive", "pop"), or "exited" and not   *)
(* yet joined.  Of the two queues only the number of items matters: any    *)
(* item, the empty message main() pushes too, makes pop() return.          *)
(***************************************************************************)
EXTENDS Integers, FiniteSets

CONSTANTS
  Devices,      \* wifi cards the udev interface recognises
  Type,         \* their "type" in the configuration file
  EventTags,    \* (subsystem, devtype) of the events a change of a card raises
  MaxQueue,     \* maxqueuesize
  MaxChanges,   \* bound: cards plugged or pulled
  MaxErrors,    \* bound: receive errors of a card that stays
  MaxFailures,  \* bound: cards plugged in that cannot be set up
  InitialCards  \* cards plugged in when the program starts

ASSUME SupervisorAssumption ==
  /\ IsFiniteSet(Devices)
  /\ Type \in [Devices -> {"unspecified", "transmitter", "receiver", "relay", "ignore"}]
  /\ EventTags \in [Devices -> SUBSET (STRING \X STRING)]
  /\ MaxQueue \in Nat \ {0}
  /\ MaxChanges \in Nat
  /\ MaxErrors \in Nat
  /\ MaxFailures \in Nat
  /\ InitialCards \subseteq Devices

VARIABLES
  hw,               \* the cards plugged in
  events,           \* events that passed the filter, not yet received
  monitor,          \* where the monitor thread is
  found,            \* cards of the scan still to be added to m_devices
  m_devices,        \* the list update_devices() builds
  reset_wifi,       \* the flag
  pc,               \* where main() is
  current_devices,  \* the cards main() last configured
  recv, send, relay,        \* the threads
  receive_device,           \* the card recv reads
  outqueue, relay_queue,    \* number of items queued
  changes, errors, failures \* bounds spent

envVars == <<hw, changes>>
monitorVars == <<events, monitor, found, m_devices>>
queueVars == <<outqueue, relay_queue>>
threadVars == <<recv, send, relay, receive_device, errors, failures>>
mainVars == <<pc, current_devices>>
vars == <<envVars, monitorVars, queueVars, threadVars, mainVars, reset_wifi>>

Running(t) == t \notin {"none", "exited"}

(* configure_device() refuses a card whose type does not fit the use.       *)
Suitable(d, transmit, relaying) ==
  ~ \/ Type[d] = "ignore"
    \/ transmit /\ Type[d] \in {"receiver", "relay"}
    \/ ~transmit /\ (Type[d] = "transmitter" \/ (Type[d] = "relay" /\ ~relaying))
    \/ relaying /\ Type[d] # "relay"

(* Mutant: the queue has no bound.                                          *)
PushedUnbounded(n) == n + 1

(* push() into a queue that drops when full.                                *)
Pushed(n) == IF n < MaxQueue THEN n + 1 ELSE n

(* relay_queue before the first relay thread: a null pointer.               *)
NoQueue == -1

Init ==
  /\ hw = InitialCards
  /\ events = 0
  /\ monitor = "scan"
  /\ found = {}
  /\ m_devices = {}
  /\ reset_wifi = FALSE
  /\ pc = "top"
  /\ current_devices = {}
  /\ recv = "none" /\ send = "none" /\ relay = "none"
  /\ receive_device \in Devices
  /\ outqueue = 0 /\ relay_queue = NoQueue
  /\ changes = 0 /\ errors = 0 /\ failures = 0

(****************************** Environment ********************************)

(* What the monitor asks udev for.  The cards update_devices() lists are    *)
(* devices of subsystem "net", whose own events are not among these: a card *)
(* is announced only if its driver raises an event of the device below.     *)
Filter == {<<"usb", "wlan">>, <<"pci", "wlan">>}

(* The events of a change of d that reach the monitor.                      *)
Passing(d) == EventTags[d] \cap Filter

Subscribed == monitor \in {"wait", "updating"}

(* A card is plugged or pulled; udev tells a monitor that asked for it.     *)
CardChange(d) ==
  /\ changes < MaxChanges
  /\ hw' = IF d \in hw THEN hw \ {d} ELSE hw \cup {d}
  /\ events' = IF Subscribed THEN events + Cardinality(Passing(d)) ELSE events
  /\ changes' = changes + 1
  /\ UNCHANGED <<monitor, found, m_devices, queueVars, threadVars, mainVars, reset_wifi>>

(* tun_raw_thread queues a packet.                                          *)
TunPush ==
  /\ outqueue' = Pushed(outqueue)
  /\ UNCHANGED <<envVars, monitorVars, relay_queue, threadVars, mainVars, reset_wifi>>

(****************************** udev monitor *******************************)

(* update_devices() clears the list and then adds the cards one by one, in  *)
(* the sight of main().  The first scan is done before the monitor          *)
(* subscribes to events.                                                    *)
ScanDevices ==
  /\ \/ monitor = "scan" /\ monitor' = "filling" /\ UNCHANGED events
     \/ monitor = "wait" /\ events > 0 /\ monitor' = "updating" /\ events' = events - 1
  /\ m_devices' = {}
  /\ found' = hw
  /\ UNCHANGED <<envVars, queueVars, threadVars, mainVars, reset_wifi>>

AddFound ==
  /\ \E d \in found : m_devices' = m_devices \cup {d} /\ found' = found \ {d}
  /\ UNCHANGED <<envVars, events, monitor, queueVars, threadVars, mainVars, reset_wifi>>

ScanDone ==
  /\ found = {}
  /\ \/ monitor = "filling" /\ monitor' = "subscribe" /\ UNCHANGED reset_wifi
     \/ monitor = "updating" /\ monitor' = "wait" /\ reset_wifi' = TRUE
  /\ UNCHANGED <<envVars, events, found, m_devices, queueVars, threadVars, mainVars>>

(* The monitor starts to receive the events of Filter.                      *)
Subscribe ==
  /\ monitor = "subscribe"
  /\ monitor' = "wait"
  /\ UNCHANGED <<envVars, events, found, m_devices, queueVars, threadVars, mainVars, reset_wifi>>

(********************************* main() **********************************)

Top ==
  /\ pc = "top"
  /\ reset_wifi' = FALSE
  /\ pc' = "check"
  /\ UNCHANGED <<envVars, monitorVars, queueVars, threadVars, current_devices>>

(* Mutant: only new cards are noticed.                                      *)
CardAdded == m_devices \ current_devices # {}

(* The sizes differ, or a card is not among the current ones.  main() reads *)
(* the list without a lock, here and below: it sees what the list is at     *)
(* some moment of its loop over it, possibly half rebuilt.                  *)
ListChanged == m_devices # current_devices

NoChange ==
  /\ pc = "check"
  /\ ~ListChanged
  /\ pc' = "top"
  /\ UNCHANGED <<envVars, monitorVars, queueVars, threadVars, current_devices, reset_wifi>>

(* Mutant: the flag is not set.                                             *)
ChangeWithoutFlag ==
  /\ pc = "check"
  /\ ListChanged
  /\ pc' = "joinRecv"
  /\ UNCHANGED <<envVars, monitorVars, queueVars, threadVars, current_devices, reset_wifi>>

Change ==
  /\ pc = "check"
  /\ ListChanged
  /\ reset_wifi' = TRUE
  /\ pc' = "joinRecv"
  /\ UNCHANGED <<envVars, monitorVars, queueVars, threadVars, current_devices>>

JoinRecv ==
  /\ pc = "joinRecv"
  /\ ~Running(recv)
  /\ recv' = "none"
  /\ pc' = "stopSend"
  /\ UNCHANGED <<envVars, monitorVars, queueVars, send, relay, receive_device, errors, failures,
                 current_devices, reset_wifi>>

(* Mutant: the thread is not woken.                                         *)
StopSendSilently ==
  /\ pc = "stopSend"
  /\ pc' = "joinSend"
  /\ UNCHANGED <<envVars, monitorVars, queueVars, threadVars, current_devices, reset_wifi>>

(* The empty message that gets the thread out of pop().                     *)
StopSend ==
  /\ pc = "stopSend"
  /\ outqueue' = IF send = "none" THEN outqueue ELSE Pushed(outqueue)
  /\ pc' = "joinSend"
  /\ UNCHANGED <<envVars, monitorVars, relay_queue, threadVars, current_devices, reset_wifi>>

JoinSend ==
  /\ pc = "joinSend"
  /\ ~Running(send)
  /\ send' = "none"
  /\ pc' = "stopRelay"
  /\ UNCHANGED <<envVars, monitorVars, queueVars, recv, relay, receive_device, errors, failures,
                 current_devices, reset_wifi>>

StopRelay ==
  /\ pc = "stopRelay"
  /\ relay_queue' = IF relay = "none" THEN relay_queue ELSE Pushed(relay_queue)
  /\ pc' = "joinRelay"
  /\ UNCHANGED <<envVars, monitorVars, outqueue, threadVars, current_devices, reset_wifi>>

(* Mutant: the flag stays set for the next threads.                         *)
JoinRelayKeepingFlag ==
  /\ pc = "joinRelay"
  /\ ~Running(relay)
  /\ relay' = "none"
  /\ pc' = "adopt"
  /\ UNCHANGED <<envVars, monitorVars, queueVars, recv, send, receive_device, errors, failures,
                 current_devices, reset_wifi>>

JoinRelay ==
  /\ pc = "joinRelay"
  /\ ~Running(relay)
  /\ relay' = "none"
  /\ reset_wifi' = FALSE
  /\ pc' = "adopt"
  /\ UNCHANGED <<envVars, monitorVars, queueVars, recv, send, receive_device, errors, failures,
                 current_devices>>

Adopt ==
  /\ pc = "adopt"
  /\ current_devices' = m_devices
  /\ pc' = "startSend"
  /\ UNCHANGED <<envVars, monitorVars, queueVars, threadVars, reset_wifi>>

(* The loops over the list start a thread on the first suitable card that   *)
(* can be configured and opened: not one that is gone, nor one of `bad'.    *)
Openable(transmit, relaying) ==
  {d \in m_devices \cap hw : Suitable(d, transmit, relaying)}

Fail(bad) ==
  /\ failures + Cardinality(bad) <= MaxFailures
  /\ failures' = failures + Cardinality(bad)

StartSend ==
  /\ pc = "startSend"
  /\ \E bad \in SUBSET Openable(TRUE, FALSE) :
       /\ Fail(bad)
       /\ send' = IF Openable(TRUE, FALSE) # bad THEN "test" ELSE "none"
  /\ pc' = "startRelay"
  /\ UNCHANGED <<envVars, monitorVars, queueVars, recv, relay, receive_device, errors,
                 current_devices, reset_wifi>>

StartRelay ==
  /\ pc = "startRelay"
  /\ \E bad \in SUBSET Openable(FALSE, TRUE) :
       /\ Fail(bad)
       /\ \/ /\ Openable(FALSE, TRUE) # bad
             /\ relay' = "test"
             /\ relay_queue' = 0
          \/ /\ Openable(FALSE, TRUE) = bad
             /\ UNCHANGED <<relay, relay_queue>>
  /\ pc' = "startRecv"
  /\ UNCHANGED <<envVars, monitorVars, outqueue, recv, send, receive_device, errors,
                 current_devices, reset_wifi>>

StartRecv ==
  /\ pc = "startRecv"
  /\ \E bad \in SUBSET Openable(FALSE, FALSE) :
       /\ Fail(bad)
       /\ \/ \E d \in Openable(FALSE, FALSE) \ bad : recv' = "test" /\ receive_device' = d
          \/ Openable(FALSE, FALSE) = bad /\ UNCHANGED <<recv, receive_device>>
  /\ pc' = "top"
  /\ UNCHANGED <<envVars, monitorVars, queueVars, send, relay, errors, current_devices,
                 reset_wifi>>

(******************************** Threads **********************************)

RecvTest ==
  /\ recv = "test"
  /\ recv' = IF reset_wifi THEN "exited" ELSE "receive"
  /\ UNCHANGED <<envVars, monitorVars, queueVars, send, relay, receive_device, errors, failures,
                 mainVars, reset_wifi>>

(* receive() returns true with a packet, which is also handed to the relay  *)
(* queue if one was ever made, or without one at its timeout.               *)
Receive ==
  /\ recv = "receive"
  /\ receive_device \in hw
  /\ recv' = "test"
  /\ \/ UNCHANGED relay_queue
     \/ relay_queue # NoQueue /\ relay_queue' = Pushed(relay_queue)
  /\ UNCHANGED <<envVars, monitorVars, outqueue, send, relay, receive_device, errors, failures,
                 mainVars, reset_wifi>>

(* receive() fails: the card is gone, or an error of a card still there.    *)
ReceiveError ==
  /\ recv = "receive"
  /\ receive_device \notin hw \/ errors < MaxErrors
  /\ errors' = IF receive_device \in hw THEN errors + 1 ELSE errors
  /\ reset_wifi' = TRUE
  /\ recv' = "test"
  /\ UNCHANGED <<envVars, monitorVars, queueVars, send, relay, receive_device, failures,
                 mainVars>>

SendTest ==
  /\ send = "test"
  /\ send' = IF reset_wifi THEN "exited" ELSE "pop"
  /\ UNCHANGED <<envVars, monitorVars, queueVars, recv, relay, receive_device, errors, failures,
                 mainVars, reset_wifi>>

SendPop ==
  /\ send = "pop"
  /\ outqueue > 0
  /\ outqueue' = outqueue - 1
  /\ send' = "test"
  /\ UNCHANGED <<envVars, monitorVars, relay_queue, recv, relay, receive_device, errors, failures,
                 mainVars, reset_wifi>>

RelayTest ==
  /\ relay = "test"
  /\ relay' = IF reset_wifi THEN "exited" ELSE "pop"
  /\ UNCHANGED <<envVars, monitorVars, queueVars, recv, send, receive_device, errors, failures,
                 mainVars, reset_wifi>>

RelayPop ==
  /\ relay = "pop"
  /\ relay_queue > 0
  /\ relay_queue' = relay_queue - 1
  /\ relay' = "test"
  /\ UNCHANGED <<envVars, monitorVars, outqueue, recv, send, receive_device, errors, failures,
                 mainVars, reset_wifi>>

Monitor == ScanDevices \/ AddFound \/ ScanDone \/ Subscribe

Main ==
  \/ Top \/ NoChange \/ Change
  \/ JoinRecv \/ StopSend \/ JoinSend \/ StopRelay \/ JoinRelay
  \/ Adopt \/ StartSend \/ StartRelay \/ StartRecv

RecvThread == RecvTest \/ Receive \/ ReceiveError
SendThread == SendTest \/ SendPop
RelayThread == RelayTest \/ RelayPop

Next ==
  \/ \E d \in Devices : CardChange(d)
  \/ TunPush
  \/ Monitor \/ Main \/ RecvThread \/ SendThread \/ RelayThread

(* Every thread of the program is scheduled; packets and cards come as they *)
(* like, and receive() always returns at its timeout.                       *)
Fairness ==
  /\ WF_vars(Monitor)
  /\ WF_vars(Main)
  /\ WF_vars(RecvThread)
  /\ WF_vars(SendThread)
  /\ WF_vars(RelayThread)

Spec == Init /\ [][Next]_vars /\ Fairness
-----------------------------------------------------------------------------
Joining == {"joinRecv", "stopSend", "joinSend", "stopRelay", "joinRelay"}

MainPCs == Joining \cup {"top", "check", "adopt", "startSend", "startRelay", "startRecv"}

TypeOK ==
  /\ hw \subseteq Devices
  /\ events \in Nat
  /\ monitor \in {"scan", "filling", "subscribe", "wait", "updating"}
  /\ found \subseteq Devices
  /\ m_devices \subseteq Devices
  /\ reset_wifi \in BOOLEAN
  /\ pc \in MainPCs
  /\ current_devices \subseteq Devices
  /\ recv \in {"none", "test", "receive", "exited"}
  /\ send \in {"none", "test", "pop", "exited"}
  /\ relay \in {"none", "test", "pop", "exited"}
  /\ receive_device \in Devices
  /\ outqueue \in 0..MaxQueue
  /\ relay_queue \in NoQueue..MaxQueue
  /\ changes \in Nat
  /\ errors \in Nat
  /\ failures \in 0..MaxFailures

(* A thread that main() is joining finds the flag set and, if it is blocked *)
(* in pop(), something to pop, even when the message main() pushed was      *)
(* dropped by a full queue and whatever udev and the receive thread did to  *)
(* the flag meanwhile.                                                      *)
JoinSafe ==
  /\ pc \in Joining => reset_wifi
  /\ pc = "joinSend" /\ send = "pop" => outqueue > 0
  /\ pc = "joinRelay" /\ relay = "pop" => relay_queue > 0

(* Stopping the threads always comes to an end.                             *)
StopCompletes == pc = "joinRecv" ~> pc = "adopt"

(* The cards of whose changes the monitor is told.                          *)
Announced == {d \in Devices : Passing(d) # {}}

(* The list main() works from catches up with the list udev keeps, and no   *)
(* announced card plugged or pulled after the monitor subscribed goes       *)
(* unnoticed: when the cards come to rest, the list has the announced cards *)
(* that are there and no other announced card.  A change between the first  *)
(* scan and the subscription, and any change of a card whose events do not  *)
(* pass the filter, is noticed only with the next event of another card.    *)
CardsNoticed ==
  /\ <>[](current_devices = m_devices)
  /\ [](~Subscribed => changes = 0)
       => <>[](m_devices \cap Announced = hw \cap Announced)

RxPresent == \E d \in hw : Suitable(d, FALSE, FALSE)
TxPresent == \E d \in hw : Suitable(d, TRUE, FALSE)

Untroubled == changes = 0 /\ errors = 0 /\ failures = 0

(* With the cards in place from the start and no error, the threads come up *)
(* and stay up, however the first scan and the first look at it interleave. *)
StartsUp ==
  []Untroubled => <>[]((RxPresent => Running(recv)) /\ (TxPresent => Running(send)))
-----------------------------------------------------------------------------
(* What the comments say, where the code does otherwise.                    *)

(* "Keep trying to connect/reconnect to the devices": while a card to       *)
(* receive on is plugged in, a receive thread is running sooner or later.   *)
Reconnects == []<>(RxPresent => Running(recv))

=============================================================================
