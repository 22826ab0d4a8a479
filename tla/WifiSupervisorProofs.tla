------------------------ MODULE WifiSupervisorProofs ------------------------
(***************************************************************************)
(* For any cards, configuration, queue size and bounds: the supervisor's   *)
(* variables keep their types, and a thread that main() waits for is never *)
(* left without the flag or without something to pop.                      *)
(***************************************************************************)
EXTENDS WifiSupervisor, FiniteSetTheorems, TLAPS

(* A relay thread always has a queue; without it the message that is to     *)
(* wake it would have nowhere to go.                                        *)
RelayHasQueue == relay # "none" => relay_queue # NoQueue

(* The inductive invariant.                                                 *)
IInv == TypeOK /\ RelayHasQueue /\ JoinSafe

LEMMA QueueSize == MaxQueue \in Nat /\ MaxQueue >= 1
BY SupervisorAssumption DEF SupervisorAssumption

(* A push leaves a queue within its bound and never empty.                  *)
LEMMA PushedFacts ==
  ASSUME NEW n \in 0..MaxQueue
  PROVE  Pushed(n) \in 1..MaxQueue
BY QueueSize DEF Pushed

(* The initial states satisfy the invariant.                                *)
LEMMA InitIInv == Init => IInv
<1> SUFFICES ASSUME Init PROVE IInv
  OBVIOUS
<1> USE DEF Init
<1>1. InitialCards \subseteq Devices
  BY SupervisorAssumption DEF SupervisorAssumption
<1>2. outqueue \in 0..MaxQueue /\ relay_queue \in NoQueue..MaxQueue
  BY QueueSize DEF NoQueue
<1>3. failures \in 0..MaxFailures
  BY SupervisorAssumption DEF SupervisorAssumption
<1>4. TypeOK
  BY <1>1, <1>2, <1>3 DEF TypeOK, MainPCs
<1>5. RelayHasQueue /\ JoinSafe
  BY DEF RelayHasQueue, JoinSafe, Joining
<1>6. QED
  BY <1>4, <1>5 DEF IInv

(* Failing to set up cards stays within its bound.                          *)
LEMMA FailFacts ==
  ASSUME TypeOK, NEW bad, bad \subseteq m_devices, Fail(bad)
  PROVE  failures' \in 0..MaxFailures
<1>1. bad \subseteq Devices
  BY DEF TypeOK
<1>2. Cardinality(bad) \in Nat
  BY <1>1, SupervisorAssumption, FS_Subset, FS_CardinalityType DEF SupervisorAssumption
<1>3. QED
  BY <1>2, SupervisorAssumption DEF Fail, TypeOK, SupervisorAssumption

(* Steps of the environment and of the udev monitor.                        *)
LEMMA MonitorIInv ==
  ASSUME IInv, (\E d \in Devices : CardChange(d)) \/ TunPush \/ Monitor
  PROVE  IInv'
<1> USE DEF IInv, TypeOK, RelayHasQueue, JoinSafe, Joining, MainPCs, NoQueue,
            envVars, monitorVars, queueVars, threadVars, mainVars
<1>1. ASSUME NEW d \in Devices, CardChange(d)
      PROVE  IInv'
  <2>1. IsFiniteSet(Filter)
    <3>1. IsFiniteSet({<<"usb", "wlan">>})
      BY FS_Singleton, Zenon
    <3>2. IsFiniteSet({<<"usb", "wlan">>} \cup {<<"pci", "wlan">>})
      BY <3>1, FS_AddElement, Zenon
    <3>3. Filter = {<<"usb", "wlan">>} \cup {<<"pci", "wlan">>}
      BY Zenon DEF Filter
    <3>4. QED
      BY <3>2, <3>3, Zenon
  <2>2. Cardinality(Passing(d)) \in Nat
    BY <2>1, FS_Intersection, FS_CardinalityType DEF Passing
  <2>3. QED
    BY <1>1, <2>2 DEF CardChange
<1>2. CASE TunPush
  <2>1. outqueue' \in 1..MaxQueue
    BY <1>2, PushedFacts DEF TunPush
  <2>2. outqueue' \in 0..MaxQueue /\ outqueue' > 0
    BY <2>1
  <2>3. QED
    BY <1>2, <2>2 DEF TunPush
<1>3. CASE ScanDevices
  BY <1>3 DEF ScanDevices
<1>4. CASE AddFound
  <2>1. PICK d \in found : m_devices' = m_devices \cup {d} /\ found' = found \ {d}
    BY <1>4, Zenon DEF AddFound
  <2>2. m_devices' \subseteq Devices /\ found' \subseteq Devices
    BY <2>1
  <2>3. QED
    BY <1>4, <2>2 DEF AddFound
<1>5. CASE ScanDone
  <2>1. CASE monitor' = "subscribe" /\ UNCHANGED reset_wifi
    BY <1>5, <2>1 DEF ScanDone
  <2>2. CASE monitor' = "wait" /\ reset_wifi' = TRUE
    BY <1>5, <2>2 DEF ScanDone
  <2>3. QED
    BY <1>5, <2>1, <2>2 DEF ScanDone
<1>6. CASE Subscribe
  BY <1>6 DEF Subscribe
<1>7. QED
  BY <1>1, <1>2, <1>3, <1>4, <1>5, <1>6 DEF Monitor

(* Steps of main().                                                         *)
LEMMA MainIInv ==
  ASSUME IInv, Main
  PROVE  IInv'
<1> USE DEF IInv, TypeOK, RelayHasQueue, JoinSafe, Joining, MainPCs, NoQueue,
            envVars, monitorVars, queueVars, threadVars, mainVars
<1>1. CASE Top
  BY <1>1 DEF Top
<1>2. CASE NoChange
  BY <1>2 DEF NoChange
<1>3. CASE Change
  BY <1>3 DEF Change
<1>4. CASE JoinRecv
  BY <1>4 DEF JoinRecv
<1>5. CASE StopSend
  <2>1. CASE send = "none"
    BY <1>5, <2>1 DEF StopSend
  <2>2. CASE send # "none"
    <3>1. outqueue' \in 1..MaxQueue
      BY <1>5, <2>2, PushedFacts DEF StopSend
    <3>2. QED
      BY <1>5, <3>1 DEF StopSend
  <2>3. QED
    BY <2>1, <2>2
<1>6. CASE JoinSend
  BY <1>6 DEF JoinSend
<1>7. CASE StopRelay
  <2>1. CASE relay = "none"
    BY <1>7, <2>1 DEF StopRelay
  <2>2. CASE relay # "none"
    <3>1. relay_queue \in 0..MaxQueue
      BY <2>2, QueueSize
    <3>2. relay_queue' \in 1..MaxQueue
      BY <1>7, <2>2, <3>1, PushedFacts DEF StopRelay
    <3>3. QED
      BY <1>7, <3>2, QueueSize DEF StopRelay
  <2>3. QED
    BY <2>1, <2>2
<1>8. CASE JoinRelay
  BY <1>8 DEF JoinRelay
<1>9. CASE Adopt
  BY <1>9 DEF Adopt
<1>10. CASE StartSend
  <2>1. PICK bad \in SUBSET Openable(TRUE, FALSE) : Fail(bad)
    BY <1>10, Zenon DEF StartSend
  <2>2. failures' \in 0..MaxFailures
    BY <2>1, FailFacts DEF Openable
  <2>3. QED
    BY <1>10, <2>2 DEF StartSend
<1>11. CASE StartRelay
  <2> DEFINE Started == relay' = "test" /\ relay_queue' = 0
             NotStarted == UNCHANGED <<relay, relay_queue>>
  <2>1. PICK bad \in SUBSET Openable(FALSE, TRUE) : Fail(bad) /\ (Started \/ NotStarted)
    BY <1>11, Zenon DEF StartRelay
  <2>2. failures' \in 0..MaxFailures
    BY <2>1, FailFacts DEF Openable
  <2>3. CASE Started
    <3>1. relay_queue' \in NoQueue..MaxQueue
      BY <2>3, QueueSize
    <3>2. QED
      BY <1>11, <2>2, <2>3, <3>1 DEF StartRelay
  <2>4. CASE NotStarted
    BY <1>11, <2>2, <2>4 DEF StartRelay
  <2>5. QED
    BY <2>1, <2>3, <2>4
<1>12. CASE StartRecv
  <2> DEFINE Started(d) == recv' = "test" /\ receive_device' = d
             NotStarted == UNCHANGED <<recv, receive_device>>
  <2>1. PICK bad \in SUBSET Openable(FALSE, FALSE) :
          /\ Fail(bad)
          /\ (\E d \in Openable(FALSE, FALSE) \ bad : Started(d)) \/ NotStarted
    BY <1>12, Zenon DEF StartRecv
  <2>2. failures' \in 0..MaxFailures
    BY <2>1, FailFacts DEF Openable
  <2>3. ASSUME NEW d \in Openable(FALSE, FALSE), Started(d)
        PROVE  IInv'
    <3>1. d \in Devices
      BY DEF Openable
    <3>2. QED
      BY <1>12, <2>2, <2>3, <3>1 DEF StartRecv
  <2>4. CASE NotStarted
    BY <1>12, <2>2, <2>4 DEF StartRecv
  <2>5. QED
    BY <2>1, <2>3, <2>4
<1>13. QED
  BY <1>1, <1>2, <1>3, <1>4, <1>5, <1>6, <1>7, <1>8, <1>9, <1>10, <1>11, <1>12 DEF Main

(* Steps of the three threads.                                              *)
LEMMA ThreadIInv ==
  ASSUME IInv, RecvThread \/ SendThread \/ RelayThread
  PROVE  IInv'
<1> USE DEF IInv, TypeOK, RelayHasQueue, JoinSafe, Joining, MainPCs, NoQueue,
            envVars, monitorVars, queueVars, threadVars, mainVars
<1>1. CASE RecvTest
  BY <1>1 DEF RecvTest
<1>2. CASE Receive
  <2>1. CASE UNCHANGED relay_queue
    BY <1>2, <2>1 DEF Receive
  <2>2. CASE relay_queue # NoQueue /\ relay_queue' = Pushed(relay_queue)
    <3>1. relay_queue \in 0..MaxQueue
      BY <2>2, QueueSize
    <3>2. relay_queue' \in 1..MaxQueue
      BY <2>2, <3>1, PushedFacts
    <3>3. QED
      BY <1>2, <3>2, QueueSize DEF Receive
  <2>3. QED
    BY <1>2, <2>1, <2>2 DEF Receive
<1>3. CASE ReceiveError
  BY <1>3 DEF ReceiveError
<1>4. CASE SendTest
  BY <1>4 DEF SendTest
<1>5. CASE SendPop
  BY <1>5, QueueSize DEF SendPop
<1>6. CASE RelayTest
  BY <1>6 DEF RelayTest
<1>7. CASE RelayPop
  BY <1>7, QueueSize DEF RelayPop
<1>8. QED
  BY <1>1, <1>2, <1>3, <1>4, <1>5, <1>6, <1>7 DEF RecvThread, SendThread, RelayThread

LEMMA NextIInv == IInv /\ [Next]_vars => IInv'
<1> SUFFICES ASSUME IInv, [Next]_vars PROVE IInv'
  OBVIOUS
<1>1. CASE Next
  BY <1>1, MonitorIInv, MainIInv, ThreadIInv DEF Next
<1>2. CASE UNCHANGED vars
  BY <1>2 DEF IInv, TypeOK, RelayHasQueue, JoinSafe, vars, envVars, monitorVars,
              queueVars, threadVars, mainVars
<1>3. QED
  BY <1>1, <1>2

(* Type correctness of the supervisor, its monitor and its threads.         *)
THEOREM SupervisorTypeOK == Spec => []TypeOK
<1>1. IInv => TypeOK
  BY DEF IInv
<1>2. QED
  BY <1>1, InitIInv, NextIInv, PTL DEF Spec

(* No join in main() can wait for a thread that cannot see the flag, or     *)
(* that sleeps on an empty queue: outqueue->push() may drop the empty       *)
(* message, but only because there is something else to pop.                *)
THEOREM JoinsAreSafe == Spec => []JoinSafe
<1>1. IInv => JoinSafe
  BY DEF IInv
<1>2. QED
  BY <1>1, InitIInv, NextIInv, PTL DEF Spec

=============================================================================
