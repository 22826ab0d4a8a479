--------------------------- MODULE FrequencyProofs ---------------------------
(***************************************************************************)
(* For any cards, channels and number of threads of the web server: no     *)
(* request is refused because it saw a list cleared or half filled, and a  *)
(* call that nothing overlapped leaves the card in use on the frequency    *)
(* reported.                                                               *)
(***************************************************************************)
EXTENDS Frequency, TLAPS

Places == {"idle", "list", "probe", "valid", "check", "tune", "store", "set", "failed", "refused"}

FreqTypeOK ==
  /\ tuned \in [Devices -> Nat]
  /\ m_device \in Devices \cup {None}
  /\ m_freqs \subseteq Channels
  /\ probing \in 0..(NChannels + 1)
  /\ pc \in [Callers -> Places]
  /\ freq \in [Callers -> Nat]
  /\ alone \in [Callers -> BOOLEAN]
  /\ finished \subseteq Channels
  /\ offered \in [Threads -> SUBSET Channels]

(* The mutex is held exactly while main() tries the channels.               *)
MutexHeld ==
  /\ holder \in {None, main}
  /\ holder = main <=> pc[main] = "probe"

(* Whoever holds the mutex finds the list as it was last finished, and a    *)
(* request was offered nothing that is not in it.                           *)
ListComplete ==
  /\ holder = None => m_freqs = finished
  /\ \A c \in Threads : offered[c] \subseteq finished

(* There is a card as soon as there is a list, or a call that found its     *)
(* frequency in one.                                                        *)
CardKnown ==
  /\ m_freqs # {} \/ pc[main] \in {"list", "probe"} => m_device \in Devices
  /\ \A c \in Callers : pc[c] \in {"tune", "store", "set"} => m_device \in Devices

(* No other call is under way as long as a call is alone, and it finds the  *)
(* card as it tuned it.                                                     *)
AloneAgrees ==
  \A c \in Callers : alone[c] =>
    /\ pc[c] # "idle"
    /\ \A b \in Callers : b # c => pc[b] = "idle"
    /\ pc[c] \in {"store", "set"} => tuned[m_device] = freq[c]
    /\ pc[c] = "set" => m_current_frequency = freq[c]

(* The inductive invariant.                                                 *)
IInv ==
  /\ FreqTypeOK
  /\ MutexHeld
  /\ ListComplete
  /\ CardKnown
  /\ AloneAgrees
  /\ CommonNeverRefused

(* What the constants are.                                                  *)
LEMMA Facts ==
  /\ main \in Callers /\ Threads \subseteq Callers
  /\ main # None
  /\ NChannels \in Nat
  /\ Supports \in [Devices -> SUBSET Channels]
  /\ ConfFreqs \in [Devices -> SUBSET Channels]
  /\ None \notin Devices
  /\ main \notin Threads
BY FrequencyAssumption DEF FrequencyAssumption, Callers, main, None

(* The initial states satisfy the invariant.                                *)
LEMMA InitIInv == Init => IInv
<1> SUFFICES ASSUME Init PROVE IInv
  OBVIOUS
<1> USE Facts DEF Init
<1>1. FreqTypeOK
  BY DEF FreqTypeOK, Places
<1>2. MutexHeld
  BY DEF MutexHeld
<1>3. ListComplete /\ CardKnown
  BY DEF ListComplete, CardKnown
<1>4. AloneAgrees /\ CommonNeverRefused
  BY DEF AloneAgrees, CommonNeverRefused
<1>5. QED
  BY <1>1, <1>2, <1>3, <1>4 DEF IInv

(* A call that begins leaves the types, and takes from every other call     *)
(* that is under way the claim to be alone.                                 *)
LEMMA EnterFacts ==
  ASSUME IInv, NEW c \in Callers, NEW f \in Nat, Enter(c, f)
  PROVE  /\ pc[c] = "idle"
         /\ freq' \in [Callers -> Nat] /\ freq'[c] = f
         /\ \A b \in Callers : b # c => freq'[b] = freq[b]
         /\ finished' = finished
         /\ offered' \in [Threads -> SUBSET Channels]
         /\ \A b \in Threads : offered'[b] = IF b = c THEN finished ELSE offered[b]
         /\ alone' \in [Callers -> BOOLEAN]
         /\ \A b \in Callers : b # c => ~alone'[b]
         /\ alone'[c] => \A b \in Callers : pc[b] = "idle"
<1>1. /\ pc[c] = "idle"
      /\ freq' \in [Callers -> Nat] /\ freq'[c] = f
      /\ \A b \in Callers : b # c => freq'[b] = freq[b]
      /\ finished' = finished
      /\ offered' \in [Threads -> SUBSET Channels]
      /\ \A b \in Threads : offered'[b] = IF b = c THEN finished ELSE offered[b]
  BY DEF Enter, IInv, FreqTypeOK
<1>2. alone' \in [Callers -> BOOLEAN]
  BY DEF Enter, IInv, FreqTypeOK
<1>3. \A b \in Callers : b # c => ~alone'[b]
  BY DEF Enter, IInv, AloneAgrees
<1>4. alone'[c] => \A b \in Callers : pc[b] = "idle"
  BY DEF Enter
<1>5. QED
  BY <1>1, <1>2, <1>3, <1>4

(* main() configures a card, or a request arrives.                          *)
LEMMA BeginIInv ==
  ASSUME IInv,
         \/ \E d \in Devices : UpdateFrequencies(d)
         \/ \E c \in Threads : \E f \in Channels : Request(c, f)
  PROVE  IInv'
<1>1. ASSUME NEW d \in Devices, UpdateFrequencies(d)
      PROVE  IInv'
  <2>1. PICK f \in ConfFreqs[d] : Enter(main, f)
    BY <1>1 DEF UpdateFrequencies
  <2>2. f \in Nat
    BY Facts DEF Channels
  <2> USE Facts, <1>1, <2>1, <2>2, EnterFacts DEF UpdateFrequencies, Goto, IInv
  <2>3. FreqTypeOK'
    BY DEF FreqTypeOK, Places
  <2>4. MutexHeld'
    BY DEF MutexHeld, FreqTypeOK
  <2>5. ListComplete'
    BY DEF ListComplete, FreqTypeOK
  <2>6. CardKnown'
    BY DEF CardKnown, FreqTypeOK
  <2>7. AloneAgrees'
    BY DEF AloneAgrees, FreqTypeOK
  <2>8. CommonNeverRefused'
    BY DEF CommonNeverRefused, FreqTypeOK
  <2>9. QED
    BY <2>3, <2>4, <2>5, <2>6, <2>7, <2>8
<1>2. ASSUME NEW c \in Threads, NEW f \in Channels, Request(c, f)
      PROVE  IInv'
  <2>1. c \in Callers /\ c # main /\ f \in Nat
    BY Facts DEF Channels
  <2> USE Facts, <1>2, <2>1, EnterFacts DEF Request, Goto, serverVars, IInv
  <2>3. FreqTypeOK'
    BY DEF FreqTypeOK, Places
  <2>4. MutexHeld'
    BY DEF MutexHeld, FreqTypeOK
  <2>5. ListComplete'
    BY DEF ListComplete, FreqTypeOK
  <2>6. CardKnown'
    BY DEF CardKnown, FreqTypeOK
  <2>7. AloneAgrees'
    BY DEF AloneAgrees, FreqTypeOK
  <2>8. CommonNeverRefused'
    BY DEF CommonNeverRefused, FreqTypeOK
  <2>9. QED
    BY <2>3, <2>4, <2>5, <2>6, <2>7, <2>8
<1>3. QED
  BY <1>1, <1>2

(* main() makes the list of a card.                                         *)
LEMMA ListIInv ==
  ASSUME IInv, StartList \/ Probe \/ EndList
  PROVE  IInv'
<1>1. CASE StartList
  <2> USE Facts, <1>1 DEF StartList, Goto, serverVars, ghostVars, IInv
  <2>1. FreqTypeOK'
    BY DEF FreqTypeOK, Places
  <2>2. MutexHeld'
    BY DEF MutexHeld, FreqTypeOK
  <2>3. ListComplete'
    BY DEF ListComplete, FreqTypeOK
  <2>4. CardKnown'
    BY DEF CardKnown, FreqTypeOK
  <2>5. AloneAgrees'
    BY DEF AloneAgrees, FreqTypeOK
  <2>6. CommonNeverRefused'
    BY DEF CommonNeverRefused, FreqTypeOK
  <2>7. QED
    BY <2>1, <2>2, <2>3, <2>4, <2>5, <2>6
<1>2. CASE Probe
  <2> USE Facts, <1>2 DEF Probe, Goto, serverVars, ghostVars, IInv
  <2>1. FreqTypeOK'
    <3>1. Supports[m_device] \in SUBSET (1..NChannels)
      BY DEF CardKnown, Channels
    <3>2. probing \in 0..NChannels /\ probing' = probing + 1
      BY DEF FreqTypeOK
    <3>3. m_freqs' \subseteq Channels
      <4>1. m_freqs \subseteq Channels
        BY DEF FreqTypeOK
      <4>2. probing \in Supports[m_device] => probing \in Channels
        BY <3>1 DEF Channels
      <4>3. QED
        BY <4>1, <4>2
    <3>4. tuned' \in [Devices -> Nat]
      BY <3>2 DEF FreqTypeOK
    <3>5. probing' \in 0..(NChannels + 1)
      BY <3>2
    <3>6. QED
      BY <3>3, <3>4, <3>5 DEF FreqTypeOK
  <2>2. MutexHeld'
    BY DEF MutexHeld, FreqTypeOK
  <2>3. ListComplete'
    BY DEF ListComplete, MutexHeld
  <2>4. CardKnown'
    BY DEF CardKnown, FreqTypeOK
  <2>5. AloneAgrees'
    BY DEF AloneAgrees, FreqTypeOK
  <2>6. CommonNeverRefused'
    BY DEF CommonNeverRefused, FreqTypeOK
  <2>7. QED
    BY <2>1, <2>2, <2>3, <2>4, <2>5, <2>6
<1>3. CASE EndList
  <2> USE Facts, <1>3 DEF EndList, Finish, Goto, serverVars, ghostVars, IInv
  <2>1. FreqTypeOK'
    BY DEF FreqTypeOK, Places
  <2>2. MutexHeld'
    BY DEF MutexHeld, FreqTypeOK
  <2>3. ListComplete'
    BY DEF ListComplete, FreqTypeOK, Finish
  <2>4. CardKnown'
    BY DEF CardKnown, FreqTypeOK
  <2>5. AloneAgrees'
    BY DEF AloneAgrees, FreqTypeOK
  <2>6. CommonNeverRefused'
    BY DEF CommonNeverRefused, FreqTypeOK
  <2>7. QED
    BY <2>1, <2>2, <2>3, <2>4, <2>5, <2>6
<1>4. QED
  BY <1>1, <1>2, <1>3

(* A call of set_frequency() goes on.                                       *)
LEMMA SetFrequencyIInv ==
  ASSUME IInv, NEW c \in Callers, SetFrequency(c)
  PROVE  IInv'
<1>1. CASE Answer(c)
  <2> USE Facts, <1>1 DEF Answer, Valid, Unlocked, Goto, serverVars, ghostVars, IInv
  <2>1. FreqTypeOK'
    BY DEF FreqTypeOK, Places
  <2>2. MutexHeld'
    BY DEF MutexHeld, FreqTypeOK
  <2>3. ListComplete'
    BY DEF ListComplete, FreqTypeOK
  <2>4. CardKnown'
    BY DEF CardKnown, FreqTypeOK
  <2>5. AloneAgrees'
    BY DEF AloneAgrees, FreqTypeOK
  <2>6. CommonNeverRefused'
    BY DEF CommonNeverRefused, FreqTypeOK, ListComplete
  <2>7. QED
    BY <2>1, <2>2, <2>3, <2>4, <2>5, <2>6
<1>2. CASE Check(c)
  <2> USE Facts, <1>2 DEF Check, Valid, Unlocked, Goto, serverVars, ghostVars, IInv
  <2>1. FreqTypeOK'
    BY DEF FreqTypeOK, Places
  <2>2. MutexHeld'
    BY DEF MutexHeld, FreqTypeOK
  <2>3. ListComplete'
    BY DEF ListComplete, FreqTypeOK
  <2>4. CardKnown'
    BY DEF CardKnown, FreqTypeOK
  <2>5. AloneAgrees'
    BY DEF AloneAgrees, FreqTypeOK
  <2>6. CommonNeverRefused'
    BY DEF CommonNeverRefused, FreqTypeOK
  <2>7. QED
    BY <2>1, <2>2, <2>3, <2>4, <2>5, <2>6
<1>3. CASE Tune(c)
  <2> USE Facts, <1>3 DEF Tune, Valid, Unlocked, Goto, serverVars, ghostVars, IInv
  <2>1. FreqTypeOK'
    BY DEF FreqTypeOK, Places
  <2>2. MutexHeld'
    BY DEF MutexHeld, FreqTypeOK
  <2>3. ListComplete'
    BY DEF ListComplete, FreqTypeOK
  <2>4. CardKnown'
    BY DEF CardKnown, FreqTypeOK
  <2>5. AloneAgrees'
    BY DEF AloneAgrees, FreqTypeOK, CardKnown
  <2>6. CommonNeverRefused'
    BY DEF CommonNeverRefused, FreqTypeOK
  <2>7. QED
    BY <2>1, <2>2, <2>3, <2>4, <2>5, <2>6
<1>4. CASE Store(c)
  <2> USE Facts, <1>4 DEF Store, Valid, Unlocked, Goto, serverVars, ghostVars, IInv
  <2>1. FreqTypeOK'
    BY DEF FreqTypeOK, Places
  <2>2. MutexHeld'
    BY DEF MutexHeld, FreqTypeOK
  <2>3. ListComplete'
    BY DEF ListComplete, FreqTypeOK
  <2>4. CardKnown'
    BY DEF CardKnown, FreqTypeOK
  <2>5. AloneAgrees'
    BY DEF AloneAgrees, FreqTypeOK
  <2>6. CommonNeverRefused'
    BY DEF CommonNeverRefused, FreqTypeOK
  <2>7. QED
    BY <2>1, <2>2, <2>3, <2>4, <2>5, <2>6
<1>5. CASE Return(c)
  <2> USE Facts, <1>5 DEF Return, Valid, Unlocked, Goto, serverVars, ghostVars, IInv
  <2>1. FreqTypeOK'
    BY DEF FreqTypeOK, Places
  <2>2. MutexHeld'
    BY DEF MutexHeld, FreqTypeOK
  <2>3. ListComplete'
    BY DEF ListComplete, FreqTypeOK
  <2>4. CardKnown'
    BY DEF CardKnown, FreqTypeOK
  <2>5. AloneAgrees'
    BY DEF AloneAgrees, FreqTypeOK
  <2>6. CommonNeverRefused'
    BY DEF CommonNeverRefused, FreqTypeOK
  <2>7. QED
    BY <2>1, <2>2, <2>3, <2>4, <2>5, <2>6
<1>6. QED
  BY <1>1, <1>2, <1>3, <1>4, <1>5 DEF SetFrequency

(* Every behaviour keeps the invariant.                                     *)
LEMMA InductiveIInv == Spec => []IInv
<1>1. IInv /\ UNCHANGED vars => IInv'
  BY DEF IInv, FreqTypeOK, MutexHeld, ListComplete, CardKnown, AloneAgrees,
         CommonNeverRefused, vars, serverVars, ghostVars
<1>2. IInv /\ [Next]_vars => IInv'
  BY <1>1, Facts, BeginIInv, ListIInv, SetFrequencyIInv DEF Next, Main
<1>3. QED
  BY InitIInv, <1>2, PTL DEF Spec

(* For any cards and channels, any number of threads and any failure of a   *)
(* card: main() may rebuild the list whenever it likes, a request for a     *)
(* frequency that every list it could see has is not answered INVALID.      *)
THEOREM CommonAccepted == Spec => []CommonNeverRefused
BY InductiveIInv, PTL DEF IInv

(* For any cards and channels and any number of threads: when a call that   *)
(* no other overlapped has set a frequency, the card in use is on it and    *)
(* the server reports it.                                                   *)
THEOREM ReportedIsTuned == Spec => []SettledAgrees
<1>1. IInv => SettledAgrees
  BY DEF IInv, AloneAgrees, SettledAgrees
<1>2. QED
  BY <1>1, InductiveIInv, PTL

=============================================================================
