----------------------------- MODULE Frequency ------------------------------
(***************************************************************************)
(* Which frequency the cards are on and which one the web server reports:  *)
(* HTTPServer (src/http_server.cc) with the frequency functions of         *)
(* src/raw_socket.cc.  main() calls update_frequencies() for each card it  *)
(* configures (configure_device() in src/wfb_bridge.cc); the threads of    *)
(* the web server call set_frequency() for each request.  The mutex        *)
(* protects the list and the frequency reported, not m_device and not the  *)
(* card itself.                                                            *)
(*                                                                         *)
(* A caller is "main" or a web server thread.  The list of a card is found *)
(* by tuning it to every channel, with the mutex held.  Frequencies are    *)
(* the numbers of the channels tried, in order; 0 is none.                 *)
(***************************************************************************)
EXTENDS Integers, FiniteSets

CONSTANTS
  Devices,     \* wifi cards
  Threads,     \* threads of the web server
  NChannels,   \* number of channels tried on a card
  Supports,    \* the channels each card can be tuned to
  ConfFreqs,   \* frequencies the configuration file may give a card
  MaxConfigs   \* bound: times main() configures a card

Channels == 1..NChannels
main == "main"
Callers == Threads \cup {main}
None == "none"

ASSUME FrequencyAssumption ==
  /\ NChannels \in Nat
  /\ Supports \in [Devices -> SUBSET Channels]
  /\ ConfFreqs \in [Devices -> SUBSET Channels]
  /\ MaxConfigs \in Nat
  /\ None \notin Devices \cup Threads
  /\ main \notin Threads

VARIABLES
  tuned,                \* the frequency each card is on
  m_device, m_freqs, m_current_frequency,  \* members of HTTPServer
  holder,               \* who holds m_mutex through a long section, or None
  probing,              \* the channel to be tried next
  pc,                   \* where each caller is
  freq,                 \* the frequency each caller wants set
  alone,                \* ghost: no other call was under way during this one
  finished,             \* ghost: the last list that was finished
  offered,              \* ghost: what every list finished before or during a request has
  configs               \* bound spent

serverVars == <<m_device, m_freqs, m_current_frequency>>
ghostVars == <<alone, finished, offered>>
vars == <<tuned, serverVars, holder, probing, pc, freq, ghostVars, configs>>

Init ==
  /\ tuned = [d \in Devices |-> 0]
  /\ m_device = None
  /\ m_freqs = {}
  /\ m_current_frequency = 0
  /\ holder = None
  /\ probing = 0
  /\ pc = [c \in Callers |-> "idle"]
  /\ freq = [c \in Callers |-> 0]
  /\ alone = [c \in Callers |-> FALSE]
  /\ finished = {}
  /\ offered = [c \in Threads |-> {}]
  /\ configs = 0

Goto(c, where) == pc' = [pc EXCEPT ![c] = where]

(* A call begins; one that is under way is no longer alone.                 *)
Enter(c, f) ==
  LET busy == {b \in Callers : pc[b] # "idle"} IN
  /\ pc[c] = "idle"
  /\ freq' = [freq EXCEPT ![c] = f]
  /\ alone' = [b \in Callers |-> IF b = c THEN busy = {} ELSE alone[b] /\ b \notin busy]
  /\ offered' = [b \in Threads |-> IF b = c THEN finished ELSE offered[b]]
  /\ UNCHANGED finished

(**************************** update_frequencies ***************************)

(* m_device is assigned without the mutex; a request reads the old name or  *)
(* the new one.                                                             *)
UpdateFrequencies(d) ==
  /\ configs < MaxConfigs
  /\ \E f \in ConfFreqs[d] : Enter(main, f)
  /\ configs' = configs + 1
  /\ m_device' = d
  /\ Goto(main, "list")
  /\ UNCHANGED <<tuned, m_freqs, m_current_frequency, holder, probing>>

(* get_wifi_frequency_list() clears the list, ...                           *)
StartList ==
  /\ pc[main] = "list" /\ holder = None
  /\ holder' = main
  /\ m_freqs' = {}
  /\ probing' = 1
  /\ Goto(main, "probe")
  /\ UNCHANGED <<tuned, m_device, m_current_frequency, freq, ghostVars, configs>>

(* ... tries one channel after the other with set_wifi_frequency() and adds *)
(* those the card takes.  It may refuse one it supports, as in Tune: that   *)
(* one is then missing from the list, ...                                   *)
Probe ==
  /\ pc[main] = "probe" /\ probing <= NChannels
  /\ \/ /\ probing \in Supports[m_device]
        /\ tuned' = [tuned EXCEPT ![m_device] = probing]
        /\ m_freqs' = m_freqs \cup {probing}
     \/ UNCHANGED <<tuned, m_freqs>>
  /\ probing' = probing + 1
  /\ UNCHANGED <<m_device, m_current_frequency, holder, pc, freq, ghostVars, configs>>

(* The list is there for the calls to see.                                  *)
Finish ==
  /\ finished' = m_freqs
  /\ offered' = [c \in Threads |-> offered[c] \cap m_freqs]
  /\ UNCHANGED alone

(* Mutant: the mutex is kept.                                               *)
EndListLocked ==
  /\ pc[main] = "probe" /\ probing > NChannels
  /\ Goto(main, "check")
  /\ Finish
  /\ UNCHANGED <<tuned, serverVars, holder, probing, freq, configs>>

(* ... and leaves it on the last one; set_frequency() follows.              *)
EndList ==
  /\ pc[main] = "probe" /\ probing > NChannels
  /\ holder' = None
  /\ Goto(main, "check")
  /\ Finish
  /\ UNCHANGED <<tuned, serverVars, probing, freq, configs>>

(******************************* set_frequency *****************************)

Request(c, f) ==
  /\ Enter(c, f)
  /\ Goto(c, "valid")
  /\ UNCHANGED <<tuned, serverVars, holder, probing, configs>>

(* frequency_valid().                                                       *)
Valid(c) == freq[c] \in m_freqs

(* Mutant: the list is read without the mutex.                              *)
Anytime == TRUE

Unlocked == holder = None

(* The handler answers before it sets the frequency.                        *)
Answer(c) ==
  /\ pc[c] = "valid" /\ Unlocked
  /\ Goto(c, IF Valid(c) THEN "check" ELSE "refused")
  /\ UNCHANGED <<tuned, serverVars, holder, probing, freq, ghostVars, configs>>

Check(c) ==
  /\ pc[c] = "check" /\ Unlocked
  /\ Goto(c, IF Valid(c) THEN "tune" ELSE "failed")
  /\ UNCHANGED <<tuned, serverVars, holder, probing, freq, ghostVars, configs>>

(* Mutant: an error of the card is ignored.                                 *)
TuneUnchecked(c) ==
  /\ pc[c] = "tune"
  /\ \/ freq[c] \in Supports[m_device] /\ tuned' = [tuned EXCEPT ![m_device] = freq[c]]
     \/ UNCHANGED tuned
  /\ Goto(c, "store")
  /\ UNCHANGED <<serverVars, holder, probing, freq, ghostVars, configs>>

(* set_wifi_frequency() on the card that is m_device now, which may refuse, *)
(* for a reason of its own or because the list is another card's.           *)
Tune(c) ==
  /\ pc[c] = "tune"
  /\ \/ /\ freq[c] \in Supports[m_device]
        /\ tuned' = [tuned EXCEPT ![m_device] = freq[c]]
        /\ Goto(c, "store")
     \/ Goto(c, "failed") /\ UNCHANGED tuned
  /\ UNCHANGED <<serverVars, holder, probing, freq, ghostVars, configs>>

Store(c) ==
  /\ pc[c] = "store" /\ Unlocked
  /\ m_current_frequency' = freq[c]
  /\ Goto(c, "set")
  /\ UNCHANGED <<tuned, m_device, m_freqs, holder, probing, freq, ghostVars, configs>>

Return(c) ==
  /\ pc[c] \in {"set", "failed", "refused"}
  /\ Goto(c, "idle")
  /\ freq' = [freq EXCEPT ![c] = 0]
  /\ alone' = [alone EXCEPT ![c] = FALSE]
  /\ offered' = [b \in Threads |-> IF b = c THEN {} ELSE offered[b]]
  /\ UNCHANGED <<tuned, serverVars, holder, probing, finished, configs>>

SetFrequency(c) == Answer(c) \/ Check(c) \/ Tune(c) \/ Store(c) \/ Return(c)

Main == StartList \/ Probe \/ EndList \/ SetFrequency(main)

Next ==
  \/ \E d \in Devices : UpdateFrequencies(d)
  \/ Main
  \/ \E c \in Threads : SetFrequency(c) \/ \E f \in Channels : Request(c, f)

(* main() and the threads of the web server run.                            *)
Fairness ==
  /\ WF_vars(Main)
  /\ \A c \in Threads : WF_vars(SetFrequency(c))

Spec == Init /\ [][Next]_vars /\ Fairness
-----------------------------------------------------------------------------
(* A frequency that the list had when a request came, and has after every   *)
(* rebuilding since, is never answered INVALID: main() clears the list and  *)
(* fills it again channel by channel, while requests come, and none sees it *)
(* cleared or half filled.  (A channel the card refuses while the list is   *)
(* rebuilt is missing from it, and is answered INVALID from then on.)       *)
CommonNeverRefused ==
  \A c \in Threads : pc[c] = "refused" => freq[c] \notin offered[c]

(* A call that set a frequency, and that no other call overlapped, leaves   *)
(* the card in use on the frequency the server reports.                     *)
SettledAgrees ==
  \A c \in Callers :
    pc[c] = "set" /\ alone[c] => tuned[m_device] = freq[c] /\ m_current_frequency = freq[c]

(* A request gets through in the end, however often cards are configured.   *)
RequestsEnd == \A c \in Threads : pc[c] = "valid" ~> pc[c] = "idle"

=============================================================================
