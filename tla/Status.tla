------------------------------- MODULE Status -------------------------------
(***************************************************************************)
(* The counters of the two bridges and how each side learns the other's:   *)
(* TransferStats (src/transfer_stats.cc), the accounting at the end of     *)
(* fec_decode_thread and the UDP loops (src/udp_send.cc,                   *)
(* src/udp_receive.cc), and log_thread (src/log_thread.cc), whose loop     *)
(* drains the status messages received, reads both sets of counters, sends *)
(* a status message when one is due and posts a log when one is due.       *)
(*                                                                         *)
(* Of the counters, four stand for all: sequences, bytes and               *)
(* sequence_errors are kept like blocks_in and block_errors.  Averages     *)
(* (rssi, times, latency) are left out.  Status messages cross a network   *)
(* that delays, loses and, with a relay, repeats them.                     *)
(***************************************************************************)
EXTENDS Integers, Sequences, FiniteSets

CONSTANTS
  Ports,      \* radio ports with a decoder
  InQueue,    \* size of log_in (1000 in the program)
  OutQueue,   \* size of log_out (1000 in the program)
  MaxIn,      \* bound: blocks each side receives on a port
  MaxLost,    \* bound: blocks found missing before one, by port
  MaxOut,     \* bound: blocks each side sends
  MaxRepeats  \* bound: status messages a relay repeats

ASSUME StatusAssumption ==
  /\ IsFiniteSet(Ports) /\ Ports \subseteq Nat
  /\ InQueue \in Nat \ {0}
  /\ OutQueue \in Nat \ {0}
  /\ MaxIn \in [{"air", "ground"} -> Nat]
  /\ MaxLost \in [Ports -> Nat]
  /\ MaxOut \in [{"air", "ground"} -> Nat]
  /\ MaxRepeats \in Nat

Sides == {"air", "ground"}
Other(s) == IF s = "air" THEN "ground" ELSE "air"

Counters == [blocks_in : Nat, block_errors : Nat, blocks_out : Nat, inject_errors : Nat]
Zero == [blocks_in |-> 0, block_errors |-> 0, blocks_out |-> 0, inject_errors |-> 0]
AtMost(a, b) == \A f \in DOMAIN a : a[f] <= b[f]

(* A status message: the name of the side it is about, and its counters.    *)
Status == [name : Sides, counts : Counters]

(* FECDecoderStats, as much of it as is added up here.                      *)
DecoderStats == [total_packets : Nat, dropped_packets : Nat]
NoPort == -1

VARIABLES
  dec, prev,        \* decoders' counters and prev_dec_stats, per side and port
  decoding,         \* the port fec_decode_thread is about to account for
  stats,            \* trans_stats, per side
  other,            \* trans_stats_other: name and counters
  log_in, log_out,  \* queues of status messages
  late,             \* a status message a relay has still to repeat, if any
  repeats,          \* number of messages repeated or still to be
  pc,               \* where log_thread is
  snap,             \* s.blocks_in, a local of one round of its loop
  last,             \* ps.blocks_in
  posted            \* ghost: what was there at the start and all intervals logged

decodeVars == <<dec, prev, decoding>>
relayVars == <<late, repeats>>
queueVars == <<log_in, log_out, relayVars>>
logVars == <<other, pc, snap, last, posted>>
vars == <<decodeVars, stats, queueVars, logVars>>

NotRead == 0

Init ==
  /\ dec = [s \in Sides |-> [p \in Ports |-> [total_packets |-> 0, dropped_packets |-> 0]]]
  /\ prev = dec
  /\ decoding = [s \in Sides |-> NoPort]
  /\ stats = [s \in Sides |-> Zero]
  /\ other = [s \in Sides |-> [name |-> Other(s), counts |-> Zero]]
  /\ log_in = [s \in Sides |-> <<>>]
  /\ log_out = [s \in Sides |-> <<>>]
  /\ late = <<>>
  /\ repeats = 0
  /\ pc = [s \in Sides |-> "start"]
  /\ snap = [s \in Sides |-> NotRead]
  /\ last = [s \in Sides |-> 0]
  /\ posted = [s \in Sides |-> 0]

(* Mutant: the queues have no bound.                                        *)
PushedUnbounded(q, m, size) == Append(q, m)

(* push() into a queue that drops when full.                                *)
Pushed(q, m, size) == IF Len(q) < size THEN Append(q, m) ELSE q

(***************************** Decode and send *****************************)

(* add_block() counts a packet and the packets it finds missing before it.  *)
Decode(s, p) ==
  /\ decoding[s] = NoPort
  /\ dec[s][p].total_packets < MaxIn[s]
  /\ \E lost \in 0..MaxLost[p] :
       dec' = [dec EXCEPT ![s][p].total_packets = @ + 1, ![s][p].dropped_packets = @ + lost]
  /\ decoding' = [decoding EXCEPT ![s] = p]
  /\ UNCHANGED <<prev, stats, queueVars, logVars>>

(* TransferStats::add(): what the decoder counted since the last time.      *)
Added(c, cur, old) ==
  [c EXCEPT !.blocks_in = @ + cur.total_packets - old.total_packets,
            !.block_errors = @ + cur.dropped_packets - old.dropped_packets]

(* Mutant: one prev_dec_stats for all ports.                                *)
AccountShared(s) ==
  /\ decoding[s] # NoPort
  /\ LET p == decoding[s] IN
       /\ stats' = [stats EXCEPT ![s] = Added(@, dec[s][p], prev[s][p])]
       /\ prev' = [prev EXCEPT ![s] = [q \in Ports |-> dec[s][p]]]
  /\ decoding' = [decoding EXCEPT ![s] = NoPort]
  /\ UNCHANGED <<dec, queueVars, logVars>>

Account(s) ==
  /\ decoding[s] # NoPort
  /\ LET p == decoding[s] IN
       /\ stats' = [stats EXCEPT ![s] = Added(@, dec[s][p], prev[s][p])]
       /\ prev' = [prev EXCEPT ![s][p] = dec[s][p]]
  /\ decoding' = [decoding EXCEPT ![s] = NoPort]
  /\ UNCHANGED <<dec, queueVars, logVars>>

(* raw_send_thread counts a block it tried to inject.                       *)
AddSendBlock(s) ==
  /\ stats[s].blocks_out < MaxOut[s]
  /\ \E error \in 0..1 :
       stats' = [stats EXCEPT ![s].blocks_out = @ + 1, ![s].inject_errors = @ + error]
  /\ UNCHANGED <<decodeVars, queueVars, logVars>>

(******************************** Network **********************************)

(* log_to_host: both sides send their status to the ground's address.       *)
LogToHost(s) == "ground"

(* udp_send_loop sends the next message, and udp_recv_loop of the host it   *)
(* is sent to receives it, or it is lost on the way.                        *)
Sent(s) ==
  /\ log_out[s] # <<>>
  /\ log_out' = [log_out EXCEPT ![s] = Tail(@)]
  /\ UNCHANGED <<decodeVars, stats, logVars>>

Received(s, m) == log_in' = [log_in EXCEPT ![s] = Pushed(@, m, InQueue)]

(* What the air sends crosses the radio, where a relay may hear it too.     *)
RelayHears(s, m) ==
  \/ UNCHANGED relayVars
  \/ /\ s = "air"
     /\ late = <<>>
     /\ repeats < MaxRepeats
     /\ late' = <<m>>
     /\ repeats' = repeats + 1

Deliver(s) ==
  /\ Sent(s)
  /\ Received(LogToHost(s), Head(log_out[s]))
  /\ RelayHears(s, Head(log_out[s]))

Lose(s) ==
  /\ Sent(s)
  /\ RelayHears(s, Head(log_out[s]))
  /\ UNCHANGED log_in

(* The relay sends its copy: the decoder keeps no record of what it already *)
(* released, so that the message is received once more, however late.       *)
Repeat ==
  /\ late # <<>>
  /\ Received(LogToHost("air"), Head(late))
  /\ late' = <<>>
  /\ UNCHANGED <<decodeVars, stats, log_out, repeats, logVars>>

(******************************** log_thread *******************************)

(* Mutant: any message is taken for the other side's.                       *)
HeardAny(s, m) == m

(* Mutant: the names are compared the wrong way round.                      *)
HeardOwn(s, m) == IF m.name = s THEN m ELSE other[s]

(* A message that is not about this side replaces what is known of the      *)
(* other; one's own status comes back when this side is log_to_host.        *)
(* update() reads back what serialize() wrote, so it never fails here.      *)
Heard(s, m) == IF m.name # s THEN m ELSE other[s]

StartLog(s) ==
  /\ pc[s] = "start"
  /\ last' = [last EXCEPT ![s] = stats[s].blocks_in]
  /\ posted' = [posted EXCEPT ![s] = stats[s].blocks_in]
  /\ pc' = [pc EXCEPT ![s] = "drain"]
  /\ UNCHANGED <<decodeVars, stats, queueVars, other, snap>>

(* Mutant: the newest message is taken first.                               *)
DrainNewest(s) ==
  /\ pc[s] = "drain"
  /\ log_in[s] # <<>>
  /\ other' = [other EXCEPT ![s] = Heard(s, log_in[s][Len(log_in[s])])]
  /\ log_in' = [log_in EXCEPT ![s] = SubSeq(@, 1, Len(@) - 1)]
  /\ UNCHANGED <<decodeVars, stats, log_out, relayVars, pc, snap, last, posted>>

Drain(s) ==
  /\ pc[s] = "drain"
  /\ log_in[s] # <<>>
  /\ other' = [other EXCEPT ![s] = Heard(s, Head(log_in[s]))]
  /\ log_in' = [log_in EXCEPT ![s] = Tail(@)]
  /\ UNCHANGED <<decodeVars, stats, log_out, relayVars, pc, snap, last, posted>>

GetStats(s) ==
  /\ pc[s] = "drain"
  /\ log_in[s] = <<>>
  /\ snap' = [snap EXCEPT ![s] = stats[s].blocks_in]
  /\ pc' = [pc EXCEPT ![s] = "status"]
  /\ UNCHANGED <<decodeVars, stats, queueVars, other, last, posted>>

(* serialize() reads the counters anew.  The packed message for the display *)
(* is made of snap and other and leaves the program here.                   *)
SendStatus(s) ==
  /\ pc[s] = "status"
  /\ log_out' = [log_out EXCEPT ![s] = Pushed(@, [name |-> s, counts |-> stats[s]], OutQueue)]
  /\ pc' = [pc EXCEPT ![s] = "log"]
  /\ UNCHANGED <<decodeVars, stats, log_in, relayVars, other, snap, last, posted>>

SkipStatus(s) ==
  /\ pc[s] = "status"
  /\ pc' = [pc EXCEPT ![s] = "log"]
  /\ UNCHANGED <<decodeVars, stats, queueVars, other, snap, last, posted>>

EndRound(s) ==
  /\ pc' = [pc EXCEPT ![s] = "drain"]
  /\ snap' = [snap EXCEPT ![s] = NotRead]

(* Mutant: the counters are read again to be remembered.                    *)
Remembered(s) == stats[s].blocks_in

(* What ps becomes.                                                         *)
Logged(s) == snap[s]

(* The interval since the last log.  blocks_in stands for the counters of   *)
(* the table, which are logged likewise of s and ps and of os and pso.      *)
(* ip_port_blocks is not among them: it is compared with ps when ps is s    *)
(* already, so the list of active ports that ends a log is always empty.    *)
PostLog(s) ==
  /\ pc[s] = "log"
  /\ posted' = [posted EXCEPT ![s] = @ + snap[s] - last[s]]
  /\ last' = [last EXCEPT ![s] = Logged(s)]
  /\ EndRound(s)
  /\ UNCHANGED <<decodeVars, stats, queueVars, other>>

SkipLog(s) ==
  /\ pc[s] = "log"
  /\ EndRound(s)
  /\ UNCHANGED <<decodeVars, stats, queueVars, other, last, posted>>

LogThread(s) ==
  \/ StartLog(s) \/ Drain(s) \/ GetStats(s)
  \/ SendStatus(s) \/ SkipStatus(s) \/ PostLog(s) \/ SkipLog(s)

Next ==
  \/ \E s \in Sides :
       \/ \E p \in Ports : Decode(s, p)
       \/ Account(s) \/ AddSendBlock(s) \/ Deliver(s) \/ Lose(s) \/ LogThread(s)
  \/ Repeat

(* Both log threads are scheduled, the air's status becomes due again and   *)
(* again, and one that is sent again and again is received in the end.  No  *)
(* other thread need be.                                                    *)
Fairness ==
  /\ \A s \in Sides : WF_vars(LogThread(s))
  /\ SF_vars(SendStatus("air"))
  /\ SF_vars(Deliver("air"))

Spec == Init /\ [][Next]_vars /\ Fairness
-----------------------------------------------------------------------------
TypeOK ==
  /\ dec \in [Sides -> [Ports -> DecoderStats]]
  /\ prev \in [Sides -> [Ports -> DecoderStats]]
  /\ decoding \in [Sides -> Ports \cup {NoPort}]
  /\ stats \in [Sides -> Counters]
  /\ other \in [Sides -> Status]
  /\ log_in \in [Sides -> Seq(Status)] /\ \A s \in Sides : Len(log_in[s]) <= InQueue
  /\ log_out \in [Sides -> Seq(Status)] /\ \A s \in Sides : Len(log_out[s]) <= OutQueue
  /\ late \in Seq(Status) /\ Len(late) <= 1
  /\ repeats \in 0..MaxRepeats
  /\ pc \in [Sides -> {"start", "drain", "status", "log"}]
  /\ \A v \in {snap, last, posted} : v \in [Sides -> Nat]

(* What the decoders of a side counted in field f: the k-th of port p.      *)
CountedBy(s, f) == UNION {{p} \X (1..dec[s][p][f]) : p \in Ports}
Total(s, f) == Cardinality(CountedBy(s, f))

(* Whatever the ports the packets come on, every packet and every loss a    *)
(* decoder counted is in the totals once, except what the decode thread     *)
(* has in its hands.                                                        *)
TotalsAdd ==
  \A s \in Sides :
    LET InHand(f) == IF decoding[s] = NoPort THEN 0
                     ELSE dec[s][decoding[s]][f] - prev[s][decoding[s]][f]
    IN /\ stats[s].blocks_in + InHand("total_packets") = Total(s, "total_packets")
       /\ stats[s].block_errors + InHand("dropped_packets") = Total(s, "dropped_packets")

(* What a side takes for the other side's counters, and every status        *)
(* message on its way, was counted by the side it names: never one's own    *)
(* status that came back, never more than was counted, and never errors     *)
(* without blocks.                                                          *)
NothingInvented ==
  LET Counted(m) == AtMost(m.counts, stats[m.name]) /\ m.counts.inject_errors <= m.counts.blocks_out
  IN \A s \in Sides :
       /\ other[s].name = Other(s)
       /\ Counted(other[s])
       /\ \A q \in {log_in, log_out} : \A i \in DOMAIN q[s] : Counted(q[s][i])
       /\ \A i \in DOMAIN late : Counted(late[i])
       /\ snap[s] <= stats[s].blocks_in

(* As long as no relay repeats a message, what a side knows of the other    *)
(* never goes back, whatever is lost on the way: serialize() and the queues *)
(* keep the order, and the unsigned differences log_thread makes of it      *)
(* cannot wrap.                                                             *)
KnownGrows ==
  [][\A s \in Sides : repeats = 0 => AtMost(other[s].counts, other'[s].counts)]_vars

QueueHolds(s) == <>[](Len(log_in[s]) < InQueue)

(* The logs leave nothing out and report nothing twice: however the decode  *)
(* thread counts between the reading of the counters and the writing of the *)
(* log, the intervals a side logged never exceed what it counted, and as    *)
(* long as logs are posted they add up to all of it again once the counting *)
(* rests (as it does here, where MaxIn bounds it).                          *)
LogCatchesUp ==
  /\ [](\A s \in Sides : posted[s] <= stats[s].blocks_in)
  /\ (\A s \in Sides : []<><<PostLog(s)>>_vars)
       => []<>(\A s \in Sides : posted[s] = stats[s].blocks_in)

(* The ground comes to know what the air counted, however many status       *)
(* messages are lost on the way and repeated late, unless its queue of      *)
(* received messages overflows for ever.                                    *)
GroundLearns == QueueHolds("ground") => []<>(other["ground"].counts = stats["air"])
=============================================================================
