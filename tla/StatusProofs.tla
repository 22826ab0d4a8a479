---------------------------- MODULE StatusProofs ----------------------------
(***************************************************************************)
(* For any ports, queue sizes and bounds: what a side takes for the        *)
(* other's counters, and every status message on its way, was counted by   *)
(* the side it names; what is known of the other side never goes back      *)
(* while no relay repeats a message; and every packet a decoder counted is *)
(* in the totals once.                                                     *)
(***************************************************************************)
EXTENDS Status, SequenceTheorems, FiniteSetTheorems, TLAPS

(* prev_dec_stats differs from the decoder's counters only for the port the *)
(* decode thread has in its hands, and is behind there: the difference      *)
(* add() makes is never negative.                                           *)
Accounted ==
  \A s \in Sides, p \in Ports :
    IF p = decoding[s]
    THEN /\ prev[s][p].total_packets <= dec[s][p].total_packets
         /\ prev[s][p].dropped_packets <= dec[s][p].dropped_packets
    ELSE prev[s][p] = dec[s][p]

(* A side counts no error without a block.                                  *)
ErrorsBounded == \A s \in Sides : stats[s].inject_errors <= stats[s].blocks_out

(* Nobody sends to the air, and a side sends only its own counters.         *)
OwnStatus ==
  /\ log_in["air"] = <<>>
  /\ \A s \in Sides : \A i \in DOMAIN log_out[s] : log_out[s][i].name = s

(* No status of the air in q is older than the counters c.                  *)
Ahead(c, q) == \A i \in DOMAIN q : q[i].name = "air" => AtMost(c, q[i].counts)

Ascending(q) ==
  \A i, j \in DOMAIN q :
    i < j /\ q[i].name = "air" /\ q[j].name = "air" => AtMost(q[i].counts, q[j].counts)

(* Until a relay takes one, the air's status messages are in order from     *)
(* what the ground knows, through its queue, to the queue of the air.       *)
InOrder ==
  repeats = 0 =>
    /\ late = <<>>
    /\ Ahead(other["ground"].counts, log_in["ground"])
    /\ Ahead(other["ground"].counts, log_out["air"])
    /\ \A i \in DOMAIN log_in["ground"] :
         log_in["ground"][i].name = "air" => Ahead(log_in["ground"][i].counts, log_out["air"])
    /\ Ascending(log_in["ground"])
    /\ Ascending(log_out["air"])

(* The ghost and the counters remembered agree, so that neither becomes     *)
(* negative.                                                                *)
PostedIsLast == posted = last

(* The inductive invariant.                                                 *)
IInv ==
  /\ TypeOK
  /\ Accounted
  /\ ErrorsBounded
  /\ OwnStatus
  /\ InOrder
  /\ NothingInvented
  /\ PostedIsLast

(* One status message says nothing that was not counted.                    *)
Genuine(m) ==
  /\ AtMost(m.counts, stats[m.name])
  /\ m.counts.inject_errors <= m.counts.blocks_out

(* NothingInvented, one conjunct for each place a status can be in.         *)
LEMMA NothingInventedParts ==
  NothingInvented <=>
    \A s \in Sides :
      /\ other[s].name = Other(s)
      /\ Genuine(other[s])
      /\ \A i \in DOMAIN log_in[s] : Genuine(log_in[s][i])
      /\ \A i \in DOMAIN log_out[s] : Genuine(log_out[s][i])
      /\ \A i \in DOMAIN late : Genuine(late[i])
      /\ snap[s] <= stats[s].blocks_in
BY DEF NothingInvented, Genuine

(* There are two sides, and status goes to the ground.                      *)
LEMMA SideFacts ==
  /\ "air" \in Sides /\ "ground" \in Sides
  /\ \A s \in Sides : Other(s) \in Sides /\ Other(s) # s
  /\ \A s, t \in Sides : t # s => t = Other(s)
  /\ \A s \in Sides : LogToHost(s) = "ground"
BY DEF Sides, Other, LogToHost

(* The bounds are numbers.                                                  *)
LEMMA BoundFacts ==
  /\ InQueue \in Nat /\ OutQueue \in Nat /\ MaxRepeats \in Nat
  /\ NoPort \notin Ports
BY StatusAssumption DEF StatusAssumption, NoPort

(* The order of counters, field by field.                                   *)
LEMMA AtMostFields ==
  ASSUME NEW a \in Counters, NEW b \in Counters
  PROVE  AtMost(a, b) <=> /\ a.blocks_in <= b.blocks_in
                          /\ a.block_errors <= b.block_errors
                          /\ a.blocks_out <= b.blocks_out
                          /\ a.inject_errors <= b.inject_errors
<1>1. DOMAIN a = {"blocks_in", "block_errors", "blocks_out", "inject_errors"}
  BY DEF Counters
<1>2. QED
  BY <1>1 DEF AtMost

(* The order of counters is one:                                            *)
LEMMA AtMostReflexive ==
  ASSUME NEW a \in Counters
  PROVE  AtMost(a, a)
BY AtMostFields DEF Counters

(* reflexive and transitive.                                                *)
LEMMA AtMostTransitive ==
  ASSUME NEW a \in Counters, NEW b \in Counters, NEW c \in Counters,
         AtMost(a, b), AtMost(b, c)
  PROVE  AtMost(a, c)
<1>1. /\ a.blocks_in <= b.blocks_in /\ b.blocks_in <= c.blocks_in
      /\ a.block_errors <= b.block_errors /\ b.block_errors <= c.block_errors
      /\ a.blocks_out <= b.blocks_out /\ b.blocks_out <= c.blocks_out
      /\ a.inject_errors <= b.inject_errors /\ b.inject_errors <= c.inject_errors
  BY AtMostFields
<1>2. /\ a.blocks_in <= c.blocks_in /\ a.block_errors <= c.block_errors
      /\ a.blocks_out <= c.blocks_out /\ a.inject_errors <= c.inject_errors
  BY <1>1 DEF Counters
<1>3. QED
  BY <1>2, AtMostFields

(* What a queue holds after a push: what it held, and at most the message   *)
(* at the end.                                                              *)
LEMMA PushedFacts ==
  ASSUME NEW q \in Seq(Status), NEW m \in Status, NEW size \in Nat, Len(q) <= size
  PROVE  /\ Pushed(q, m, size) \in Seq(Status)
         /\ Len(Pushed(q, m, size)) <= size
         /\ \A i \in DOMAIN Pushed(q, m, size) :
              \/ i \in DOMAIN q /\ Pushed(q, m, size)[i] = q[i]
              \/ i = Len(q) + 1 /\ Pushed(q, m, size)[i] = m
<1>1. CASE Len(q) < size
  <2> DEFINE r == Append(q, m)
  <2>1. /\ r \in Seq(Status) /\ Len(r) = Len(q) + 1
        /\ \A i \in 1..Len(q) : r[i] = q[i]
        /\ r[Len(q) + 1] = m
        /\ DOMAIN r = 1..Len(r) /\ DOMAIN q = 1..Len(q) /\ Len(q) \in Nat
    BY AppendProperties, LenProperties
  <2>2. Pushed(q, m, size) = r
    BY <1>1 DEF Pushed
  <2> HIDE DEF r
  <2>3. QED
    BY <1>1, <2>1, <2>2
<1>2. CASE ~(Len(q) < size)
  BY <1>2 DEF Pushed
<1>3. QED
  BY <1>1, <1>2

(* The first message of a queue and what remains.                           *)
LEMMA TailFacts ==
  ASSUME NEW q \in Seq(Status), q # <<>>
  PROVE  /\ Head(q) \in Status /\ 1 \in DOMAIN q /\ Head(q) = q[1]
         /\ Tail(q) \in Seq(Status) /\ Len(Tail(q)) = Len(q) - 1
         /\ \A i \in DOMAIN Tail(q) :
              i \in Nat /\ i >= 1 /\ i + 1 \in DOMAIN q /\ Tail(q)[i] = q[i + 1]
<1>1. /\ Head(q) \in Status /\ Tail(q) \in Seq(Status) /\ Len(Tail(q)) = Len(q) - 1
      /\ \A i \in 1..Len(Tail(q)) : Tail(q)[i] = q[i + 1]
  BY HeadTailProperties
<1>2. DOMAIN q = 1..Len(q) /\ DOMAIN Tail(q) = 1..Len(Tail(q)) /\ Len(q) \in Nat
  BY <1>1, LenProperties
<1>3. Len(q) # 0
  BY EmptySeq
<1>4. 1 \in DOMAIN q /\ Head(q) = q[1]
  BY <1>2, <1>3
<1>5. QED
  BY <1>1, <1>2, <1>3, <1>4

(* Taking messages from the front keeps the order.                          *)
LEMMA TailInOrder ==
  ASSUME NEW q \in Seq(Status), q # <<>>
  PROVE  /\ \A c : Ahead(c, q) => Ahead(c, Tail(q))
         /\ Ascending(q) => Ascending(Tail(q))
         /\ Ascending(q) /\ Head(q).name = "air" => Ahead(Head(q).counts, Tail(q))
<1>1. \A c : Ahead(c, q) => Ahead(c, Tail(q))
  BY TailFacts DEF Ahead
<1>2. ASSUME Ascending(q)
      PROVE  Ascending(Tail(q))
  <2> SUFFICES ASSUME NEW i \in DOMAIN Tail(q), NEW j \in DOMAIN Tail(q), i < j,
                      Tail(q)[i].name = "air", Tail(q)[j].name = "air"
               PROVE  AtMost(Tail(q)[i].counts, Tail(q)[j].counts)
    BY DEF Ascending
  <2>1. /\ i + 1 \in DOMAIN q /\ Tail(q)[i] = q[i + 1]
        /\ j + 1 \in DOMAIN q /\ Tail(q)[j] = q[j + 1]
        /\ i + 1 < j + 1
    BY TailFacts
  <2>2. QED
    BY <1>2, <2>1 DEF Ascending
<1>3. Ascending(q) /\ Head(q).name = "air" => Ahead(Head(q).counts, Tail(q))
  BY TailFacts DEF Ascending, Ahead
<1>4. QED
  BY <1>1, <1>2, <1>3

(* So does adding one that is behind none of the air's already there.       *)
LEMMA PushInOrder ==
  ASSUME NEW q \in Seq(Status), NEW m \in Status, NEW size \in Nat, Len(q) <= size
  PROVE  /\ \A c : Ahead(c, q) /\ (m.name = "air" => AtMost(c, m.counts)) => Ahead(c, Pushed(q, m, size))
         /\ Ascending(q) /\ (m.name = "air" =>
              \A i \in DOMAIN q : q[i].name = "air" => AtMost(q[i].counts, m.counts))
            => Ascending(Pushed(q, m, size))
<1> DEFINE r == Pushed(q, m, size)
<1>1. \A i \in DOMAIN r : \/ i \in DOMAIN q /\ r[i] = q[i]
                          \/ i = Len(q) + 1 /\ r[i] = m
  BY PushedFacts
<1>2. DOMAIN q = 1..Len(q) /\ Len(q) \in Nat
  BY LenProperties
<1> HIDE DEF r
<1>3. \A c : Ahead(c, q) /\ (m.name = "air" => AtMost(c, m.counts)) => Ahead(c, r)
  BY <1>1 DEF Ahead
<1>4. ASSUME Ascending(q),
             m.name = "air" => \A i \in DOMAIN q : q[i].name = "air" => AtMost(q[i].counts, m.counts)
      PROVE  Ascending(r)
  <2> SUFFICES ASSUME NEW i \in DOMAIN r, NEW j \in DOMAIN r, i < j,
                      r[i].name = "air", r[j].name = "air"
               PROVE  AtMost(r[i].counts, r[j].counts)
    BY DEF Ascending
  <2>1. i \in DOMAIN q /\ r[i] = q[i]
    BY <1>1, <1>2
  <2>2. QED
    BY <1>1, <1>4, <2>1 DEF Ascending
<1>5. QED
  BY <1>3, <1>4 DEF r

(* The initial states satisfy the invariant.                                *)
LEMMA InitIInv == Init => IInv
<1> SUFFICES ASSUME Init PROVE IInv
  OBVIOUS
<1> USE SideFacts, BoundFacts
<1>1. Zero \in Counters /\ \A s \in Sides : [name |-> Other(s), counts |-> Zero] \in Status
  BY DEF Zero, Counters, Status
<1>2. TypeOK
  BY <1>1 DEF Init, TypeOK, DecoderStats, NotRead
<1>3. Accounted /\ ErrorsBounded
  BY DEF Init, Accounted, ErrorsBounded, Zero
<1>4. OwnStatus
  BY DEF Init, OwnStatus
<1>5. InOrder
  BY DEF Init, InOrder, Ahead, Ascending
<1>6. NothingInvented
  <2>1. AtMost(Zero, Zero) /\ Zero.inject_errors <= Zero.blocks_out /\ Zero.blocks_in = 0
    BY <1>1, AtMostReflexive DEF Zero
  <2>2. \A s \in Sides : Genuine(other[s]) /\ other[s].name = Other(s) /\ snap[s] <= stats[s].blocks_in
    BY <2>1 DEF Init, Genuine, NotRead
  <2>3. QED
    BY <2>2, NothingInventedParts DEF Init
<1>7. PostedIsLast
  BY DEF Init, PostedIsLast
<1>8. QED
  BY <1>2, <1>3, <1>4, <1>5, <1>6, <1>7 DEF IInv

(* Counters only grow, so that what was genuine stays so.                   *)
Grows ==
  /\ stats' \in [Sides -> Counters]
  /\ \A s \in Sides : AtMost(stats[s], stats'[s])

(* A genuine message stays genuine.                                         *)
LEMMA StillGenuine ==
  ASSUME TypeOK, Grows
  PROVE  \A m \in Status : Genuine(m) => /\ AtMost(m.counts, stats'[m.name])
                                         /\ m.counts.inject_errors <= m.counts.blocks_out
<1> SUFFICES ASSUME NEW m \in Status, Genuine(m)
             PROVE  AtMost(m.counts, stats'[m.name])
  BY DEF Genuine
<1>1. m.counts \in Counters /\ m.name \in Sides
  BY DEF Status
<1>2. QED
  BY <1>1, AtMostTransitive DEF Genuine, Grows, TypeOK

(* A step that only counts leaves every message in its place.               *)
LEMMA CountingKeeps ==
  ASSUME IInv, Grows, UNCHANGED <<queueVars, logVars>>
  PROVE  OwnStatus' /\ InOrder' /\ NothingInvented' /\ PostedIsLast'
<1> USE DEF IInv, queueVars, relayVars, logVars
<1>1. OwnStatus' /\ InOrder' /\ PostedIsLast'
  BY DEF OwnStatus, InOrder, Ahead, Ascending, PostedIsLast
<1>2. /\ \A s \in Sides : other[s] \in Status
      /\ \A s \in Sides : \A i \in DOMAIN log_in[s] : log_in[s][i] \in Status
      /\ \A s \in Sides : \A i \in DOMAIN log_out[s] : log_out[s][i] \in Status
      /\ \A i \in DOMAIN late : late[i] \in Status
  BY DEF TypeOK
<1>3. \A s \in Sides : snap[s] <= stats'[s].blocks_in
  <2> SUFFICES ASSUME NEW s \in Sides PROVE snap[s] <= stats'[s].blocks_in
    OBVIOUS
  <2>1. stats[s].blocks_in <= stats'[s].blocks_in
    BY AtMostFields DEF Grows, TypeOK
  <2>2. snap[s] <= stats[s].blocks_in
    BY NothingInventedParts
  <2>3. snap[s] \in Nat /\ stats[s].blocks_in \in Nat /\ stats'[s].blocks_in \in Nat
    BY DEF TypeOK, Grows, Counters
  <2>4. QED
    BY <2>1, <2>2, <2>3
<1>4. \A m \in Status : Genuine(m) => Genuine(m)'
  BY StillGenuine DEF Genuine
<1>5. NothingInvented'
  BY <1>2, <1>3, <1>4, NothingInventedParts DEF NothingInvented, Genuine
<1>6. QED
  BY <1>1, <1>5

(* What add_block() does to the counters of one decoder, and                *)
(* add_send_block() to those of one side.                                   *)
DecodedOne(d, s, p, lost) ==
  [d EXCEPT ![s][p].total_packets = @ + 1, ![s][p].dropped_packets = @ + lost]

SentOne(c, s, error) == [c EXCEPT ![s].blocks_out = @ + 1, ![s].inject_errors = @ + error]

LEMMA LossFacts == \A p \in Ports : 0..MaxLost[p] \subseteq Nat
BY StatusAssumption DEF StatusAssumption

(* A packet counted by a decoder changes only its port.                     *)
LEMMA DecodedOnce ==
  ASSUME NEW d \in [Sides -> [Ports -> DecoderStats]], NEW s \in Sides, NEW p \in Ports,
         NEW lost \in Nat
  PROVE  /\ DecodedOne(d, s, p, lost) \in [Sides -> [Ports -> DecoderStats]]
         /\ DecodedOne(d, s, p, lost)[s][p].total_packets = d[s][p].total_packets + 1
         /\ DecodedOne(d, s, p, lost)[s][p].dropped_packets = d[s][p].dropped_packets + lost
         /\ \A q \in Ports : q # p => DecodedOne(d, s, p, lost)[s][q] = d[s][q]
         /\ \A t \in Sides : t # s => DecodedOne(d, s, p, lost)[t] = d[t]
<1> DEFINE d1 == [d[s][p] EXCEPT !.total_packets = @ + 1]
           d2 == [d1 EXCEPT !.dropped_packets = @ + lost]
<1>1. DecodedOne(d, s, p, lost) = [d EXCEPT ![s][p] = d2]
  BY DEF DecodedOne
<1>2. d1 = [total_packets |-> d[s][p].total_packets + 1,
            dropped_packets |-> d[s][p].dropped_packets]
  BY DEF DecoderStats
<1> HIDE DEF d1
<1>3. d2 = [total_packets |-> d[s][p].total_packets + 1,
            dropped_packets |-> d[s][p].dropped_packets + lost]
  BY <1>2
<1>4. d2 \in DecoderStats
  BY <1>3 DEF DecoderStats
<1> HIDE DEF d2
<1>5. QED
  BY <1>1, <1>3, <1>4

(* A block sent changes only two counters of its side.                      *)
LEMMA SentOnce ==
  ASSUME NEW c \in [Sides -> Counters], NEW s \in Sides, NEW error \in 0..1
  PROVE  /\ SentOne(c, s, error) \in [Sides -> Counters]
         /\ SentOne(c, s, error)[s].blocks_in = c[s].blocks_in
         /\ SentOne(c, s, error)[s].block_errors = c[s].block_errors
         /\ SentOne(c, s, error)[s].blocks_out = c[s].blocks_out + 1
         /\ SentOne(c, s, error)[s].inject_errors = c[s].inject_errors + error
         /\ \A t \in Sides : t # s => SentOne(c, s, error)[t] = c[t]
<1> DEFINE c1 == [c[s] EXCEPT !.blocks_out = @ + 1]
           c2 == [c1 EXCEPT !.inject_errors = @ + error]
<1>1. SentOne(c, s, error) = [c EXCEPT ![s] = c2]
  BY DEF SentOne
<1>2. c1 = [blocks_in |-> c[s].blocks_in, block_errors |-> c[s].block_errors,
            blocks_out |-> c[s].blocks_out + 1, inject_errors |-> c[s].inject_errors]
  BY DEF Counters
<1> HIDE DEF c1
<1>3. c2 = [blocks_in |-> c[s].blocks_in, block_errors |-> c[s].block_errors,
            blocks_out |-> c[s].blocks_out + 1, inject_errors |-> c[s].inject_errors + error]
  BY <1>2
<1>4. c2 \in Counters
  BY <1>3 DEF Counters
<1> HIDE DEF c2
<1>5. QED
  BY <1>1, <1>3, <1>4

(* Steps of fec_decode_thread and of raw_send_thread.                       *)
LEMMA CountIInv ==
  ASSUME IInv, NEW s \in Sides,
         (\E p \in Ports : Decode(s, p)) \/ Account(s) \/ AddSendBlock(s)
  PROVE  IInv'
<1> USE SideFacts, BoundFacts DEF IInv, queueVars, relayVars, logVars, decodeVars
<1>1. ASSUME NEW p \in Ports, Decode(s, p)
      PROVE  IInv'
  <2>0. PICK lost \in 0..MaxLost[p] : dec' = DecodedOne(dec, s, p, lost)
    BY <1>1, Zenon DEF Decode, DecodedOne
  <2>1. lost \in Nat /\ dec' = DecodedOne(dec, s, p, lost)
    BY <2>0, LossFacts
  <2>2. dec[s][p] \in DecoderStats
    BY DEF TypeOK
  <2>3. /\ dec' \in [Sides -> [Ports -> DecoderStats]]
        /\ dec'[s][p].total_packets = dec[s][p].total_packets + 1
        /\ dec'[s][p].dropped_packets = dec[s][p].dropped_packets + lost
        /\ \A q \in Ports : q # p => dec'[s][q] = dec[s][q]
        /\ \A t \in Sides : t # s => dec'[t] = dec[t]
    <3>1. dec \in [Sides -> [Ports -> DecoderStats]]
      BY DEF TypeOK
    <3>2. QED
      BY <2>1, <3>1, DecodedOnce
  <2>4. decoding' \in [Sides -> Ports \cup {NoPort}]
    BY <1>1 DEF Decode, TypeOK
  <2>5. Grows
    BY <1>1, AtMostReflexive DEF Decode, Grows, TypeOK
  <2>6. TypeOK'
    BY <1>1, <2>3, <2>4 DEF Decode, TypeOK
  <2>7. Accounted'
    <3>1. /\ decoding[s] = NoPort /\ prev' = prev
          /\ decoding'[s] = p /\ \A t \in Sides : t # s => decoding'[t] = decoding[t]
      BY <1>1 DEF Decode, TypeOK
    <3>2. \A q \in Ports : prev[s][q] = dec[s][q]
      BY <3>1 DEF Accounted
    <3>3. dec[s][p].total_packets \in Nat /\ dec[s][p].dropped_packets \in Nat
      BY <2>2 DEF DecoderStats
    <3>4. ASSUME NEW q \in Ports
          PROVE  IF q = decoding'[s]
                 THEN /\ prev'[s][q].total_packets <= dec'[s][q].total_packets
                      /\ prev'[s][q].dropped_packets <= dec'[s][q].dropped_packets
                 ELSE prev'[s][q] = dec'[s][q]
      BY <2>3, <3>1, <3>2, <3>3
    <3>5. QED
      BY <2>3, <3>1, <3>4 DEF Accounted
  <2>8. ErrorsBounded'
    BY <1>1 DEF Decode, ErrorsBounded
  <2>9. QED
    BY <1>1, <2>5, <2>6, <2>7, <2>8, CountingKeeps DEF Decode
<1>2. CASE Account(s)
  <2> DEFINE p == decoding[s]
  <2>1. p \in Ports /\ dec[s][p] \in DecoderStats /\ prev[s][p] \in DecoderStats
    BY <1>2 DEF Account, TypeOK
  <2>2. /\ prev[s][p].total_packets <= dec[s][p].total_packets
        /\ prev[s][p].dropped_packets <= dec[s][p].dropped_packets
    BY <2>1 DEF Accounted
  <2>3. PICK m, n \in Nat :
          /\ m = dec[s][p].total_packets - prev[s][p].total_packets
          /\ n = dec[s][p].dropped_packets - prev[s][p].dropped_packets
    BY <2>1, <2>2 DEF DecoderStats
  <2>4. /\ stats[s] \in Counters
        /\ stats' = [stats EXCEPT ![s] = Added(@, dec[s][p], prev[s][p])]
    BY <1>2 DEF Account, TypeOK
  <2>5. Added(stats[s], dec[s][p], prev[s][p]) =
          [blocks_in |-> stats[s].blocks_in + m, block_errors |-> stats[s].block_errors + n,
           blocks_out |-> stats[s].blocks_out, inject_errors |-> stats[s].inject_errors]
    <3>1. /\ stats[s].blocks_in + dec[s][p].total_packets - prev[s][p].total_packets
               = stats[s].blocks_in + m
          /\ stats[s].block_errors + dec[s][p].dropped_packets - prev[s][p].dropped_packets
               = stats[s].block_errors + n
      BY <2>1, <2>3, <2>4 DEF Counters, DecoderStats
    <3> DEFINE c1 == [stats[s] EXCEPT !.blocks_in = stats[s].blocks_in + m]
    <3>2. /\ c1 = [blocks_in |-> stats[s].blocks_in + m, block_errors |-> stats[s].block_errors,
                   blocks_out |-> stats[s].blocks_out, inject_errors |-> stats[s].inject_errors]
          /\ c1 \in Counters
      BY <2>4 DEF Counters
    <3>3. Added(stats[s], dec[s][p], prev[s][p])
            = [c1 EXCEPT !.block_errors = stats[s].block_errors + n]
      BY <3>1 DEF Added
    <3> HIDE DEF c1
    <3>4. QED
      BY <3>2, <3>3 DEF Counters
  <2>6. /\ stats' \in [Sides -> Counters]
        /\ stats'[s].blocks_in = stats[s].blocks_in + m
        /\ stats'[s].block_errors = stats[s].block_errors + n
        /\ stats'[s].blocks_out = stats[s].blocks_out
        /\ stats'[s].inject_errors = stats[s].inject_errors
        /\ \A t \in Sides : t # s => stats'[t] = stats[t]
    <3> DEFINE c == [blocks_in |-> stats[s].blocks_in + m,
                     block_errors |-> stats[s].block_errors + n,
                     blocks_out |-> stats[s].blocks_out,
                     inject_errors |-> stats[s].inject_errors]
    <3>1. stats' = [stats EXCEPT ![s] = c]
      BY <2>4, <2>5
    <3>2. c \in Counters
      BY <2>3, <2>4 DEF Counters
    <3>3. stats' \in [Sides -> Counters] /\ stats'[s] = c
      BY <3>1, <3>2 DEF TypeOK
    <3>4. \A t \in Sides : t # s => stats'[t] = stats[t]
      BY <3>1 DEF TypeOK
    <3>5. QED
      BY <3>3, <3>4
  <2>7. Grows
    <3>1. AtMost(stats[s], stats'[s])
      BY <2>4, <2>6, AtMostFields DEF Counters
    <3>2. QED
      BY <2>6, <3>1, AtMostReflexive DEF Grows, TypeOK
  <2>8. /\ prev' \in [Sides -> [Ports -> DecoderStats]]
        /\ prev'[s][p] = dec[s][p]
        /\ \A t \in Sides, q \in Ports : t # s \/ q # p => prev'[t][q] = prev[t][q]
    BY <1>2, <2>1 DEF Account, TypeOK
  <2>9. /\ decoding' \in [Sides -> Ports \cup {NoPort}] /\ dec' = dec
        /\ decoding'[s] = NoPort /\ \A t \in Sides : t # s => decoding'[t] = decoding[t]
    BY <1>2 DEF Account, TypeOK
  <2>10. TypeOK'
    BY <1>2, <2>6, <2>8, <2>9 DEF Account, TypeOK
  <2>11. Accounted'
    BY <2>8, <2>9 DEF Accounted
  <2>12. ErrorsBounded'
    BY <2>6 DEF ErrorsBounded
  <2>13. QED
    BY <1>2, <2>7, <2>10, <2>11, <2>12, CountingKeeps DEF Account
<1>3. CASE AddSendBlock(s)
  <2>1. PICK error \in 0..1 : stats' = SentOne(stats, s, error)
    BY <1>3, Zenon DEF AddSendBlock, SentOne
  <2>2. stats[s] \in Counters
    BY DEF TypeOK
  <2>3. /\ stats' \in [Sides -> Counters]
        /\ stats'[s].blocks_in = stats[s].blocks_in
        /\ stats'[s].block_errors = stats[s].block_errors
        /\ stats'[s].blocks_out = stats[s].blocks_out + 1
        /\ stats'[s].inject_errors = stats[s].inject_errors + error
        /\ \A t \in Sides : t # s => stats'[t] = stats[t]
    <3>1. stats \in [Sides -> Counters]
      BY DEF TypeOK
    <3>2. QED
      BY <2>1, <3>1, SentOnce
  <2>4. Grows
    <3>1. AtMost(stats[s], stats'[s])
      BY <2>2, <2>3, AtMostFields DEF Counters
    <3>2. QED
      BY <2>3, <3>1, AtMostReflexive DEF Grows, TypeOK
  <2>5. TypeOK'
    BY <1>3, <2>3 DEF AddSendBlock, TypeOK
  <2>6. Accounted'
    BY <1>3 DEF AddSendBlock, Accounted
  <2>7. ErrorsBounded'
    <3>1. stats'[s].inject_errors <= stats'[s].blocks_out
      BY <2>2, <2>3 DEF ErrorsBounded, Counters
    <3>2. QED
      BY <2>3, <3>1 DEF ErrorsBounded
  <2>8. QED
    BY <1>3, <2>4, <2>5, <2>6, <2>7, CountingKeeps DEF AddSendBlock
<1>4. QED
  BY <1>1, <1>2, <1>3

(* The message that leaves a queue, and the queue it leaves.                *)
LEMMA SentFacts ==
  ASSUME IInv, NEW s \in Sides, Sent(s)
  PROVE  /\ Head(log_out[s]) \in Status /\ Head(log_out[s]).name = s
         /\ Genuine(Head(log_out[s]))
         /\ log_out[s] \in Seq(Status) /\ log_out[s] # <<>>
         /\ log_out' \in [Sides -> Seq(Status)]
         /\ log_out'[s] = Tail(log_out[s])
         /\ \A t \in Sides : t # s => log_out'[t] = log_out[t]
         /\ \A t \in Sides : Len(log_out'[t]) <= OutQueue
         /\ \A t \in Sides : \A i \in DOMAIN log_out'[t] :
              log_out'[t][i].name = t /\ Genuine(log_out'[t][i])
<1> USE DEF IInv
<1>1. log_out[s] \in Seq(Status) /\ log_out[s] # <<>> /\ log_out \in [Sides -> Seq(Status)]
  BY DEF Sent, TypeOK
<1>2. /\ Head(log_out[s]) \in Status /\ 1 \in DOMAIN log_out[s]
      /\ Head(log_out[s]) = log_out[s][1]
      /\ Tail(log_out[s]) \in Seq(Status) /\ Len(Tail(log_out[s])) = Len(log_out[s]) - 1
      /\ \A i \in DOMAIN Tail(log_out[s]) :
           i + 1 \in DOMAIN log_out[s] /\ Tail(log_out[s])[i] = log_out[s][i + 1]
  BY <1>1, TailFacts
<1>3. /\ log_out' \in [Sides -> Seq(Status)]
      /\ log_out'[s] = Tail(log_out[s])
      /\ \A t \in Sides : t # s => log_out'[t] = log_out[t]
  BY <1>1, <1>2 DEF Sent
<1>4. \A t \in Sides : \A i \in DOMAIN log_out[t] :
        log_out[t][i].name = t /\ Genuine(log_out[t][i])
  BY NothingInventedParts DEF OwnStatus
<1>5. \A t \in Sides : \A i \in DOMAIN log_out'[t] :
        log_out'[t][i].name = t /\ Genuine(log_out'[t][i])
  <2>1. \A i \in DOMAIN log_out'[s] : log_out'[s][i].name = s /\ Genuine(log_out'[s][i])
    BY <1>2, <1>3, <1>4
  <2>2. QED
    BY <1>3, <1>4, <2>1, Zenon
<1>6. \A t \in Sides : Len(log_out'[t]) <= OutQueue
  <2>1. Len(log_out[s]) \in Nat /\ Len(log_out[s]) <= OutQueue /\ OutQueue \in Nat
    BY <1>1, LenProperties, BoundFacts DEF TypeOK
  <2>2. Len(log_out'[s]) <= OutQueue
    BY <1>2, <1>3, <2>1
  <2>3. QED
    BY <1>3, <2>2 DEF TypeOK
<1>7. QED
  BY <1>1, <1>2, <1>3, <1>4, <1>5, <1>6

(* A relay that hears a genuine message keeps a genuine message, and is     *)
(* counted.                                                                 *)
LEMMA RelayFacts ==
  ASSUME IInv, NEW s \in Sides, NEW m \in Status, Genuine(m), RelayHears(s, m)
  PROVE  /\ late' \in Seq(Status) /\ Len(late') <= 1
         /\ repeats' \in 0..MaxRepeats
         /\ \A i \in DOMAIN late' : Genuine(late'[i])
         /\ repeats' = 0 => repeats = 0 /\ late' = late
<1> USE DEF IInv
<1>1. CASE UNCHANGED relayVars
  BY <1>1, NothingInventedParts, SideFacts DEF relayVars, TypeOK
<1>2. CASE repeats < MaxRepeats /\ late' = <<m>> /\ repeats' = repeats + 1
  BY <1>2, BoundFacts DEF TypeOK
<1>3. QED
  BY <1>1, <1>2 DEF RelayHears

(* The queue of the ground after a genuine message came in.                 *)
LEMMA ReceivedFacts ==
  ASSUME IInv, NEW m \in Status, Genuine(m), Received("ground", m)
  PROVE  /\ log_in' \in [Sides -> Seq(Status)]
         /\ \A s \in Sides : Len(log_in'[s]) <= InQueue
         /\ log_in'["air"] = <<>>
         /\ log_in["ground"] \in Seq(Status) /\ Len(log_in["ground"]) <= InQueue
         /\ log_in'["ground"] = Pushed(log_in["ground"], m, InQueue)
         /\ \A s \in Sides : \A i \in DOMAIN log_in'[s] : Genuine(log_in'[s][i])
<1> USE BoundFacts, SideFacts DEF IInv
<1> DEFINE q == Pushed(log_in["ground"], m, InQueue)
<1>1. log_in \in [Sides -> Seq(Status)] /\ \A s \in Sides : Len(log_in[s]) <= InQueue
  BY DEF TypeOK
<1>2. /\ q \in Seq(Status) /\ Len(q) <= InQueue
      /\ \A i \in DOMAIN q : \/ i \in DOMAIN log_in["ground"] /\ q[i] = log_in["ground"][i]
                             \/ q[i] = m
  BY <1>1, PushedFacts
<1>3. log_in' = [log_in EXCEPT !["ground"] = q]
  BY DEF Received
<1> HIDE DEF q
<1>4. /\ log_in' \in [Sides -> Seq(Status)]
      /\ log_in'["ground"] = q /\ log_in'["air"] = log_in["air"]
  BY <1>1, <1>2, <1>3
<1>5. log_in'["air"] = <<>>
  BY <1>4 DEF OwnStatus
<1>6. \A s \in Sides : Len(log_in'[s]) <= InQueue
  BY <1>1, <1>2, <1>4 DEF Sides
<1>7. \A i \in DOMAIN log_in["ground"] : Genuine(log_in["ground"][i])
  BY NothingInventedParts
<1>8. \A i \in DOMAIN q : Genuine(q[i])
  BY <1>2, <1>7
<1>9. \A s \in Sides : \A i \in DOMAIN log_in'[s] : Genuine(log_in'[s][i])
  BY <1>4, <1>5, <1>8 DEF Sides
<1>10. QED
  BY <1>1, <1>4, <1>5, <1>6, <1>9 DEF q

(* NothingInvented after a step that counts nothing.                        *)
LEMMA NothingInventedNext ==
  ASSUME stats' = stats,
         \A s \in Sides :
           /\ other'[s].name = Other(s)
           /\ Genuine(other'[s])
           /\ \A i \in DOMAIN log_in'[s] : Genuine(log_in'[s][i])
           /\ \A i \in DOMAIN log_out'[s] : Genuine(log_out'[s][i])
           /\ \A i \in DOMAIN late' : Genuine(late'[i])
           /\ snap'[s] <= stats[s].blocks_in
  PROVE  NothingInvented'
BY DEF NothingInvented, Genuine

(* The order of the air's messages when one leaves its queue.               *)
LEMMA SentInOrder ==
  ASSUME IInv, NEW s \in Sides, Sent(s), repeats = 0
  PROVE  /\ Ahead(other["ground"].counts, log_out'["air"])
         /\ \A i \in DOMAIN log_in["ground"] :
              log_in["ground"][i].name = "air" => Ahead(log_in["ground"][i].counts, log_out'["air"])
         /\ Ascending(log_out'["air"])
<1> USE SideFacts
<1> DEFINE q == log_out["air"]
<1>1. /\ Ahead(other["ground"].counts, q)
      /\ \A i \in DOMAIN log_in["ground"] :
           log_in["ground"][i].name = "air" => Ahead(log_in["ground"][i].counts, q)
      /\ Ascending(q)
  BY DEF IInv, InOrder
<1>2. CASE s = "air"
  <2>1. q \in Seq(Status) /\ q # <<>> /\ log_out'["air"] = Tail(q)
    BY <1>2, SentFacts
  <2>2. (\A c : Ahead(c, q) => Ahead(c, Tail(q))) /\ (Ascending(q) => Ascending(Tail(q)))
    BY <2>1, TailInOrder
  <2> HIDE DEF q
  <2>3. QED
    BY <1>1, <2>1, <2>2
<1>3. CASE s # "air"
  BY <1>1, <1>3, SentFacts
<1>4. QED
  BY <1>2, <1>3

(* Steps of the network.                                                    *)
LEMMA NetworkIInv ==
  ASSUME IInv, (\E s \in Sides : Deliver(s) \/ Lose(s)) \/ Repeat
  PROVE  IInv'
<1> USE SideFacts, BoundFacts DEF decodeVars, logVars
<1>0. /\ TypeOK /\ Accounted /\ ErrorsBounded /\ OwnStatus /\ InOrder /\ NothingInvented
      /\ PostedIsLast
      /\ \A s \in Sides : /\ other[s].name = Other(s) /\ Genuine(other[s])
                          /\ snap[s] <= stats[s].blocks_in
                          /\ \A i \in DOMAIN log_in[s] : Genuine(log_in[s][i])
                          /\ \A i \in DOMAIN log_out[s] : Genuine(log_out[s][i])
  BY NothingInventedParts DEF IInv
<1>1. ASSUME NEW s \in Sides, Deliver(s)
      PROVE  IInv'
  <2> DEFINE m == Head(log_out[s])
  <2>1. /\ Sent(s) /\ Received("ground", m) /\ RelayHears(s, m)
        /\ UNCHANGED <<decodeVars, stats, logVars>>
    BY <1>1 DEF Deliver, Sent
  <2>2. m \in Status /\ m.name = s /\ Genuine(m)
    BY <2>1, SentFacts
  <2>3. /\ log_out' \in [Sides -> Seq(Status)]
        /\ \A t \in Sides : Len(log_out'[t]) <= OutQueue
        /\ \A t \in Sides : \A i \in DOMAIN log_out'[t] :
             log_out'[t][i].name = t /\ Genuine(log_out'[t][i])
    BY <2>1, SentFacts
  <2> HIDE DEF m
  <2>4. /\ late' \in Seq(Status) /\ Len(late') <= 1
        /\ repeats' \in 0..MaxRepeats
        /\ \A i \in DOMAIN late' : Genuine(late'[i])
        /\ repeats' = 0 => repeats = 0 /\ late' = late
    BY <2>1, <2>2, RelayFacts
  <2>5. /\ log_in' \in [Sides -> Seq(Status)]
        /\ \A t \in Sides : Len(log_in'[t]) <= InQueue
        /\ log_in'["air"] = <<>>
        /\ log_in["ground"] \in Seq(Status) /\ Len(log_in["ground"]) <= InQueue
        /\ log_in'["ground"] = Pushed(log_in["ground"], m, InQueue)
        /\ \A t \in Sides : \A i \in DOMAIN log_in'[t] : Genuine(log_in'[t][i])
    BY <2>1, <2>2, ReceivedFacts
  <2>6. TypeOK'
    BY <1>0, <2>1, <2>3, <2>4, <2>5 DEF TypeOK
  <2>7. Accounted' /\ ErrorsBounded' /\ PostedIsLast'
    BY <1>0, <2>1 DEF Accounted, ErrorsBounded, PostedIsLast
  <2>8. OwnStatus'
    BY <2>3, <2>5 DEF OwnStatus
  <2>9. NothingInvented'
    BY <1>0, <2>1, <2>3, <2>4, <2>5, NothingInventedNext
  <2>10. ASSUME repeats' = 0
         PROVE  /\ late' = <<>>
                /\ Ahead(other["ground"].counts, log_in'["ground"])
                /\ Ahead(other["ground"].counts, log_out'["air"])
                /\ \A i \in DOMAIN log_in'["ground"] : log_in'["ground"][i].name = "air" =>
                     Ahead(log_in'["ground"][i].counts, log_out'["air"])
                /\ Ascending(log_in'["ground"])
                /\ Ascending(log_out'["air"])
    <3> DEFINE q == log_in["ground"]
               r == log_in'["ground"]
    <3>1. repeats = 0 /\ late' = <<>>
      BY <1>0, <2>4, <2>10 DEF InOrder
    <3>2. /\ Ahead(other["ground"].counts, q)
          /\ Ahead(other["ground"].counts, log_out["air"])
          /\ \A i \in DOMAIN q : q[i].name = "air" => Ahead(q[i].counts, log_out["air"])
          /\ Ascending(q) /\ Ascending(log_out["air"])
      BY <1>0, <3>1 DEF InOrder
    <3>3. /\ Ahead(other["ground"].counts, log_out'["air"])
          /\ \A i \in DOMAIN q : q[i].name = "air" => Ahead(q[i].counts, log_out'["air"])
          /\ Ascending(log_out'["air"])
      BY <2>1, <3>1, SentInOrder
    <3>4. m.name = "air" => /\ AtMost(other["ground"].counts, m.counts)
                            /\ \A i \in DOMAIN q : q[i].name = "air" => AtMost(q[i].counts, m.counts)
                            /\ Ahead(m.counts, log_out'["air"])
      <4> SUFFICES ASSUME s = "air"
                   PROVE  /\ AtMost(other["ground"].counts, m.counts)
                          /\ \A i \in DOMAIN q : q[i].name = "air" => AtMost(q[i].counts, m.counts)
                          /\ Ahead(m.counts, log_out'["air"])
        BY <2>2
      <4>1. /\ log_out["air"] \in Seq(Status) /\ log_out["air"] # <<>>
            /\ log_out'["air"] = Tail(log_out["air"])
        BY <2>1, SentFacts
      <4>2. 1 \in DOMAIN log_out["air"] /\ m = log_out["air"][1] /\ m = Head(log_out["air"])
        BY <4>1, TailFacts DEF m
      <4>3. Ahead(m.counts, log_out'["air"])
        BY <2>2, <3>2, <4>1, <4>2, TailInOrder
      <4>4. \A c : Ahead(c, log_out["air"]) => AtMost(c, m.counts)
        BY <2>2, <4>2 DEF Ahead
      <4>5. QED
        BY <3>2, <4>3, <4>4
    <3>5. Ahead(other["ground"].counts, r) /\ Ascending(r)
      BY <2>2, <2>5, <3>2, <3>4, PushInOrder
    <3>6. \A i \in DOMAIN r : r[i].name = "air" => Ahead(r[i].counts, log_out'["air"])
      <4>1. \A i \in DOMAIN r : (i \in DOMAIN q /\ r[i] = q[i]) \/ r[i] = m
        BY <2>2, <2>5, PushedFacts
      <4>2. QED
        BY <3>3, <3>4, <4>1
    <3>7. QED
      BY <3>1, <3>3, <3>5, <3>6
  <2>11. InOrder'
    BY <2>1, <2>10 DEF InOrder, Ahead, Ascending
  <2>12. QED
    BY <2>6, <2>7, <2>8, <2>9, <2>11 DEF IInv
<1>2. ASSUME NEW s \in Sides, Lose(s)
      PROVE  IInv'
  <2> DEFINE m == Head(log_out[s])
  <2>1. /\ Sent(s) /\ log_in' = log_in /\ RelayHears(s, m)
        /\ UNCHANGED <<decodeVars, stats, logVars>>
    BY <1>2 DEF Lose, Sent
  <2>2. m \in Status /\ Genuine(m)
    BY <2>1, SentFacts
  <2>3. /\ log_out' \in [Sides -> Seq(Status)]
        /\ \A t \in Sides : Len(log_out'[t]) <= OutQueue
        /\ \A t \in Sides : \A i \in DOMAIN log_out'[t] :
             log_out'[t][i].name = t /\ Genuine(log_out'[t][i])
    BY <2>1, SentFacts
  <2> HIDE DEF m
  <2>4. /\ late' \in Seq(Status) /\ Len(late') <= 1
        /\ repeats' \in 0..MaxRepeats
        /\ \A i \in DOMAIN late' : Genuine(late'[i])
        /\ repeats' = 0 => repeats = 0 /\ late' = late
    BY <2>1, <2>2, RelayFacts
  <2>5. TypeOK'
    BY <1>0, <2>1, <2>3, <2>4 DEF TypeOK
  <2>6. Accounted' /\ ErrorsBounded' /\ PostedIsLast'
    BY <1>0, <2>1 DEF Accounted, ErrorsBounded, PostedIsLast
  <2>7. OwnStatus'
    BY <1>0, <2>1, <2>3 DEF OwnStatus
  <2>8. NothingInvented'
    BY <1>0, <2>1, <2>3, <2>4, NothingInventedNext
  <2>9. ASSUME repeats' = 0
        PROVE  /\ late' = <<>>
               /\ Ahead(other["ground"].counts, log_in["ground"])
               /\ Ahead(other["ground"].counts, log_out'["air"])
               /\ \A i \in DOMAIN log_in["ground"] : log_in["ground"][i].name = "air" =>
                    Ahead(log_in["ground"][i].counts, log_out'["air"])
               /\ Ascending(log_in["ground"])
               /\ Ascending(log_out'["air"])
    BY <1>0, <2>1, <2>4, <2>9, SentInOrder DEF InOrder
  <2>10. InOrder'
    BY <2>1, <2>9 DEF InOrder, Ahead, Ascending
  <2>11. QED
    BY <2>5, <2>6, <2>7, <2>8, <2>10 DEF IInv
<1>3. CASE Repeat
  <2> DEFINE m == Head(late)
  <2>1. /\ late # <<>> /\ Received("ground", m) /\ late' = <<>>
        /\ UNCHANGED <<decodeVars, stats, log_out, repeats, logVars>>
    BY <1>3 DEF Repeat
  <2>2. m \in Status /\ Genuine(m)
    <3>1. late \in Seq(Status) /\ \A i \in DOMAIN late : Genuine(late[i])
      BY NothingInventedParts DEF IInv, TypeOK
    <3>2. QED
      BY <2>1, <3>1, TailFacts
  <2> HIDE DEF m
  <2>3. /\ log_in' \in [Sides -> Seq(Status)]
        /\ \A t \in Sides : Len(log_in'[t]) <= InQueue
        /\ log_in'["air"] = <<>>
        /\ \A t \in Sides : \A i \in DOMAIN log_in'[t] : Genuine(log_in'[t][i])
    BY <2>1, <2>2, ReceivedFacts
  <2>4. TypeOK'
    <3>1. late' \in Seq(Status) /\ Len(late') <= 1
      BY <2>1, EmptySeq
    <3>2. QED
      BY <1>0, <2>1, <2>3, <3>1 DEF TypeOK
  <2>5. Accounted' /\ ErrorsBounded' /\ PostedIsLast'
    BY <1>0, <2>1 DEF Accounted, ErrorsBounded, PostedIsLast
  <2>6. OwnStatus'
    BY <1>0, <2>1, <2>3 DEF OwnStatus
  <2>7. NothingInvented'
    BY <1>0, <2>1, <2>3, NothingInventedNext
  <2>8. InOrder'
    BY <1>0, <2>1 DEF InOrder
  <2>9. QED
    BY <2>4, <2>5, <2>6, <2>7, <2>8 DEF IInv
<1>4. QED
  BY <1>1, <1>2, <1>3

(* A round of log_thread ends with its variable out of scope.               *)
LEMMA EndRoundFacts ==
  ASSUME NEW s \in Sides, EndRound(s),
         pc \in [Sides -> {"start", "drain", "status", "log"}], snap \in [Sides -> Nat],
         NEW bound, \A t \in Sides : bound[t] \in Nat /\ snap[t] <= bound[t]
  PROVE  /\ pc' \in [Sides -> {"start", "drain", "status", "log"}]
         /\ snap' \in [Sides -> Nat]
         /\ \A t \in Sides : snap'[t] <= bound[t]
<1>1. pc' = [pc EXCEPT ![s] = "drain"] /\ snap' = [snap EXCEPT ![s] = 0]
  BY DEF EndRound, NotRead
<1>2. pc' \in [Sides -> {"start", "drain", "status", "log"}]
  BY <1>1
<1>3. snap' \in [Sides -> Nat]
  BY <1>1
<1>4. ASSUME NEW t \in Sides PROVE snap'[t] <= bound[t]
  <2>1. snap'[t] = IF t = s THEN 0 ELSE snap[t]
    BY <1>1
  <2>2. bound[t] \in Nat /\ snap[t] <= bound[t]
    OBVIOUS
  <2>3. QED
    BY <2>1, <2>2
<1>5. QED
  BY <1>2, <1>3, <1>4

(* Steps of log_thread.                                                     *)
LEMMA LogIInv ==
  ASSUME IInv, NEW s \in Sides, LogThread(s)
  PROVE  IInv'
<1> USE SideFacts, BoundFacts DEF decodeVars, queueVars, relayVars
<1>0. /\ TypeOK /\ Accounted /\ ErrorsBounded /\ OwnStatus /\ InOrder /\ NothingInvented
      /\ PostedIsLast
      /\ \A t \in Sides : /\ other[t].name = Other(t) /\ Genuine(other[t])
                          /\ snap[t] <= stats[t].blocks_in
                          /\ \A i \in DOMAIN log_in[t] : Genuine(log_in[t][i])
                          /\ \A i \in DOMAIN log_out[t] : Genuine(log_out[t][i])
                          /\ \A i \in DOMAIN late : Genuine(late[i])
  BY NothingInventedParts DEF IInv
<1>1. \A t \in Sides : /\ stats[t] \in Counters /\ stats[t].blocks_in \in Nat
                       /\ snap[t] \in Nat /\ last[t] \in Nat /\ posted[t] = last[t]
  BY <1>0 DEF TypeOK, Counters, PostedIsLast
(* Most steps leave all but the local variables of the thread alone.        *)
<1>2. ASSUME UNCHANGED <<decodeVars, stats, queueVars, other>>,
             pc' \in [Sides -> {"start", "drain", "status", "log"}],
             snap' \in [Sides -> Nat], last' \in [Sides -> Nat], posted' = last',
             \A t \in Sides : snap'[t] <= stats[t].blocks_in
      PROVE  IInv'
  <2>1. TypeOK'
    BY <1>0, <1>2 DEF TypeOK
  <2>2. Accounted' /\ ErrorsBounded' /\ OwnStatus' /\ PostedIsLast'
    BY <1>0, <1>2 DEF Accounted, ErrorsBounded, OwnStatus, PostedIsLast
  <2>3. InOrder'
    BY <1>0, <1>2 DEF InOrder, Ahead, Ascending
  <2>4. NothingInvented'
    BY <1>0, <1>2, NothingInventedNext
  <2>5. QED
    BY <2>1, <2>2, <2>3, <2>4 DEF IInv
<1>3. CASE StartLog(s)
  <2>1. last' = [last EXCEPT ![s] = stats[s].blocks_in] /\ posted' = last'
    BY <1>0, <1>3 DEF StartLog, PostedIsLast
  <2>2. pc' \in [Sides -> {"start", "drain", "status", "log"}] /\ last' \in [Sides -> Nat]
    BY <1>0, <1>1, <1>3, <2>1 DEF StartLog, TypeOK
  <2>3. snap' = snap /\ snap' \in [Sides -> Nat]
    BY <1>0, <1>3 DEF StartLog, TypeOK
  <2>4. QED
    BY <1>0, <1>2, <1>3, <2>1, <2>2, <2>3 DEF StartLog
<1>4. CASE Drain(s)
  <2> DEFINE q == log_in["ground"]
             m == Head(q)
  <2>1. s = "ground"
    BY <1>0, <1>4 DEF Drain, OwnStatus, Sides
  <2>2. /\ q \in Seq(Status) /\ q # <<>>
        /\ other' = [other EXCEPT !["ground"] = Heard("ground", m)]
        /\ log_in' = [log_in EXCEPT !["ground"] = Tail(q)]
        /\ UNCHANGED <<decodeVars, stats, log_out, relayVars, pc, snap, last, posted>>
    BY <1>0, <1>4, <2>1 DEF Drain, TypeOK
  <2>3. /\ m \in Status /\ 1 \in DOMAIN q /\ m = q[1]
        /\ Tail(q) \in Seq(Status) /\ Len(Tail(q)) = Len(q) - 1
        /\ \A i \in DOMAIN Tail(q) : i + 1 \in DOMAIN q /\ Tail(q)[i] = q[i + 1]
    BY <2>2, TailFacts
  <2>4. /\ \A c : Ahead(c, q) => Ahead(c, Tail(q))
        /\ Ascending(q) => Ascending(Tail(q))
        /\ Ascending(q) /\ m.name = "air" => Ahead(m.counts, Tail(q))
    BY <2>2, TailInOrder
  <2>5. Genuine(m)
    BY <1>0, <2>3
  <2>6. Len(q) \in Nat /\ Len(q) <= InQueue
    BY <1>0, <2>2, LenProperties DEF TypeOK
  <2>7. /\ log_in' \in [Sides -> Seq(Status)] /\ log_in'["ground"] = Tail(q)
        /\ log_in'["air"] = <<>>
    BY <1>0, <2>2, <2>3 DEF TypeOK, OwnStatus
  <2>8. /\ Heard("ground", m) \in Status /\ Heard("ground", m).name = "air"
        /\ Genuine(Heard("ground", m))
        /\ (Heard("ground", m) = m /\ m.name = "air") \/ Heard("ground", m) = other["ground"]
    BY <1>0, <2>3, <2>5 DEF Heard, TypeOK, Status, Sides, Other
  <2> HIDE DEF m, q
  <2>9. /\ other' \in [Sides -> Status] /\ other'["ground"] = Heard("ground", m)
        /\ other'["air"] = other["air"]
    BY <1>0, <2>2, <2>8 DEF TypeOK
  <2>10. \A t \in Sides : Len(log_in'[t]) <= InQueue
    BY <2>3, <2>6, <2>7 DEF Sides
  <2>11. TypeOK'
    BY <1>0, <2>2, <2>7, <2>9, <2>10 DEF TypeOK
  <2>12. Accounted' /\ ErrorsBounded' /\ OwnStatus' /\ PostedIsLast'
    BY <1>0, <2>2, <2>7 DEF Accounted, ErrorsBounded, OwnStatus, PostedIsLast
  <2>13. \A t \in Sides : /\ other'[t].name = Other(t) /\ Genuine(other'[t])
                          /\ \A i \in DOMAIN log_in'[t] : Genuine(log_in'[t][i])
    <3>1. \A i \in DOMAIN log_in'["ground"] : Genuine(log_in'["ground"][i])
      BY <1>0, <2>3, <2>7 DEF q
    <3>2. other'["ground"].name = Other("ground") /\ Genuine(other'["ground"])
      BY <2>8, <2>9 DEF Other
    <3>3. \A i \in DOMAIN log_in'["air"] : Genuine(log_in'["air"][i])
      BY <2>7
    <3>4. QED
      BY <1>0, <2>9, <3>1, <3>2, <3>3 DEF Sides
  <2>14. NothingInvented'
    BY <1>0, <2>2, <2>13, NothingInventedNext
  <2>15. ASSUME repeats = 0
         PROVE  /\ late = <<>>
                /\ Ahead(other'["ground"].counts, Tail(q))
                /\ Ahead(other'["ground"].counts, log_out["air"])
                /\ \A i \in DOMAIN Tail(q) : Tail(q)[i].name = "air" =>
                     Ahead(Tail(q)[i].counts, log_out["air"])
                /\ Ascending(Tail(q))
                /\ Ascending(log_out["air"])
    <3>1. /\ late = <<>>
          /\ Ahead(other["ground"].counts, q)
          /\ Ahead(other["ground"].counts, log_out["air"])
          /\ \A i \in DOMAIN q : q[i].name = "air" => Ahead(q[i].counts, log_out["air"])
          /\ Ascending(q) /\ Ascending(log_out["air"])
      BY <1>0, <2>15 DEF InOrder, q
    <3>2. m.name = "air" => Ahead(m.counts, log_out["air"])
      BY <2>3, <3>1
    <3>3. \A i \in DOMAIN Tail(q) : Tail(q)[i].name = "air" =>
            Ahead(Tail(q)[i].counts, log_out["air"])
      BY <2>3, <3>1
    <3>4. QED
      BY <2>4, <2>8, <2>9, <3>1, <3>2, <3>3
  <2>16. InOrder'
    BY <2>2, <2>7, <2>15 DEF InOrder, Ahead, Ascending
  <2>17. QED
    BY <2>11, <2>12, <2>14, <2>16 DEF IInv
<1>5. CASE GetStats(s)
  <2>1. pc' \in [Sides -> {"start", "drain", "status", "log"}]
    BY <1>0, <1>5 DEF GetStats, TypeOK
  <2>2. snap' \in [Sides -> Nat] /\ \A t \in Sides : snap'[t] <= stats[t].blocks_in
    <3>1. snap' = [snap EXCEPT ![s] = stats[s].blocks_in] /\ snap \in [Sides -> Nat]
      BY <1>0, <1>5 DEF GetStats, TypeOK
    <3>2. snap' \in [Sides -> Nat]
      BY <1>1, <3>1
    <3>3. \A t \in Sides : snap'[t] <= stats[t].blocks_in
      BY <1>0, <1>1, <3>1
    <3>4. QED
      BY <3>2, <3>3
  <2>3. last' \in [Sides -> Nat] /\ posted' = last'
    BY <1>0, <1>5 DEF GetStats, TypeOK, PostedIsLast
  <2>4. QED
    BY <1>2, <1>5, <2>1, <2>2, <2>3 DEF GetStats
<1>6. CASE SendStatus(s)
  <2> DEFINE m == [name |-> s, counts |-> stats[s]]
             q == log_out[s]
             r == Pushed(q, m, OutQueue)
  <2>1. m \in Status /\ m.name = s /\ m.counts = stats[s] /\ Genuine(m)
    BY <1>0, <1>1, AtMostReflexive DEF Genuine, Status, ErrorsBounded
  <2>2. q \in Seq(Status) /\ Len(q) <= OutQueue
    BY <1>0 DEF TypeOK
  <2>3. /\ log_out' = [log_out EXCEPT ![s] = r]
        /\ pc' = [pc EXCEPT ![s] = "log"]
        /\ UNCHANGED <<decodeVars, stats, log_in, relayVars, other, snap, last, posted>>
    BY <1>6 DEF SendStatus
  <2>4. /\ r \in Seq(Status) /\ Len(r) <= OutQueue
        /\ \A i \in DOMAIN r : (i \in DOMAIN q /\ r[i] = q[i]) \/ r[i] = m
    BY <2>1, <2>2, PushedFacts
  <2>5. /\ \A c : Ahead(c, q) /\ (m.name = "air" => AtMost(c, m.counts)) => Ahead(c, r)
        /\ Ascending(q) /\ (m.name = "air" =>
             \A i \in DOMAIN q : q[i].name = "air" => AtMost(q[i].counts, m.counts))
           => Ascending(r)
    BY <2>1, <2>2, PushInOrder
  <2> HIDE DEF m, r
  <2>6. /\ log_out' \in [Sides -> Seq(Status)] /\ log_out'[s] = r
        /\ \A t \in Sides : t # s => log_out'[t] = log_out[t]
    BY <1>0, <2>3, <2>4 DEF TypeOK
  <2>7. \A t \in Sides : Len(log_out'[t]) <= OutQueue
    BY <1>0, <2>4, <2>6 DEF TypeOK
  <2>8. \A t \in Sides : \A i \in DOMAIN log_out'[t] :
          log_out'[t][i].name = t /\ Genuine(log_out'[t][i])
    <3>1. \A i \in DOMAIN r : r[i].name = s /\ Genuine(r[i])
      BY <1>0, <2>1, <2>4 DEF OwnStatus
    <3>2. QED
      BY <1>0, <2>6, <3>1, Zenon DEF OwnStatus
  <2>9. TypeOK'
    BY <1>0, <2>3, <2>6, <2>7 DEF TypeOK
  <2>10. Accounted' /\ ErrorsBounded' /\ OwnStatus' /\ PostedIsLast'
    BY <1>0, <2>3, <2>8 DEF Accounted, ErrorsBounded, OwnStatus, PostedIsLast
  <2>11. NothingInvented'
    BY <1>0, <2>3, <2>8, NothingInventedNext
  <2>12. ASSUME repeats = 0
         PROVE  /\ late = <<>>
                /\ Ahead(other["ground"].counts, log_in["ground"])
                /\ Ahead(other["ground"].counts, log_out'["air"])
                /\ \A i \in DOMAIN log_in["ground"] : log_in["ground"][i].name = "air" =>
                     Ahead(log_in["ground"][i].counts, log_out'["air"])
                /\ Ascending(log_in["ground"])
                /\ Ascending(log_out'["air"])
    <3>1. /\ late = <<>>
          /\ Ahead(other["ground"].counts, log_in["ground"])
          /\ Ahead(other["ground"].counts, log_out["air"])
          /\ \A i \in DOMAIN log_in["ground"] : log_in["ground"][i].name = "air" =>
               Ahead(log_in["ground"][i].counts, log_out["air"])
          /\ Ascending(log_in["ground"]) /\ Ascending(log_out["air"])
      BY <1>0, <2>12 DEF InOrder
    <3>2. CASE s # "air"
      BY <2>6, <3>1, <3>2
    <3>3. CASE s = "air"
      <4>1. /\ AtMost(other["ground"].counts, m.counts)
            /\ \A i \in DOMAIN log_in["ground"] : log_in["ground"][i].name = "air" =>
                 AtMost(log_in["ground"][i].counts, m.counts)
            /\ \A i \in DOMAIN q : q[i].name = "air" => AtMost(q[i].counts, m.counts)
        BY <1>0, <2>1, <3>3 DEF Genuine, Other
      <4>2. QED
        BY <2>5, <2>6, <3>1, <3>3, <4>1
    <3>4. QED
      BY <3>2, <3>3
  <2>13. InOrder'
    BY <2>3, <2>12 DEF InOrder, Ahead, Ascending
  <2>14. QED
    BY <2>9, <2>10, <2>11, <2>13 DEF IInv
<1>7. CASE SkipStatus(s)
  BY <1>0, <1>1, <1>2, <1>7 DEF SkipStatus, TypeOK, PostedIsLast
<1>8. ASSUME EndRound(s)
      PROVE  /\ pc' \in [Sides -> {"start", "drain", "status", "log"}]
             /\ snap' \in [Sides -> Nat]
             /\ \A t \in Sides : snap'[t] <= stats[t].blocks_in
  <2> DEFINE bound == [t \in Sides |-> stats[t].blocks_in]
  <2>1. \A t \in Sides : /\ bound[t] = stats[t].blocks_in /\ bound[t] \in Nat
                         /\ snap[t] <= bound[t]
    BY <1>0, <1>1
  <2>2. pc \in [Sides -> {"start", "drain", "status", "log"}] /\ snap \in [Sides -> Nat]
    BY <1>0 DEF TypeOK
  <2> HIDE DEF bound
  <2>3. /\ pc' \in [Sides -> {"start", "drain", "status", "log"}]
        /\ snap' \in [Sides -> Nat]
        /\ \A t \in Sides : snap'[t] <= bound[t]
    BY <1>8, <2>1, <2>2, EndRoundFacts
  <2>4. QED
    BY <2>1, <2>3
<1>9. CASE PostLog(s)
  <2>1. /\ last' = [last EXCEPT ![s] = snap[s]]
        /\ posted' = [posted EXCEPT ![s] = posted[s] + snap[s] - last[s]]
    BY <1>9 DEF PostLog, Logged
  <2>2. posted[s] + snap[s] - last[s] = snap[s]
    BY <1>1
  <2>3. posted' = last'
    BY <1>0, <2>1, <2>2 DEF PostedIsLast
  <2>4. last' \in [Sides -> Nat]
    BY <1>0, <1>1, <2>1 DEF TypeOK
  <2>5. /\ pc' \in [Sides -> {"start", "drain", "status", "log"}] /\ snap' \in [Sides -> Nat]
        /\ \A t \in Sides : snap'[t] <= stats[t].blocks_in
    BY <1>9, <1>8 DEF PostLog
  <2>6. QED
    BY <1>2, <1>9, <2>3, <2>4, <2>5 DEF PostLog
<1>10. CASE SkipLog(s)
  <2>1. /\ pc' \in [Sides -> {"start", "drain", "status", "log"}] /\ snap' \in [Sides -> Nat]
        /\ \A t \in Sides : snap'[t] <= stats[t].blocks_in
    BY <1>10, <1>8 DEF SkipLog
  <2>3. last' \in [Sides -> Nat] /\ posted' = last'
    BY <1>0, <1>10 DEF SkipLog, TypeOK, PostedIsLast
  <2>4. QED
    BY <1>2, <1>10, <2>1, <2>3 DEF SkipLog
<1>11. QED
  BY <1>3, <1>4, <1>5, <1>6, <1>7, <1>9, <1>10 DEF LogThread

(* Every step keeps the invariant.                                          *)
LEMMA StepIInv == IInv /\ [Next]_vars => IInv'
<1> SUFFICES ASSUME IInv, [Next]_vars PROVE IInv'
  OBVIOUS
<1>1. CASE \E s \in Sides : (\E p \in Ports : Decode(s, p)) \/ Account(s) \/ AddSendBlock(s)
  BY <1>1, CountIInv
<1>2. CASE (\E s \in Sides : Deliver(s) \/ Lose(s)) \/ Repeat
  BY <1>2, NetworkIInv
<1>3. CASE \E s \in Sides : LogThread(s)
  BY <1>3, LogIInv
<1>4. CASE UNCHANGED vars
  BY <1>4 DEF vars, decodeVars, queueVars, relayVars, logVars, IInv, TypeOK, Accounted,
              ErrorsBounded, OwnStatus, InOrder, Ahead, Ascending, NothingInvented, PostedIsLast
<1>5. QED
  BY <1>1, <1>2, <1>3, <1>4, Zenon DEF Next

(* So it always holds.                                                      *)
LEMMA InductiveIInv == Spec => []IInv
BY InitIInv, StepIInv, PTL DEF Spec

(* For any ports, queue sizes and bounds, whatever is lost or repeated: the *)
(* queues of status messages keep their bounds and no counter, sum or       *)
(* difference becomes negative.                                             *)
THEOREM StatusTypeOK == Spec => []TypeOK
BY InductiveIInv, PTL DEF IInv

(* Everything a side believes of the other, and every status on its way,    *)
(* was counted by the side it names: log_thread never takes its own status  *)
(* that came back for the other's, nor a torn or invented one.              *)
THEOREM StatusGenuine == Spec => []NothingInvented
BY InductiveIInv, PTL DEF IInv

(* Whatever is lost and however the threads interleave, as long as no relay *)
(* repeats a message what a side knows of the other never goes back: the    *)
(* unsigned differences log_thread makes of it cannot wrap.                 *)
THEOREM KnowledgeGrows == Spec => KnownGrows
<1> DEFINE Kept == \A s \in Sides : repeats = 0 => AtMost(other[s].counts, other'[s].counts)
<1>1. ASSUME IInv, [Next]_vars
      PROVE  Kept
  <2>1. \A s \in Sides : AtMost(other[s].counts, other[s].counts)
    BY <1>1, AtMostReflexive DEF IInv, TypeOK, Status
  <2>2. CASE other' = other
    BY <2>1, <2>2
  <2>3. ASSUME NEW s \in Sides, Drain(s)
        PROVE  Kept
    <3>1. s = "ground"
      BY <1>1, <2>3 DEF Drain, IInv, OwnStatus, Sides
    <3>2. /\ log_in["ground"] \in Seq(Status) /\ log_in["ground"] # <<>>
          /\ other' = [other EXCEPT !["ground"] = Heard("ground", Head(log_in["ground"]))]
          /\ other \in [Sides -> Status]
      BY <1>1, <2>3, <3>1 DEF Drain, IInv, TypeOK
    <3>3. /\ Head(log_in["ground"]) \in Status /\ 1 \in DOMAIN log_in["ground"]
          /\ Head(log_in["ground"]) = log_in["ground"][1]
      BY <3>2, TailFacts
    <3>4. repeats = 0 /\ Head(log_in["ground"]).name # "ground" =>
            AtMost(other["ground"].counts, Head(log_in["ground"]).counts)
      BY <1>1, <3>3 DEF IInv, InOrder, Ahead, Status, Sides
    <3>5. repeats = 0 => AtMost(other["ground"].counts, other'["ground"].counts)
      BY <2>1, <3>2, <3>4, SideFacts DEF Heard
    <3>6. other'["air"] = other["air"]
      BY <3>2, SideFacts
    <3>7. QED
      BY <2>1, <3>5, <3>6 DEF Sides
  <2>4. QED
    BY <1>1, <2>2, <2>3
       DEF Next, Decode, Account, AddSendBlock, Deliver, Lose, Sent, Repeat, LogThread,
           StartLog, GetStats, SendStatus, SkipStatus, PostLog, SkipLog,
           vars, decodeVars, queueVars, logVars
<1>2. IInv /\ [Next]_vars => [Kept]_vars
  BY <1>1
<1> HIDE DEF Kept
<1>3. Spec => [][Kept]_vars
  BY <1>2, InductiveIInv, PTL DEF Spec
<1>4. QED
  BY <1>3 DEF KnownGrows, Kept

-----------------------------------------------------------------------------
(******************************* The totals ********************************)

Fields == {"total_packets", "dropped_packets"}

(* What the decode thread has in its hands, as TotalsAdd takes it.          *)
InHandOf(s, f) ==
  IF decoding[s] = NoPort THEN 0 ELSE dec[s][decoding[s]][f] - prev[s][decoding[s]][f]

(* A side's totals: a decoder's counters are finite in number, and each is  *)
(* in the totals or in the decode thread's hands.                           *)
AddsUp(s) ==
  /\ \A f \in Fields : IsFiniteSet(CountedBy(s, f))
  /\ stats[s].blocks_in + InHandOf(s, "total_packets") = Cardinality(CountedBy(s, "total_packets"))
  /\ stats[s].block_errors + InHandOf(s, "dropped_packets")
       = Cardinality(CountedBy(s, "dropped_packets"))

(* The inductive invariant of the totals.                                   *)
TotalsInv == IInv /\ \A s \in Sides : AddsUp(s)

(* It says what TotalsAdd says.                                             *)
LEMMA TotalsInvAdds == TotalsInv => TotalsAdd
BY DEF TotalsInv, AddsUp, TotalsAdd, Total, InHandOf

(* Pairs of a port and the number of a packet on it.                        *)
LEMMA CountedPairs ==
  ASSUME NEW d \in [Ports -> Nat], NEW x
  PROVE  x \in UNION {{p} \X (1..d[p]) : p \in Ports}
           <=> \E p \in Ports, k \in Nat : x = <<p, k>> /\ 1 <= k /\ k <= d[p]
<1>1. \A p \in Ports : d[p] \in Nat
  OBVIOUS
<1>2. ASSUME NEW p \in Ports
      PROVE  x \in {p} \X (1..d[p]) <=> \E k \in Nat : x = <<p, k>> /\ 1 <= k /\ k <= d[p]
  <2>1. d[p] \in Nat
    BY <1>1
  <2>2. ASSUME x \in {p} \X (1..d[p])
        PROVE  \E k \in Nat : x = <<p, k>> /\ 1 <= k /\ k <= d[p]
    BY <2>1, <2>2
  <2>3. ASSUME NEW k \in Nat, x = <<p, k>>, 1 <= k, k <= d[p]
        PROVE  x \in {p} \X (1..d[p])
    BY <2>1, <2>3
  <2>4. QED
    BY <2>2, <2>3
<1>3. QED
  BY <1>2

(* n packets more on a port are n pairs more.                               *)
LEMMA PairsMore ==
  ASSUME NEW d \in [Ports -> Nat], NEW e \in [Ports -> Nat], NEW p \in Ports, NEW n \in Nat,
         e[p] = d[p] + n, \A q \in Ports : q # p => e[q] = d[q],
         IsFiniteSet(UNION {{q} \X (1..d[q]) : q \in Ports})
  PROVE  /\ IsFiniteSet(UNION {{q} \X (1..e[q]) : q \in Ports})
         /\ Cardinality(UNION {{q} \X (1..e[q]) : q \in Ports})
              = Cardinality(UNION {{q} \X (1..d[q]) : q \in Ports}) + n
<1>1. PICK D : D = UNION {{q} \X (1..d[q]) : q \in Ports}
  OBVIOUS
<1>2. PICK E : E = UNION {{q} \X (1..e[q]) : q \in Ports}
  OBVIOUS
<1>3. \A x : x \in D <=> \E q \in Ports, k \in Nat : x = <<q, k>> /\ 1 <= k /\ k <= d[q]
  BY <1>1, CountedPairs
<1>4. \A x : x \in E <=> \E q \in Ports, k \in Nat : x = <<q, k>> /\ 1 <= k /\ k <= e[q]
  BY <1>2, CountedPairs
<1>5. d[p] \in Nat /\ e[p] \in Nat
  OBVIOUS
<1>6. PICK I : I = (d[p] + 1)..e[p]
  OBVIOUS
<1>7. PICK A : A = {p} \X I
  OBVIOUS
<1>8. \A x : x \in A <=> \E k \in Nat : x = <<p, k>> /\ d[p] + 1 <= k /\ k <= e[p]
  BY <1>5, <1>6, <1>7
<1>9. IsFiniteSet(A) /\ Cardinality(A) = n
  <2>1. IsFiniteSet(I) /\ Cardinality(I) = n
    BY <1>5, <1>6, FS_Interval
  <2>2. IsFiniteSet({p}) /\ Cardinality({p}) = 1
    BY FS_Singleton, Zenon
  <2>3. IsFiniteSet(A) /\ Cardinality(A) = Cardinality({p}) * Cardinality(I)
    BY <1>7, <2>1, <2>2, FS_Product
  <2>4. QED
    BY <2>1, <2>2, <2>3
<1>10. D \cap A = {}
  <2>1. SUFFICES ASSUME NEW x, x \in D, x \in A PROVE FALSE
    OBVIOUS
  <2>2. PICK q \in Ports, k \in Nat : x = <<q, k>> /\ 1 <= k /\ k <= d[q]
    BY <1>3, <2>1
  <2>3. PICK j \in Nat : x = <<p, j>> /\ d[p] + 1 <= j /\ j <= e[p]
    BY <1>8, <2>1
  <2>4. q = p /\ k = j
    BY <2>2, <2>3
  <2>5. QED
    BY <1>5, <2>2, <2>3, <2>4
<1>11. E = D \cup A
  <2>1. ASSUME NEW x, x \in E PROVE x \in D \/ x \in A
    <3>1. PICK q \in Ports, k \in Nat : x = <<q, k>> /\ 1 <= k /\ k <= e[q]
      BY <1>4, <2>1
    <3>2. CASE q # p
      BY <1>3, <3>1, <3>2
    <3>3. CASE q = p
      <4>1. k <= d[p] \/ d[p] + 1 <= k
        BY <1>5, <3>1, <3>3
      <4>2. QED
        BY <1>3, <1>8, <3>1, <3>3, <4>1
    <3>4. QED
      BY <3>2, <3>3
  <2>2. ASSUME NEW x, x \in D PROVE x \in E
    <3>1. PICK q \in Ports, k \in Nat : x = <<q, k>> /\ 1 <= k /\ k <= d[q]
      BY <1>3, <2>2
    <3>2. d[q] <= e[q] /\ d[q] \in Nat /\ e[q] \in Nat
      BY <1>5
    <3>3. k <= e[q]
      BY <3>1, <3>2
    <3>4. QED
      BY <1>4, <3>1, <3>3
  <2>3. ASSUME NEW x, x \in A PROVE x \in E
    <3>1. PICK k \in Nat : x = <<p, k>> /\ d[p] + 1 <= k /\ k <= e[p]
      BY <1>8, <2>3
    <3>2. 1 <= k
      BY <1>5, <3>1
    <3>3. QED
      BY <1>4, <3>1, <3>2
  <2>4. QED
    BY <2>1, <2>2, <2>3
<1>12. IsFiniteSet(E) /\ Cardinality(E) = Cardinality(D) + n
  <2>1. IsFiniteSet(D)
    BY <1>1
  <2>2. /\ IsFiniteSet(D \cup A)
        /\ Cardinality(D \cup A) = Cardinality(D) + Cardinality(A) - Cardinality(D \cap A)
    BY <1>9, <2>1, FS_Union
  <2>3. Cardinality(D \cap A) = 0
    BY <1>10, FS_EmptySet
  <2>4. Cardinality(D) \in Nat
    BY <2>1, FS_CardinalityType
  <2>5. QED
    BY <1>9, <1>11, <2>2, <2>3, <2>4
<1>13. QED
  BY <1>1, <1>2, <1>12

(* CountedBy depends on the field's value at each port only.                *)
LEMMA CountedByField ==
  ASSUME TypeOK, NEW s \in Sides, NEW f \in Fields
  PROVE  /\ [p \in Ports |-> dec[s][p][f]] \in [Ports -> Nat]
         /\ CountedBy(s, f) = UNION {{p} \X (1..[q \in Ports |-> dec[s][q][f]][p]) : p \in Ports}
<1>1. \A p \in Ports : dec[s][p] \in DecoderStats
  BY DEF TypeOK
<1>2. \A p \in Ports : dec[s][p][f] \in Nat
  BY <1>1 DEF DecoderStats, Fields
<1>3. QED
  BY <1>2 DEF CountedBy

(* The same of the state after a step.                                      *)
LEMMA CountedByFieldNext ==
  ASSUME TypeOK', NEW s \in Sides, NEW f \in Fields
  PROVE  /\ [p \in Ports |-> dec'[s][p][f]] \in [Ports -> Nat]
         /\ CountedBy(s, f)' = UNION {{p} \X (1..[q \in Ports |-> dec'[s][q][f]][p]) : p \in Ports}
<1>1. \A p \in Ports : dec'[s][p] \in DecoderStats
  BY DEF TypeOK
<1>2. \A p \in Ports : dec'[s][p][f] \in Nat
  BY <1>1 DEF DecoderStats, Fields
<1>3. QED
  BY <1>2 DEF CountedBy

(* A field that one port's decoder counts up.                               *)
LEMMA FieldCounted ==
  ASSUME TypeOK, TypeOK', NEW s \in Sides, NEW f \in Fields, NEW p \in Ports, NEW n \in Nat,
         dec'[s][p][f] = dec[s][p][f] + n,
         \A q \in Ports : q # p => dec'[s][q] = dec[s][q],
         IsFiniteSet(CountedBy(s, f))
  PROVE  /\ IsFiniteSet(CountedBy(s, f)')
         /\ Cardinality(CountedBy(s, f)') = Cardinality(CountedBy(s, f)) + n
<1>1. PICK d : d = [q \in Ports |-> dec[s][q][f]]
  OBVIOUS
<1>2. PICK e : e = [q \in Ports |-> dec'[s][q][f]]
  OBVIOUS
<1>3. d \in [Ports -> Nat] /\ CountedBy(s, f) = UNION {{q} \X (1..d[q]) : q \in Ports}
  BY <1>1, CountedByField
<1>4. e \in [Ports -> Nat] /\ CountedBy(s, f)' = UNION {{q} \X (1..e[q]) : q \in Ports}
  BY <1>2, CountedByFieldNext
<1>5. e[p] = d[p] + n /\ \A q \in Ports : q # p => e[q] = d[q]
  BY <1>1, <1>2
<1>6. IsFiniteSet(UNION {{q} \X (1..d[q]) : q \in Ports})
  BY <1>3
<1>7. QED
  BY <1>3, <1>4, <1>5, <1>6, PairsMore

(* A side whose counters stay as they are.                                  *)
LEMMA AddsUpKept ==
  ASSUME NEW s \in Sides, AddsUp(s), dec'[s] = dec[s], prev'[s] = prev[s],
         decoding'[s] = decoding[s], stats'[s].blocks_in = stats[s].blocks_in,
         stats'[s].block_errors = stats[s].block_errors
  PROVE  AddsUp(s)'
<1>1. \A f : CountedBy(s, f)' = CountedBy(s, f)
  BY DEF CountedBy
<1>2. \A f : InHandOf(s, f)' = InHandOf(s, f)
  BY DEF InHandOf
<1>3. QED
  BY <1>1, <1>2 DEF AddsUp

(* A packet decoded is in the decode thread's hands, and in no total yet.   *)
LEMMA DecodeAdds ==
  ASSUME TotalsInv, TypeOK', NEW s \in Sides, NEW p \in Ports, Decode(s, p)
  PROVE  \A t \in Sides : AddsUp(t)'
<1> USE DEF TotalsInv, IInv
<1>0. PICK lost \in 0..MaxLost[p] : dec' = DecodedOne(dec, s, p, lost)
  BY Zenon DEF Decode, DecodedOne
<1>1. lost \in Nat /\ dec' = DecodedOne(dec, s, p, lost)
  BY <1>0, LossFacts
<1>2. /\ dec'[s][p].total_packets = dec[s][p].total_packets + 1
      /\ dec'[s][p].dropped_packets = dec[s][p].dropped_packets + lost
      /\ \A q \in Ports : q # p => dec'[s][q] = dec[s][q]
      /\ \A t \in Sides : t # s => dec'[t] = dec[t]
  <2>1. dec \in [Sides -> [Ports -> DecoderStats]]
    BY DEF TypeOK
  <2>2. QED
    BY <1>1, <2>1, DecodedOnce
<1>3. /\ decoding[s] = NoPort /\ prev' = prev /\ stats' = stats
      /\ decoding'[s] = p /\ \A t \in Sides : t # s => decoding'[t] = decoding[t]
  BY DEF Decode, TypeOK
<1>4. p # NoPort
  BY StatusAssumption DEF StatusAssumption, NoPort
<1>5. prev[s][p] = dec[s][p]
  BY <1>3, <1>4 DEF Accounted
<1>6. PICK a \in Nat : a = dec[s][p].total_packets
  BY DEF TypeOK, DecoderStats
<1>7. PICK c \in Nat : c = dec[s][p].dropped_packets
  BY DEF TypeOK, DecoderStats
<1>8. PICK m \in Nat : m = stats[s].blocks_in
  BY DEF TypeOK, Counters
<1>9. PICK n \in Nat : n = stats[s].block_errors
  BY DEF TypeOK, Counters
<1>10. /\ InHandOf(s, "total_packets") = 0 /\ InHandOf(s, "dropped_packets") = 0
  BY <1>3 DEF InHandOf
<1>11. InHandOf(s, "total_packets")' = (a + 1) - a /\ InHandOf(s, "dropped_packets")' = (c + lost) - c
  BY <1>2, <1>3, <1>4, <1>5, <1>6, <1>7 DEF InHandOf
<1>12. /\ IsFiniteSet(CountedBy(s, "total_packets")) /\ IsFiniteSet(CountedBy(s, "dropped_packets"))
       /\ Cardinality(CountedBy(s, "total_packets")) = m
       /\ Cardinality(CountedBy(s, "dropped_packets")) = n
  BY <1>8, <1>9, <1>10 DEF AddsUp, Fields
<1>13. /\ IsFiniteSet(CountedBy(s, "total_packets")')
       /\ Cardinality(CountedBy(s, "total_packets")') = m + 1
  <2>1. dec'[s][p]["total_packets"] = dec[s][p]["total_packets"] + 1
    BY <1>2
  <2>2. QED
    BY <1>2, <1>12, <2>1, FieldCounted DEF Fields
<1>14. /\ IsFiniteSet(CountedBy(s, "dropped_packets")')
       /\ Cardinality(CountedBy(s, "dropped_packets")') = n + lost
  <2>1. dec'[s][p]["dropped_packets"] = dec[s][p]["dropped_packets"] + lost
    BY <1>2
  <2>2. QED
    BY <1>2, <1>12, <2>1, FieldCounted DEF Fields
<1>15. AddsUp(s)'
  <2>1. stats'[s].blocks_in = m /\ stats'[s].block_errors = n
    BY <1>3, <1>8, <1>9
  <2>2. m + InHandOf(s, "total_packets")' = m + 1 /\ n + InHandOf(s, "dropped_packets")' = n + lost
    BY <1>11
  <2>3. QED
    BY <1>13, <1>14, <2>1, <2>2 DEF AddsUp, Fields
<1>16. ASSUME NEW t \in Sides, t # s
       PROVE  AddsUp(t)'
  <2>1. /\ AddsUp(t) /\ dec'[t] = dec[t] /\ prev'[t] = prev[t] /\ decoding'[t] = decoding[t]
        /\ stats'[t] = stats[t]
    BY <1>2, <1>3, <1>16
  <2>2. QED
    BY <2>1, AddsUpKept
<1>17. QED
  BY <1>15, <1>16

(* add() moves what is in hand into the totals, all of it and once.         *)
LEMMA AccountAdds ==
  ASSUME TotalsInv, NEW s \in Sides, Account(s)
  PROVE  \A t \in Sides : AddsUp(t)'
<1> USE DEF TotalsInv, IInv
<1>1. PICK p : p = decoding[s]
  OBVIOUS
<1>2. p \in Ports /\ p # NoPort /\ dec[s][p] \in DecoderStats /\ prev[s][p] \in DecoderStats
  BY <1>1 DEF Account, TypeOK
<1>3. stats[s] \in Counters /\ stats \in [Sides -> Counters]
  BY DEF TypeOK
<1>4. stats' = [stats EXCEPT ![s] = Added(@, dec[s][p], prev[s][p])]
  BY <1>1 DEF Account
<1>5. PICK r : r = Added(stats[s], dec[s][p], prev[s][p])
  OBVIOUS
<1>6. stats'[s] = r /\ \A t \in Sides : t # s => stats'[t] = stats[t]
  BY <1>3, <1>4, <1>5
<1>7. /\ r.blocks_in = stats[s].blocks_in + dec[s][p].total_packets - prev[s][p].total_packets
      /\ r.block_errors = stats[s].block_errors + dec[s][p].dropped_packets - prev[s][p].dropped_packets
  <2>1. PICK x : x = stats[s].blocks_in + dec[s][p].total_packets - prev[s][p].total_packets
    OBVIOUS
  <2>2. PICK y : y = stats[s].block_errors + dec[s][p].dropped_packets - prev[s][p].dropped_packets
    OBVIOUS
  <2>3. r = [stats[s] EXCEPT !.blocks_in = x, !.block_errors = y]
    BY <1>5, <2>1, <2>2 DEF Added
  <2>4. DOMAIN stats[s] = {"blocks_in", "block_errors", "blocks_out", "inject_errors"}
    BY <1>3 DEF Counters
  <2>5. r.blocks_in = x /\ r.block_errors = y
    BY <2>3, <2>4
  <2>6. QED
    BY <2>1, <2>2, <2>5
<1>8. dec' = dec /\ decoding'[s] = NoPort /\ \A t \in Sides : t # s => decoding'[t] = decoding[t]
  BY DEF Account, TypeOK
<1>9. \A t \in Sides : t # s => prev'[t] = prev[t]
  BY DEF Account, TypeOK
<1>10. /\ InHandOf(s, "total_packets") = dec[s][p].total_packets - prev[s][p].total_packets
       /\ InHandOf(s, "dropped_packets") = dec[s][p].dropped_packets - prev[s][p].dropped_packets
       /\ InHandOf(s, "total_packets")' = 0 /\ InHandOf(s, "dropped_packets")' = 0
  BY <1>1, <1>2, <1>8 DEF InHandOf
<1>11. \A f : CountedBy(s, f)' = CountedBy(s, f)
  BY <1>8 DEF CountedBy
<1>12. /\ stats'[s].blocks_in + 0 = stats[s].blocks_in + InHandOf(s, "total_packets")
       /\ stats'[s].block_errors + 0 = stats[s].block_errors + InHandOf(s, "dropped_packets")
  BY <1>2, <1>3, <1>6, <1>7, <1>10 DEF Counters, DecoderStats
<1>13. AddsUp(s)'
  BY <1>10, <1>11, <1>12 DEF AddsUp
<1>14. ASSUME NEW t \in Sides, t # s
       PROVE  AddsUp(t)'
  <2>1. /\ AddsUp(t) /\ dec'[t] = dec[t] /\ prev'[t] = prev[t] /\ decoding'[t] = decoding[t]
        /\ stats'[t] = stats[t]
    BY <1>6, <1>8, <1>9, <1>14
  <2>2. QED
    BY <2>1, AddsUpKept
<1>15. QED
  BY <1>13, <1>14

(* What the decoders counted is in the totals at the start.                 *)
LEMMA InitTotals == Init => TotalsInv
<1> SUFFICES ASSUME Init PROVE TotalsInv
  OBVIOUS
<1>1. IInv
  BY InitIInv
<1>2. ASSUME NEW s \in Sides
      PROVE  AddsUp(s)
  <2>1. /\ decoding[s] = NoPort /\ stats[s].blocks_in = 0 /\ stats[s].block_errors = 0
        /\ \A p \in Ports : dec[s][p] = [total_packets |-> 0, dropped_packets |-> 0]
    BY DEF Init, Zero
  <2>2. \A p \in Ports : dec[s][p]["total_packets"] = 0 /\ dec[s][p]["dropped_packets"] = 0
    BY <2>1
  <2>3. ASSUME NEW f \in Fields
        PROVE  CountedBy(s, f) = {}
    <3>1. \A p \in Ports : dec[s][p][f] = 0
      BY <2>2 DEF Fields
    <3>2. \A p \in Ports : {p} \X (1..dec[s][p][f]) = {}
      BY <3>1
    <3>3. QED
      BY <3>2 DEF CountedBy
  <2>4. InHandOf(s, "total_packets") = 0 /\ InHandOf(s, "dropped_packets") = 0
    BY <2>1 DEF InHandOf
  <2>5. QED
    BY <2>1, <2>3, <2>4, FS_EmptySet DEF AddsUp, Fields
<1>3. QED
  BY <1>1, <1>2 DEF TotalsInv

(* Every step keeps the totals.                                             *)
LEMMA StepTotals == TotalsInv /\ [Next]_vars => TotalsInv'
<1> SUFFICES ASSUME TotalsInv, [Next]_vars PROVE TotalsInv'
  OBVIOUS
<1>1. IInv' /\ IInv /\ TypeOK'
  BY StepIInv DEF TotalsInv, IInv
<1>2. CASE \E s \in Sides : \E p \in Ports : Decode(s, p)
  BY <1>1, <1>2, DecodeAdds DEF TotalsInv
<1>3. CASE \E s \in Sides : Account(s)
  BY <1>1, <1>3, AccountAdds DEF TotalsInv
<1>4. ASSUME NEW s \in Sides, AddSendBlock(s)
      PROVE  TotalsInv'
  <2>1. PICK error \in 0..1 : stats' = SentOne(stats, s, error)
    BY <1>4, Zenon DEF AddSendBlock, SentOne
  <2>2. stats \in [Sides -> Counters]
    BY <1>1 DEF IInv, TypeOK
  <2>3. \A t \in Sides : /\ stats'[t].blocks_in = stats[t].blocks_in
                         /\ stats'[t].block_errors = stats[t].block_errors
    <3>1. /\ stats'[s].blocks_in = stats[s].blocks_in
          /\ stats'[s].block_errors = stats[s].block_errors
      BY <2>1, <2>2, SentOnce
    <3>2. \A t \in Sides : t # s => stats'[t] = stats[t]
      BY <2>1, <2>2, SentOnce
    <3>3. QED
      BY <3>1, <3>2
  <2>4. dec' = dec /\ prev' = prev /\ decoding' = decoding
    BY <1>4 DEF AddSendBlock, decodeVars
  <2>5. \A t \in Sides : AddsUp(t)'
    <3>1. \A t \in Sides : AddsUp(t)
      BY DEF TotalsInv
    <3>2. \A t \in Sides : dec'[t] = dec[t] /\ prev'[t] = prev[t] /\ decoding'[t] = decoding[t]
      BY <2>4
    <3>3. QED
      BY <2>3, <3>1, <3>2, AddsUpKept
  <2>6. QED
    BY <1>1, <2>5 DEF TotalsInv
<1>5. CASE UNCHANGED <<decodeVars, stats>>
  <2>1. dec' = dec /\ prev' = prev /\ decoding' = decoding /\ stats' = stats
    BY <1>5 DEF decodeVars
  <2>2. \A t \in Sides : AddsUp(t)'
    BY <2>1, AddsUpKept DEF TotalsInv
  <2>3. QED
    BY <1>1, <2>2 DEF TotalsInv
<1>6. ASSUME NEW s \in Sides, Deliver(s) \/ Lose(s) \/ LogThread(s)
      PROVE  UNCHANGED <<decodeVars, stats>>
  BY <1>6 DEF Deliver, Lose, Sent, LogThread, StartLog, Drain, GetStats, SendStatus, SkipStatus,
              PostLog, SkipLog
<1>7. Repeat => UNCHANGED <<decodeVars, stats>>
  BY DEF Repeat
<1>8. UNCHANGED vars => UNCHANGED <<decodeVars, stats>>
  BY DEF vars
<1>9. QED
  BY <1>2, <1>3, <1>4, <1>5, <1>6, <1>7, <1>8, Zenon DEF Next

(* For any ports, and however the decode thread of each side is scheduled:  *)
(* every packet and every loss a decoder counted is in the totals of        *)
(* TransferStats once, except what that thread has in its hands.            *)
THEOREM TotalsAddUp == Spec => []TotalsAdd
BY InitTotals, StepTotals, TotalsInvAdds, PTL DEF Spec

=============================================================================
