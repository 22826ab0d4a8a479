----------------------------- MODULE RadioProofs -----------------------------
(***************************************************************************)
(* For any bridges, cards, reach, links, MTU and packet lengths: what is   *)
(* sent on a link comes out of the decoder of that link, whole whenever it *)
(* leaves room for its length; where the repeaters' cards fit, it is       *)
(* delivered only by sockets that listen for the side it was sent for,     *)
(* whatever is relayed and whichever bridges change sides; and the packets *)
(* counted as dropped are those missing and one for each wrap of the       *)
(* number, as long as packets come in turn.                                *)
(***************************************************************************)
EXTENDS Radio, TLAPS, SequenceTheorems, FiniteSetTheorems, WellFoundedInduction

Sockets == [card : DOMAIN Reach, mode : Modes]

Packets ==
  [from : Bridges, link : Links, n : Nat, seq : 0..(SeqMod - 1), turn : Nat, side : Modes,
   length : Lengths]

(* Messages as they wait in a relay queue: of the size every packet has,    *)
(* on the port of their link.                                               *)
Messages ==
  {m \in [port : Links, link_type : {"data", "short"}, size : {PacketSize}, pkt : Packets] :
     m.port = m.pkt.link}

(* What the decoders may release.                                           *)
Arrivals ==
  {d \in [from : Bridges, link : Links, n : Nat, turn : Nat, side : Modes, heard_as : Modes,
          port : Links, fits : BOOLEAN, whole : BOOLEAN] :
     d.port = d.link /\ (d.fits <=> d.whole)}

DecoderStates == [prev : 0..(SeqMod - 1), dropped : Nat]
Queues == [q : Seq(Messages)]

SocketsTyped ==
  /\ mode \in [Bridges -> Modes]
  /\ send_sock \in [Bridges -> Sockets \cup {None}]
  /\ relay_sock \in [Bridges -> Sockets \cup {None}]
  /\ recv_sock \in [Bridges -> Sockets \cup {None}]

CardsOwn ==
  \A b \in Bridges :
    /\ send_sock[b] # None => send_sock[b].card \in Names(b)
    /\ relay_sock[b] # None => relay_sock[b].card \in Names(b)
    /\ recv_sock[b] # None => recv_sock[b].card \in Names(b)

QueuesTyped ==
  /\ relay_queue \in [Bridges -> Queues \cup {None}]
  /\ \A b \in Bridges : relay_queue[b] # None => Len(relay_queue[b].q) <= RelayBound

QueuesThere == \A b \in Bridges : relay_sock[b] # None => relay_queue[b] # None

CountersTyped ==
  /\ seq_num \in [Bridges -> [Links -> 1..(SeqMod - 1)]]
  /\ sent \in [Bridges -> [Links -> Nat]]
  /\ turns \in [Bridges -> [Links -> Nat]]
  /\ \A b \in Bridges : \A l \in Links : sent[b][l] <= Traffic[b][l + 1]
  /\ configs \in 0..MaxConfigs
  /\ refused = 0

ReceivedTyped ==
  /\ decoders \in [Bridges -> [Ports -> DecoderStates]]
  /\ delivered \in [Bridges -> Seq(Arrivals)]

(* The inductive invariant for any cards: a message in a relay queue is one *)
(* that could have come from the air, so relaying it again changes nothing. *)
IInv ==
  SocketsTyped /\ CardsOwn /\ QueuesTyped /\ QueuesThere /\ CountersTyped /\ ReceivedTyped

(* The side a packet was sent for is that of its bridge if that one fits.   *)
Sided(pkt) == Fits(pkt.from) => pkt.side = GlobalMode[pkt.from]

MessagesFor(b) ==
  {m \in Messages : Sided(m.pkt) /\ (Fits(b) => m.pkt.side # GlobalMode[b])}
ArrivalsFor(b) ==
  {d \in Arrivals : /\ d.side # d.heard_as
                    /\ Fits(d.from) /\ Fits(b) => GlobalMode[d.from] # GlobalMode[b]}

(* What is added to it where the repeaters' cards fit: mode of a bridge     *)
(* that fits never leaves its value from the start, though RecvSocket       *)
(* assigns it, and so every socket of it speaks or listens for one side for *)
(* good; and only such bridges relay.                                       *)
SidesKept ==
  \A b \in Bridges :
    /\ relay_sock[b] # None => Fits(b)
    /\ Fits(b) => /\ mode[b] = GlobalMode[b]
                  /\ send_sock[b] # None => send_sock[b].mode = GlobalMode[b]
                  /\ recv_sock[b] # None => recv_sock[b].mode = GlobalMode[b]
                  /\ relay_sock[b] # None => relay_sock[b].mode # GlobalMode[b]

OnlyOthers ==
  \A b \in Bridges :
    /\ relay_queue[b] # None => relay_queue[b].q \in Seq(MessagesFor(b))
    /\ delivered[b] \in Seq(ArrivalsFor(b))

SidesInv == RelaysFit => SidesKept /\ OnlyOthers

-----------------------------------------------------------------------------
(****************************** The constants *****************************)

(* A link is a port, and has one of the types.                              *)
LEMMA LinkFacts ==
  /\ Len(LinkTypes) \in Nat /\ Len(LinkTypes) <= 16
  /\ \A l \in Links : l \in Ports /\ l \in Nat /\ LinkTypes[l + 1] \in {"data", "short", "rts"}
<1>1. LinkTypes \in Seq({"data", "short", "rts"}) /\ Len(LinkTypes) <= 16
  BY RadioAssumption DEF RadioAssumption, RAW_SOCKET_NPORTS
<1>2. Len(LinkTypes) \in Nat
  BY <1>1
<1>3. \A l \in Links : l \in Ports /\ l \in Nat /\ l + 1 \in 1..Len(LinkTypes)
  BY <1>1, <1>2 DEF Links, Ports, RAW_SOCKET_NPORTS
<1>4. \A i \in 1..Len(LinkTypes) : LinkTypes[i] \in {"data", "short", "rts"}
  BY <1>1
<1>5. QED
  BY <1>1, <1>2, <1>3, <1>4, Zenon

(* No packet is too large for send(), with any header.                      *)
LEMMA SizeFacts ==
  /\ PacketSize \in Nat /\ BlockSize \in Nat
  /\ \A type : ~TooLarge(type, PacketSize)
<1>1. Mtu \in Nat /\ BlockSize > 2
  BY RadioAssumption DEF RadioAssumption
<1>2. BlockSize = Mtu - 30
  BY <1>1 DEF BlockSize, FEC_OVERHEAD, RAW_SOCKET_OVERHEAD
<1>3. PacketSize = Mtu - 26
  BY <1>1, <1>2 DEF PacketSize, FEC_OVERHEAD
<1>4. \A type : ~TooLarge(type, PacketSize)
  BY <1>1, <1>3 DEF TooLarge, HeaderLen
<1>5. QED
  BY <1>1, <1>2, <1>3, <1>4

(* The bound on the packets of a link.                                      *)
LEMMA TrafficFacts ==
  ASSUME NEW b \in Bridges, NEW l \in Links
  PROVE  Traffic[b][l + 1] \in Nat
<1>1. l + 1 \in 1..Len(LinkTypes)
  BY LinkFacts DEF Links
<1>2. QED
  BY <1>1, RadioAssumption DEF RadioAssumption

(* A socket and a queue are told from None by their fields.                 *)
LEMMA NotNone ==
  /\ \A s \in Sockets : s # None
  /\ \A r \in Queues : r # None
  /\ \A s : [q |-> s] # None
BY DEF Sockets, Queues, None

-----------------------------------------------------------------------------
(******************************** Choosing a card **************************)

(* Numbers have a least: what CHOOSE needs in First and HandedMode.         *)
LEMMA LeastOf ==
  ASSUME NEW S \in SUBSET Nat, S # {}
  PROVE  \E x \in S : \A y \in S : x <= y
<1>1. PICK x \in S : \A y \in S : ~(<<y, x>> \in OpToRel(<, Nat))
  BY NatLessThanWellFounded, WFMin
<1>2. ASSUME NEW y \in S PROVE x <= y
  <2>1. x \in Nat /\ y \in Nat
    OBVIOUS
  <2>2. ~(y < x)
    BY <1>1, <2>1 DEF OpToRel
  <2>3. QED
    BY <2>1, <2>2
<1>3. QED
  BY <1>2

(* First() is one of its arguments.                                         *)
LEMMA FirstFacts ==
  ASSUME NEW n \in Nat, NEW S, S \subseteq 1..n, S # {}
  PROVE  First(S) \in S
<1>1. S \in SUBSET Nat
  <2>1. \A k \in 1..n : k \in Nat
    OBVIOUS
  <2>2. QED
    BY <2>1
<1>2. \E x \in S : \A y \in S : x <= y
  BY <1>1, LeastOf
<1>3. QED
  BY <1>2 DEF First

(* So is the last card that named a mode.                                   *)
LEMMA LastFacts ==
  ASSUME NEW n \in Nat, NEW S, S \subseteq 1..n, S # {}
  PROVE  (CHOOSE j \in S : \A k \in S : k <= j) \in S
<1> DEFINE T == {x \in Nat : \E k \in S : x = n - k}
<1>1. \A k \in S : k \in Int /\ n - k \in T
  <2>1. \A k \in 1..n : k \in Int /\ n - k \in Nat
    OBVIOUS
  <2>2. QED
    BY <2>1
<1>2. T \in SUBSET Nat /\ T # {}
  BY <1>1
<1>3. PICK x \in T : \A y \in T : x <= y
  BY <1>2, LeastOf
<1>4. PICK j \in S : x = n - j
  OBVIOUS
<1>5. \A k \in S : k <= j
  <2>1. TAKE k \in S
  <2>2. x <= n - k /\ k \in Int /\ j \in Int
    BY <1>1, <1>3
  <2>3. QED
    BY <1>4, <2>2
<1>6. QED
  BY <1>5

(* The cards of a bridge, as its list gives them.                           *)
LEMMA CardFacts ==
  ASSUME NEW b \in Bridges
  PROVE  /\ Len(Cards[b]) \in Nat
         /\ \A i \in 1..Len(Cards[b]) :
              /\ Cards[b][i] \in CardsOf(b) /\ Cards[b][i].name \in Names(b)
              /\ Cards[b][i].name \in DOMAIN Reach
              /\ Cards[b][i].mode \in Modes \cup {""}
<1> DEFINE Entries == [name : DOMAIN Reach, type : CardTypes, mode : Modes \cup {""}]
<1>1. Cards[b] \in Seq(Entries)
  BY RadioAssumption DEF RadioAssumption
<1> HIDE DEF Entries
<1>2. Len(Cards[b]) \in Nat
  BY <1>1, LenProperties, Zenon
<1>3. ASSUME NEW i \in 1..Len(Cards[b])
      PROVE  /\ Cards[b][i] \in CardsOf(b) /\ Cards[b][i].name \in Names(b)
             /\ Cards[b][i].name \in DOMAIN Reach
             /\ Cards[b][i].mode \in Modes \cup {""}
  <2>1. Cards[b][i] \in Entries
    BY <1>1, ElementOfSeq
  <2>2. Cards[b][i] \in CardsOf(b)
    BY DEF CardsOf
  <2>3. Cards[b][i].name \in Names(b)
    BY <2>2 DEF Names
  <2>4. QED
    BY <2>1, <2>2, <2>3 DEF Entries
<1>4. QED
  BY <1>2, <1>3

(* A socket opened on a proper card of the bridge, for the side that card   *)
(* stands for.                                                              *)
SendsOn(b, transmit, m, sock) ==
  \E i \in 1..Len(Cards[b]) :
    /\ Proper(Cards[b][i], transmit, ~transmit)
    /\ sock = [card |-> Cards[b][i].name, mode |-> Override(Cards[b][i], m)]

(* Transmit and relay sockets are of that kind.                             *)
LEMMA SendSocketFacts ==
  ASSUME NEW b \in Bridges, NEW works, NEW transmit \in BOOLEAN, NEW m \in Modes,
         SendSocket(Cards[b], works, transmit, m) # None
  PROVE  SendsOn(b, transmit, m, SendSocket(Cards[b], works, transmit, m))
<1> DEFINE fit == {i \in 1..Len(Cards[b]) : /\ Proper(Cards[b][i], transmit, ~transmit)
                                            /\ Cards[b][i].name \in works}
<1>1. fit # {}
  BY DEF SendSocket
<1>2. fit \subseteq 1..Len(Cards[b]) /\ Len(Cards[b]) \in Nat
  BY CardFacts, Zenon
<1>3. First(fit) \in fit
  BY <1>1, <1>2, FirstFacts, Zenon
<1>4. SendSocket(Cards[b], works, transmit, m)
        = [card |-> Cards[b][First(fit)].name, mode |-> Override(Cards[b][First(fit)], m)]
  BY <1>1 DEF SendSocket
<1>5. QED
  BY <1>3, <1>4 DEF SendsOn

(* The mode handed on is the one handed in or that of a card tried before.  *)
LEMMA HandedFacts ==
  ASSUME NEW b \in Bridges, NEW tried, tried \subseteq 1..Len(Cards[b]), NEW i, NEW m
  PROVE  \/ HandedMode(Cards[b], tried, i, m) = m
         \/ \E j \in tried : /\ Cards[b][j].mode # ""
                             /\ HandedMode(Cards[b], tried, i, m) = Cards[b][j].mode
<1> DEFINE own == {j \in tried : j < i /\ Override(Cards[b][j], "") # ""}
           last == CHOOSE j \in own : \A k \in own : k <= j
<1>1. CASE own = {}
  BY <1>1 DEF HandedMode
<1>2. CASE own # {}
  <2>1. last \in own
    BY <1>2, CardFacts, LastFacts
  <2>2. HandedMode(Cards[b], tried, i, m) = Override(Cards[b][last], m)
    BY <1>2 DEF HandedMode
  <2>3. Cards[b][last].mode # ""
    BY <2>1 DEF Override
  <2>4. QED
    BY <2>1, <2>2, <2>3 DEF Override
<1>3. QED
  BY <1>1, <1>2

(* A mode the receive loop may come to: the one it began with, or that of a *)
(* card it may use.                                                         *)
Handed(b, m, x) ==
  \/ x = m
  \/ \E j \in 1..Len(Cards[b]) : /\ Proper(Cards[b][j], FALSE, FALSE)
                                 /\ Cards[b][j].mode # "" /\ x = Cards[b][j].mode

OpenedOn(b, m, sock) ==
  \E i \in 1..Len(Cards[b]) :
    \E x : Handed(b, m, x) /\ sock = [card |-> Cards[b][i].name, mode |-> x]

(* What the loop leaves: a socket on a card of the bridge or none, and both *)
(* modes are of that kind.                                                  *)
LEMMA RecvSocketFacts ==
  ASSUME NEW b \in Bridges, NEW present, NEW works, NEW m
  PROVE  LET r == RecvSocket(Cards[b], present, works, m)
         IN  /\ Handed(b, m, r.mode)
             /\ r.sock # None => OpenedOn(b, m, r.sock)
<1> DEFINE tried == {i \in 1..Len(Cards[b]) : /\ Cards[b][i].name \in present
                                              /\ Proper(Cards[b][i], FALSE, FALSE)}
           fit == {i \in tried : Cards[b][i].name \in works}
           r == RecvSocket(Cards[b], present, works, m)
<1>1. \A i : Handed(b, m, HandedMode(Cards[b], tried, i, m))
  <2>1. tried \subseteq 1..Len(Cards[b])
    OBVIOUS
  <2> HIDE DEF tried
  <2>2. TAKE i
  <2>3. \/ HandedMode(Cards[b], tried, i, m) = m
        \/ \E j \in tried : /\ Cards[b][j].mode # ""
                            /\ HandedMode(Cards[b], tried, i, m) = Cards[b][j].mode
    BY <2>1, HandedFacts, Zenon
  <2>4. QED
    BY <2>3 DEF tried, Handed
<1>2. CASE fit = {}
  <2>1. r = [sock |-> None, mode |-> HandedMode(Cards[b], tried, Len(Cards[b]) + 1, m)]
    BY <1>2 DEF RecvSocket
  <2>2. r.sock = None /\ r.mode = HandedMode(Cards[b], tried, Len(Cards[b]) + 1, m)
    BY <2>1
  <2>3. QED
    BY <1>1, <2>2
<1>3. CASE fit # {}
  <2> DEFINE first == First(fit)
  <2>1. fit \subseteq 1..Len(Cards[b]) /\ Len(Cards[b]) \in Nat
    BY CardFacts, Zenon
  <2>2. first \in fit
    BY <1>3, <2>1, FirstFacts, Zenon
  <2>3. r = [sock |-> [card |-> Cards[b][first].name,
                       mode |-> HandedMode(Cards[b], tried, first, m)],
             mode |-> HandedMode(Cards[b], tried, first + 1, m)]
    BY <1>3 DEF RecvSocket
  <2>4. /\ r.sock = [card |-> Cards[b][first].name,
                     mode |-> HandedMode(Cards[b], tried, first, m)]
        /\ r.mode = HandedMode(Cards[b], tried, first + 1, m)
    BY <2>3
  <2>5. QED
    BY <1>1, <2>2, <2>4 DEF OpenedOn
<1>4. QED
  BY <1>2, <1>3

-----------------------------------------------------------------------------
(****************************** Frames and messages ************************)

(* The fields of a packet.                                                  *)
LEMMA PacketFacts ==
  ASSUME NEW pkt \in Packets
  PROVE  /\ pkt.from \in Bridges /\ pkt.link \in Links /\ pkt.n \in Nat
         /\ pkt.seq \in 0..(SeqMod - 1) /\ pkt.length \in Nat
         /\ pkt.turn \in Nat /\ pkt.side \in Modes
<1>1. \A x \in Lengths : x \in Nat
  <2>1. Lengths \subseteq 1..BlockSize
    BY RadioAssumption DEF RadioAssumption
  <2>2. \A x \in 1..BlockSize : x \in Nat
    BY SizeFacts
  <2>3. QED
    BY <2>1, <2>2
<1>2. QED
  BY <1>1 DEF Packets

(* The fields of a message.                                                 *)
LEMMA MessageFacts ==
  ASSUME NEW m \in Messages
  PROVE  /\ m.pkt \in Packets /\ m.port \in Links /\ m.port = m.pkt.link
         /\ m.size = PacketSize /\ m.link_type \in {"data", "short"}
BY DEF Messages

(* The nibbles of the address byte.                                         *)
LEMMA AddressFacts ==
  ASSUME NEW port \in Links, NEW ground \in BOOLEAN
  PROVE  /\ AddressByte(port, ground) \div 16 = port
         /\ AddressByte(port, ground) % 16 = (IF ground THEN 13 ELSE 5)
<1>1. port \in 0..15
  BY LinkFacts DEF Ports, RAW_SOCKET_NPORTS
<1>2. port % 16 = port
  BY <1>1
<1>3. QED
  BY <1>1, <1>2 DEF AddressByte

(* receive() finds the port, the size and the payload that send() put in,   *)
(* with every header; a relay sends it on with another header and the same. *)
LEMMA ParsedFacts ==
  ASSUME NEW sock, NEW type \in {"data", "short", "rts"}, NEW pkt \in Packets
  PROVE  LET msg == Parsed(Frame(sock, type, pkt.link, pkt, PacketSize))
         IN  msg \in Messages /\ msg.pkt = pkt
<1> DEFINE f == Frame(sock, type, pkt.link, pkt, PacketSize)
           msg == Parsed(f)
<1>1. /\ f.type = TypeByte(type) /\ f.pkt = pkt
      /\ f.address = AddressByte(pkt.link, sock.mode = "ground")
      /\ f.length = HeaderLen(type) + PacketSize + crc_len
  BY DEF Frame
<1> HIDE DEF f
<1>2. PayloadLen(f) = PacketSize
  BY <1>1, SizeFacts DEF PayloadLen, HeaderLen, TypeByte, crc_len
<1>3. f.address \div 16 = pkt.link
  BY <1>1, PacketFacts, AddressFacts
<1>4. /\ msg = [port |-> pkt.link, link_type |-> IF f.type = 1 THEN "short" ELSE "data",
                size |-> PacketSize, pkt |-> pkt]
  BY <1>1, <1>2, <1>3 DEF Parsed
<1>5. msg \in [port : Links, link_type : {"data", "short"}, size : {PacketSize}, pkt : Packets]
  BY <1>4, PacketFacts
<1>6. msg.port = msg.pkt.link /\ msg.pkt = pkt
  BY <1>4
<1>7. QED
  BY <1>5, <1>6 DEF Messages, f

(* The filter of one side lets through only frames of the other.            *)
LEMMA PassesFacts ==
  ASSUME NEW sock, NEW s, sock.mode \in Modes, s.mode \in Modes,
         NEW type, NEW port \in Links, NEW pkt, NEW size,
         Passes(s, Frame(sock, type, port, pkt, size))
  PROVE  s.mode # sock.mode
<1> DEFINE f == Frame(sock, type, port, pkt, size)
<1>1. f.address = AddressByte(port, sock.mode = "ground")
  BY DEF Frame
<1>2. f.address % 16 = (IF sock.mode = "ground" THEN 13 ELSE 5)
  BY <1>1, AddressFacts
<1>3. f.address % 16 = (IF s.mode = "ground" THEN 5 ELSE 13)
  BY DEF Passes
<1>4. QED
  BY <1>2, <1>3

(* What the decoder releases of a message is right.                         *)
LEMMA DeliveredFacts ==
  ASSUME NEW m \in Messages, NEW x \in Modes
  PROVE  /\ Delivered(m, x) \in Arrivals /\ Delivered(m, x).from = m.pkt.from
         /\ Delivered(m, x).side = m.pkt.side /\ Delivered(m, x).heard_as = x
<1>1. /\ m.pkt \in Packets /\ m.port \in Links /\ m.port = m.pkt.link /\ m.size = PacketSize
  BY MessageFacts
<1>2. /\ m.pkt.from \in Bridges /\ m.pkt.link \in Links /\ m.pkt.n \in Nat
      /\ m.pkt.length \in Nat /\ m.pkt.turn \in Nat /\ m.pkt.side \in Modes
  BY <1>1, PacketFacts
<1>3. (m.pkt.length <= BlockSize - 2) <=> (m.pkt.length <= m.size - FEC_OVERHEAD)
  BY <1>1, <1>2, SizeFacts DEF PacketSize, FEC_OVERHEAD
<1> DEFINE d == Delivered(m, x)
<1>4. /\ d.from = m.pkt.from /\ d.link = m.pkt.link /\ d.port = m.port
      /\ d.side = m.pkt.side /\ d.heard_as = x
      /\ d.fits = (m.pkt.length <= BlockSize - 2)
      /\ d.whole = (m.pkt.length <= m.size - FEC_OVERHEAD)
  BY DEF Delivered
<1>5. d \in [from : Bridges, link : Links, n : Nat, turn : Nat, side : Modes,
             heard_as : Modes, port : Links, fits : BOOLEAN, whole : BOOLEAN]
  BY <1>1, <1>2 DEF Delivered
<1>6. QED
  BY <1>1, <1>3, <1>4, <1>5 DEF Arrivals

(* A decoder stays one, whatever comes in whatever order.                   *)
LEMMA CountedFacts ==
  ASSUME NEW m \in Messages, NEW dec \in DecoderStates
  PROVE  Counted(dec, m) \in DecoderStates
<1>1. m.pkt.seq \in 0..(SeqMod - 1)
  BY MessageFacts, PacketFacts
<1>2. SeqMod \in Nat
  BY RadioAssumption DEF RadioAssumption
<1>3. dec.prev \in Int /\ dec.dropped \in Nat
  BY <1>2 DEF DecoderStates
<1>4. UnrolledSeq(dec.prev, m.pkt.seq) - dec.prev - 1 \in Int
  BY <1>1, <1>2, <1>3 DEF UnrolledSeq
<1>5. \A x \in Int : x % 65536 \in Nat
  OBVIOUS
<1>6. dec.dropped + ((UnrolledSeq(dec.prev, m.pkt.seq) - dec.prev - 1) % 65536) \in Nat
  BY <1>3, <1>4, <1>5
<1>7. QED
  BY <1>1, <1>6 DEF Counted, DecoderStates

(* A push keeps what is in the queue, and the bound.                        *)
LEMMA PushFacts ==
  ASSUME NEW S, NEW queue, NEW m \in S,
         queue # None => queue \in [q : Seq(S)] /\ Len(queue.q) <= RelayBound
  PROVE  /\ PushRelay(queue, m) # None <=> queue # None
         /\ PushRelay(queue, m) # None =>
              PushRelay(queue, m) \in [q : Seq(S)] /\ Len(PushRelay(queue, m).q) <= RelayBound
<1>1. CASE queue = None
  BY <1>1 DEF PushRelay
<1>2. CASE queue # None /\ Len(queue.q) >= RelayBound
  BY <1>2 DEF PushRelay
<1>3. CASE queue # None /\ ~(Len(queue.q) >= RelayBound)
  <2>1. queue.q \in Seq(S) /\ RelayBound \in Nat
    BY <1>3, RadioAssumption DEF RadioAssumption
  <2>2. Append(queue.q, m) \in Seq(S) /\ Len(Append(queue.q, m)) = Len(queue.q) + 1
    BY <2>1, AppendProperties
  <2>3. Len(Append(queue.q, m)) <= RelayBound
    BY <1>3, <2>1, <2>2
  <2>4. PushRelay(queue, m) = [q |-> Append(queue.q, m)]
    BY <1>3 DEF PushRelay
  <2>5. PushRelay(queue, m) # None
    BY <2>4, NotNone
  <2>6. QED
    BY <1>3, <2>2, <2>3, <2>4, <2>5
<1>4. QED
  BY <1>1, <1>2, <1>3

-----------------------------------------------------------------------------
(****************************** The actions ********************************)

(* Who can hear a frame has a socket that listens for a side.               *)
LEMMA HeardFacts ==
  ASSUME SocketsTyped, NEW card, NEW frame, NEW b \in CanHear(card, frame)
  PROVE  b \in Bridges /\ recv_sock[b] \in Sockets /\ recv_sock[b].mode \in Modes
<1>1. b \in Bridges /\ recv_sock[b] # None
  BY DEF CanHear
<1>2. recv_sock[b] \in Sockets
  BY <1>1 DEF SocketsTyped
<1>3. QED
  BY <1>1, <1>2 DEF Sockets

(* A frame that parses as a message leaves decoders, deliveries and queues  *)
(* typed, whoever hears it.                                                 *)
LEMMA TransmitTyped ==
  ASSUME SocketsTyped, ReceivedTyped, NEW card, NEW frame, NEW queues,
         queues \in [Bridges -> Queues \cup {None}],
         \A b \in Bridges : queues[b] # None => Len(queues[b].q) <= RelayBound,
         Parsed(frame) \in Messages,
         Transmit(card, frame, queues)
  PROVE  /\ ReceivedTyped'
         /\ QueuesTyped'
         /\ \A b \in Bridges : relay_queue'[b] # None <=> queues[b] # None
<1> DEFINE msg == Parsed(frame)
<1>1. PICK heard \in SUBSET CanHear(card, frame) :
        /\ decoders' = [b \in Bridges |->
                          IF b \in heard
                          THEN [decoders[b] EXCEPT ![msg.port] = Counted(@, msg)]
                          ELSE decoders[b]]
        /\ delivered' = [b \in Bridges |->
                           IF b \in heard
                           THEN Append(delivered[b], Delivered(msg, recv_sock[b].mode))
                           ELSE delivered[b]]
        /\ relay_queue' = [b \in Bridges |->
                             IF b \in heard THEN PushRelay(queues[b], msg) ELSE queues[b]]
  BY DEF Transmit, DecoderPort
<1>2. msg \in Messages /\ msg.port \in Ports
  BY MessageFacts, LinkFacts
<1> HIDE DEF msg
<1>3. decoders' \in [Bridges -> [Ports -> DecoderStates]]
  <2>1. ASSUME NEW b \in Bridges
        PROVE  [decoders[b] EXCEPT ![msg.port] = Counted(@, msg)] \in [Ports -> DecoderStates]
    <3>1. decoders[b] \in [Ports -> DecoderStates]
      BY DEF ReceivedTyped
    <3>2. Counted(decoders[b][msg.port], msg) \in DecoderStates
      BY <1>2, <3>1, CountedFacts
    <3>3. QED
      BY <3>1, <3>2
  <2>2. QED
    BY <1>1, <2>1 DEF ReceivedTyped
<1>4. delivered' \in [Bridges -> Seq(Arrivals)]
  <2>1. ASSUME NEW b \in Bridges, b \in heard
        PROVE  Append(delivered[b], Delivered(msg, recv_sock[b].mode)) \in Seq(Arrivals)
    <3>1. recv_sock[b].mode \in Modes
      BY <2>1, HeardFacts
    <3>2. QED
      BY <1>2, <3>1, DeliveredFacts, AppendProperties DEF ReceivedTyped
  <2>2. QED
    BY <1>1, <2>1 DEF ReceivedTyped
<1>5. ASSUME NEW b \in Bridges
      PROVE  /\ relay_queue'[b] \in Queues \cup {None}
             /\ relay_queue'[b] # None <=> queues[b] # None
             /\ relay_queue'[b] # None => Len(relay_queue'[b].q) <= RelayBound
  <2>1. relay_queue'[b] = IF b \in heard THEN PushRelay(queues[b], msg) ELSE queues[b]
    BY <1>1
  <2>2. queues[b] # None => queues[b] \in [q : Seq(Messages)] /\ Len(queues[b].q) <= RelayBound
    BY DEF Queues
  <2>3. /\ PushRelay(queues[b], msg) # None <=> queues[b] # None
        /\ PushRelay(queues[b], msg) # None =>
             /\ PushRelay(queues[b], msg) \in [q : Seq(Messages)]
             /\ Len(PushRelay(queues[b], msg).q) <= RelayBound
    BY <1>2, <2>2, PushFacts
  <2>4. QED
    BY <2>1, <2>2, <2>3 DEF Queues
<1>6. DOMAIN relay_queue' = Bridges /\ relay_queue' = [b \in Bridges |-> relay_queue'[b]]
  BY <1>1
<1>7. relay_queue' \in [Bridges -> Queues \cup {None}]
  BY <1>5, <1>6
<1>8. QED
  BY <1>3, <1>4, <1>5, <1>7 DEF ReceivedTyped, QueuesTyped

(* A frame heard only by sockets that listen for the side of its packet is  *)
(* delivered, and queued, only where it belongs.                            *)
LEMMA TransmitSided ==
  ASSUME SocketsTyped, SidesKept, OnlyOthers, NEW card, NEW frame, NEW queues,
         queues \in [Bridges -> Queues \cup {None}],
         \A b \in Bridges : queues[b] # None => /\ Len(queues[b].q) <= RelayBound
                                               /\ queues[b].q \in Seq(MessagesFor(b)),
         Parsed(frame) \in Messages, Sided(Parsed(frame).pkt),
         \A b \in CanHear(card, frame) : Parsed(frame).pkt.side # recv_sock[b].mode,
         Transmit(card, frame, queues)
  PROVE  OnlyOthers'
<1> DEFINE msg == Parsed(frame)
<1>1. PICK heard \in SUBSET CanHear(card, frame) :
        /\ delivered' = [b \in Bridges |->
                           IF b \in heard
                           THEN Append(delivered[b], Delivered(msg, recv_sock[b].mode))
                           ELSE delivered[b]]
        /\ relay_queue' = [b \in Bridges |->
                             IF b \in heard THEN PushRelay(queues[b], msg) ELSE queues[b]]
  BY DEF Transmit
<1>2. ASSUME NEW b \in Bridges, b \in heard
      PROVE  /\ msg \in MessagesFor(b)
             /\ Delivered(msg, recv_sock[b].mode) \in ArrivalsFor(b)
  <2>1. msg.pkt.side # recv_sock[b].mode
    BY <1>2
  <2>2. recv_sock[b] # None /\ recv_sock[b].mode \in Modes
    BY <1>2, HeardFacts DEF CanHear
  <2>3. Fits(b) => recv_sock[b].mode = GlobalMode[b]
    BY <2>2 DEF SidesKept
  <2>4. msg \in MessagesFor(b)
    BY <2>1, <2>3 DEF MessagesFor
  <2>5. PICK d : d = Delivered(msg, recv_sock[b].mode)
    OBVIOUS
  <2>6. /\ d \in Arrivals /\ d.from = msg.pkt.from
        /\ d.side = msg.pkt.side /\ d.heard_as = recv_sock[b].mode
    BY <2>2, <2>5, DeliveredFacts
  <2>7. Fits(d.from) => d.side = GlobalMode[d.from]
    BY <2>6 DEF Sided
  <2>8. d \in ArrivalsFor(b)
    BY <2>1, <2>3, <2>6, <2>7 DEF ArrivalsFor
  <2>9. QED
    BY <2>4, <2>5, <2>8
<1>3. ASSUME NEW b \in Bridges
      PROVE  delivered'[b] \in Seq(ArrivalsFor(b))
  <2>1. delivered[b] \in Seq(ArrivalsFor(b))
    BY DEF OnlyOthers
  <2>2. CASE b \in heard
    BY <1>1, <1>2, <2>1, <2>2, AppendProperties
  <2>3. CASE b \notin heard
    BY <1>1, <2>1, <2>3
  <2>4. QED
    BY <2>2, <2>3
<1>4. ASSUME NEW b \in Bridges, relay_queue'[b] # None
      PROVE  relay_queue'[b].q \in Seq(MessagesFor(b))
  <2>1. CASE b \notin heard
    BY <1>1, <1>4, <2>1
  <2>2. CASE b \in heard
    <3>1. relay_queue'[b] = PushRelay(queues[b], msg) /\ msg \in MessagesFor(b)
      BY <1>1, <1>2, <2>2
    <3>2. queues[b] # None => /\ queues[b] \in [q : Seq(MessagesFor(b))]
                              /\ Len(queues[b].q) <= RelayBound
      BY DEF Queues
    <3>3. PushRelay(queues[b], msg) \in [q : Seq(MessagesFor(b))]
      BY <1>4, <3>1, <3>2, PushFacts
    <3>4. QED
      BY <3>1, <3>3
  <2>3. QED
    BY <2>1, <2>2
<1>5. QED
  BY <1>3, <1>4 DEF OnlyOthers

(* A change of devices keeps the invariant.                                 *)
LEMMA ConfigureTyped ==
  ASSUME IInv, NEW b \in Bridges, NEW present, NEW works, Configure(b, present, works)
  PROVE  IInv'
<1> DEFINE send == SendSocket(Cards[b], works.send, TRUE, mode[b])
           relay == SendSocket(Cards[b], works.relay, FALSE, mode[b])
           recv == RecvSocket(Cards[b], present, works.recv, mode[b])
<1>1. mode[b] \in Modes
  BY DEF IInv, SocketsTyped
<1>2. ASSUME NEW w, NEW transmit \in BOOLEAN, SendSocket(Cards[b], w, transmit, mode[b]) # None
      PROVE  /\ SendSocket(Cards[b], w, transmit, mode[b]) \in Sockets
             /\ SendSocket(Cards[b], w, transmit, mode[b]).card \in Names(b)
  <2>1. PICK i \in 1..Len(Cards[b]) :
          SendSocket(Cards[b], w, transmit, mode[b])
            = [card |-> Cards[b][i].name, mode |-> Override(Cards[b][i], mode[b])]
    BY <1>1, <1>2, SendSocketFacts DEF SendsOn
  <2>2. Override(Cards[b][i], mode[b]) \in Modes
    BY <1>1, CardFacts DEF Override
  <2>3. Cards[b][i].name \in DOMAIN Reach /\ Cards[b][i].name \in Names(b)
    BY CardFacts, Zenon
  <2>4. QED
    BY <2>1, <2>2, <2>3 DEF Sockets
<1>3. send # None => send \in Sockets /\ send.card \in Names(b)
  BY <1>2
<1>4. relay # None => relay \in Sockets /\ relay.card \in Names(b)
  BY <1>2
<1>5. /\ recv.mode \in Modes
      /\ recv.sock # None => recv.sock \in Sockets /\ recv.sock.card \in Names(b)
  <2>1. /\ Handed(b, mode[b], recv.mode)
        /\ recv.sock # None => OpenedOn(b, mode[b], recv.sock)
    BY RecvSocketFacts, Zenon
  <2>2. \A x : Handed(b, mode[b], x) => x \in Modes
    <3>1. \A j \in 1..Len(Cards[b]) : Cards[b][j].mode \in Modes \cup {""}
      BY CardFacts, Zenon
    <3>2. QED
      BY <1>1, <3>1 DEF Handed
  <2>3. ASSUME recv.sock # None
        PROVE  recv.sock \in Sockets /\ recv.sock.card \in Names(b)
    <3>1. PICK i \in 1..Len(Cards[b]) :
            \E x : Handed(b, mode[b], x) /\ recv.sock = [card |-> Cards[b][i].name, mode |-> x]
      BY <2>1, <2>3 DEF OpenedOn
    <3>2. PICK x : Handed(b, mode[b], x) /\ recv.sock = [card |-> Cards[b][i].name, mode |-> x]
      BY <3>1
    <3>3. Cards[b][i].name \in DOMAIN Reach /\ Cards[b][i].name \in Names(b) /\ x \in Modes
      BY <2>2, <3>2, CardFacts, Zenon
    <3>4. QED
      BY <3>2, <3>3 DEF Sockets
  <2>4. QED
    BY <2>1, <2>2, <2>3
<1>6. /\ send_sock' = [send_sock EXCEPT ![b] = send]
      /\ relay_sock' = [relay_sock EXCEPT ![b] = relay]
      /\ relay_queue' = [relay_queue EXCEPT ![b] = IF relay # None THEN [q |-> <<>>] ELSE @]
      /\ recv_sock' = [recv_sock EXCEPT ![b] = recv.sock]
      /\ mode' = [mode EXCEPT ![b] = recv.mode]
      /\ configs < MaxConfigs /\ configs' = configs + 1
      /\ UNCHANGED <<seq_num, decoders, sent, turns, delivered, refused>>
  BY DEF Configure
<1> HIDE DEF send, relay, recv
<1>7. SocketsTyped'
  BY <1>3, <1>4, <1>5, <1>6 DEF IInv, SocketsTyped
<1>8. CardsOwn'
  BY <1>3, <1>4, <1>5, <1>6 DEF IInv, SocketsTyped, CardsOwn
<1>9. QueuesTyped'
  <2>1. [q |-> <<>>] \in Queues /\ Len([q |-> <<>>].q) = 0 /\ RelayBound \in Nat
    BY EmptySeq, RadioAssumption DEF Queues, RadioAssumption
  <2>2. relay_queue' \in [Bridges -> Queues \cup {None}]
    BY <1>6, <2>1 DEF IInv, QueuesTyped
  <2>3. \A c \in Bridges : relay_queue'[c] # None => Len(relay_queue'[c].q) <= RelayBound
    BY <1>6, <2>1 DEF IInv, QueuesTyped
  <2>4. QED
    BY <2>2, <2>3 DEF QueuesTyped
<1>10. QueuesThere'
  BY <1>6, NotNone DEF IInv, QueuesThere, QueuesTyped, SocketsTyped
<1>11. CountersTyped'
  <2>1. MaxConfigs \in Nat
    BY RadioAssumption DEF RadioAssumption
  <2>2. configs' \in 0..MaxConfigs
    BY <1>6, <2>1 DEF IInv, CountersTyped
  <2>3. QED
    BY <1>6, <2>2 DEF IInv, CountersTyped
<1>12. ReceivedTyped'
  BY <1>6 DEF IInv, ReceivedTyped
<1>13. QED
  BY <1>7, <1>8, <1>9, <1>10, <1>11, <1>12 DEF IInv

(* So does a packet sent: it is never too large.                            *)
LEMMA SendTyped ==
  ASSUME IInv, NEW b \in Bridges, NEW l \in Links, NEW length \in Lengths, Send(b, l, length)
  PROVE  IInv'
<1> DEFINE type == LinkTypes[l + 1]
           pkt == [from |-> b, link |-> l, n |-> sent[b][l] + 1, seq |-> seq_num[b][l],
                   turn |-> turns[b][l], side |-> send_sock[b].mode, length |-> length]
           frame == Frame(send_sock[b], type, l, pkt, PacketSize)
<1>1. /\ refused' = refused
      /\ Transmit(send_sock[b].card, frame, relay_queue)
  BY SizeFacts DEF Send
<1>2. /\ sent[b][l] < Traffic[b][l + 1]
      /\ sent' = [sent EXCEPT ![b][l] = @ + 1]
      /\ seq_num' = [seq_num EXCEPT ![b][l] = NextSeq(@)]
      /\ turns' = [turns EXCEPT ![b][l] = IF seq_num[b][l] = SeqMod - 1 THEN @ + 1 ELSE @]
      /\ UNCHANGED <<mode, send_sock, relay_sock, recv_sock, configs>>
  BY DEF Send, socketVars
<1>3. SeqMod \in Nat /\ SeqMod > 2
  BY RadioAssumption DEF RadioAssumption
<1>4. seq_num[b][l] \in 1..(SeqMod - 1) /\ sent[b][l] \in Nat /\ turns[b][l] \in Nat
  BY DEF IInv, CountersTyped
<1>5. NextSeq(seq_num[b][l]) \in 1..(SeqMod - 1)
  BY <1>3, <1>4 DEF NextSeq
<1>6. pkt \in Packets /\ pkt.link = l
  <2>1. send_sock[b].mode \in Modes
    BY DEF Send, IInv, SocketsTyped, Sockets
  <2>2. QED
    BY <1>3, <1>4, <2>1 DEF Packets
<1>7. Parsed(frame) \in Messages
  BY <1>6, LinkFacts, ParsedFacts
<1>8. /\ ReceivedTyped' /\ QueuesTyped'
      /\ \A c \in Bridges : relay_queue'[c] # None <=> relay_queue[c] # None
  <2> HIDE DEF frame
  <2>1. QED
    BY <1>1, <1>7, TransmitTyped DEF IInv, QueuesTyped
<1>9. CountersTyped'
  <2>1. seq_num' \in [Bridges -> [Links -> 1..(SeqMod - 1)]]
    BY <1>2, <1>5 DEF IInv, CountersTyped
  <2>2. sent' \in [Bridges -> [Links -> Nat]]
    BY <1>2, <1>4 DEF IInv, CountersTyped
  <2>3. \A c \in Bridges : \A k \in Links : sent'[c][k] <= Traffic[c][k + 1]
    BY <1>2, <1>4, TrafficFacts DEF IInv, CountersTyped
  <2>4. turns' \in [Bridges -> [Links -> Nat]]
    BY <1>2, <1>4 DEF IInv, CountersTyped
  <2>5. QED
    BY <1>1, <1>2, <2>1, <2>2, <2>3, <2>4 DEF IInv, CountersTyped
<1>10. SocketsTyped' /\ CardsOwn'
  BY <1>2 DEF IInv, SocketsTyped, CardsOwn
<1>11. QueuesThere'
  BY <1>2, <1>8 DEF IInv, QueuesThere
<1>12. QED
  BY <1>8, <1>9, <1>10, <1>11 DEF IInv

(* What the relay thread takes, and what it leaves.                         *)
LEMMA RelayPops ==
  ASSUME QueuesTyped, NEW b \in Bridges, NEW S, relay_queue[b] # None,
         relay_queue[b].q \in Seq(S), relay_queue[b].q # <<>>
  PROVE  LET queues == [relay_queue EXCEPT ![b].q = Tail(@)]
         IN  /\ Head(relay_queue[b].q) \in S
             /\ queues[b].q \in Seq(S)
             /\ queues \in [Bridges -> Queues \cup {None}]
             /\ \A c \in Bridges : queues[c] # None <=> relay_queue[c] # None
             /\ \A c \in Bridges : c # b => queues[c] = relay_queue[c]
             /\ \A c \in Bridges : queues[c] # None => Len(queues[c].q) <= RelayBound
<1> DEFINE queues == [relay_queue EXCEPT ![b].q = Tail(@)]
           left == [relay_queue[b] EXCEPT !.q = Tail(@)]
<1>1. relay_queue[b] \in Queues /\ relay_queue[b].q \in Seq(Messages)
  BY DEF QueuesTyped, Queues
<1>2. /\ Head(relay_queue[b].q) \in S
      /\ Tail(relay_queue[b].q) \in Seq(S)
      /\ Len(Tail(relay_queue[b].q)) = Len(relay_queue[b].q) - 1
  BY HeadTailProperties
<1>3. Tail(relay_queue[b].q) \in Seq(Messages)
  BY <1>1, HeadTailProperties
<1>4. left \in Queues /\ left.q = Tail(relay_queue[b].q)
  BY <1>1, <1>3 DEF Queues
<1>5. Len(left.q) <= RelayBound
  <2>1. Len(relay_queue[b].q) <= RelayBound /\ Len(relay_queue[b].q) \in Nat
    BY <1>1, LenProperties DEF QueuesTyped
  <2>2. RelayBound \in Nat
    BY RadioAssumption DEF RadioAssumption
  <2>3. QED
    BY <1>2, <1>4, <2>1, <2>2
<1>6. left # None
  BY <1>4, NotNone
<1>7. queues = [relay_queue EXCEPT ![b] = left]
  OBVIOUS
<1> HIDE DEF left, queues
<1>8. queues[b] = left /\ \A c \in Bridges : c # b => queues[c] = relay_queue[c]
  BY <1>7 DEF QueuesTyped
<1>9. queues \in [Bridges -> Queues \cup {None}]
  BY <1>4, <1>7 DEF QueuesTyped
<1>10. \A c \in Bridges : queues[c] # None <=> relay_queue[c] # None
  BY <1>6, <1>8
<1>11. \A c \in Bridges : queues[c] # None => Len(queues[c].q) <= RelayBound
  BY <1>5, <1>8 DEF QueuesTyped
<1>12. QED
  BY <1>2, <1>4, <1>8, <1>9, <1>10, <1>11 DEF queues

(* So does a message sent on.                                               *)
LEMMA RelaySendTyped ==
  ASSUME IInv, NEW b \in Bridges, RelaySend(b)
  PROVE  IInv'
<1> DEFINE msg == Head(relay_queue[b].q)
           queues == [relay_queue EXCEPT ![b].q = Tail(@)]
           frame == Frame(relay_sock[b], msg.link_type, msg.port, msg.pkt, msg.size)
<1>1. relay_queue[b] # None /\ relay_queue[b].q # <<>> /\ relay_queue[b].q \in Seq(Messages)
  BY DEF RelaySend, IInv, QueuesThere, QueuesTyped, Queues
<1>2. QueuesTyped
  BY DEF IInv
<1>3. /\ msg \in Messages
      /\ queues \in [Bridges -> Queues \cup {None}]
      /\ \A c \in Bridges : queues[c] # None <=> relay_queue[c] # None
      /\ \A c \in Bridges : queues[c] # None => Len(queues[c].q) <= RelayBound
  BY <1>1, <1>2, RelayPops
<1>4. msg.size = PacketSize /\ msg.port = msg.pkt.link /\ msg.pkt \in Packets
      /\ msg.link_type \in {"data", "short", "rts"}
  BY <1>3, MessageFacts
<1>5. refused' = refused /\ Transmit(relay_sock[b].card, frame, queues)
  BY <1>4, SizeFacts DEF RelaySend
<1>6. UNCHANGED <<mode, send_sock, relay_sock, recv_sock, seq_num, sent, turns, configs>>
  BY DEF RelaySend, socketVars
<1>7. Parsed(frame) \in Messages
  BY <1>4, ParsedFacts
<1> HIDE DEF frame, queues
<1>8. /\ ReceivedTyped' /\ QueuesTyped'
      /\ \A c \in Bridges : relay_queue'[c] # None <=> queues[c] # None
  BY <1>3, <1>5, <1>7, TransmitTyped DEF IInv
<1>9. CountersTyped' /\ SocketsTyped' /\ CardsOwn'
  BY <1>5, <1>6 DEF IInv, CountersTyped, SocketsTyped, CardsOwn
<1>10. QueuesThere'
  BY <1>3, <1>6, <1>8 DEF IInv, QueuesThere
<1>11. QED
  BY <1>8, <1>9, <1>10 DEF IInv

(* The invariant holds at the start.                                        *)
LEMMA InitTyped == Init => IInv
<1> SUFFICES ASSUME Init PROVE IInv
  OBVIOUS
<1>1. SocketsTyped /\ CardsOwn
  BY RadioAssumption DEF RadioAssumption, Init, SocketsTyped, CardsOwn
<1>2. QueuesTyped /\ QueuesThere
  BY DEF Init, QueuesTyped, QueuesThere
<1>3. SeqMod \in Nat /\ SeqMod > 2 /\ MaxConfigs \in Nat
  BY RadioAssumption DEF RadioAssumption
<1>4. CountersTyped
  <2>1. \A b \in Bridges : \A l \in Links : sent[b][l] <= Traffic[b][l + 1]
    BY TrafficFacts DEF Init
  <2>2. seq_num \in [Bridges -> [Links -> 1..(SeqMod - 1)]]
    BY <1>3 DEF Init
  <2>3. /\ sent \in [Bridges -> [Links -> Nat]] /\ turns \in [Bridges -> [Links -> Nat]]
        /\ refused = 0 /\ configs \in 0..MaxConfigs
    BY <1>3 DEF Init
  <2>4. QED
    BY <2>1, <2>2, <2>3 DEF CountersTyped
<1>5. ReceivedTyped
  <2>1. [prev |-> 0, dropped |-> 0] \in DecoderStates
    BY <1>3 DEF DecoderStates
  <2>2. decoders \in [Bridges -> [Ports -> DecoderStates]]
    BY <2>1 DEF Init
  <2>3. delivered \in [Bridges -> Seq(Arrivals)]
    BY EmptySeq DEF Init
  <2>4. QED
    BY <2>2, <2>3 DEF ReceivedTyped
<1>6. QED
  BY <1>1, <1>2, <1>4, <1>5 DEF IInv

(* Every step keeps it.                                                     *)
LEMMA NextTyped == IInv /\ [Next]_vars => IInv'
<1> SUFFICES ASSUME IInv, [Next]_vars PROVE IInv'
  OBVIOUS
<1>1. ASSUME NEW b \in Bridges, NEW present, NEW works, Configure(b, present, works)
      PROVE  IInv'
  BY <1>1, ConfigureTyped
<1>2. ASSUME NEW b \in Bridges, NEW l \in Links, NEW length \in Lengths, Send(b, l, length)
      PROVE  IInv'
  BY <1>2, SendTyped
<1>3. ASSUME NEW b \in Bridges, RelaySend(b)
      PROVE  IInv'
  BY <1>3, RelaySendTyped
<1>4. CASE UNCHANGED vars
  BY <1>4 DEF vars, socketVars, IInv, SocketsTyped, CardsOwn, QueuesTyped, QueuesThere,
              CountersTyped, ReceivedTyped
<1>5. QED
  BY <1>1, <1>2, <1>3, <1>4 DEF Next

(* So it always holds.                                                      *)
LEMMA Typed == Spec => []IInv
BY InitTyped, NextTyped, PTL DEF Spec

-----------------------------------------------------------------------------
(****************************** The two sides ******************************)

(* The configuration of the devices leaves every socket of a bridge that    *)
(* fits on its side: a card of the receive loop that names a mode names the *)
(* one mode already has.  A bridge that gets a relay socket fits.           *)
LEMMA ConfigureSided ==
  ASSUME RelaysFit, IInv, SidesKept, NEW b \in Bridges, NEW present, NEW works,
         Configure(b, present, works)
  PROVE  SidesKept'
<1> DEFINE send == SendSocket(Cards[b], works.send, TRUE, mode[b])
           relay == SendSocket(Cards[b], works.relay, FALSE, mode[b])
           recv == RecvSocket(Cards[b], present, works.recv, mode[b])
<1>1. mode[b] \in Modes /\ (Fits(b) => mode[b] = GlobalMode[b]) /\ GlobalMode[b] \in Modes
  BY RadioAssumption DEF RadioAssumption, SidesKept, IInv, SocketsTyped
<1>2. ASSUME Fits(b), NEW i \in 1..Len(Cards[b])
      PROVE  IF Cards[b][i].type = "relay" THEN Cards[b][i].mode \in Modes \ {GlobalMode[b]}
             ELSE Cards[b][i].mode \in {"", GlobalMode[b]} \/ Cards[b][i].type = "ignore"
  BY <1>2, CardFacts DEF Fits
<1>3. Fits(b) /\ send # None => send.mode = GlobalMode[b]
  <2>1. SUFFICES ASSUME Fits(b), send # None PROVE send.mode = GlobalMode[b]
    OBVIOUS
  <2>2. SendsOn(b, TRUE, mode[b], send)
    BY <1>1, <2>1, SendSocketFacts
  <2> HIDE DEF send
  <2>3. PICK i \in 1..Len(Cards[b]) :
          /\ Proper(Cards[b][i], TRUE, ~TRUE)
          /\ send = [card |-> Cards[b][i].name, mode |-> Override(Cards[b][i], mode[b])]
    BY <2>2 DEF SendsOn
  <2>4. send.mode = Override(Cards[b][i], mode[b])
    BY <2>3
  <2>5. Cards[b][i].mode \in {"", GlobalMode[b]}
    BY <1>2, <2>1, <2>3 DEF Proper
  <2>6. QED
    BY <1>1, <2>1, <2>4, <2>5 DEF Override
<1>4. relay # None => Fits(b) /\ relay.mode # GlobalMode[b]
  <2>1. SUFFICES ASSUME relay # None PROVE Fits(b) /\ relay.mode # GlobalMode[b]
    OBVIOUS
  <2>2. SendsOn(b, FALSE, mode[b], relay)
    BY <1>1, <2>1, SendSocketFacts
  <2> HIDE DEF relay
  <2>3. PICK i \in 1..Len(Cards[b]) :
          /\ Proper(Cards[b][i], FALSE, ~FALSE)
          /\ relay = [card |-> Cards[b][i].name, mode |-> Override(Cards[b][i], mode[b])]
    BY <2>2 DEF SendsOn
  <2>4. relay.mode = Override(Cards[b][i], mode[b])
    BY <2>3
  <2>5. Cards[b][i].type = "relay" /\ Cards[b][i] \in CardsOf(b)
    BY <2>3, CardFacts DEF Proper
  <2>6. Fits(b)
    BY <2>5 DEF RelaysFit
  <2>7. Cards[b][i].mode \in Modes \ {GlobalMode[b]}
    BY <1>2, <2>5, <2>6
  <2>8. QED
    BY <2>4, <2>6, <2>7 DEF Override, Modes
<1>5. Fits(b) => \A x : Handed(b, mode[b], x) => x = GlobalMode[b]
  <2> SUFFICES ASSUME Fits(b) PROVE \A x : Handed(b, mode[b], x) => x = GlobalMode[b]
    OBVIOUS
  <2>1. ASSUME NEW j \in 1..Len(Cards[b]), Proper(Cards[b][j], FALSE, FALSE),
               Cards[b][j].mode # ""
        PROVE  Cards[b][j].mode = GlobalMode[b]
    BY <1>2, <2>1 DEF Proper
  <2>2. QED
    BY <1>1, <2>1 DEF Handed
<1>6. Handed(b, mode[b], recv.mode) /\ (recv.sock # None => OpenedOn(b, mode[b], recv.sock))
  BY RecvSocketFacts, Zenon
<1>7. Fits(b) => recv.mode = GlobalMode[b]
  BY <1>5, <1>6
<1>8. Fits(b) /\ recv.sock # None => recv.sock.mode = GlobalMode[b]
  <2> SUFFICES ASSUME Fits(b) PROVE recv.sock # None => recv.sock.mode = GlobalMode[b]
    OBVIOUS
  <2> HIDE DEF recv
  <2>1. \A sock : OpenedOn(b, mode[b], sock) => sock.mode = GlobalMode[b]
    BY <1>5 DEF OpenedOn
  <2>2. QED
    BY <1>6, <2>1
<1>9. /\ send_sock' = [send_sock EXCEPT ![b] = send]
      /\ relay_sock' = [relay_sock EXCEPT ![b] = relay]
      /\ recv_sock' = [recv_sock EXCEPT ![b] = recv.sock]
      /\ mode' = [mode EXCEPT ![b] = recv.mode]
  BY DEF Configure
<1> HIDE DEF send, relay, recv
<1>10. QED
  BY <1>3, <1>4, <1>7, <1>8, <1>9 DEF IInv, SocketsTyped, SidesKept

(* A new relay queue is empty; the old one, and what was delivered, stay.   *)
LEMMA ConfigureOthers ==
  ASSUME IInv, OnlyOthers, NEW b \in Bridges, NEW present, NEW works,
         Configure(b, present, works)
  PROVE  OnlyOthers'
<1>1. /\ delivered' = delivered
      /\ \E new \in BOOLEAN :
           relay_queue' = [relay_queue EXCEPT ![b] = IF new THEN [q |-> <<>>] ELSE @]
  BY DEF Configure
<1>2. \A c \in Bridges : \/ relay_queue'[c] = relay_queue[c]
                          \/ relay_queue'[c].q = <<>>
  BY <1>1 DEF IInv, QueuesTyped
<1>3. \A c \in Bridges : relay_queue'[c] # None => relay_queue'[c].q \in Seq(MessagesFor(c))
  BY <1>2, EmptySeq DEF OnlyOthers
<1>4. QED
  BY <1>1, <1>3 DEF OnlyOthers

(* A packet sent reaches only sockets that listen for its side.             *)
LEMMA SendOthers ==
  ASSUME IInv, SidesKept, OnlyOthers, NEW b \in Bridges, NEW l \in Links,
         NEW length \in Lengths, Send(b, l, length)
  PROVE  OnlyOthers'
<1> DEFINE type == LinkTypes[l + 1]
           pkt == [from |-> b, link |-> l, n |-> sent[b][l] + 1, seq |-> seq_num[b][l],
                   turn |-> turns[b][l], side |-> send_sock[b].mode, length |-> length]
           frame == Frame(send_sock[b], type, l, pkt, PacketSize)
<1>1. send_sock[b] # None /\ Transmit(send_sock[b].card, frame, relay_queue)
  BY SizeFacts DEF Send
<1>2. /\ pkt \in Packets /\ pkt.link = l /\ pkt.from = b
      /\ pkt.side = send_sock[b].mode /\ send_sock[b].mode \in Modes
  <2>1. SeqMod \in Nat
    BY RadioAssumption DEF RadioAssumption
  <2>2. seq_num[b][l] \in 1..(SeqMod - 1) /\ sent[b][l] \in Nat /\ turns[b][l] \in Nat
    BY DEF IInv, CountersTyped
  <2>3. send_sock[b].mode \in Modes
    BY <1>1 DEF IInv, SocketsTyped, Sockets
  <2>4. QED
    BY <2>1, <2>2, <2>3 DEF Packets
<1>3. Parsed(frame) \in Messages /\ Parsed(frame).pkt = pkt
  BY <1>2, LinkFacts, ParsedFacts
<1>4. Sided(Parsed(frame).pkt)
  BY <1>1, <1>2, <1>3 DEF SidesKept, Sided
<1>5. ASSUME NEW c \in CanHear(send_sock[b].card, frame)
      PROVE  Parsed(frame).pkt.side # recv_sock[c].mode
  <2>1. Passes(recv_sock[c], frame)
    BY DEF CanHear
  <2>2. recv_sock[c].mode \in Modes
    BY HeardFacts DEF IInv
  <2>3. recv_sock[c].mode # send_sock[b].mode
    BY <1>2, <2>1, <2>2, PassesFacts
  <2>4. QED
    BY <1>2, <1>3, <2>3
<1> HIDE DEF frame
<1>6. QED
  BY <1>1, <1>3, <1>4, <1>5, TransmitSided DEF IInv, QueuesTyped, OnlyOthers

(* The relay speaks for the side its bridge listens for: that of what it    *)
(* relays.                                                                  *)
LEMMA RelaySendOthers ==
  ASSUME IInv, SidesKept, OnlyOthers, NEW b \in Bridges, RelaySend(b)
  PROVE  OnlyOthers'
<1> DEFINE msg == Head(relay_queue[b].q)
           queues == [relay_queue EXCEPT ![b].q = Tail(@)]
           frame == Frame(relay_sock[b], msg.link_type, msg.port, msg.pkt, msg.size)
<1>1. /\ relay_sock[b] # None /\ relay_queue[b] # None /\ relay_queue[b].q # <<>>
      /\ relay_queue[b].q \in Seq(MessagesFor(b))
  BY DEF RelaySend, IInv, QueuesThere, OnlyOthers
<1>2. QueuesTyped
  BY DEF IInv
<1>3. /\ msg \in MessagesFor(b)
      /\ queues[b].q \in Seq(MessagesFor(b))
      /\ queues \in [Bridges -> Queues \cup {None}]
      /\ \A c \in Bridges : c # b => queues[c] = relay_queue[c]
      /\ \A c \in Bridges : queues[c] # None => Len(queues[c].q) <= RelayBound
  BY <1>1, <1>2, RelayPops
<1>4. msg \in Messages /\ Sided(msg.pkt) /\ (Fits(b) => msg.pkt.side # GlobalMode[b])
  BY <1>3 DEF MessagesFor
<1>5. /\ msg.size = PacketSize /\ msg.port = msg.pkt.link /\ msg.pkt \in Packets
      /\ msg.port \in Links /\ msg.link_type \in {"data", "short", "rts"}
  BY <1>4, MessageFacts
<1>6. Transmit(relay_sock[b].card, frame, queues)
  BY <1>5, SizeFacts DEF RelaySend
<1>7. Parsed(frame) \in Messages /\ Parsed(frame).pkt = msg.pkt
  <2> HIDE DEF msg
  <2>1. frame = Frame(relay_sock[b], msg.link_type, msg.pkt.link, msg.pkt, PacketSize)
    BY <1>5
  <2> HIDE DEF frame
  <2>2. QED
    BY <1>5, <2>1, ParsedFacts
<1>8. relay_sock[b].mode = msg.pkt.side /\ relay_sock[b].mode \in Modes
  <2>1. Fits(b) /\ relay_sock[b].mode # GlobalMode[b]
    BY <1>1 DEF SidesKept
  <2>2. relay_sock[b].mode \in Modes /\ GlobalMode[b] \in Modes
    BY <1>1, RadioAssumption DEF RadioAssumption, IInv, SocketsTyped, Sockets
  <2>3. msg.pkt.side \in Modes /\ msg.pkt.side # GlobalMode[b]
    BY <1>4, <1>5, <2>1, PacketFacts
  <2>4. QED
    BY <2>1, <2>2, <2>3 DEF Modes
<1>9. ASSUME NEW c \in CanHear(relay_sock[b].card, frame)
      PROVE  Parsed(frame).pkt.side # recv_sock[c].mode
  <2>1. Passes(recv_sock[c], frame)
    BY DEF CanHear
  <2>2. recv_sock[c].mode \in Modes
    BY HeardFacts DEF IInv
  <2>3. recv_sock[c].mode # relay_sock[b].mode
    BY <1>5, <1>8, <2>1, <2>2, PassesFacts
  <2>4. QED
    BY <1>7, <1>8, <2>3
<1>10. \A c \in Bridges : queues[c] # None => /\ Len(queues[c].q) <= RelayBound
                                             /\ queues[c].q \in Seq(MessagesFor(c))
  BY <1>3 DEF OnlyOthers
<1> HIDE DEF frame, queues
<1>11. Sided(Parsed(frame).pkt)
  BY <1>4, <1>7
<1>12. QED
  BY <1>3, <1>6, <1>7, <1>9, <1>10, <1>11, TransmitSided DEF IInv

(* Every step keeps the sides apart.                                        *)
LEMMA NextSided ==
  ASSUME RelaysFit, IInv, SidesKept, OnlyOthers, [Next]_vars
  PROVE  SidesKept' /\ OnlyOthers'
<1>1. ASSUME NEW b \in Bridges, NEW present, NEW works, Configure(b, present, works)
      PROVE  SidesKept' /\ OnlyOthers'
  BY <1>1, ConfigureSided, ConfigureOthers
<1>2. ASSUME UNCHANGED socketVars
      PROVE  SidesKept'
  BY <1>2 DEF socketVars, SidesKept
<1>3. ASSUME NEW b \in Bridges, NEW l \in Links, NEW length \in Lengths, Send(b, l, length)
      PROVE  SidesKept' /\ OnlyOthers'
  <2>1. UNCHANGED socketVars
    BY <1>3 DEF Send
  <2>2. QED
    BY <1>2, <1>3, <2>1, SendOthers
<1>4. ASSUME NEW b \in Bridges, RelaySend(b)
      PROVE  SidesKept' /\ OnlyOthers'
  <2>1. UNCHANGED socketVars
    BY <1>4 DEF RelaySend
  <2>2. QED
    BY <1>2, <1>4, <2>1, RelaySendOthers
<1>5. CASE UNCHANGED vars
  BY <1>5 DEF vars, socketVars, SidesKept, OnlyOthers
<1>6. QED
  BY <1>1, <1>3, <1>4, <1>5 DEF Next

(* They are apart at the start.                                             *)
LEMMA InitSided == Init => SidesInv
BY EmptySeq DEF Init, SidesInv, SidesKept, OnlyOthers

-----------------------------------------------------------------------------
(******************************** Theorems *********************************)

(* The modes, sockets, queues and decoders of every bridge keep their       *)
(* types, and the relay queue its bound, whatever cards there are.          *)
THEOREM RadioTypeOK == Spec => []TypeOK
<1>1. IInv => TypeOK
  <2> SUFFICES ASSUME IInv PROVE TypeOK
    OBVIOUS
  <2>1. \A b \in Bridges : \A sock \in {send_sock[b], relay_sock[b], recv_sock[b]} :
          sock # None => sock.card \in Names(b) /\ sock.mode \in Modes
    BY DEF IInv, SocketsTyped, CardsOwn, Sockets
  <2>2. \A b \in Bridges : \A p \in Ports :
          decoders[b][p].prev \in 0..(SeqMod - 1) /\ decoders[b][p].dropped \in Nat
    BY DEF IInv, ReceivedTyped, DecoderStates
  <2>3. \A b \in Bridges, l \in Links : sent[b][l] \in 0..Traffic[b][l + 1]
    BY TrafficFacts DEF IInv, CountersTyped
  <2>4. QED
    BY <2>1, <2>2, <2>3 DEF IInv, SocketsTyped, QueuesTyped, CountersTyped, TypeOK
<1>2. QED
  BY <1>1, Typed, PTL

(* No packet is ever refused for its size, and one arrives whole exactly    *)
(* when it left two bytes for its length: for every MTU, every kind of      *)
(* header and any number of relays on the way.                              *)
THEOREM ArrivesWhole == Spec => []WholeIfItFits
<1>1. IInv => WholeIfItFits
  <2> SUFFICES ASSUME IInv PROVE WholeIfItFits
    OBVIOUS
  <2>1. ASSUME NEW b \in Bridges, NEW k \in 1..Len(delivered[b])
        PROVE  delivered[b][k].fits <=> delivered[b][k].whole
    <3>1. delivered[b] \in Seq(Arrivals)
      BY DEF IInv, ReceivedTyped
    <3>2. delivered[b][k] \in Arrivals
      BY <3>1, ElementOfSeq
    <3>3. QED
      BY <3>2 DEF Arrivals
  <2>2. QED
    BY <2>1 DEF IInv, CountersTyped, WholeIfItFits
<1>2. QED
  BY <1>1, Typed, PTL

(* However many relays there are, whoever hears whom, however often devices *)
(* change and whatever modes the cards name: a packet comes out of the      *)
(* decoder of the link it was sent on; where the repeaters' cards fit, it   *)
(* comes in only by sockets that listen for the side it was first sent for, *)
(* and between bridges that fit that is the other side.                     *)
THEOREM SidesAndPorts == Spec => []OtherSideSamePort
<1>1. IInv /\ SidesInv /\ [Next]_vars => SidesInv'
  BY NextSided DEF SidesInv
<1>2. IInv /\ SidesInv => OtherSideSamePort
  <2> SUFFICES ASSUME IInv, SidesInv, NEW b \in Bridges, NEW k \in 1..Len(delivered[b]), NEW d,
                      d = delivered[b][k]
               PROVE  /\ d.port = d.link
                      /\ RelaysFit =>
                           /\ d.side # d.heard_as
                           /\ Fits(d.from) /\ Fits(b) => GlobalMode[d.from] # GlobalMode[b]
    BY DEF OtherSideSamePort
  <2>1. delivered[b] \in Seq(Arrivals)
    BY DEF IInv, ReceivedTyped
  <2>2. d \in Arrivals
    BY <2>1, ElementOfSeq
  <2>3. RelaysFit => d \in ArrivalsFor(b)
    BY ElementOfSeq DEF SidesInv, OnlyOthers
  <2>4. QED
    BY <2>2, <2>3 DEF ArrivalsFor, Arrivals
<1>3. QED
  BY <1>1, <1>2, InitSided, Typed, PTL DEF Spec

-----------------------------------------------------------------------------
(******************************** The gaps *********************************)

(* The numbers of a turn are 1..Turn.                                       *)
Turn == SeqMod - 1

(* Messages that carry the number of their packet in its turn.              *)
Numbered == {m \in Messages : m.pkt.n = m.pkt.turn * Turn + m.pkt.seq /\ m.pkt.seq >= 1}

(* A decoder remembers the last packet that came on its port, and counted   *)
(* what was missing before it, and the wraps, if all came in turn.          *)
Exact(dec, ds, l) ==
  \/ Came(ds, l) = {} /\ dec.prev = 0 /\ dec.dropped = 0
  \/ \E last \in Came(ds, l) :
       /\ \A i \in Came(ds, l) : i <= last
       /\ dec.prev >= 1 /\ ds[last].n = ds[last].turn * Turn + dec.prev
       /\ InTurn(ds, l) =>
            dec.dropped = ds[last].n - Cardinality(Came(ds, l)) + ds[last].turn

(* The numbers of the packets still to be sent, and of those in the relay   *)
(* queues.                                                                  *)
NumbersKept ==
  /\ \A b \in Bridges, l \in Links :
       sent[b][l] + 1 = turns[b][l] * Turn + seq_num[b][l]
  /\ \A b \in Bridges : relay_queue[b] # None => relay_queue[b].q \in Seq(Numbered)

GapsKept == \A b \in Bridges, l \in Links : Exact(decoders[b][l], delivered[b], l)

(* The inductive invariant of the gaps.                                     *)
GapsInv == IInv /\ NumbersKept /\ GapsKept

(* Places where packets of a link came are positions, finitely many.        *)
LEMMA CameFacts ==
  ASSUME NEW ds \in Seq(Arrivals), NEW l
  PROVE  /\ IsFiniteSet(Came(ds, l)) /\ Cardinality(Came(ds, l)) \in Nat
         /\ \A k \in Came(ds, l) : k \in Nat /\ k <= Len(ds) /\ k \in 1..Len(ds)
         /\ \A k \in Came(ds, l) : ds[k].n \in Nat /\ ds[k].turn \in Nat
<1>1. Len(ds) \in Nat
  BY LenProperties
<1>2. IsFiniteSet(1..Len(ds))
  BY <1>1, FS_Interval
<1>3. Came(ds, l) \subseteq 1..Len(ds)
  BY DEF Came
<1>4. IsFiniteSet(Came(ds, l))
  BY <1>2, <1>3, FS_Subset
<1>5. Cardinality(Came(ds, l)) \in Nat
  BY <1>4, FS_CardinalityType
<1>6. ASSUME NEW k \in Came(ds, l)
      PROVE  /\ k \in Nat /\ k <= Len(ds) /\ k \in 1..Len(ds)
             /\ ds[k].n \in Nat /\ ds[k].turn \in Nat
  <2>1. k \in 1..Len(ds)
    BY <1>3
  <2>2. ds[k] \in Arrivals
    BY <2>1, ElementOfSeq
  <2>3. QED
    BY <1>1, <2>1, <2>2 DEF Arrivals
<1>7. QED
  BY <1>4, <1>5, <1>6

(* A packet that comes on another port changes nothing for this one.        *)
LEMMA CameOther ==
  ASSUME NEW ds \in Seq(Arrivals), NEW d \in Arrivals, NEW l, d.link # l, NEW dec,
         Exact(dec, ds, l)
  PROVE  Exact(dec, Append(ds, d), l)
<1>1. PICK es : es = Append(ds, d)
  OBVIOUS
<1>2. /\ Len(ds) \in Nat /\ Len(es) = Len(ds) + 1 /\ es[Len(ds) + 1] = d
      /\ \A k \in 1..Len(ds) : es[k] = ds[k]
  BY <1>1, LenProperties, AppendProperties
<1>3. Came(es, l) = Came(ds, l)
  <2>1. ASSUME NEW k, k \in Came(es, l) PROVE k \in Came(ds, l)
    <3>1. k \in 1..Len(es) /\ es[k].link = l
      BY <2>1 DEF Came
    <3>2. k # Len(ds) + 1
      BY <1>2, <3>1
    <3>3. k \in 1..Len(ds)
      BY <1>2, <3>1, <3>2
    <3>4. QED
      BY <1>2, <3>1, <3>3 DEF Came
  <2>2. ASSUME NEW k, k \in Came(ds, l) PROVE k \in Came(es, l)
    <3>1. k \in 1..Len(ds) /\ ds[k].link = l
      BY <2>2 DEF Came
    <3>2. k \in 1..Len(es)
      BY <1>2, <3>1
    <3>3. QED
      BY <1>2, <3>1, <3>2 DEF Came
  <2>3. QED
    BY <2>1, <2>2
<1>4. \A k \in Came(ds, l) : es[k] = ds[k]
  BY <1>2 DEF Came
<1>5. InTurn(es, l) <=> InTurn(ds, l)
  BY <1>3, <1>4 DEF InTurn
<1>6. Exact(dec, es, l)
  BY <1>3, <1>4, <1>5 DEF Exact
<1>7. QED
  BY <1>1, <1>6

(* One that comes on this port is the last one from then on.                *)
LEMMA CameOne ==
  ASSUME NEW ds \in Seq(Arrivals), NEW d \in Arrivals
  PROVE  LET es == Append(ds, d)
             l == d.link
         IN  /\ Len(es) \in Came(es, l) /\ Len(es) \notin Came(ds, l) /\ es[Len(es)] = d
             /\ Came(es, l) = Came(ds, l) \cup {Len(es)}
             /\ \A k \in Came(ds, l) : es[k] = ds[k] /\ k < Len(es)
             /\ \A k \in Came(es, l) : k <= Len(es)
             /\ Cardinality(Came(es, l)) = Cardinality(Came(ds, l)) + 1
             /\ InTurn(es, l) =>
                  /\ InTurn(ds, l)
                  /\ \A k \in Came(ds, l) : ds[k].n < d.n
                  /\ \/ d.n < SeqMod
                     \/ \E k \in Came(ds, l) : d.n - ds[k].n < Turn
<1>1. PICK es : es = Append(ds, d)
  OBVIOUS
<1>2. PICK l : l = d.link
  OBVIOUS
<1>3. /\ Len(ds) \in Nat /\ Len(es) = Len(ds) + 1 /\ es[Len(es)] = d
      /\ \A k \in 1..Len(ds) : es[k] = ds[k]
  BY <1>1, LenProperties, AppendProperties
<1>4. Len(es) \in Came(es, l) /\ Len(es) \notin Came(ds, l)
  BY <1>2, <1>3 DEF Came
<1>5. \A k \in Came(ds, l) : k \in 1..Len(ds) /\ es[k] = ds[k] /\ k < Len(es)
  BY <1>3 DEF Came
<1>6. \A k \in Came(es, l) : k <= Len(es)
  BY <1>3 DEF Came
<1>7. Came(es, l) = Came(ds, l) \cup {Len(es)}
  <2>1. ASSUME NEW k, k \in Came(es, l) PROVE k \in Came(ds, l) \/ k = Len(es)
    <3>1. k \in 1..Len(es) /\ es[k].link = l
      BY <2>1 DEF Came
    <3>2. CASE k # Len(es)
      <4>1. k \in 1..Len(ds)
        BY <1>3, <3>1, <3>2
      <4>2. QED
        BY <1>3, <3>1, <4>1 DEF Came
    <3>3. QED
      BY <3>2
  <2>2. ASSUME NEW k, k \in Came(ds, l) PROVE k \in Came(es, l)
    <3>1. k \in 1..Len(ds) /\ ds[k].link = l
      BY <2>2 DEF Came
    <3>2. k \in 1..Len(es)
      BY <1>3, <3>1
    <3>3. QED
      BY <1>3, <3>1, <3>2 DEF Came
  <2>3. QED
    BY <1>4, <2>1, <2>2
<1>8. Cardinality(Came(es, l)) = Cardinality(Came(ds, l)) + 1
  BY <1>4, <1>7, CameFacts, FS_AddElement
<1>9. ASSUME InTurn(es, l)
      PROVE  /\ InTurn(ds, l)
             /\ \A k \in Came(ds, l) : ds[k].n < d.n
             /\ \/ d.n < SeqMod
                \/ \E k \in Came(ds, l) : d.n - ds[k].n < Turn
  <2>1. \A i, j \in Came(ds, l) : i < j => ds[i].n < ds[j].n
    BY <1>5, <1>7, <1>9 DEF InTurn
  <2>2. ASSUME NEW k \in Came(ds, l) PROVE ds[k].n < d.n
    <3>1. k \in Came(es, l) /\ k < Len(es) /\ es[k] = ds[k]
      BY <1>5, <1>7
    <3>2. QED
      BY <1>3, <1>4, <1>9, <3>1 DEF InTurn
  <2>3. ASSUME NEW j \in Came(es, l)
        PROVE  es[j].n < SeqMod \/ \E i \in Came(ds, l) : i < j /\ es[j].n - ds[i].n < Turn
    <3>1. \/ es[j].n < SeqMod
          \/ \E i \in Came(es, l) : i < j /\ es[j].n - es[i].n < Turn
      BY <1>9 DEF InTurn, Turn
    <3>2. ASSUME NEW i \in Came(es, l), i < j, es[j].n - es[i].n < Turn
          PROVE  i \in Came(ds, l) /\ es[i] = ds[i]
      <4>1. i \in 1..Len(es) /\ j \in 1..Len(es)
        BY <3>2 DEF Came
      <4>2. i # Len(es)
        BY <1>3, <3>2, <4>1
      <4>3. QED
        BY <1>5, <1>7, <4>2
    <3>3. QED
      BY <3>1, <3>2
  <2>4. ASSUME NEW j \in Came(ds, l)
        PROVE  ds[j].n < SeqMod \/ \E i \in Came(ds, l) : i < j /\ ds[j].n - ds[i].n < SeqMod - 1
    BY <1>5, <1>7, <2>3 DEF Turn
  <2>5. d.n < SeqMod \/ \E k \in Came(ds, l) : d.n - ds[k].n < Turn
    BY <1>3, <1>4, <2>3
  <2>6. InTurn(ds, l)
    BY <2>1, <2>4 DEF InTurn
  <2>7. QED
    BY <2>2, <2>5, <2>6
<1>10. QED
  BY <1>1, <1>2, <1>3, <1>4, <1>5, <1>6, <1>7, <1>8, <1>9

(* A later turn is a whole turn later.                                      *)
LEMMA TurnsApart ==
  ASSUME NEW t \in Nat, NEW u \in Nat, NEW k \in Nat
  PROVE  /\ u = t + 1 => u * k = t * k + k
         /\ u > t => u * k >= t * k + k
         /\ u > t + 1 => u * k >= t * k + k + k
<1>1. ASSUME NEW a \in Nat, NEW b \in Nat PROVE (a + b) * k = a * k + b * k
  OBVIOUS
<1>2. \A a \in Nat : a * k \in Nat
  OBVIOUS
<1>3. ASSUME NEW e \in Nat, u = t + 1 + e PROVE u * k = t * k + k + e * k
  <2>1. u * k = (t + 1) * k + e * k
    BY <1>1, <1>3
  <2>2. (t + 1) * k = t * k + 1 * k
    BY <1>1
  <2>3. QED
    BY <2>1, <2>2
<1>4. u = t + 1 => u * k = t * k + k
  BY <1>1
<1>5. ASSUME u > t PROVE u * k >= t * k + k
  <2>1. PICK e \in Nat : u = t + 1 + e
    <3>1. u - t - 1 \in Nat /\ u = t + 1 + (u - t - 1)
      BY <1>5
    <3>2. QED
      BY <3>1
  <2>2. PICK x \in Nat : x = e * k
    BY <1>2
  <2>3. PICK y \in Nat : y = t * k
    BY <1>2
  <2>4. u * k = y + k + x
    BY <1>3, <2>1, <2>2, <2>3
  <2>5. QED
    BY <2>3, <2>4
<1>6. ASSUME u > t + 1 PROVE u * k >= t * k + k + k
  <2>1. PICK e \in Nat : u = t + 1 + (e + 1)
    <3>1. u - t - 2 \in Nat /\ u = t + 1 + ((u - t - 2) + 1)
      BY <1>6
    <3>2. QED
      BY <3>1
  <2>2. PICK x \in Nat : x = e * k
    BY <1>2
  <2>3. PICK y \in Nat : y = t * k
    BY <1>2
  <2>4. (e + 1) * k = x + k
    BY <1>1, <2>2
  <2>5. u * k = y + k + (x + k)
    BY <1>3, <2>1, <2>3, <2>4
  <2>6. QED
    BY <2>3, <2>5
<1>7. QED
  BY <1>4, <1>5, <1>6

(* Of two packets less than a turn apart, the later one has the greater     *)
(* number of the same turn or a smaller one of the next.                    *)
LEMMA LessThanATurn ==
  ASSUME NEW k \in Nat, NEW t \in Nat, NEW p \in 1..k, NEW u \in Nat, NEW s \in 1..k,
         NEW m \in Nat, m = t * k + p, NEW n \in Nat, n = u * k + s,
         m < n, n - m < k
  PROVE  \/ u = t /\ p < s /\ s - p = n - m
         \/ u = t + 1 /\ s < p /\ p - s = k - (n - m)
<1>1. PICK x \in Nat : x = t * k
  OBVIOUS
<1>2. PICK y \in Nat : y = u * k
  OBVIOUS
<1>3. m = x + p /\ n = y + s /\ p \in Nat /\ s \in Nat /\ 1 <= p /\ p <= k /\ 1 <= s /\ s <= k
  BY <1>1, <1>2
<1>4. CASE u = t
  <2>1. x = y
    BY <1>1, <1>2, <1>4
  <2>2. QED
    BY <1>3, <1>4, <2>1
<1>5. CASE u = t + 1
  <2>1. y = x + k
    BY <1>1, <1>2, <1>5, TurnsApart
  <2>2. QED
    BY <1>3, <1>5, <2>1
<1>6. CASE u > t + 1
  <2>1. y >= x + k + k
    BY <1>1, <1>2, <1>6, TurnsApart
  <2>2. QED
    BY <1>3, <2>1
<1>7. CASE t > u
  <2>1. x >= y + k
    BY <1>1, <1>2, <1>7, TurnsApart
  <2>2. QED
    BY <1>3, <2>1
<1>8. QED
  BY <1>4, <1>5, <1>6, <1>7

(* The first turn has the packets up to SeqMod - 1.                         *)
LEMMA FirstTurn ==
  ASSUME NEW k \in Nat, NEW u \in Nat, NEW s \in 1..k, NEW n \in Nat, n = u * k + s, n <= k
  PROVE  u = 0 /\ s = n
<1>1. PICK y \in Nat : y = u * k
  OBVIOUS
<1>2. u > 0 => y >= k
  BY <1>1, TurnsApart
<1>3. u = 0 => y = 0
  BY <1>1
<1>4. QED
  BY <1>1, <1>2, <1>3

(* What a decoder counts for a number s after p: the distance less one, and *)
(* the wrapped distance with SeqMod added, in which 16 bits have room.      *)
LEMMA CountedGap ==
  ASSUME NEW p \in Nat, p < SeqMod, NEW s \in Nat, s < SeqMod
  PROVE  /\ p < s => (UnrolledSeq(p, s) - p - 1) % 65536 = s - p - 1
         /\ s < p => (UnrolledSeq(p, s) - p - 1) % 65536 = s - p + Turn
<1>1. SeqMod \in Nat /\ SeqMod <= 256
  BY RadioAssumption DEF RadioAssumption
<1>2. ASSUME p < s PROVE (UnrolledSeq(p, s) - p - 1) % 65536 = s - p - 1
  <2>1. UnrolledSeq(p, s) = s
    BY <1>2 DEF UnrolledSeq
  <2>2. PICK x \in Nat : x = s - p - 1
    BY <1>2
  <2>3. x < 65536
    BY <1>1, <2>2
  <2>4. x % 65536 = x
    BY <2>3
  <2>5. QED
    BY <2>1, <2>2, <2>4
<1>3. ASSUME s < p PROVE (UnrolledSeq(p, s) - p - 1) % 65536 = s - p + Turn
  <2>1. UnrolledSeq(p, s) = s + SeqMod
    BY <1>3 DEF UnrolledSeq
  <2>2. PICK x \in Nat : x = s + SeqMod - p - 1
    BY <1>1, <1>3
  <2>3. x < 65536
    BY <1>1, <1>3, <2>2
  <2>4. x % 65536 = x
    BY <2>3
  <2>5. x = s - p + Turn
    BY <1>1, <2>2 DEF Turn
  <2>6. UnrolledSeq(p, s) - p - 1 = x
    BY <1>1, <2>1, <2>2
  <2>7. QED
    BY <2>4, <2>5, <2>6
<1>4. QED
  BY <1>2, <1>3

(* So it stays exact.                                                       *)
LEMMA CountedExact ==
  ASSUME NEW ds \in Seq(Arrivals), NEW m \in Numbered, NEW dec \in DecoderStates,
         NEW heard_as \in Modes, Exact(dec, ds, m.port)
  PROVE  Exact(Counted(dec, m), Append(ds, Delivered(m, heard_as)), m.port)
<1>1. PICK d : d = Delivered(m, heard_as)
  OBVIOUS
<1>2. m \in Messages
  BY DEF Numbered
<1>3. d \in Arrivals /\ d.link = m.port /\ d.n = m.pkt.n /\ d.turn = m.pkt.turn
  BY <1>1, <1>2, DeliveredFacts, MessageFacts DEF Delivered
<1>4. SeqMod \in Nat /\ SeqMod > 2
  BY RadioAssumption DEF RadioAssumption
<1>5. PICK k \in Nat : k = Turn /\ k = SeqMod - 1
  BY <1>4 DEF Turn
<1>6. PICK s \in 1..k : s = m.pkt.seq
  <2>1. m.pkt.seq \in 0..(SeqMod - 1) /\ m.pkt.seq >= 1
    BY <1>2, MessageFacts, PacketFacts DEF Numbered
  <2>2. QED
    BY <1>4, <1>5, <2>1
<1>7. PICK u \in Nat : u = m.pkt.turn
  BY <1>2, MessageFacts, PacketFacts
<1>8. PICK n \in Nat : n = m.pkt.n
  BY <1>2, MessageFacts, PacketFacts
<1>9. n = u * k + s
  BY <1>5, <1>6, <1>7, <1>8 DEF Numbered
<1>10. PICK l : l = m.port
  OBVIOUS
<1>11. PICK es : es = Append(ds, d)
  OBVIOUS
<1>12. PICK len : len = Len(es)
  OBVIOUS
<1>13. PICK c \in Nat : c = Cardinality(Came(ds, l))
  BY CameFacts
<1>14. PICK dec2 : dec2 = Counted(dec, m)
  OBVIOUS
<1>15. PICK p \in 0..k : p = dec.prev
  BY <1>5 DEF DecoderStates
<1>16. PICK x \in Nat : x = dec.dropped
  BY DEF DecoderStates
<1>17. /\ len \in Came(es, l) /\ es[len] = d
       /\ \A i \in Came(es, l) : i <= len
       /\ Cardinality(Came(es, l)) = c + 1
       /\ InTurn(es, l) => /\ InTurn(ds, l)
                           /\ \A i \in Came(ds, l) : ds[i].n < n
                           /\ n < SeqMod \/ \E i \in Came(ds, l) : n - ds[i].n < k
  BY <1>3, <1>5, <1>8, <1>10, <1>11, <1>12, <1>13, CameOne
<1>18. dec2.prev = s /\ dec2.dropped = x + ((UnrolledSeq(p, s) - p - 1) % 65536)
  BY <1>6, <1>14, <1>15, <1>16 DEF Counted
<1>19. /\ p < s => dec2.dropped = x + (s - p - 1)
       /\ s < p => dec2.dropped = x + (s - p + k)
  <2>1. p \in Nat /\ p < SeqMod /\ s \in Nat /\ s < SeqMod
    BY <1>4, <1>5
  <2>2. /\ p < s => (UnrolledSeq(p, s) - p - 1) % 65536 = s - p - 1
        /\ s < p => (UnrolledSeq(p, s) - p - 1) % 65536 = s - p + k
    BY <1>5, <2>1, CountedGap
  <2>3. QED
    BY <1>18, <2>2
<1>20. ASSUME InTurn(es, l) PROVE dec2.dropped = n - (c + 1) + u
  <2>1. CASE Came(ds, l) = {} /\ dec.prev = 0 /\ dec.dropped = 0
    <3>1. c = 0
      BY <1>13, <2>1, FS_EmptySet
    <3>2. n <= k
      BY <1>4, <1>5, <1>17, <1>20, <2>1
    <3>3. u = 0 /\ s = n
      BY <1>9, <3>2, FirstTurn
    <3>4. p = 0 /\ x = 0 /\ p < s
      BY <1>15, <1>16, <2>1
    <3>5. QED
      BY <1>19, <3>1, <3>3, <3>4
  <2>2. CASE \E last \in Came(ds, l) :
               /\ \A i \in Came(ds, l) : i <= last
               /\ dec.prev >= 1 /\ ds[last].n = ds[last].turn * Turn + dec.prev
               /\ InTurn(ds, l) =>
                    dec.dropped = ds[last].n - Cardinality(Came(ds, l)) + ds[last].turn
    <3>1. PICK last \in Came(ds, l) :
            /\ \A i \in Came(ds, l) : i <= last
            /\ p >= 1 /\ ds[last].n = ds[last].turn * k + p
            /\ InTurn(ds, l) => x = ds[last].n - c + ds[last].turn
      BY <1>5, <1>13, <1>15, <1>16, <2>2
    <3>2. PICK t \in Nat : t = ds[last].turn
      BY CameFacts
    <3>3. PICK q \in Nat : q = ds[last].n
      BY CameFacts
    <3>4. q = t * k + p /\ x = q - c + t /\ q < n
      BY <1>17, <1>20, <3>1, <3>2, <3>3
    <3>5. q >= 1
      <4>1. PICK y \in Nat : y = t * k
        OBVIOUS
      <4>2. QED
        BY <3>1, <3>4, <4>1
    <3>6. ASSUME NEW i \in Came(ds, l) PROVE ds[i].n <= q
      <4>1. i \in Nat /\ last \in Nat /\ i <= last /\ ds[i].n \in Nat
        BY <3>1, CameFacts
      <4>2. i < last => ds[i].n < ds[last].n
        BY <1>17, <1>20 DEF InTurn
      <4>3. QED
        BY <3>3, <4>1, <4>2
    <3>7. n - q < k
      <4>1. CASE n < SeqMod
        BY <1>4, <1>5, <3>5, <4>1
      <4>2. CASE \E i \in Came(ds, l) : n - ds[i].n < k
        <5>1. PICK i \in Came(ds, l) : n - ds[i].n < k
          BY <4>2
        <5>2. PICK z \in Nat : z = ds[i].n
          BY CameFacts
        <5>3. n - z < k /\ z <= q
          BY <3>6, <5>1, <5>2
        <5>4. QED
          BY <5>3
      <4>3. QED
        BY <1>17, <1>20, <4>1, <4>2
    <3>8. p \in 1..k
      BY <3>1
    <3>9. \/ u = t /\ p < s /\ s - p = n - q
          \/ u = t + 1 /\ s < p /\ p - s = k - (n - q)
      BY <1>9, <3>4, <3>7, <3>8, LessThanATurn
    <3>10. CASE u = t /\ p < s /\ s - p = n - q
      BY <1>19, <3>4, <3>10
    <3>11. CASE u = t + 1 /\ s < p /\ p - s = k - (n - q)
      BY <1>19, <3>4, <3>11
    <3>12. QED
      BY <3>9, <3>10, <3>11
  <2>3. QED
    BY <1>10, <2>1, <2>2 DEF Exact
<1>21. es[len].n = n /\ es[len].turn = u /\ dec2.prev >= 1
  BY <1>3, <1>7, <1>8, <1>17, <1>18
<1>22. es[len].n = es[len].turn * Turn + dec2.prev
  BY <1>5, <1>9, <1>18, <1>21
<1>23. Exact(dec2, es, l)
  BY <1>17, <1>20, <1>21, <1>22 DEF Exact
<1>24. QED
  BY <1>1, <1>10, <1>11, <1>14, <1>23

(* A frame of a numbered message leaves all decoders exact, whoever hears   *)
(* it, and only numbered messages in the relay queues.                      *)
LEMMA TransmitGaps ==
  ASSUME SocketsTyped, ReceivedTyped, GapsKept, NEW card, NEW frame, NEW queues,
         \A b \in Bridges : queues[b] # None => /\ queues[b] \in [q : Seq(Numbered)]
                                               /\ Len(queues[b].q) <= RelayBound,
         Parsed(frame) \in Numbered,
         Transmit(card, frame, queues)
  PROVE  /\ GapsKept'
         /\ \A b \in Bridges : relay_queue'[b] # None => relay_queue'[b].q \in Seq(Numbered)
<1>1. PICK msg : msg = Parsed(frame)
  OBVIOUS
<1>2. PICK heard \in SUBSET CanHear(card, frame) :
        /\ decoders' = [b \in Bridges |->
                          IF b \in heard
                          THEN [decoders[b] EXCEPT ![msg.port] = Counted(@, msg)]
                          ELSE decoders[b]]
        /\ delivered' = [b \in Bridges |->
                           IF b \in heard
                           THEN Append(delivered[b], Delivered(msg, recv_sock[b].mode))
                           ELSE delivered[b]]
        /\ relay_queue' = [b \in Bridges |->
                             IF b \in heard THEN PushRelay(queues[b], msg) ELSE queues[b]]
  BY <1>1 DEF Transmit, DecoderPort
<1>3. msg \in Numbered /\ msg \in Messages /\ msg.port \in Ports /\ msg.port \in Links
  BY <1>1, MessageFacts, LinkFacts DEF Numbered
<1>4. ASSUME NEW b \in Bridges, NEW l \in Links
      PROVE  Exact(decoders'[b][l], delivered'[b], l)
  <2>1. /\ delivered[b] \in Seq(Arrivals) /\ decoders[b] \in [Ports -> DecoderStates]
        /\ l \in Ports /\ Exact(decoders[b][l], delivered[b], l)
    BY LinkFacts DEF ReceivedTyped, GapsKept
  <2>2. CASE b \notin heard
    BY <1>2, <2>1, <2>2
  <2>3. CASE b \in heard
    <3>1. /\ decoders'[b] = [decoders[b] EXCEPT ![msg.port] = Counted(decoders[b][msg.port], msg)]
          /\ delivered'[b] = Append(delivered[b], Delivered(msg, recv_sock[b].mode))
          /\ recv_sock[b].mode \in Modes
      BY <1>2, <2>3, HeardFacts
    <3>2. CASE l = msg.port
      <4>1. decoders'[b][l] = Counted(decoders[b][l], msg) /\ decoders[b][l] \in DecoderStates
        BY <2>1, <3>1, <3>2
      <4>2. QED
        BY <1>3, <2>1, <3>1, <3>2, <4>1, CountedExact
    <3>3. CASE l # msg.port
      <4>1. decoders'[b][l] = decoders[b][l]
        BY <2>1, <3>1, <3>3
      <4>2. /\ Delivered(msg, recv_sock[b].mode) \in Arrivals
            /\ Delivered(msg, recv_sock[b].mode).link # l
        BY <1>3, <3>1, <3>3, DeliveredFacts, MessageFacts DEF Delivered
      <4>3. QED
        BY <2>1, <3>1, <4>1, <4>2, CameOther
    <3>4. QED
      BY <3>2, <3>3
  <2>4. QED
    BY <2>2, <2>3
<1>5. ASSUME NEW b \in Bridges, relay_queue'[b] # None
      PROVE  relay_queue'[b].q \in Seq(Numbered)
  <2>1. relay_queue'[b] = IF b \in heard THEN PushRelay(queues[b], msg) ELSE queues[b]
    BY <1>2
  <2>2. CASE b \notin heard
    BY <1>5, <2>1, <2>2
  <2>3. CASE b \in heard
    <3>1. PushRelay(queues[b], msg) \in [q : Seq(Numbered)]
      BY <1>3, <1>5, <2>1, <2>3, PushFacts
    <3>2. QED
      BY <2>1, <2>3, <3>1
  <2>4. QED
    BY <2>2, <2>3
<1>6. QED
  BY <1>4, <1>5 DEF GapsKept

(* A packet is sent with its number.                                        *)
LEMMA SendGaps ==
  ASSUME GapsInv, NEW b \in Bridges, NEW l \in Links, NEW length \in Lengths, Send(b, l, length)
  PROVE  NumbersKept' /\ GapsKept'
<1> USE DEF GapsInv
<1>1. PICK n \in Nat : n = sent[b][l]
  BY DEF IInv, CountersTyped
<1>2. PICK u \in Nat : u = turns[b][l]
  BY DEF IInv, CountersTyped
<1>3. PICK k \in Nat : k = Turn /\ k = SeqMod - 1
  <2>1. SeqMod \in Nat /\ SeqMod > 2
    BY RadioAssumption DEF RadioAssumption
  <2>2. QED
    BY <2>1 DEF Turn
<1>4. PICK s \in 1..k : s = seq_num[b][l]
  BY <1>3 DEF IInv, CountersTyped
<1>5. n + 1 = u * k + s
  BY <1>1, <1>2, <1>3, <1>4 DEF NumbersKept
<1>6. PICK pkt : pkt = [from |-> b, link |-> l, n |-> sent[b][l] + 1, seq |-> seq_num[b][l],
                        turn |-> turns[b][l], side |-> send_sock[b].mode, length |-> length]
  OBVIOUS
<1>7. pkt.link = l /\ pkt.n = n + 1 /\ pkt.seq = s /\ pkt.turn = u
  BY <1>1, <1>2, <1>4, <1>6
<1>8. pkt \in Packets
  <2>1. send_sock[b].mode \in Modes
    BY DEF Send, IInv, SocketsTyped, Sockets
  <2>2. s \in 0..(SeqMod - 1) /\ n + 1 \in Nat
    BY <1>3
  <2>3. QED
    BY <1>1, <1>2, <1>4, <1>6, <2>1, <2>2 DEF Packets
<1>9. PICK frame : frame = Frame(send_sock[b], LinkTypes[l + 1], l, pkt, PacketSize)
  OBVIOUS
<1>10. Transmit(send_sock[b].card, frame, relay_queue)
  BY <1>6, <1>9, SizeFacts DEF Send
<1>11. Parsed(frame) \in Messages /\ Parsed(frame).pkt = pkt
  BY <1>7, <1>8, <1>9, LinkFacts, ParsedFacts
<1>12. Parsed(frame) \in Numbered
  <2>1. pkt.n = pkt.turn * Turn + pkt.seq /\ pkt.seq >= 1
    BY <1>3, <1>5, <1>7
  <2>2. QED
    BY <1>11, <2>1 DEF Numbered
<1>13. \A c \in Bridges : relay_queue[c] # None => /\ relay_queue[c] \in [q : Seq(Numbered)]
                                                  /\ Len(relay_queue[c].q) <= RelayBound
  <2> SUFFICES ASSUME NEW c \in Bridges, relay_queue[c] # None
               PROVE  /\ relay_queue[c] \in [q : Seq(Numbered)]
                      /\ Len(relay_queue[c].q) <= RelayBound
    OBVIOUS
  <2>1. relay_queue[c] \in Queues /\ Len(relay_queue[c].q) <= RelayBound
    BY DEF IInv, QueuesTyped
  <2>2. relay_queue[c].q \in Seq(Numbered)
    BY DEF NumbersKept
  <2>3. QED
    BY <2>1, <2>2 DEF Queues
<1>14. /\ GapsKept'
       /\ \A c \in Bridges : relay_queue'[c] # None => relay_queue'[c].q \in Seq(Numbered)
  BY <1>10, <1>12, <1>13, TransmitGaps DEF IInv
<1>15. /\ sent' = [sent EXCEPT ![b][l] = @ + 1]
       /\ seq_num' = [seq_num EXCEPT ![b][l] = NextSeq(@)]
       /\ turns' = [turns EXCEPT ![b][l] = IF seq_num[b][l] = SeqMod - 1 THEN @ + 1 ELSE @]
       /\ sent \in [Bridges -> [Links -> Nat]] /\ turns \in [Bridges -> [Links -> Nat]]
       /\ seq_num \in [Bridges -> [Links -> 1..(SeqMod - 1)]]
  BY DEF Send, IInv, CountersTyped
<1>16. ASSUME NEW c \in Bridges, NEW j \in Links
       PROVE  sent'[c][j] + 1 = turns'[c][j] * Turn + seq_num'[c][j]
  <2>1. CASE c = b /\ j = l
    <3>1. /\ sent'[b][l] = n + 1 /\ seq_num'[b][l] = NextSeq(s)
          /\ turns'[b][l] = IF s = k THEN u + 1 ELSE u
      BY <1>1, <1>2, <1>3, <1>4, <1>15
    <3>2. CASE s = k
      <4>1. NextSeq(s) = 1 /\ (u + 1) * k = u * k + k
        BY <1>3, <3>2, TurnsApart DEF NextSeq
      <4>2. QED
        BY <1>3, <1>5, <2>1, <3>1, <3>2, <4>1
    <3>3. CASE s # k
      <4>1. NextSeq(s) = s + 1
        BY <1>3, <3>3 DEF NextSeq
      <4>2. PICK y \in Nat : y = u * k
        OBVIOUS
      <4>3. (n + 1) + 1 = y + (s + 1)
        BY <1>5, <4>2
      <4>4. QED
        BY <1>3, <2>1, <3>1, <3>3, <4>1, <4>2, <4>3
    <3>4. QED
      BY <3>2, <3>3
  <2>2. CASE ~(c = b /\ j = l)
    <3>1. sent'[c][j] = sent[c][j] /\ seq_num'[c][j] = seq_num[c][j] /\ turns'[c][j] = turns[c][j]
      BY <1>15, <2>2
    <3>2. QED
      BY <3>1 DEF NumbersKept
  <2>3. QED
    BY <2>1, <2>2
<1>17. QED
  BY <1>14, <1>16 DEF NumbersKept

(* A relay sends a message on with the number it had.                       *)
LEMMA RelaySendGaps ==
  ASSUME GapsInv, NEW b \in Bridges, RelaySend(b)
  PROVE  NumbersKept' /\ GapsKept'
<1> USE DEF GapsInv
<1>1. PICK msg : msg = Head(relay_queue[b].q)
  OBVIOUS
<1>2. PICK queues : queues = [relay_queue EXCEPT ![b].q = Tail(@)]
  OBVIOUS
<1>3. relay_queue[b] # None /\ relay_queue[b].q # <<>> /\ relay_queue[b].q \in Seq(Numbered)
  BY DEF RelaySend, IInv, QueuesThere, NumbersKept
<1>4. QueuesTyped
  BY DEF IInv
<1>5. /\ msg \in Numbered /\ queues[b].q \in Seq(Numbered)
      /\ queues \in [Bridges -> Queues \cup {None}]
      /\ \A c \in Bridges : c # b => queues[c] = relay_queue[c]
      /\ \A c \in Bridges : queues[c] # None => Len(queues[c].q) <= RelayBound
  BY <1>1, <1>2, <1>3, <1>4, RelayPops
<1>6. /\ msg \in Messages /\ msg.size = PacketSize /\ msg.port = msg.pkt.link
      /\ msg.pkt \in Packets /\ msg.link_type \in {"data", "short", "rts"}
  BY <1>5, MessageFacts DEF Numbered
<1>7. PICK frame : frame = Frame(relay_sock[b], msg.link_type, msg.port, msg.pkt, msg.size)
  OBVIOUS
<1>8. Transmit(relay_sock[b].card, frame, queues)
  BY <1>1, <1>2, <1>6, <1>7, SizeFacts DEF RelaySend
<1>9. Parsed(frame) \in Messages /\ Parsed(frame).pkt = msg.pkt
  <2>1. frame = Frame(relay_sock[b], msg.link_type, msg.pkt.link, msg.pkt, PacketSize)
    BY <1>6, <1>7
  <2>2. QED
    BY <1>6, <2>1, ParsedFacts
<1>10. Parsed(frame) \in Numbered
  BY <1>5, <1>9 DEF Numbered
<1>11. \A c \in Bridges : queues[c] # None => /\ queues[c] \in [q : Seq(Numbered)]
                                             /\ Len(queues[c].q) <= RelayBound
  <2> SUFFICES ASSUME NEW c \in Bridges, queues[c] # None
               PROVE  queues[c] \in [q : Seq(Numbered)] /\ Len(queues[c].q) <= RelayBound
    OBVIOUS
  <2>1. queues[c] \in Queues /\ Len(queues[c].q) <= RelayBound
    BY <1>5
  <2>2. queues[c].q \in Seq(Numbered)
    BY <1>5 DEF NumbersKept
  <2>3. QED
    BY <2>1, <2>2 DEF Queues
<1>12. /\ GapsKept'
       /\ \A c \in Bridges : relay_queue'[c] # None => relay_queue'[c].q \in Seq(Numbered)
  BY <1>8, <1>10, <1>11, TransmitGaps DEF IInv
<1>13. sent' = sent /\ seq_num' = seq_num /\ turns' = turns
  BY DEF RelaySend
<1>14. QED
  BY <1>12, <1>13 DEF NumbersKept

(* A change of devices leaves the decoders as they are, and empties a relay *)
(* queue or leaves it.                                                      *)
LEMMA ConfigureGaps ==
  ASSUME GapsInv, NEW b \in Bridges, NEW present, NEW works, Configure(b, present, works)
  PROVE  NumbersKept' /\ GapsKept'
<1> USE DEF GapsInv
<1>1. UNCHANGED <<seq_num, decoders, sent, turns, delivered>>
  BY DEF Configure
<1>2. \E new : relay_queue' = [relay_queue EXCEPT ![b] = IF new THEN [q |-> <<>>] ELSE @]
  BY DEF Configure
<1>3. \A c \in Bridges : relay_queue'[c] = relay_queue[c] \/ relay_queue'[c].q = <<>>
  BY <1>2 DEF IInv, QueuesTyped
<1>4. \A c \in Bridges : relay_queue'[c] # None => relay_queue'[c].q \in Seq(Numbered)
  BY <1>3, EmptySeq DEF NumbersKept
<1>5. QED
  BY <1>1, <1>4 DEF NumbersKept, GapsKept

(* Nothing has come at the start, and the numbers begin at one.             *)
LEMMA InitGaps == Init => GapsInv
<1> SUFFICES ASSUME Init PROVE GapsInv
  OBVIOUS
<1>1. IInv
  BY InitTyped
<1>2. NumbersKept
  <2>1. SeqMod \in Nat
    BY RadioAssumption DEF RadioAssumption
  <2>2. 0 * Turn = 0
    BY <2>1 DEF Turn
  <2>3. QED
    BY <2>2 DEF Init, NumbersKept
<1>3. ASSUME NEW b \in Bridges, NEW l \in Links
      PROVE  Exact(decoders[b][l], delivered[b], l)
  <2>1. decoders[b][l] = [prev |-> 0, dropped |-> 0] /\ delivered[b] = <<>>
    BY LinkFacts DEF Init
  <2>2. Came(<<>>, l) = {}
    BY DEF Came
  <2>3. QED
    BY <2>1, <2>2 DEF Exact
<1>4. QED
  BY <1>1, <1>2, <1>3 DEF GapsInv, GapsKept

(* Every step keeps the invariant of the gaps.                              *)
LEMMA NextGaps == GapsInv /\ [Next]_vars => GapsInv'
<1> SUFFICES ASSUME GapsInv, [Next]_vars PROVE GapsInv'
  OBVIOUS
<1>1. IInv'
  BY NextTyped DEF GapsInv
<1>2. ASSUME NEW b \in Bridges, NEW present, NEW works, Configure(b, present, works)
      PROVE  NumbersKept' /\ GapsKept'
  BY <1>2, ConfigureGaps
<1>3. ASSUME NEW b \in Bridges, NEW l \in Links, NEW length \in Lengths, Send(b, l, length)
      PROVE  NumbersKept' /\ GapsKept'
  BY <1>3, SendGaps
<1>4. ASSUME NEW b \in Bridges, RelaySend(b)
      PROVE  NumbersKept' /\ GapsKept'
  BY <1>4, RelaySendGaps
<1>5. ASSUME UNCHANGED vars PROVE NumbersKept' /\ GapsKept'
  <2>1. UNCHANGED <<seq_num, sent, turns, relay_queue, decoders, delivered>>
    BY <1>5 DEF vars
  <2>2. NumbersKept'
    BY <2>1 DEF NumbersKept, GapsInv
  <2>3. GapsKept'
    BY <2>1 DEF GapsKept, GapsInv
  <2>4. QED
    BY <2>2, <2>3
<1>6. NumbersKept' /\ GapsKept'
  BY <1>2, <1>3, <1>4, <1>5 DEF Next
<1>7. QED
  BY <1>1, <1>6 DEF GapsInv

(* For any bridges, cards, links, relays and number of packets: as long as  *)
(* the packets of a link come in turn, add_block() counts as dropped those  *)
(* missing before the last one and one for each wrap of the number,         *)
(* whatever comes on the other ports in between.                            *)
THEOREM GapsCounted == Spec => []GapsExact
<1>1. GapsInv => GapsExact
  <2> SUFFICES ASSUME GapsInv, NEW b \in Bridges, NEW l \in Links, InTurn(delivered[b], l),
                      NEW last \in Came(delivered[b], l),
                      \A i \in Came(delivered[b], l) : i <= last
               PROVE  decoders[b][l].dropped
                        = delivered[b][last].n - Cardinality(Came(delivered[b], l))
                          + delivered[b][last].turn
    BY DEF GapsExact
  <2>1. PICK k \in Came(delivered[b], l) :
          /\ \A i \in Came(delivered[b], l) : i <= k
          /\ decoders[b][l].dropped = delivered[b][k].n - Cardinality(Came(delivered[b], l))
                                        + delivered[b][k].turn
    BY DEF GapsInv, GapsKept, Exact
  <2>2. delivered[b] \in Seq(Arrivals)
    BY DEF GapsInv, IInv, ReceivedTyped
  <2>3. k \in Nat /\ last \in Nat /\ k <= last /\ last <= k
    BY <2>1, <2>2, CameFacts
  <2>4. k = last
    BY <2>3
  <2>5. QED
    BY <2>1, <2>4
<1>2. QED
  BY <1>1, InitGaps, NextGaps, PTL DEF Spec

=============================================================================
