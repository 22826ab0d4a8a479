-------------------------------- MODULE Radio --------------------------------
(***************************************************************************)
(* Bridges on the air: which side a card belongs to (configure_device()    *)
(* and the loops of main() that use it), the frames RawSendSocket builds   *)
(* and RawReceiveSocket takes apart, the ports that separate the links,    *)
(* and the relay thread that sends on what its bridge hears.  The links    *)
(* are links without coding: every packet is a message of its own          *)
(* (FECLink has the coding).                                               *)
(*                                                                         *)
(* A frame that is heard goes through the decoder at once: inqueue between *)
(* the two keeps the order, and what it drops counts as not heard.  Data   *)
(* rates, signal strength and latency are left out.                        *)
(***************************************************************************)
EXTENDS Integers, Sequences, FiniteSets

CONSTANTS
  Bridges,
  Cards,        \* per bridge, its cards in the order of the list:
                \* [name, type, mode]; mode "" where none is configured
  GlobalMode,   \* per bridge, mode of the section [global]
  Reach,        \* per card, the cards that can hear it
  LinkTypes,    \* types of the links, in the order of their sections
  Traffic,      \* bound: packets of each bridge on each link
  Mtu,          \* mtu of the section [global]
  Lengths,      \* lengths of the packets read from the TUN device
  SeqMod,       \* one more than the largest sequence number (256: uint8_t)
  MaxConfigs,   \* bound: times the devices of any bridge change
  RelayBound    \* size of the relay queue

FEC_OVERHEAD == 6
RAW_SOCKET_OVERHEAD == 24
RAW_SOCKET_NPORTS == 16

Modes == {"air", "ground"}
CardTypes == {"transmitter", "receiver", "transceiver", "relay", "unspecified", "ignore"}

CardsOf(b) == {Cards[b][i] : i \in 1..Len(Cards[b])}

(* The maximum data block size, and the MTU of the TUN device.              *)
BlockSize == Mtu - FEC_OVERHEAD - RAW_SOCKET_OVERHEAD

(* A byte has room for sixteen ports; main() has no check on the number.    *)
(* A sequence number is a byte.                                             *)
ASSUME RadioAssumption ==
  /\ GlobalMode \in [Bridges -> Modes]
  /\ Cards \in [Bridges -> Seq([name : DOMAIN Reach, type : CardTypes, mode : Modes \cup {""}])]
  /\ LinkTypes \in Seq({"data", "short", "rts"})
  /\ Len(LinkTypes) <= RAW_SOCKET_NPORTS
  /\ Traffic \in [Bridges -> [1..Len(LinkTypes) -> Nat]]
  /\ Mtu \in Nat /\ BlockSize > 2
  /\ Lengths \subseteq 1..BlockSize
  /\ SeqMod \in Nat /\ SeqMod > 2 /\ SeqMod <= 256
  /\ MaxConfigs \in Nat /\ RelayBound \in Nat

VARIABLES
  mode,        \* the variable of main(), per bridge
  send_sock,   \* [card, mode] of the send thread, or None
  relay_sock,  \* [card, mode] of the relay thread, or None
  recv_sock,   \* [card, mode] of the receive thread, or None
  relay_queue, \* messages for the relay thread; None before there was one
  seq_num,     \* of the encoder of each link
  decoders,    \* per bridge and port, [prev, dropped]
  sent,        \* packets sent, per bridge and link
  configs,     \* times devices changed
  turns,       \* history: how often the number of each link has wrapped
  delivered,   \* history: what each bridge's decoders released
  refused      \* history: packets send() refused for their size

socketVars == <<mode, send_sock, relay_sock, recv_sock>>
vars == <<socketVars, relay_queue, seq_num, decoders, sent, configs, turns, delivered,
          refused>>

None == <<>>

Links == 0..(Len(LinkTypes) - 1)
Ports == 0..(RAW_SOCKET_NPORTS - 1)

(**************************** configure_device() ***************************)

(* The device type is proper for the requested configuration.               *)
Proper(c, transmit, relay) ==
  /\ c.type # "ignore"
  /\ transmit => c.type \notin {"receiver", "relay"}
  /\ ~transmit => c.type # "transmitter" /\ (c.type = "relay" => relay)
  /\ relay => c.type = "relay"

(* Mutant: the card's own mode is not looked at.                            *)
OverrideNever(c, m) == m

(* The mode of the card, if it has one, replaces the one handed in.         *)
Override(c, m) == IF c.mode # "" THEN c.mode ELSE m

(* The first of the cards that is proper and can be set up: its socket has  *)
(* the mode of the card.  The loop works on a copy of mode.                 *)
First(S) == CHOOSE i \in S : \A j \in S : i <= j

SendSocket(cards, works, transmit, m) ==
  LET fit == {i \in 1..Len(cards) : /\ Proper(cards[i], transmit, ~transmit)
                                    /\ cards[i].name \in works}
      c   == cards[First(fit)]
  IN  IF fit = {} THEN None ELSE [card |-> c.name, mode |-> Override(c, m)]

(* The loop of the receive thread hands mode itself to configure_device()   *)
(* and opens the socket with the copy made before: the mode of a card       *)
(* changes mode, not its socket, even if the card cannot be set up.         *)
HandedMode(cards, tried, i, m) ==
  LET own == {j \in tried : j < i /\ Override(cards[j], "") # ""}
  IN  IF own = {} THEN m
      ELSE Override(cards[CHOOSE j \in own : \A k \in own : k <= j], m)

RecvSocket(cards, present, works, m) ==
  LET tried == {i \in 1..Len(cards) : cards[i].name \in present /\ Proper(cards[i], FALSE, FALSE)}
      fit   == {i \in tried : cards[i].name \in works}
      first == First(fit)
  IN  IF fit = {} THEN [sock |-> None, mode |-> HandedMode(cards, tried, Len(cards) + 1, m)]
      ELSE [sock |-> [card |-> cards[first].name, mode |-> HandedMode(cards, tried, first, m)],
            mode |-> HandedMode(cards, tried, first + 1, m)]

(* The devices changed: the threads are stopped, and started on the cards   *)
(* of the new list that can be set up: a card may fail in one of the loops  *)
(* and work in another.  A relay queue outlives its thread until there is a *)
(* new one.                                                                 *)
Configure(b, present, works) ==
  LET recv  == RecvSocket(Cards[b], present, works.recv, mode[b])
      relay == SendSocket(Cards[b], works.relay, FALSE, mode[b])
  IN
  /\ configs < MaxConfigs
  /\ configs' = configs + 1
  /\ send_sock' = [send_sock EXCEPT ![b] = SendSocket(Cards[b], works.send, TRUE, mode[b])]
  /\ relay_sock' = [relay_sock EXCEPT ![b] = relay]
  /\ relay_queue' = [relay_queue EXCEPT ![b] = IF relay # None THEN [q |-> <<>>] ELSE @]
  /\ recv_sock' = [recv_sock EXCEPT ![b] = recv.sock]
  /\ mode' = [mode EXCEPT ![b] = recv.mode]
  /\ UNCHANGED <<seq_num, decoders, sent, turns, delivered, refused>>

(********************************* Frames **********************************)

(* The short header and the rts header have five bytes, the data header 24. *)
HeaderLen(type) == IF type = "data" THEN 24 ELSE 5

(* The second byte of the header tells them apart, rts from short it does   *)
(* not.                                                                     *)
TypeByte(type) == IF type = "data" THEN 2 ELSE 1

(* ((port & 0xf) << 4) | (m_ground ? 0xd : 0x5)                             *)
AddressByte(port, ground) == (port % 16) * 16 + (IF ground THEN 13 ELSE 5)

crc_len == 4

(* What goes on the air for a packet of size bytes; the card adds the CRC.  *)
Frame(sock, type, port, pkt, size) ==
  [type |-> TypeByte(type), address |-> AddressByte(port, sock.mode = "ground"),
   length |-> HeaderLen(type) + size + crc_len, pkt |-> pkt]

(* Refused by send().                                                       *)
TooLarge(type, size) == size + HeaderLen(type) > Mtu

(* The filter: a ground bridge hears frames of the air and the other way    *)
(* round.                                                                   *)
Passes(sock, frame) == frame.address % 16 = IF sock.mode = "ground" THEN 5 ELSE 13

(* Mutant: every header is taken for a data header.                         *)
PayloadLenData(frame) == frame.length - 24 - crc_len

PayloadLen(frame) == frame.length - (IF frame.type = 1 THEN 5 ELSE 24) - crc_len

(* monitor_message_t as receive() fills it in.                              *)
Parsed(frame) ==
  [port |-> frame.address \div 16, link_type |-> IF frame.type = 1 THEN "short" ELSE "data",
   size |-> PayloadLen(frame), pkt |-> frame.pkt]

(****************************** Decoding ***********************************)

(* Mutant: all ports share a decoder.                                       *)
DecoderPortShared(msg) == 0
DecoderPort(msg) == msg.port

UnrolledSeq(prev, s) == IF prev > s THEN s + SeqMod ELSE s

(* add_block() without coding: what was missing before it, in 16 bits.      *)
Counted(dec, msg) ==
  [prev |-> msg.pkt.seq,
   dropped |-> dec.dropped + ((UnrolledSeq(dec.prev, msg.pkt.seq) - dec.prev - 1) % 65536)]

(* The message is whole if the packet has all the bytes its length says.    *)
(* heard_as is the side the socket it came in by listens for.               *)
Delivered(msg, heard_as) ==
  [from |-> msg.pkt.from, link |-> msg.pkt.link, n |-> msg.pkt.n, turn |-> msg.pkt.turn,
   side |-> msg.pkt.side, heard_as |-> heard_as, port |-> msg.port,
   fits |-> msg.pkt.length <= BlockSize - 2,
   whole |-> msg.pkt.length <= msg.size - FEC_OVERHEAD]

(* Bridges that can hear a frame sent by a card.                            *)
CanHear(card, frame) ==
  {b \in Bridges : /\ recv_sock[b] # None
                   /\ recv_sock[b].card \in Reach[card]
                   /\ Passes(recv_sock[b], frame)}

(* Mutant: the queue has no bound.                                          *)
PushRelayAlways(queue, msg) ==
  IF queue = None THEN queue ELSE [q |-> Append(queue.q, msg)]

PushRelay(queue, msg) ==
  IF queue = None \/ Len(queue.q) >= RelayBound THEN queue
  ELSE [q |-> Append(queue.q, msg)]

(* Some of them hear it: receive(), the push to the relay queue, the        *)
(* decoder of its port.                                                     *)
Transmit(card, frame, queues) ==
  LET msg  == Parsed(frame)
      port == DecoderPort(msg)
  IN
  \E heard \in SUBSET CanHear(card, frame) :
    /\ decoders' = [b \in Bridges |->
                      IF b \in heard
                      THEN [decoders[b] EXCEPT ![port] = Counted(@, msg)]
                      ELSE decoders[b]]
    /\ delivered' = [b \in Bridges |->
                       IF b \in heard
                       THEN Append(delivered[b], Delivered(msg, recv_sock[b].mode))
                       ELSE delivered[b]]
    /\ relay_queue' = [b \in Bridges |->
                         IF b \in heard THEN PushRelay(queues[b], msg) ELSE queues[b]]

(******************************** Threads **********************************)

(* ++m_seq_num in a byte, skipping zero.                                    *)
NextSeq(s) == IF s = SeqMod - 1 THEN 1 ELSE s + 1

(* A block without coding keeps the size it was allocated with.             *)
PacketSize == BlockSize + FEC_OVERHEAD - 2

(* raw_send_thread takes a packet of link l and sends it.  n, turn and side *)
(* are the packet's place on its link, the turn of its number and the side  *)
(* it is sent for; no frame carries them.                                   *)
Send(b, l, length) ==
  LET type == LinkTypes[l + 1]
      pkt  == [from |-> b, link |-> l, n |-> sent[b][l] + 1, seq |-> seq_num[b][l],
               turn |-> turns[b][l], side |-> send_sock[b].mode, length |-> length]
  IN
  /\ send_sock[b] # None
  /\ sent[b][l] < Traffic[b][l + 1]
  /\ sent' = [sent EXCEPT ![b][l] = @ + 1]
  /\ seq_num' = [seq_num EXCEPT ![b][l] = NextSeq(@)]
  /\ turns' = [turns EXCEPT ![b][l] = IF seq_num[b][l] = SeqMod - 1 THEN @ + 1 ELSE @]
  /\ \/ /\ TooLarge(type, PacketSize)
        /\ refused' = refused + 1
        /\ UNCHANGED <<decoders, delivered, relay_queue>>
     \/ /\ ~TooLarge(type, PacketSize)
        /\ Transmit(send_sock[b].card, Frame(send_sock[b], type, l, pkt, PacketSize),
                    relay_queue)
        /\ UNCHANGED refused
  /\ UNCHANGED <<socketVars, configs>>

(* raw_relay_thread sends on the next message it has.                       *)
RelaySend(b) ==
  LET msg == Head(relay_queue[b].q)
      queues == [relay_queue EXCEPT ![b].q = Tail(@)]
  IN
  /\ relay_sock[b] # None
  /\ relay_queue[b].q # <<>>
  /\ \/ /\ TooLarge(msg.link_type, msg.size)
        /\ refused' = refused + 1
        /\ relay_queue' = queues
        /\ UNCHANGED <<decoders, delivered>>
     \/ /\ ~TooLarge(msg.link_type, msg.size)
        /\ Transmit(relay_sock[b].card,
                    Frame(relay_sock[b], msg.link_type, msg.port, msg.pkt, msg.size), queues)
        /\ UNCHANGED refused
  /\ UNCHANGED <<socketVars, seq_num, sent, configs, turns>>

Init ==
  /\ mode = GlobalMode
  /\ send_sock = [b \in Bridges |-> None]
  /\ relay_sock = [b \in Bridges |-> None]
  /\ recv_sock = [b \in Bridges |-> None]
  /\ relay_queue = [b \in Bridges |-> None]
  /\ seq_num = [b \in Bridges |-> [l \in Links |-> 1]]
  /\ decoders = [b \in Bridges |-> [p \in Ports |-> [prev |-> 0, dropped |-> 0]]]
  /\ sent = [b \in Bridges |-> [l \in Links |-> 0]]
  /\ configs = 0
  /\ turns = [b \in Bridges |-> [l \in Links |-> 0]]
  /\ delivered = [b \in Bridges |-> <<>>]
  /\ refused = 0

Names(b) == {c.name : c \in CardsOf(b)}

ProperOf(b, present, transmit, relay) ==
  {n \in present : \E c \in CardsOf(b) : c.name = n /\ Proper(c, transmit, relay)}

Next ==
  \/ \E b \in Bridges : \E present \in SUBSET Names(b) :
       \E send \in SUBSET ProperOf(b, present, TRUE, FALSE),
          relay \in SUBSET ProperOf(b, present, FALSE, TRUE),
          recv \in SUBSET ProperOf(b, present, FALSE, FALSE) :
         Configure(b, present, [send |-> send, relay |-> relay, recv |-> recv])
  \/ \E b \in Bridges, l \in Links, length \in Lengths : Send(b, l, length)
  \/ \E b \in Bridges : RelaySend(b)

Spec == Init /\ [][Next]_vars
-----------------------------------------------------------------------------
TypeOK ==
  /\ mode \in [Bridges -> Modes]
  /\ \A b \in Bridges : \A sock \in {send_sock[b], relay_sock[b], recv_sock[b]} :
       sock # None => sock.card \in Names(b) /\ sock.mode \in Modes
  /\ \A b \in Bridges : relay_queue[b] # None => Len(relay_queue[b].q) <= RelayBound
  /\ \A b \in Bridges : \A p \in Ports :
       decoders[b][p].prev \in 0..(SeqMod - 1) /\ decoders[b][p].dropped \in Nat
  /\ \A b \in Bridges, l \in Links : sent[b][l] \in 0..Traffic[b][l + 1]
  /\ configs \in 0..MaxConfigs
  /\ refused \in Nat

(* Cards whose modes take effect on the sockets they are meant for: a relay *)
(* speaks for the other side, and any other card names no mode but that of  *)
(* its bridge.  A receiver with a mode of its own, the example of           *)
(* conf/wfb_bridge.conf, does not fit: its socket listens for the side of   *)
(* the bridge, and the mode moves the bridge to the other side at the next  *)
(* change of devices.                                                       *)
Fits(b) ==
  \A c \in CardsOf(b) :
    IF c.type = "relay" THEN c.mode \in Modes \ {GlobalMode[b]}
    ELSE c.mode \in {"", GlobalMode[b]} \/ c.type = "ignore"

RelaysFit == \A b \in Bridges : (\E c \in CardsOf(b) : c.type = "relay") => Fits(b)

(* Whatever is relayed and however often devices change, what was sent on a *)
(* link comes out of the decoder of that link, on no other port.  Where the *)
(* repeaters' cards fit, a packet is never taken for one of the other side  *)
(* on its way: over any number of hops it is delivered only by a socket     *)
(* that listens for the side it was first sent for, also to and from        *)
(* bridges that change sides; and between two bridges that fit, only what   *)
(* the other side sent is delivered, never an echo.                         *)
OtherSideSamePort ==
  \A b \in Bridges : \A k \in 1..Len(delivered[b]) :
    LET d == delivered[b][k] IN
    /\ d.port = d.link
    /\ RelaysFit => /\ d.side # d.heard_as
                    /\ Fits(d.from) /\ Fits(b) => GlobalMode[d.from] # GlobalMode[b]

(* A packet that leaves room for the two bytes of its length is never       *)
(* refused and arrives whole, with every kind of header and after being     *)
(* relayed with another.  (One of exactly the MTU of the TUN device loses   *)
(* its last bytes.)                                                         *)
WholeIfItFits ==
  /\ refused = 0
  /\ \A b \in Bridges : \A k \in 1..Len(delivered[b]) :
       delivered[b][k].fits <=> delivered[b][k].whole

(* The places among the packets ds that came of those of link l.            *)
Came(ds, l) == {k \in 1..Len(ds) : ds[k].link = l}

(* No packet comes twice or late, and no gap takes up a whole turn of the   *)
(* number: the case a decoder cannot tell from a shorter gap.               *)
InTurn(ds, l) ==
  /\ \A i, j \in Came(ds, l) : i < j => ds[i].n < ds[j].n
  /\ \A j \in Came(ds, l) :
       \/ ds[j].n < SeqMod
       \/ \E i \in Came(ds, l) : i < j /\ ds[j].n - ds[i].n < SeqMod - 1

(* The packets counted as dropped on a port are those missing before the    *)
(* last one, and one more for each time the number has wrapped: 256 is      *)
(* added although no packet has the number 0.  It holds whatever the other  *)
(* ports do, as long as no packet comes twice or late (a relay's copy makes *)
(* it count 65535 or a wrapped distance) and none is preceded by a gap of a *)
(* whole turn.                                                              *)
GapsExact ==
  \A b \in Bridges, l \in Links :
    LET ds == delivered[b] IN
    InTurn(ds, l) =>
      \A last \in Came(ds, l) :
        (\A i \in Came(ds, l) : i <= last)
          => decoders[b][l].dropped
               = ds[last].n - Cardinality(Came(ds, l)) + ds[last].turn

=============================================================================
