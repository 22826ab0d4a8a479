------------------------------- MODULE FECLink -------------------------------
(***************************************************************************)
(* One link of the bridge, end to end: raw_send_thread feeds the encoder   *)
(* and drains it, the radio loses any packet it likes, fec_decode_thread   *)
(* feeds the decoder and drains it.  Queues that overflow on the way, and  *)
(* FEC blocks the sender drops under load, are losses of the radio here.   *)
(* With Relay, another bridge re-sends what it hears, so that a packet can *)
(* also come a second time, later.  The decoder never answers the encoder, *)
(* so handing a packet over in one step loses no behaviour of the pair.    *)
(***************************************************************************)
EXTENDS FECEncoder, FECDecoder

CONSTANTS
  MaxMessages,   \* bound: messages handed to the link
  Relay,         \* whether a relay repeats packets
  RelayBound     \* bound: packets waiting in the relay

ASSUME LinkAssumption ==
  /\ MaxMessages \in Nat
  /\ 1..MaxMessages \subseteq Ids
  /\ Relay \in BOOLEAN
  /\ RelayBound \in Nat
  \* In a coded group a longer message would overrun its buffer.
  /\ ~Uncoded(NumBlocks, NumFecBlocks) =>
       \A l \in Lengths : l + 2 <= MaxBlockSize

VARIABLES
  sent,       \* number of messages handed to the encoder
  relayed,    \* packets the relay has still to repeat
  delivered,  \* history: what went to output_queue, in order
  air         \* history: the group on the air, see below

vars == <<encVars, decVars, sent, relayed, delivered, air>>

(* The group on the air: its messages, the block numbers that arrived, and  *)
(* whether the decoder was ready for it when it began; and the packets lost *)
(* so far and the groups begun since a packet was last heard.               *)
NoGroup == [msgs |-> <<>>, got |-> {}, ready |-> FALSE, lost |-> 0, silent |-> 0]

(* Ready for group seq: nothing of it or of an abandoned group is left      *)
(* (FEC blocks that came without a data block stay in m_fec_blocks).        *)
Ready(seq) ==
  /\ m_prev_header.seq_num # seq
  /\ m_block_size # 0 \/ m_fec_blocks = <<>>

OnAir(p) ==
  IF p.block = 0
  THEN [msgs |-> IF Len(enc_out_blocks) = 1 THEN p.msgs
                 ELSE enc_out_blocks[Len(enc_out_blocks)].msgs,
        got |-> {}, ready |-> Ready(p.seq_num), lost |-> air.lost,
        silent |-> air.silent + 1]
  ELSE air

OnAirHeard(p) == [OnAir(p) EXCEPT !.silent = 0]

Init ==
  /\ EncInit
  /\ DecInit
  /\ sent = 0
  /\ relayed = <<>>
  /\ delivered = <<>>
  /\ air = NoGroup

(* raw_send_thread: a message, or a flush, once the encoder is drained.     *)
SendMessage(l) ==
  /\ enc_out_blocks = <<>>
  /\ sent < MaxMessages
  /\ EncAddBlock([id |-> sent + 1, length |-> l])
  /\ sent' = sent + 1
  /\ UNCHANGED <<decVars, relayed, delivered, air>>

SendFlush ==
  /\ enc_out_blocks = <<>>
  /\ Flush
  /\ UNCHANGED <<decVars, sent, relayed, delivered, air>>

(* The relay hears a packet, or does not.                                   *)
RelayHears(p) ==
  \/ UNCHANGED relayed
  \/ /\ Relay
     /\ Len(relayed) < RelayBound
     /\ relayed' = Append(relayed, p)

TransmitHeard ==
  LET p == Head(enc_out_blocks) IN
  /\ dec_out_blocks = <<>>
  /\ EncGetBlock
  /\ DecAddBlock(p)
  /\ RelayHears(p)
  /\ air' = [OnAirHeard(p) EXCEPT !.got = @ \cup {p.block}]
  /\ UNCHANGED <<sent, delivered>>

TransmitLost ==
  LET p == Head(enc_out_blocks) IN
  /\ dec_out_blocks = <<>>
  /\ EncGetBlock
  /\ RelayHears(p)
  /\ air' = [OnAir(p) EXCEPT !.lost = @ + 1]
  /\ UNCHANGED <<decVars, sent, delivered>>

(* raw_relay_thread sends its next packet, which is heard or lost.          *)
RelayTransmit ==
  /\ relayed # <<>>
  /\ dec_out_blocks = <<>>
  /\ relayed' = Tail(relayed)
  /\ DecAddBlock(Head(relayed)) \/ UNCHANGED decVars
  /\ UNCHANGED <<encVars, sent, delivered, air>>

(* fec_decode_thread hands on what the decoder released, unless empty.      *)
Deliver ==
  /\ DecGetBlock
  /\ delivered' = IF Head(dec_out_blocks).length > 0
                  THEN Append(delivered, Head(dec_out_blocks))
                  ELSE delivered
  /\ UNCHANGED <<encVars, sent, relayed, air>>

Next ==
  \/ \E l \in Lengths : SendMessage(l)
  \/ SendFlush
  \/ TransmitHeard
  \/ TransmitLost
  \/ RelayTransmit
  \/ Deliver

Spec == Init /\ [][Next]_vars
-----------------------------------------------------------------------------
TypeOK ==
  /\ EncTypeOK
  /\ DecTypeOK
  /\ sent \in 0..MaxMessages
  /\ relayed \in Seq(Packets)
  /\ delivered \in Seq([id : Ids \cup {0}, length : Nat, intact : BOOLEAN])
  /\ air \in [msgs : Seq(Messages), got : SUBSET Nat, ready : BOOLEAN, lost : Nat,
             silent : Nat]

(* Without a relay, the link keeps the promise of DatagramLink whatever is  *)
(* lost and rebuilt: add_block() releases ahead of the gap, decode() from   *)
(* the gap on, and no message comes out twice, early or out of order.       *)
Datagrams == INSTANCE DatagramLink WITH
  handed <- sent,
  out <- [k \in 1..Len(delivered) |-> delivered[k].id]

ImplementsDatagramLink == Datagrams!Spec

(* No outage of the radio swallows a whole turn of the sequence number (254 *)
(* groups in a row): after one, a new group passes for more of the old one. *)
NoLongOutage ==
  \/ Uncoded(NumBlocks, NumFecBlocks)
  \/ m_prev_header.seq_num = 0
  \/ air.silent < SeqMod - 2

(* The blocks held all belong to the group of the previous packet, in       *)
(* increasing order, fewer than the group has, and m_block_size is that of  *)
(* the largest of them: what decode() indexes and sizes its arrays by.      *)
(* True as long as NoLongOutage is.                                         *)
HeldGroup ==
  /\ m_block_size = 0 <=> m_blocks = <<>>
  /\ \A i \in 1..Len(m_blocks) :
       /\ m_blocks[i].seq_num = m_prev_header.seq_num
       /\ m_blocks[i].n_blocks = m_blocks[1].n_blocks
       /\ IsDataBlock(m_blocks[i])
       /\ BlockSize(m_blocks[i]) <= m_block_size
       /\ i > 1 => m_blocks[i - 1].block < m_blocks[i].block
  /\ m_blocks # <<>> => Len(m_blocks) < m_blocks[1].n_blocks

(* The blocks held mix groups or repeat a block: an FEC block kept from a   *)
(* group that had no data block, or a packet that came twice.               *)
Repeats(blocks) ==
  \E i, j \in 1..Len(blocks) : i # j /\ blocks[i].block = blocks[j].block

MixedBlocks ==
  \/ \E k \in 1..Len(m_fec_blocks) : m_fec_blocks[k].seq_num # m_prev_header.seq_num
  \/ Repeats(m_blocks)
  \/ Repeats(m_fec_blocks)

(* Nothing but such a mixture, or a second copy of the packet being added,  *)
(* can make decode() release bytes that belong to no message.               *)
GarbageNeedsMixture ==
  [][ \A i \in 1..Len(dec_out_blocks') :
        dec_out_blocks'[i].id = 0 =>
          \/ \E k \in 1..Len(dec_out_blocks) : dec_out_blocks[k].id = 0
          \/ MixedBlocks
          \/ \E k \in 1..Len(m_fec_blocks) :
               m_fec_blocks[k].block = m_prev_header'.block ]_vars

(* The whole group has been on the air and is through the decoder.          *)
GroupOver == enc_out_blocks = <<>> /\ dec_out_blocks = <<>> /\ air.msgs # <<>>

Received(i) == (i - 1) \in air.got

(* As many blocks of the group arrived as it has data blocks, one of them a *)
(* data block.                                                              *)
EnoughReceived ==
  /\ Cardinality(air.got) >= Len(air.msgs)
  /\ \E i \in 1..Len(air.msgs) : Received(i)

(* No lost block is longer than the longest that arrived.                   *)
LongestReceived ==
  \A i \in 1..Len(air.msgs) :
    \E k \in 1..Len(air.msgs) :
      Received(k) /\ air.msgs[i].length <= air.msgs[k].length

Intact(m) ==
  \E k \in 1..Len(delivered) :
    delivered[k].id = m.id /\ delivered[k].length = m.length /\ delivered[k].intact

(* What the code promises: when the decoder was ready for the group, enough *)
(* of it arrived and the longest lost block is no longer than the longest   *)
(* received, every message of the group is delivered intact.                *)
GroupRecovered ==
  GroupOver /\ air.ready /\ EnoughReceived /\ LongestReceived =>
    \A i \in 1..Len(air.msgs) : Intact(air.msgs[i])

(* Data blocks ahead of the first loss never wait for the rest of the       *)
(* group: they are delivered however the group ends.                        *)
PrefixDelivered ==
  GroupOver /\ air.ready =>
    \A i \in 1..Len(air.msgs) :
      (\A k \in 1..i : Received(k)) => Intact(air.msgs[i])

(* A radio that loses nothing never makes the counters report a loss, over  *)
(* any pattern of full and flushed groups and across the wrap.              *)
NoFalseAlarm ==
  air.lost = 0 =>
    /\ m_stats.dropped_packets = 0
    /\ m_stats.dropped_blocks = 0
    /\ m_stats.lost_sync = 0

(* Blocks held for decoding come from one group, even when copies arrive.   *)
OneGroupHeld ==
  \A i \in 1..Len(m_blocks) :
    /\ m_blocks[i].seq_num = m_prev_header.seq_num
    /\ BlockSize(m_blocks[i]) <= m_block_size
-----------------------------------------------------------------------------
(* What the comments and the test of the code say of it, where the code     *)
(* does otherwise.                                                          *)

(* test_fec.cc compares what comes out with what went in: every block       *)
(* released holds the bytes of a message.                                   *)
NoGarbage == \A k \in 1..Len(delivered) : delivered[k].id # 0

(* "The current block size is equal to the block size of the largest        *)
(* block": enough blocks of a group, one of them a data block, rebuild it.  *)
RecoveredWhateverTheLengths ==
  GroupOver /\ air.ready /\ EnoughReceived =>
    \A i \in 1..Len(air.msgs) : Intact(air.msgs[i])

=============================================================================
