---------------------------- MODULE FECLinkProofs ----------------------------
(***************************************************************************)
(* For any group size, block size, sequence range, loss and relay: every   *)
(* variable keeps its type, and the blocks the decoder holds are of one    *)
(* group and no longer than m_block_size.  Without a relay, moreover:      *)
(*   - a radio that loses nothing is never reported to lose;               *)
(*   - the data blocks ahead of the first loss of a group are delivered;   *)
(*   - enough blocks of a group rebuild all of it;                         *)
(*   - as long as no outage swallows a whole turn of the sequence number,  *)
(*     the blocks held are in order and short of the group, the link is a  *)
(*     datagram link, and only FEC blocks left over make garbage.          *)
(***************************************************************************)
EXTENDS FECLink, FECEncoderProofs, WellFoundedInduction, NaturalsInduction

Coded == ~Uncoded(NumBlocks, NumFecBlocks)

(* Packets as the encoder makes them: none has the number 0 the decoder     *)
(* starts with, each has a payload, an FEC block that of the whole group,   *)
(* and a link is coded or it is not.                                        *)
RealPackets ==
  {p \in Packets : /\ p.seq_num # 0
                   /\ Len(p.msgs) >= 1
                   /\ Coded /\ ~IsDataBlock(p) => Len(p.msgs) = p.n_blocks
                   /\ Uncoded(p.n_blocks, p.n_fec_blocks) <=> ~Coded}

AirTyped == enc_out_blocks \in Seq(RealPackets) /\ relayed \in Seq(RealPackets)

DecTyped ==
  /\ m_block_size \in Nat
  /\ m_prev_header \in [seq_num : 0..(SeqMod - 1), block : Nat]
  /\ m_blocks \in Seq(RealPackets)

(* m_block_size tells whether a group is in progress.                       *)
SizeTells == m_block_size = 0 <=> m_blocks = <<>>

(* A link without coding holds nothing.                                     *)
NothingHeld == ~Coded => m_blocks = <<>>

DecInv == DecTyped /\ SizeTells /\ NothingHeld /\ OneGroupHeld

(* The inductive invariant.  OneGroupHeld needs SizeTells: a packet that    *)
(* finds m_block_size 0 is added without clearing anything.                 *)
LinkInv == EncInv /\ AirTyped /\ DecInv /\ sent \in 0..MaxMessages

-----------------------------------------------------------------------------
(*********************************** Packets *******************************)

(* What is known of a packet on the air.                                    *)
LEMMA PacketFacts ==
  ASSUME NEW p \in RealPackets
  PROVE  /\ p \in Packets
         /\ p.seq_num \in 1..(SeqMod - 1) /\ p.block \in Nat
         /\ p.n_blocks \in Nat /\ p.n_fec_blocks \in Nat
         /\ BlockSize(p) \in Nat /\ BlockSize(p) > 0
         /\ Uncoded(p.n_blocks, p.n_fec_blocks) <=> ~Coded
<1>1. /\ p \in Packets /\ p.seq_num # 0 /\ Len(p.msgs) >= 1
      /\ Uncoded(p.n_blocks, p.n_fec_blocks) <=> ~Coded
  BY DEF RealPackets
<1>2. /\ p.seq_num \in 0..(SeqMod - 1) /\ p.block \in Nat /\ p.n_blocks \in Nat
      /\ p.n_fec_blocks \in Nat /\ p.msgs \in Seq(Messages)
  BY <1>1 DEF Packets
<1>3. p.seq_num \in 1..(SeqMod - 1)
  BY <1>1, <1>2, ConstantFacts
<1>4. p.msgs[1] \in Messages
  <2>1. Len(p.msgs) \in Nat
    BY <1>2, LenProperties
  <2>2. 1 \in 1..Len(p.msgs)
    BY <1>1, <2>1
  <2>3. QED
    BY <1>2, <2>2, ElementOfSeq
<1>5. p.msgs[1].length \in 1..MaxBlockSize
  <2>1. p.msgs[1].length \in Lengths
    BY <1>4 DEF Messages
  <2>2. QED
    BY <2>1, BlockAssumption DEF BlockAssumption
<1>6. BlockSize(p) \in Nat /\ BlockSize(p) > 0
  BY <1>5, ConstantFacts DEF BlockSize, DataLength
<1>7. QED
  BY <1>1, <1>2, <1>3, <1>6

(* Unrolling the sequence number tells a new group from the old.            *)
LEMMA NewSequenceFacts ==
  ASSUME DecTyped, NEW p \in RealPackets
  PROVE  /\ NewSequence(p) <=> p.seq_num # m_prev_header.seq_num
         /\ UnrolledSeq(p) \in Nat /\ UnrolledSeq(p) >= m_prev_header.seq_num
<1>1. p.seq_num \in 1..(SeqMod - 1) /\ SeqMod \in Nat
  BY PacketFacts, ConstantFacts
<1>2. m_prev_header.seq_num \in 0..(SeqMod - 1)
  BY DEF DecTyped
<1>3. QED
  BY <1>1, <1>2 DEF NewSequence, UnrolledSeq

(* What add_block() makes of the header it has seen.                        *)
LEMMA PrevTyped ==
  ASSUME NEW p \in RealPackets
  PROVE  [seq_num |-> p.seq_num, block |-> p.block] \in [seq_num : 0..(SeqMod - 1), block : Nat]
<1>1. p.seq_num \in 0..(SeqMod - 1) /\ p.block \in Nat
  BY PacketFacts, ConstantFacts
<1>2. QED
  BY <1>1

(* What is kept when p comes is of p's group.                               *)
LEMMA KeptFacts ==
  ASSUME DecInv, NEW p \in RealPackets, Accepts(p)
  PROVE  /\ KeptSize(p) \in Nat /\ KeptBlocks(p) \in Seq(RealPackets)
         /\ KeptSize(p) = 0 <=> KeptBlocks(p) = <<>>
         /\ \A i \in 1..Len(KeptBlocks(p)) :
              /\ KeptBlocks(p)[i].seq_num = p.seq_num
              /\ BlockSize(KeptBlocks(p)[i]) <= KeptSize(p)
<1>1. CASE Break(p)
  <2>1. KeptSize(p) = 0 /\ KeptBlocks(p) = <<>>
    BY <1>1 DEF KeptSize, KeptBlocks
  <2>2. QED
    BY <2>1, EmptySeq
<1>2. CASE ~Break(p)
  <2>1. KeptSize(p) = m_block_size /\ KeptBlocks(p) = m_blocks
    BY <1>2 DEF KeptSize, KeptBlocks
  <2>2. m_block_size # 0 => p.seq_num = m_prev_header.seq_num
    BY <1>2, NewSequenceFacts DEF Break, DecInv
  <2>3. \A i \in 1..Len(m_blocks) : /\ m_blocks[i].seq_num = p.seq_num
                                    /\ BlockSize(m_blocks[i]) <= m_block_size
    <3>1. CASE m_block_size = 0
      BY <3>1, EmptySeq DEF DecInv, SizeTells
    <3>2. CASE m_block_size # 0
      BY <2>2, <3>2 DEF DecInv, OneGroupHeld
    <3>3. QED
      BY <3>1, <3>2
  <2>4. QED
    BY <2>1, <2>3 DEF DecInv, DecTyped, SizeTells
<1>3. QED
  BY <1>1, <1>2

(* Nothing is held once the group is cleared.                               *)
LEMMA ClearedDecInv ==
  ASSUME NEW p \in RealPackets, ClearGroup,
         m_prev_header' = [seq_num |-> p.seq_num, block |-> p.block]
  PROVE  DecInv'
<1>1. m_block_size' = 0 /\ m_blocks' = <<>>
  BY DEF ClearGroup
<1>2. QED
  BY <1>1, PrevTyped, EmptySeq DEF DecInv, DecTyped, SizeTells, NothingHeld, OneGroupHeld

(* add_block() keeps the decoder's invariant, whatever packet comes when.   *)
LEMMA AddBlockDecInv ==
  ASSUME DecInv, NEW p \in RealPackets, DecAddBlock(p)
  PROVE  DecInv'
<1> DEFINE header == [seq_num |-> p.seq_num, block |-> p.block]
<1>1. m_prev_header' = header
  BY DEF DecAddBlock, PassThrough, SkipBlock, AddDataBlock, HoldFecBlock, DecodeGroup
<1>2. header \in [seq_num : 0..(SeqMod - 1), block : Nat] /\ header.seq_num = p.seq_num
  BY PrevTyped
<1> HIDE DEF header
<1>3. CASE PassThrough(p) \/ SkipBlock(p)
  <2>1. m_blocks = <<>>
    BY <1>3, PacketFacts DEF PassThrough, SkipBlock, DecInv, SizeTells, NothingHeld
  <2>2. m_blocks' = m_blocks /\ m_block_size' = m_block_size
    BY <1>3 DEF PassThrough, SkipBlock
  <2>3. QED
    BY <1>1, <1>2, <2>1, <2>2, EmptySeq
       DEF DecInv, DecTyped, SizeTells, NothingHeld, OneGroupHeld
<1>4. CASE AddDataBlock(p)
  <2> DEFINE blocks == Append(KeptBlocks(p), p)
             size == IF KeptSize(p) > BlockSize(p) THEN KeptSize(p) ELSE BlockSize(p)
  <2>1. CASE ClearGroup
    BY <1>1, <2>1, ClearedDecInv DEF header
  <2>2. CASE m_block_size' = size /\ m_blocks' = blocks
    <3>1. Accepts(p) /\ Coded
      BY <1>4, PacketFacts DEF AddDataBlock, Accepts
    <3>2. /\ KeptSize(p) \in Nat /\ KeptBlocks(p) \in Seq(RealPackets)
          /\ \A i \in 1..Len(KeptBlocks(p)) :
               /\ KeptBlocks(p)[i].seq_num = p.seq_num
               /\ BlockSize(KeptBlocks(p)[i]) <= KeptSize(p)
      BY <3>1, KeptFacts
    <3>3. BlockSize(p) \in Nat /\ BlockSize(p) > 0
      BY PacketFacts
    <3>4. size \in Nat /\ size # 0 /\ KeptSize(p) <= size /\ BlockSize(p) <= size
      BY <3>2, <3>3
    <3>5. /\ blocks \in Seq(RealPackets) /\ blocks # <<>>
          /\ Len(blocks) = Len(KeptBlocks(p)) + 1 /\ Len(KeptBlocks(p)) \in Nat
          /\ \A i \in 1..Len(KeptBlocks(p)) : blocks[i] = KeptBlocks(p)[i]
          /\ blocks[Len(KeptBlocks(p)) + 1] = p
      BY <3>2, AppendProperties, LenProperties
    <3> HIDE DEF size, blocks
    <3>6. ASSUME NEW i \in 1..Len(blocks)
          PROVE  blocks[i].seq_num = p.seq_num /\ BlockSize(blocks[i]) <= size
      <4>1. CASE i = Len(KeptBlocks(p)) + 1
        BY <3>4, <3>5, <4>1
      <4>2. CASE i # Len(KeptBlocks(p)) + 1
        <5>1. i \in 1..Len(KeptBlocks(p))
          BY <3>5, <4>2
        <5>2. blocks[i] = KeptBlocks(p)[i]
          BY <3>5, <5>1
        <5>3. blocks[i] \in RealPackets
          BY <3>5, ElementOfSeq
        <5>4. BlockSize(blocks[i]) \in Nat
          BY <5>3, PacketFacts
        <5>5. QED
          BY <3>2, <3>4, <5>1, <5>2, <5>4
      <4>3. QED
        BY <4>1, <4>2
    <3>7. OneGroupHeld'
      BY <1>1, <1>2, <2>2, <3>6 DEF OneGroupHeld
    <3>8. QED
      BY <1>1, <1>2, <2>2, <3>1, <3>4, <3>5, <3>7
         DEF DecInv, DecTyped, SizeTells, NothingHeld
  <2>3. QED
    BY <1>4, <2>1, <2>2 DEF AddDataBlock
<1>5. CASE HoldFecBlock(p)
  <2>1. Accepts(p) /\ Coded
    BY <1>5, PacketFacts DEF HoldFecBlock, Accepts
  <2>2. m_block_size' = KeptSize(p) /\ m_blocks' = KeptBlocks(p)
    BY <1>5 DEF HoldFecBlock
  <2>3. QED
    BY <1>1, <1>2, <2>1, <2>2, KeptFacts DEF DecInv, DecTyped, SizeTells, NothingHeld, OneGroupHeld
<1>6. CASE DecodeGroup(p)
  BY <1>1, <1>6, ClearedDecInv DEF DecodeGroup, header
<1>7. QED
  BY <1>3, <1>4, <1>5, <1>6 DEF DecAddBlock

-----------------------------------------------------------------------------
(******************************** The encoder's side ***********************)

(* The largest length of a group covers each of its blocks.                 *)
LEMMA MaxLengthCovers ==
  ASSUME NEW in, NEW j \in 1..Len(in), DataLength(in[j]) \in 1..MaxBlockSize
  PROVE  DataLength(in[j]) <= MaxLength(in)
<1> DEFINE B == {b \in 1..MaxBlockSize : \E i \in 1..Len(in) : b <= DataLength(in[i])}
           A == 1..DataLength(in[j])
<1>1. IsFiniteSet(1..MaxBlockSize)
  BY ConstantFacts, FS_Interval
<1>2. B \in SUBSET (1..MaxBlockSize) /\ IsFiniteSet(B)
  <2>1. B \in SUBSET (1..MaxBlockSize)
    OBVIOUS
  <2>2. QED
    BY <1>1, <2>1, FS_Subset
<1>3. A \in SUBSET B
  BY ConstantFacts
<1>4. Cardinality(A) = DataLength(in[j])
  BY ConstantFacts, FS_Interval
<1> HIDE DEF A, B
<1>5. Cardinality(A) <= Cardinality(B)
  BY <1>2, <1>3, FS_Subset
<1>6. QED
  BY <1>4, <1>5 DEF MaxLength, B

(* The payload of a group's packets.                                        *)
LEMMA GroupPayload ==
  ASSUME EncTypeOK, Coded, NEW in, Gathered(in)
  PROVE  /\ \A i \in 1..Len(in) :
              /\ GroupPackets(in)[i].msgs = in[i].msgs
              /\ DataLength(in[i]) <= GroupPackets(in)[i].room
         /\ \A i \in (Len(in) + 1)..(Len(in) + NumFecBlocks) :
              GroupPackets(in)[i].msgs = [j \in 1..Len(in) |-> in[j].msgs[1]]
<1> DEFINE D == DataPackets(in)
           F == FecPackets(in)
           grp == GroupPackets(in)
<1>1. /\ in \in Seq(Packets) /\ Len(in) \in Nat /\ Len(in) >= 1
      /\ \A i \in 1..Len(in) : in[i] \in Packets /\ Len(in[i].msgs) = 1
  <2>1. in \in Seq(Packets) /\ Len(in) \in Nat /\ Len(in) >= 1
    BY EmptySeq, LenProperties DEF Gathered
  <2>2. QED
    BY <2>1, ElementOfSeq DEF Gathered
<1>2. NumFecBlocks \in Nat /\ NumFecBlocks >= 1
  BY ConstantFacts DEF Coded, Uncoded
<1>3. DOMAIN D = 1..Len(in) /\ DOMAIN F = 1..NumFecBlocks
  BY DEF DataPackets, FecPackets
<1>4. \A i \in 1..(Len(in) + NumFecBlocks) :
        grp[i] = IF i <= Len(in) THEN D[i] ELSE F[i - Len(in)]
  <2>1. D = [i \in 1..Len(in) |-> D[i]] /\ F = [i \in 1..NumFecBlocks |-> F[i]]
    BY DEF DataPackets, FecPackets
  <2> DEFINE S == {D[i] : i \in 1..Len(in)} \cup {F[i] : i \in 1..NumFecBlocks}
  <2>2. D \in Seq(S) /\ Len(D) = Len(in)
    <3> HIDE DEF D, F
    <3>1. QED
      BY <1>1, <2>1
  <2>3. F \in Seq(S) /\ Len(F) = NumFecBlocks
    <3> HIDE DEF D, F
    <3>1. QED
      BY <1>2, <2>1
  <2>4. grp = D \o F
    BY DEF GroupPackets
  <2> HIDE DEF D, F, grp, S
  <2>5. \A i \in 1..(Len(D) + Len(F)) :
          (D \o F)[i] = IF i <= Len(D) THEN D[i] ELSE F[i - Len(D)]
    BY <2>2, <2>3, ConcatProperties
  <2>6. QED
    BY <2>2, <2>3, <2>4, <2>5
<1>5. ASSUME NEW i \in 1..Len(in)
      PROVE  grp[i].msgs = in[i].msgs /\ DataLength(in[i]) <= grp[i].room
  <2>1. grp[i] = D[i]
    <3> HIDE DEF D, F, grp
    <3>1. QED
      BY <1>1, <1>2, <1>4
  <2>2. D[i] = [in[i] EXCEPT !.n_blocks = Len(in), !.room = MaxLength(in)]
    BY DEF DataPackets
  <2>3. in[i] \in Packets
    BY <1>1
  <2>4. D[i].msgs = in[i].msgs /\ D[i].room = MaxLength(in)
    <3> HIDE DEF D
    <3>1. QED
      BY <2>2, <2>3 DEF Packets
  <2>5. DataLength(in[i]) \in 1..MaxBlockSize
    <3>1. in[i].msgs \in Seq(Messages) /\ Len(in[i].msgs) = 1
      BY <1>1 DEF Packets
    <3>2. in[i].msgs[1] \in Messages
      BY <3>1, ElementOfSeq
    <3>3. QED
      BY <3>2, BlockAssumption DEF BlockAssumption, Messages, DataLength
  <2>6. DataLength(in[i]) <= MaxLength(in)
    BY <2>5, MaxLengthCovers
  <2> HIDE DEF D, grp
  <2>7. QED
    BY <2>1, <2>4, <2>6
<1>6. ASSUME NEW i \in (Len(in) + 1)..(Len(in) + NumFecBlocks)
      PROVE  grp[i].msgs = [j \in 1..Len(in) |-> in[j].msgs[1]]
  <2>1. i - Len(in) \in 1..NumFecBlocks /\ grp[i] = F[i - Len(in)]
    <3> HIDE DEF D, F, grp
    <3>1. /\ i \in 1..(Len(in) + NumFecBlocks) /\ ~(i <= Len(in))
          /\ i - Len(in) \in 1..NumFecBlocks
      BY <1>1, <1>2
    <3>2. QED
      BY <1>4, <3>1
  <2>2. F[i - Len(in)].msgs = [j \in 1..Len(in) |-> in[j].msgs[1]]
    BY <2>1 DEF FecPackets
  <2>3. QED
    BY <2>1, <2>2
<1>7. QED
  BY <1>5, <1>6

(* The packets of a group are real.                                         *)
LEMMA GroupReal ==
  ASSUME EncTypeOK, Coded, NEW in, Gathered(in)
  PROVE  GroupPackets(in) \in Seq(RealPackets)
<1> DEFINE grp == GroupPackets(in)
           n == Len(in) + NumFecBlocks
<1>1. /\ grp \in Seq(Packets) /\ Len(in) \in Nat /\ Len(in) >= 1 /\ Len(grp) = n
      /\ \A i \in 1..n : /\ grp[i].seq_num = m_seq_num /\ grp[i].n_blocks = Len(in)
                         /\ grp[i].n_fec_blocks = NumFecBlocks /\ Len(grp[i].msgs) >= 1
                         /\ grp[i].block = i - 1
  BY GroupShape
<1>2. NumFecBlocks \in Nat /\ NumFecBlocks # 0 /\ m_seq_num \in 1..(SeqMod - 1)
  BY ConstantFacts DEF Coded, Uncoded, EncTypeOK
<1>2f. \A i \in (Len(in) + 1)..n : Len(grp[i].msgs) = Len(in)
  <2>1. Len([j \in 1..Len(in) |-> in[j].msgs[1]]) = Len(in)
    BY <1>1
  <2>2. QED
    BY <2>1, GroupPayload
<1> HIDE DEF grp
<1>3. ASSUME NEW i \in 1..n
      PROVE  grp[i] \in RealPackets
  <2>1. grp[i] \in Packets
    BY <1>1, ElementOfSeq
  <2>2. grp[i].seq_num # 0
    BY <1>1, <1>2
  <2>3. ~Uncoded(grp[i].n_blocks, grp[i].n_fec_blocks)
    BY <1>1, <1>2 DEF Uncoded
  <2>4. ~IsDataBlock(grp[i]) => Len(grp[i].msgs) = grp[i].n_blocks
    <3>1. ~IsDataBlock(grp[i]) => i \in (Len(in) + 1)..n
      BY <1>1, <1>2 DEF IsDataBlock
    <3>2. QED
      BY <1>1, <1>2f, <3>1
  <2>5. QED
    BY <1>1, <2>1, <2>2, <2>3, <2>4 DEF RealPackets
<1>4. grp \in [1..n -> RealPackets] /\ n \in Nat
  <2>1. grp \in [1..n -> Packets]
    BY <1>1, LenProperties
  <2>2. QED
    BY <1>1, <1>2, <1>3, <2>1
<1>5. QED
  BY <1>4, IsASeq DEF grp

(* What a drained encoder makes of a message or a flush: nothing yet, a     *)
(* packet without coding, or one whole group.                               *)
Produces ==
  \/ enc_out_blocks' = <<>> /\ m_seq_num' = m_seq_num /\ Coded
  \/ /\ ~Coded
     /\ \E p \in RealPackets : enc_out_blocks' = <<p>>
  \/ /\ Coded
     /\ m_seq_num' = NextSeq(m_seq_num)
     /\ \E in : Gathered(in) /\ enc_out_blocks' = GroupPackets(in)

(* encode_blocks() makes one whole group.                                   *)
LEMMA EncodeProduces ==
  ASSUME EncInv, Coded, enc_out_blocks = <<>>, NEW in, Gathered(in), EncodeBlocks(in)
  PROVE  Produces
<1>1. enc_out_blocks' = <<>> \o GroupPackets(in) /\ m_seq_num' = NextSeq(m_seq_num)
  BY DEF EncodeBlocks
<1>2. GroupPackets(in) \in Seq(Packets)
  BY GroupShape DEF EncInv
<1>3. enc_out_blocks' = GroupPackets(in)
  BY <1>1, <1>2, ConcatEmptySeq
<1>4. QED
  BY <1>1, <1>3 DEF Produces

(* What add_block() makes,                                                  *)
LEMMA AddProduces ==
  ASSUME EncInv, enc_out_blocks = <<>>, NEW msg \in Messages, EncAddBlock(msg)
  PROVE  Produces
<1> DEFINE blk == GetNextBlock(msg)
<1>1. blk \in Packets /\ Gathered(Append(m_in_blocks, blk))
  BY AppendGathered DEF EncInv
<1>2. CASE PassBlock(msg)
  <2>1. ~Coded /\ enc_out_blocks' = Append(<<>>, blk)
    BY <1>2 DEF PassBlock, Coded
  <2>2. /\ blk.seq_num = m_seq_num /\ blk.msgs = <<msg>>
        /\ blk.n_blocks = NumBlocks /\ blk.n_fec_blocks = NumFecBlocks
    BY DEF GetNextBlock
  <2>3. m_seq_num # 0
    BY DEF EncInv, EncTypeOK
  <2>4. Len(blk.msgs) >= 1
    BY <2>2
  <2> HIDE DEF blk
  <2>5. blk \in RealPackets
    <3>1. blk.seq_num # 0 /\ Uncoded(blk.n_blocks, blk.n_fec_blocks)
      BY <2>1, <2>2, <2>3 DEF Coded
    <3>2. QED
      BY <1>1, <2>1, <2>4, <3>1 DEF RealPackets
  <2>6. Append(<<>>, blk) = <<blk>>
    OBVIOUS
  <2>7. QED
    BY <2>1, <2>5, <2>6 DEF Produces
<1>3. CASE HoldBlock(msg)
  BY <1>3 DEF HoldBlock, Produces, Coded
<1>4. CASE CompleteGroup(msg)
  BY <1>1, <1>4, EncodeProduces DEF CompleteGroup, Coded
<1>5. QED
  BY <1>2, <1>3, <1>4 DEF EncAddBlock

(* and what flush() makes.                                                  *)
LEMMA FlushProduces ==
  ASSUME EncInv, enc_out_blocks = <<>>, Flush
  PROVE  Produces
<1>1. Gathered(m_in_blocks) /\ Coded /\ EncodeBlocks(m_in_blocks)
  BY DEF EncInv, EncTypeOK, GroupGathered, NothingGathered, Gathered, Flush, Coded
<1>2. QED
  BY <1>1, EncodeProduces

(* All of it is packets as above.                                           *)
LEMMA ProducedReal ==
  ASSUME EncInv, Produces
  PROVE  enc_out_blocks' \in Seq(RealPackets)
<1>1. CASE enc_out_blocks' = <<>>
  BY <1>1, EmptySeq
<1>2. CASE \E p \in RealPackets : enc_out_blocks' = <<p>>
  BY <1>2
<1>3. CASE Coded /\ \E in : Gathered(in) /\ enc_out_blocks' = GroupPackets(in)
  BY <1>3, GroupReal DEF EncInv
<1>4. QED
  BY <1>1, <1>2, <1>3 DEF Produces

-----------------------------------------------------------------------------
(********************************** The link *******************************)

(* The message offered is one of the model's.                               *)
LEMMA SentMessage ==
  ASSUME LinkInv, NEW l \in Lengths, SendMessage(l)
  PROVE  [id |-> sent + 1, length |-> l] \in Messages /\ sent' \in 0..MaxMessages
<1>1. sent + 1 \in 1..MaxMessages /\ sent' = sent + 1
  BY LinkAssumption DEF SendMessage, LinkAssumption, LinkInv
<1>2. sent + 1 \in Ids
  BY <1>1, LinkAssumption DEF LinkAssumption
<1>3. QED
  BY <1>1, <1>2 DEF Messages

(* The decoder's invariant is about its own state only.                     *)
LEMMA DecInvUnchanged ==
  ASSUME DecInv, UNCHANGED <<m_block_size, m_prev_header, m_blocks>>
  PROVE  DecInv'
BY DEF DecInv, DecTyped, SizeTells, NothingHeld, OneGroupHeld

(* The encoder hands out real packets, and so does a relay.                 *)
LEMMA TakenPacket ==
  ASSUME LinkInv, EncGetBlock
  PROVE  /\ Head(enc_out_blocks) \in RealPackets
         /\ enc_out_blocks' \in Seq(RealPackets)
         /\ RelayHears(Head(enc_out_blocks)) => relayed' \in Seq(RealPackets)
<1>1. enc_out_blocks \in Seq(RealPackets) /\ enc_out_blocks # <<>> /\ relayed \in Seq(RealPackets)
  BY DEF LinkInv, AirTyped, EncGetBlock
<1>2. Head(enc_out_blocks) \in RealPackets /\ Tail(enc_out_blocks) \in Seq(RealPackets)
  BY <1>1, HeadTailProperties
<1>3. Append(relayed, Head(enc_out_blocks)) \in Seq(RealPackets)
  BY <1>1, <1>2, AppendProperties
<1>4. QED
  BY <1>1, <1>2, <1>3 DEF EncGetBlock, RelayHears

(* The link's invariant holds at the start,                                 *)
LEMMA InitLinkInv == Init => LinkInv
<1> SUFFICES ASSUME Init PROVE LinkInv
  OBVIOUS
<1>1. EncInv
  BY InitEncInv DEF Init
<1>2. AirTyped
  BY EmptySeq DEF Init, EncInit, AirTyped
<1>3. DecInv
  BY EmptySeq, ConstantFacts
     DEF Init, DecInit, DecInv, DecTyped, SizeTells, NothingHeld, OneGroupHeld
<1>4. sent \in 0..MaxMessages
  BY LinkAssumption DEF LinkAssumption, Init
<1>5. QED
  BY <1>1, <1>2, <1>3, <1>4 DEF LinkInv

(* and every step keeps it.                                                 *)
LEMMA NextLinkInv == LinkInv /\ [Next]_vars => LinkInv'
<1> SUFFICES ASSUME LinkInv, [Next]_vars PROVE LinkInv'
  OBVIOUS
<1>1. ASSUME NEW l \in Lengths, SendMessage(l)
      PROVE  LinkInv'
  <2>1. /\ enc_out_blocks = <<>> /\ EncAddBlock([id |-> sent + 1, length |-> l])
        /\ UNCHANGED <<m_block_size, m_prev_header, m_blocks>> /\ relayed' = relayed
    BY <1>1 DEF SendMessage, decVars
  <2>2. [id |-> sent + 1, length |-> l] \in Messages /\ sent' \in 0..MaxMessages
    BY <1>1, SentMessage
  <2>3. EncInv' /\ Produces
    BY <2>1, <2>2, AddBlockEncInv, AddProduces DEF LinkInv
  <2>4. enc_out_blocks' \in Seq(RealPackets)
    BY <2>3, ProducedReal DEF LinkInv
  <2>5. DecInv'
    BY <2>1, DecInvUnchanged DEF LinkInv
  <2>6. QED
    BY <2>1, <2>2, <2>3, <2>4, <2>5 DEF LinkInv, AirTyped
<1>2. CASE SendFlush
  <2>1. /\ enc_out_blocks = <<>> /\ Flush /\ relayed' = relayed /\ sent' = sent
        /\ UNCHANGED <<m_block_size, m_prev_header, m_blocks>>
    BY <1>2 DEF SendFlush, decVars
  <2>2. EncInv' /\ Produces
    BY <2>1, FlushEncInv, FlushProduces DEF LinkInv
  <2>3. enc_out_blocks' \in Seq(RealPackets)
    BY <2>2, ProducedReal DEF LinkInv
  <2>4. DecInv'
    BY <2>1, DecInvUnchanged DEF LinkInv
  <2>5. QED
    BY <2>1, <2>2, <2>3, <2>4 DEF LinkInv, AirTyped
<1>3. CASE TransmitHeard
  <2>1. /\ EncGetBlock /\ DecAddBlock(Head(enc_out_blocks)) /\ sent' = sent
        /\ RelayHears(Head(enc_out_blocks))
    BY <1>3 DEF TransmitHeard
  <2>2. EncInv'
    BY <2>1, GetBlockEncInv DEF LinkInv
  <2>3. DecInv'
    BY <2>1, TakenPacket, AddBlockDecInv DEF LinkInv
  <2>4. QED
    BY <2>1, <2>2, <2>3, TakenPacket DEF LinkInv, AirTyped
<1>4. CASE TransmitLost
  <2>1. /\ EncGetBlock /\ sent' = sent /\ RelayHears(Head(enc_out_blocks))
        /\ UNCHANGED <<m_block_size, m_prev_header, m_blocks>>
    BY <1>4 DEF TransmitLost, decVars
  <2>2. EncInv'
    BY <2>1, GetBlockEncInv DEF LinkInv
  <2>3. DecInv'
    BY <2>1, DecInvUnchanged DEF LinkInv
  <2>4. QED
    BY <2>1, <2>2, <2>3, TakenPacket DEF LinkInv, AirTyped
<1>5. CASE RelayTransmit
  <2>1. /\ relayed # <<>> /\ relayed' = Tail(relayed) /\ sent' = sent
        /\ UNCHANGED <<m_seq_num, m_in_blocks, enc_out_blocks>>
        /\ \/ DecAddBlock(Head(relayed))
           \/ UNCHANGED <<m_block_size, m_prev_header, m_blocks>>
    BY <1>5 DEF RelayTransmit, encVars, decVars
  <2>2. Head(relayed) \in RealPackets /\ Tail(relayed) \in Seq(RealPackets)
    BY <2>1, HeadTailProperties DEF LinkInv, AirTyped
  <2>3. DecInv'
    BY <2>1, <2>2, AddBlockDecInv, DecInvUnchanged DEF LinkInv
  <2>4. EncInv'
    BY <2>1, NextEncInv DEF LinkInv, encVars
  <2>5. QED
    BY <2>1, <2>2, <2>3, <2>4 DEF LinkInv, AirTyped
<1>6. CASE Deliver \/ UNCHANGED vars
  <2>1. /\ UNCHANGED <<m_seq_num, m_in_blocks, enc_out_blocks, sent, relayed>>
        /\ UNCHANGED <<m_block_size, m_prev_header, m_blocks>>
    BY <1>6 DEF Deliver, DecGetBlock, vars, encVars, decVars
  <2>2. EncInv'
    BY <2>1, NextEncInv DEF LinkInv, encVars
  <2>3. DecInv'
    BY <2>1, DecInvUnchanged DEF LinkInv
  <2>4. QED
    BY <2>1, <2>2, <2>3 DEF LinkInv, AirTyped
<1>7. QED
  BY <1>1, <1>2, <1>3, <1>4, <1>5, <1>6 DEF Next

(* So it always holds.                                                      *)
LEMMA LinkInvariant == Spec => []LinkInv
BY InitLinkInv, NextLinkInv, PTL DEF Spec

(* The decoder never holds data blocks of two groups, nor one longer than   *)
(* m_block_size, by which decode() sizes its arrays: with any losses and    *)
(* any copies from a relay, for all sizes.                                  *)
THEOREM GroupsNeverMix == Spec => []OneGroupHeld
<1>1. LinkInv => OneGroupHeld
  BY DEF LinkInv, DecInv
<1>2. QED
  BY <1>1, LinkInvariant, PTL

-----------------------------------------------------------------------------
(***************************** A radio that loses nothing ******************)

(* The history variable of the group on the air.                            *)
AirRecord ==
  /\ air = [msgs |-> air.msgs, got |-> air.got, ready |-> air.ready, lost |-> air.lost,
            silent |-> air.silent]
  /\ air.lost \in Nat /\ air.silent \in Nat

Clean ==
  [total_blocks : Nat, total_packets : Nat, dropped_blocks : {0}, dropped_packets : {0},
   lost_sync : {0}]

(* Before the first block of a group nothing is held and its number is new; *)
(* then the previous packet is the one before it, and every data block so   *)
(* far is held until the last one completes the group.                      *)
BetweenGroups(seq) == m_block_size = 0 /\ m_prev_header.seq_num # seq

WithinGroup(p) ==
  /\ m_prev_header.seq_num = p.seq_num
  /\ m_prev_header.block = p.block - 1
  /\ p.block < p.n_blocks => m_block_size # 0 /\ Len(m_blocks) = p.block
  /\ p.block >= p.n_blocks => m_block_size = 0

Expects(p) == IF p.block = 0 THEN BetweenGroups(p.seq_num) ELSE WithinGroup(p)

InStep ==
  /\ IF enc_out_blocks = <<>> THEN BetweenGroups(m_seq_num) ELSE Expects(enc_out_blocks[1])
  /\ m_stats \in Clean

(* The inductive invariant of a coded link without a relay.                 *)
CleanInv ==
  /\ LinkInv
  /\ AirRecord
  /\ relayed = <<>>
  /\ air.lost = 0 => InStep

(* The next number differs from the last.                                   *)
LEMMA NextSeqDiffers ==
  ASSUME NEW s \in 1..(SeqMod - 1)
  PROVE  NextSeq(s) # s
BY ConstantFacts DEF NextSeq

(* A packet that is expected adds nothing to the counters of losses.        *)
LEMMA CountClean ==
  ASSUME m_stats \in Clean, NEW p,
         Skipped(p) = 0, SkippedAtStart(p) = 0, LostGroups(p) = 0, LostSync(p) = 0
  PROVE  Count(p) \in Clean /\ [Count(p) EXCEPT !.total_blocks = @ + 1] \in Clean
<1>1. m_stats = [total_blocks |-> m_stats.total_blocks, total_packets |-> m_stats.total_packets,
                 dropped_blocks |-> 0, dropped_packets |-> 0, lost_sync |-> 0]
      /\ m_stats.total_blocks \in Nat /\ m_stats.total_packets \in Nat
  BY DEF Clean
<1>2. Count(p) = [total_blocks |-> m_stats.total_blocks,
                  total_packets |-> m_stats.total_packets + 1,
                  dropped_blocks |-> 0, dropped_packets |-> 0, lost_sync |-> 0]
  <2>1. Count(p) = [m_stats EXCEPT !.total_packets = m_stats.total_packets + 1,
                                   !.dropped_packets = 0, !.dropped_blocks = 0,
                                   !.lost_sync = 0]
    <3>1. /\ m_stats.dropped_packets + Skipped(p) + SkippedAtStart(p) = 0
          /\ m_stats.dropped_blocks + LostGroups(p) = 0
          /\ m_stats.lost_sync + LostSync(p) = 0
      BY <1>1
    <3>2. QED
      BY <3>1, Zenon DEF Count
  <2>2. QED
    BY <1>1, <2>1
<1>3. [Count(p) EXCEPT !.total_blocks = @ + 1] =
        [total_blocks |-> m_stats.total_blocks + 1,
         total_packets |-> m_stats.total_packets + 1,
         dropped_blocks |-> 0, dropped_packets |-> 0, lost_sync |-> 0]
  BY <1>2
<1>4. QED
  BY <1>1, <1>2, <1>3 DEF Clean

(* What the decoder is left with after the packet it expects: the state     *)
(* before the next packet of the group, or the group over.                  *)
LEMMA ExpectedPacket ==
  ASSUME DecInv, Coded, NEW p \in RealPackets, Expects(p), m_stats \in Clean, DecAddBlock(p)
  PROVE  /\ m_stats' \in Clean
         /\ m_prev_header' = [seq_num |-> p.seq_num, block |-> p.block]
         /\ p.block + 1 < p.n_blocks => m_block_size' # 0 /\ Len(m_blocks') = p.block + 1
         /\ p.block + 1 >= p.n_blocks => m_block_size' = 0
<1>1. /\ p.seq_num \in 1..(SeqMod - 1) /\ p.block \in Nat /\ p.n_blocks \in Nat
      /\ BlockSize(p) \in Nat /\ BlockSize(p) > 0
      /\ ~Uncoded(p.n_blocks, p.n_fec_blocks) /\ p.n_blocks > 0
  BY PacketFacts DEF Uncoded
<1>2. m_prev_header' = [seq_num |-> p.seq_num, block |-> p.block]
  BY DEF DecAddBlock, PassThrough, SkipBlock, AddDataBlock, HoldFecBlock, DecodeGroup
<1>3. NewSequence(p) <=> p.seq_num # m_prev_header.seq_num
  BY NewSequenceFacts DEF DecInv
<1>4. m_block_size \in Nat /\ m_blocks \in Seq(RealPackets) /\ (m_block_size = 0 <=> m_blocks = <<>>)
  BY DEF DecInv, DecTyped, SizeTells
<1>5. ~Break(p)
  BY <1>3 DEF Expects, BetweenGroups, WithinGroup, Break
<1>6. KeptSize(p) = m_block_size /\ KeptBlocks(p) = m_blocks
  BY <1>5 DEF KeptSize, KeptBlocks
<1>7. CASE p.block < p.n_blocks
  <2>1. /\ Len(m_blocks) = p.block
        /\ m_block_size = 0 <=> p.block = 0
        /\ m_block_size # 0 => ~NewSequence(p) /\ m_prev_header.block = p.block - 1
        /\ m_block_size = 0 => NewSequence(p)
    <3>1. CASE p.block = 0
      BY <1>3, <1>4, <3>1, EmptySeq DEF Expects, BetweenGroups
    <3>2. CASE p.block # 0
      BY <1>3, <1>7, <3>2 DEF Expects, WithinGroup
    <3>3. QED
      BY <3>1, <3>2
  <2>2. Skipped(p) = 0 /\ SkippedAtStart(p) = 0 /\ LostGroups(p) = 0 /\ LostSync(p) = 0
    BY <1>1, <1>5, <1>6, <2>1
       DEF Skipped, SkippedAtStart, LostGroups, LostSync, BlockGap
  <2>3. Count(p) \in Clean /\ [Count(p) EXCEPT !.total_blocks = @ + 1] \in Clean
    BY <2>2, CountClean
  <2>4. AddDataBlock(p)
    BY <1>1, <1>7, <2>1
       DEF DecAddBlock, PassThrough, SkipBlock, HoldFecBlock, DecodeGroup, IsDataBlock
  <2>5. Len(Append(m_blocks, p)) = p.block + 1
    BY <1>4, <2>1, AppendProperties
  <2>6. m_stats' \in Clean
    BY <2>3, <2>4 DEF AddDataBlock
  <2>7. \/ p.block + 1 = p.n_blocks /\ m_block_size' = 0
        \/ /\ p.block + 1 # p.n_blocks /\ m_block_size' # 0 /\ Len(m_blocks') = p.block + 1
    BY <1>1, <1>4, <1>6, <2>4, <2>5 DEF AddDataBlock, ClearGroup
  <2>8. QED
    BY <1>1, <1>2, <1>7, <2>6, <2>7
<1>8. CASE p.block >= p.n_blocks
  <2>1. m_block_size = 0 /\ ~NewSequence(p)
    BY <1>1, <1>3, <1>8 DEF Expects, WithinGroup
  <2>2. SkipBlock(p)
    BY <1>1, <2>1 DEF DecAddBlock, PassThrough, AddDataBlock, HoldFecBlock, DecodeGroup, Accepts
  <2>3. m_stats' \in Clean
    BY <2>2 DEF SkipBlock, Clean
  <2>4. m_block_size' = 0
    BY <2>1, <2>2 DEF SkipBlock
  <2>5. QED
    BY <1>1, <1>2, <1>8, <2>3, <2>4
<1>9. QED
  BY <1>1, <1>7, <1>8

(* The packet after it is the one expected next: GroupsContiguous.          *)
LEMMA HeardInStep ==
  ASSUME LinkInv, Coded, enc_out_blocks # <<>>, InStep, EncGetBlock,
         DecAddBlock(Head(enc_out_blocks))
  PROVE  InStep'
<1> DEFINE out == enc_out_blocks
           p == Head(enc_out_blocks)
<1>1. out \in Seq(RealPackets) /\ out # <<>> /\ Len(out) \in Nat /\ Len(out) >= 1
  BY EmptySeq, LenProperties DEF LinkInv, AirTyped
<1>2. /\ p \in RealPackets /\ p = out[1] /\ Tail(out) \in Seq(RealPackets)
      /\ Len(Tail(out)) = Len(out) - 1
      /\ \A i \in 1..Len(Tail(out)) : Tail(out)[i] = out[i + 1]
  BY <1>1, HeadTailProperties
<1>3. /\ p.seq_num \in 1..(SeqMod - 1) /\ p.block \in Nat /\ p.n_blocks \in Nat
      /\ p.n_fec_blocks \in Nat /\ p.n_fec_blocks > 0
  BY <1>2, PacketFacts DEF Uncoded
<1>4. enc_out_blocks' = Tail(out) /\ m_seq_num' = m_seq_num
  BY DEF EncGetBlock
<1>5. /\ m_stats' \in Clean
      /\ m_prev_header' = [seq_num |-> p.seq_num, block |-> p.block]
      /\ p.block + 1 < p.n_blocks => m_block_size' # 0 /\ Len(m_blocks') = p.block + 1
      /\ p.block + 1 >= p.n_blocks => m_block_size' = 0
  BY <1>2, ExpectedPacket DEF InStep, LinkInv
<1>6. /\ \A i \in 1..(Len(out) - 1) : Follows(out[i], out[i + 1])
      /\ out[Len(out)].block + 1 = out[Len(out)].n_blocks + out[Len(out)].n_fec_blocks
      /\ m_seq_num = NextSeq(out[Len(out)].seq_num)
  BY <1>1 DEF LinkInv, EncInv, GroupsContiguous, Coded
<1>7. Len(out) = 1 \/ Len(out) > 1
  <2>1. Len(out) \in Nat /\ Len(out) >= 1
    BY <1>1, Zenon
  <2> HIDE DEF out
  <2>2. QED
    BY <2>1
<1> HIDE DEF out, p
<1>8. CASE Len(out) = 1
  <2>1. enc_out_blocks' = <<>>
    BY <1>2, <1>4, <1>8, EmptySeq
  <2>2. p.block + 1 = p.n_blocks + p.n_fec_blocks /\ m_seq_num = NextSeq(p.seq_num)
    BY <1>2, <1>6, <1>8
  <2>3. p.block + 1 >= p.n_blocks /\ m_seq_num # p.seq_num
    BY <1>3, <2>2, NextSeqDiffers
  <2>4. QED
    BY <1>4, <1>5, <2>1, <2>3 DEF InStep, BetweenGroups
<1>9. CASE Len(out) > 1
  <2>0. PICK q : q = out[2]
    OBVIOUS
  <2>1. Follows(p, q) /\ enc_out_blocks' # <<>> /\ enc_out_blocks'[1] = q
    <3>1. 1 \in 1..(Len(out) - 1) /\ 1 \in 1..Len(Tail(out)) /\ Len(Tail(out)) # 0
      BY <1>1, <1>2, <1>9
    <3>2. Follows(out[1], out[1 + 1])
      BY <1>6, <3>1
    <3>3. Tail(out)[1] = out[1 + 1]
      BY <1>2, <3>1
    <3>4. Tail(out) # <<>>
      BY <3>1
    <3>5. QED
      BY <1>2, <1>4, <2>0, <3>2, <3>3, <3>4
  <2>2. CASE q.block = 0
    <3>1. q.seq_num = NextSeq(p.seq_num) /\ p.block + 1 = p.n_blocks + p.n_fec_blocks
      BY <1>3, <2>1, <2>2 DEF Follows
    <3>2. q.seq_num # p.seq_num /\ p.block + 1 >= p.n_blocks
      BY <1>3, <3>1, NextSeqDiffers
    <3>3. QED
      BY <1>4, <1>5, <2>1, <2>2, <3>2 DEF InStep, Expects, BetweenGroups
  <2>3. CASE q.block # 0
    <3>1. q.seq_num = p.seq_num /\ q.n_blocks = p.n_blocks /\ q.block = p.block + 1
      BY <2>1, <2>3 DEF Follows
    <3>2. WithinGroup(q)'
      BY <1>3, <1>5, <3>1 DEF WithinGroup
    <3>3. QED
      BY <1>5, <2>1, <2>3, <3>2 DEF InStep, Expects
  <2>4. QED
    BY <2>2, <2>3
<1>10. QED
  BY <1>7, <1>8, <1>9

(* A new group begins where the decoder expects it.                         *)
LEMMA ProducedInStep ==
  ASSUME LinkInv, Coded, enc_out_blocks = <<>>, InStep, Produces, UNCHANGED decVars
  PROVE  InStep'
<1>1. BetweenGroups(m_seq_num) /\ m_stats \in Clean
  BY DEF InStep
<1>2. CASE enc_out_blocks' = <<>> /\ m_seq_num' = m_seq_num
  BY <1>1, <1>2 DEF InStep, BetweenGroups, decVars
<1>3. ASSUME NEW in, Gathered(in), enc_out_blocks' = GroupPackets(in)
      PROVE  InStep'
  <2> DEFINE grp == GroupPackets(in)
  <2>1. /\ Len(in) \in Nat /\ Len(in) >= 1 /\ Len(grp) = Len(in) + NumFecBlocks
        /\ \A i \in 1..(Len(in) + NumFecBlocks) :
             grp[i].block = i - 1 /\ grp[i].seq_num = m_seq_num
    BY <1>3, GroupShape DEF LinkInv, EncInv
  <2> HIDE DEF grp
  <2>2. 1 \in 1..(Len(in) + NumFecBlocks) /\ Len(grp) # 0
    BY <2>1, ConstantFacts
  <2>3. grp[1].block = 0 /\ grp[1].seq_num = m_seq_num /\ grp # <<>>
    BY <2>1, <2>2
  <2>4. enc_out_blocks' = grp
    BY <1>3 DEF grp
  <2>5. QED
    BY <1>1, <2>3, <2>4 DEF InStep, Expects, BetweenGroups, decVars
<1>4. QED
  BY <1>2, <1>3 DEF Produces

(* The history keeps its count of losses.                                   *)
LEMMA AirCounts ==
  ASSUME AirRecord, NEW p
  PROVE  /\ air' = [OnAirHeard(p) EXCEPT !.got = @ \cup {p.block}] =>
              /\ AirRecord' /\ air'.lost = air.lost /\ air'.silent = 0
              /\ air'.msgs = OnAir(p).msgs /\ air'.ready = OnAir(p).ready
              /\ air'.got = OnAir(p).got \cup {p.block}
         /\ air' = [OnAir(p) EXCEPT !.lost = @ + 1] =>
              /\ AirRecord' /\ air'.lost = air.lost + 1 /\ air'.silent = OnAir(p).silent
              /\ air'.msgs = OnAir(p).msgs /\ air'.ready = OnAir(p).ready
              /\ air'.got = OnAir(p).got
         /\ OnAir(p).silent = IF p.block = 0 THEN air.silent + 1 ELSE air.silent
<1> DEFINE a == OnAir(p)
<1>1. /\ a = [msgs |-> a.msgs, got |-> a.got, ready |-> a.ready, lost |-> air.lost,
              silent |-> a.silent]
      /\ a.silent = IF p.block = 0 THEN air.silent + 1 ELSE air.silent
  BY DEF AirRecord, OnAir
<1> HIDE DEF a
<1>2. [OnAirHeard(p) EXCEPT !.got = @ \cup {p.block}] =
        [msgs |-> a.msgs, got |-> a.got \cup {p.block}, ready |-> a.ready, lost |-> air.lost,
         silent |-> 0]
  <2>1. OnAirHeard(p) = [msgs |-> a.msgs, got |-> a.got, ready |-> a.ready, lost |-> air.lost,
                         silent |-> 0]
    BY <1>1 DEF OnAirHeard, a
  <2>2. QED
    BY <2>1
<1>3. [a EXCEPT !.lost = @ + 1] =
        [msgs |-> a.msgs, got |-> a.got, ready |-> a.ready, lost |-> air.lost + 1,
         silent |-> a.silent]
  BY <1>1
<1>4. air.lost \in Nat /\ a.silent \in Nat
  <2>1. air.silent \in Nat /\ air.lost \in Nat
    BY DEF AirRecord
  <2>2. QED
    BY <1>1, <2>1
<1>5. ASSUME air' = [OnAirHeard(p) EXCEPT !.got = @ \cup {p.block}]
      PROVE  /\ AirRecord' /\ air'.lost = air.lost /\ air'.silent = 0
             /\ air'.msgs = a.msgs /\ air'.ready = a.ready
             /\ air'.got = a.got \cup {p.block}
  BY <1>2, <1>4, <1>5 DEF AirRecord
<1>6. ASSUME air' = [a EXCEPT !.lost = @ + 1]
      PROVE  /\ AirRecord' /\ air'.lost = air.lost + 1 /\ air'.silent = a.silent
             /\ air'.msgs = a.msgs /\ air'.ready = a.ready /\ air'.got = a.got
  BY <1>3, <1>4, <1>6 DEF AirRecord
<1>7. QED
  BY <1>1, <1>5, <1>6 DEF a

(* Decoder and encoder start in step,                                       *)
LEMMA InitCleanInv == Init => CleanInv
<1> SUFFICES ASSUME Init PROVE CleanInv
  OBVIOUS
<1>1. LinkInv
  BY InitLinkInv
<1>2. AirRecord /\ relayed = <<>>
  BY DEF Init, AirRecord, NoGroup
<1>3. BetweenGroups(m_seq_num)
  BY <1>1, ConstantFacts DEF Init, DecInit, BetweenGroups, LinkInv, EncInv, EncTypeOK
<1>4. m_stats \in Clean
  BY DEF Init, DecInit, Clean
<1>5. QED
  BY <1>1, <1>2, <1>3, <1>4 DEF CleanInv, InStep, Init, EncInit

(* and stay so until a packet is lost.                                      *)
LEMMA NextCleanInv ==
  ASSUME Coded, ~Relay, CleanInv, [Next]_vars
  PROVE  CleanInv'
<1>1. LinkInv /\ AirRecord /\ relayed = <<>> /\ (air.lost = 0 => InStep)
  BY DEF CleanInv
<1>2. LinkInv'
  BY <1>1, NextLinkInv
<1>3. ASSUME NEW l \in Lengths, SendMessage(l)
      PROVE  CleanInv'
  <2>1. /\ enc_out_blocks = <<>> /\ EncAddBlock([id |-> sent + 1, length |-> l])
        /\ UNCHANGED decVars /\ relayed' = relayed /\ air' = air
    BY <1>3 DEF SendMessage
  <2>2. Produces
    BY <1>1, <1>3, <2>1, SentMessage, AddProduces DEF LinkInv
  <2>3. air.lost = 0 => InStep'
    BY <1>1, <2>1, <2>2, ProducedInStep
  <2>4. QED
    BY <1>1, <1>2, <2>1, <2>3 DEF CleanInv, AirRecord
<1>4. CASE SendFlush
  <2>1. /\ enc_out_blocks = <<>> /\ Flush /\ UNCHANGED decVars
        /\ relayed' = relayed /\ air' = air
    BY <1>4 DEF SendFlush
  <2>2. Produces
    BY <1>1, <2>1, FlushProduces DEF LinkInv
  <2>3. air.lost = 0 => InStep'
    BY <1>1, <2>1, <2>2, ProducedInStep
  <2>4. QED
    BY <1>1, <1>2, <2>1, <2>3 DEF CleanInv, AirRecord
<1>5. CASE TransmitHeard
  <2>1. /\ EncGetBlock /\ DecAddBlock(Head(enc_out_blocks)) /\ relayed' = relayed
        /\ air' = [OnAirHeard(Head(enc_out_blocks)) EXCEPT
                  !.got = @ \cup {Head(enc_out_blocks).block}]
    BY <1>5 DEF TransmitHeard, RelayHears
  <2>2. AirRecord' /\ air'.lost = air.lost
    BY <1>1, <2>1, AirCounts
  <2>3. air.lost = 0 => InStep'
    BY <1>1, <2>1, HeardInStep DEF EncGetBlock
  <2>4. QED
    BY <1>1, <1>2, <2>1, <2>2, <2>3 DEF CleanInv
<1>6. CASE TransmitLost
  <2>1. /\ relayed' = relayed
        /\ air' = [OnAir(Head(enc_out_blocks)) EXCEPT !.lost = @ + 1]
    BY <1>6 DEF TransmitLost, RelayHears
  <2>2. AirRecord' /\ air'.lost = air.lost + 1
    BY <1>1, <2>1, AirCounts
  <2>3. air'.lost # 0
    BY <1>1, <2>2 DEF AirRecord
  <2>4. QED
    BY <1>1, <1>2, <2>1, <2>2, <2>3 DEF CleanInv
<1>7. CASE RelayTransmit
  BY <1>1, <1>7 DEF RelayTransmit
<1>8. CASE Deliver \/ UNCHANGED vars
  <2>1. /\ UNCHANGED <<m_seq_num, enc_out_blocks, relayed, air>>
        /\ UNCHANGED <<m_block_size, m_prev_header, m_blocks, m_stats>>
    BY <1>8 DEF Deliver, DecGetBlock, vars, encVars, decVars
  <2>2. InStep => InStep'
    BY <2>1 DEF InStep, Expects, BetweenGroups, WithinGroup
  <2>3. QED
    BY <1>1, <1>2, <2>1, <2>2 DEF CleanInv, AirRecord
<1>9. QED
  BY <1>3, <1>4, <1>5, <1>6, <1>7, <1>8 DEF Next

(* Without a relay, a coded link whose radio loses nothing never reports a  *)
(* loss: for all group sizes, any pattern of full and flushed groups, and   *)
(* however often the sequence number comes round.                           *)
THEOREM NoLossReported == Coded /\ ~Relay => (Spec => []NoFalseAlarm)
<1> SUFFICES ASSUME Coded, ~Relay PROVE Spec => []NoFalseAlarm
  OBVIOUS
<1>1. CleanInv /\ [Next]_vars => CleanInv'
  BY NextCleanInv
<1>2. CleanInv => NoFalseAlarm
  BY DEF CleanInv, InStep, Clean, NoFalseAlarm
<1>3. QED
  BY <1>1, <1>2, InitCleanInv, PTL DEF Spec

-----------------------------------------------------------------------------
(*************************** Blocks ahead of the first loss ****************)

LastOut == enc_out_blocks[Len(enc_out_blocks)]

(* What is left to send is the rest of one group; its last packet, an FEC   *)
(* block like any other, stands for all the messages, and no data block was *)
(* cut short.                                                               *)
OutGroup ==
  enc_out_blocks # <<>> =>
    /\ Len(LastOut.msgs) = LastOut.n_blocks
    /\ \A i \in 1..Len(enc_out_blocks) :
         /\ enc_out_blocks[i].seq_num = LastOut.seq_num
         /\ enc_out_blocks[i].n_blocks = LastOut.n_blocks
         /\ IsDataBlock(enc_out_blocks[i]) =>
              /\ enc_out_blocks[i].msgs[1] = LastOut.msgs[enc_out_blocks[i].block + 1]
              /\ DataLength(enc_out_blocks[i]) <= enc_out_blocks[i].room
         /\ ~IsDataBlock(enc_out_blocks[i]) => enc_out_blocks[i].msgs = LastOut.msgs

(* A sequence, whatever it holds.                                           *)
IsSeq(s) == Len(s) \in Nat /\ s = [i \in 1..Len(s) |-> s[i]]

AllReceived(i) == \A k \in 1..i : Received(k)

(* Delivered, or released and the next to be delivered.                     *)
Arrives(m) ==
  Intact(m) \/ dec_out_blocks = <<[id |-> m.id, length |-> m.length, intact |-> TRUE]>>

(* Of the first b packets of the group on the air, every data block with    *)
(* none missing before it arrives.                                          *)
Upto(b) ==
  /\ \A x \in air.got : x \in Nat /\ x < b
  /\ air.ready =>
       \A i \in 1..Len(air.msgs) : i <= b /\ AllReceived(i) => Arrives(air.msgs[i])

(* The decoder holds the data blocks before p and waits for p.              *)
Holding(seq, b) ==
  m_block_size # 0 /\ Len(m_blocks) = b /\ m_prev_header.seq_num = seq

Underway(p) ==
  /\ air.msgs = LastOut.msgs
  /\ Upto(p.block)
  /\ air.ready /\ IsDataBlock(p) /\ AllReceived(p.block) => Holding(p.seq_num, p.block)

AheadOfLoss ==
  IF enc_out_blocks = <<>>
  THEN air.ready =>
         \A i \in 1..Len(air.msgs) : AllReceived(i) => Arrives(air.msgs[i])
  ELSE enc_out_blocks[1].block # 0 => Underway(enc_out_blocks[1])

(* The inductive invariant of a coded link without a relay that loses what  *)
(* it likes.                                                                *)
PrefixInv ==
  /\ LinkInv
  /\ OutGroup
  /\ AirRecord
  /\ air.msgs \in Seq(Messages)
  /\ relayed = <<>>
  /\ IsSeq(delivered)
  /\ AheadOfLoss

(* A new group is one group.                                                *)
LEMMA ProducedGroup ==
  ASSUME EncInv, Coded, Produces
  PROVE  /\ OutGroup'
         /\ enc_out_blocks' = <<>> \/ (enc_out_blocks' # <<>> /\ enc_out_blocks'[1].block = 0)
<1>1. CASE enc_out_blocks' = <<>>
  BY <1>1 DEF OutGroup
<1>2. ASSUME NEW in, Gathered(in), enc_out_blocks' = GroupPackets(in)
      PROVE  /\ OutGroup'
             /\ enc_out_blocks' # <<>> /\ enc_out_blocks'[1].block = 0
  <2> DEFINE grp == GroupPackets(in)
             n == Len(in) + NumFecBlocks
             M == [j \in 1..Len(in) |-> in[j].msgs[1]]
  <2>1. /\ Len(in) \in Nat /\ Len(in) >= 1 /\ Len(grp) = n
        /\ \A i \in 1..n : /\ grp[i].block = i - 1 /\ grp[i].seq_num = m_seq_num
                           /\ grp[i].n_blocks = Len(in)
    BY <1>2, GroupShape DEF EncInv
  <2>2. /\ \A i \in 1..Len(in) : /\ grp[i].msgs = in[i].msgs
                                /\ DataLength(in[i]) <= grp[i].room
        /\ \A i \in (Len(in) + 1)..n : grp[i].msgs = M
    BY <1>2, GroupPayload DEF EncInv
  <2>3. Len(M) = Len(in) /\ \A i \in 1..Len(in) : M[i] = in[i].msgs[1]
    BY <2>1
  <2>4. /\ NumFecBlocks \in Nat /\ n \in 1..n /\ 1 \in 1..n /\ n \in Nat /\ n # 0
        /\ n \in (Len(in) + 1)..n
    BY <2>1, ConstantFacts DEF Coded, Uncoded
  <2>4m. grp[n].msgs = M
    BY <2>2, <2>4
  <2>5. enc_out_blocks' = grp
    BY <1>2
  <2> HIDE DEF grp, M
  <2>6. ASSUME NEW i \in 1..n, IsDataBlock(grp[i])
        PROVE  /\ grp[i].msgs[1] = grp[n].msgs[grp[i].block + 1]
               /\ DataLength(grp[i]) <= grp[i].room
    <3>1. grp[i].block = i - 1 /\ grp[i].n_blocks = Len(in)
      BY <2>1
    <3>2. i \in 1..Len(in) /\ grp[i].block + 1 = i
      BY <2>1, <2>4, <2>6, <3>1 DEF IsDataBlock
    <3>3. grp[i].msgs = in[i].msgs /\ DataLength(in[i]) <= grp[i].room /\ M[i] = in[i].msgs[1]
      BY <2>2, <2>3, <3>2
    <3>4. QED
      BY <2>4m, <3>2, <3>3 DEF DataLength
  <2>6f. ASSUME NEW i \in 1..n, ~IsDataBlock(grp[i])
        PROVE  grp[i].msgs = grp[n].msgs
    <3>1. i \in (Len(in) + 1)..n
      BY <2>1, <2>4, <2>6f DEF IsDataBlock
    <3>2. QED
      BY <2>2, <2>4m, <3>1
  <2>7. grp # <<>> /\ grp[1].block = 0
    BY <2>1, <2>4
  <2>8. Len(grp[n].msgs) = grp[n].n_blocks
    BY <2>1, <2>3, <2>4, <2>4m
  <2>9. \A i \in 1..n : /\ grp[i].seq_num = grp[n].seq_num /\ grp[i].n_blocks = grp[n].n_blocks
    BY <2>1, <2>4
  <2>10. Len(grp) = n
    BY <2>1
  <2> HIDE DEF n
  <2>11. OutGroup'
    BY <2>5, <2>6, <2>6f, <2>8, <2>9, <2>10 DEF OutGroup, LastOut
  <2>12. QED
    BY <2>5, <2>7, <2>11
<1>3. QED
  BY <1>1, <1>2 DEF Produces

(* The packet on the air and the next one.                                  *)
LEMMA OnTheAir ==
  ASSUME LinkInv, Coded, OutGroup, EncGetBlock, NEW p, p = Head(enc_out_blocks)
  PROVE  /\ p \in RealPackets /\ enc_out_blocks # <<>> /\ p = enc_out_blocks[1]
         /\ LastOut \in RealPackets /\ Len(LastOut.msgs) = p.n_blocks
         /\ IsDataBlock(p) => /\ p.msgs[1] = LastOut.msgs[p.block + 1]
                              /\ DataLength(p) <= p.room
         /\ ~IsDataBlock(p) => p.msgs = LastOut.msgs
         /\ p.block = 0 => Len(enc_out_blocks) # 1
         /\ \/ enc_out_blocks' = <<>> /\ p.block + 1 > p.n_blocks
            \/ /\ enc_out_blocks' # <<>>
               /\ LastOut' = LastOut
               /\ enc_out_blocks'[1].block = p.block + 1
               /\ enc_out_blocks'[1].seq_num = p.seq_num
               /\ enc_out_blocks'[1].n_blocks = p.n_blocks
         /\ OutGroup'
<1> DEFINE out == enc_out_blocks
           rest == Tail(enc_out_blocks)
           n == Len(enc_out_blocks)
<1>1. out \in Seq(RealPackets) /\ out # <<>> /\ n \in Nat /\ n >= 1
  BY EmptySeq, LenProperties DEF LinkInv, AirTyped, EncGetBlock
<1>2. /\ p \in RealPackets /\ p = out[1] /\ rest \in Seq(RealPackets)
      /\ Len(rest) = n - 1
      /\ \A i \in 1..Len(rest) : rest[i] = out[i + 1]
  BY <1>1, HeadTailProperties
<1>3. LastOut = out[n] /\ out[n] \in RealPackets
  BY <1>1, ElementOfSeq DEF LastOut
<1>4. /\ p.seq_num \in 1..(SeqMod - 1) /\ p.block \in Nat /\ p.n_blocks \in Nat
      /\ p.n_fec_blocks \in Nat /\ p.n_fec_blocks > 0 /\ p.n_blocks > 0
  BY <1>2, PacketFacts DEF Uncoded
<1>5. enc_out_blocks' = rest
  BY DEF EncGetBlock
<1>6. /\ \A i \in 1..(n - 1) : Follows(out[i], out[i + 1])
      /\ out[n].block + 1 = out[n].n_blocks + out[n].n_fec_blocks
  BY <1>1 DEF LinkInv, EncInv, GroupsContiguous, Coded
<1>7. /\ Len(out[n].msgs) = out[n].n_blocks
      /\ \A i \in 1..n : /\ out[i].seq_num = out[n].seq_num /\ out[i].n_blocks = out[n].n_blocks
                         /\ IsDataBlock(out[i]) => /\ out[i].msgs[1] = out[n].msgs[out[i].block + 1]
                                                   /\ DataLength(out[i]) <= out[i].room
                         /\ ~IsDataBlock(out[i]) => out[i].msgs = out[n].msgs
  BY <1>1 DEF OutGroup, LastOut
<1>8. 1 \in 1..n /\ (n = 1 \/ n > 1)
  <2>1. n \in Nat /\ n >= 1
    BY <1>1, Zenon
  <2> HIDE DEF n
  <2>2. QED
    BY <2>1
<1> HIDE DEF out, rest, n
<1>9. /\ Len(LastOut.msgs) = p.n_blocks
      /\ IsDataBlock(p) => /\ p.msgs[1] = LastOut.msgs[p.block + 1]
                           /\ DataLength(p) <= p.room
      /\ ~IsDataBlock(p) => p.msgs = LastOut.msgs
  BY <1>2, <1>3, <1>7, <1>8
<1>10. CASE n = 1
  <2>1. rest = <<>>
    BY <1>2, <1>10, EmptySeq
  <2>2. p.block + 1 = p.n_blocks + p.n_fec_blocks
    BY <1>2, <1>6, <1>10
  <2>3. p.block # 0 /\ p.block + 1 > p.n_blocks
    BY <1>4, <2>2
  <2>4. OutGroup'
    BY <1>5, <2>1 DEF OutGroup
  <2>5. QED
    BY <1>1, <1>2, <1>3, <1>5, <1>9, <2>1, <2>3, <2>4 DEF out
<1>11. CASE n > 1
  <2>1. PICK m \in Nat : m = n - 1 /\ m >= 1
    BY <1>1, <1>11
  <2>2. Len(rest) = m /\ (\A i \in 1..m : rest[i] = out[i + 1]) /\ m \in 1..m /\ 1 \in 1..m /\ m + 1 = n
    BY <1>1, <1>2, <2>1
  <2>3. rest # <<>> /\ rest[m] = out[n] /\ rest[1] = out[2]
    BY <2>1, <2>2, EmptySeq
  <2>4. Follows(out[1], out[2]) /\ out[2].seq_num = out[n].seq_num /\ out[1].seq_num = out[n].seq_num
    <3>1. 1 \in 1..(n - 1) /\ 1 + 1 = 2 /\ 2 \in 1..n
      BY <1>1, <1>11
    <3>2. QED
      BY <1>6, <1>7, <1>8, <3>1
  <2>5. /\ out[2].block = p.block + 1 /\ out[2].seq_num = p.seq_num /\ out[2].n_blocks = p.n_blocks
    <3>1. NextSeq(p.seq_num) # p.seq_num
      BY <1>4, NextSeqDiffers
    <3>2. QED
      BY <1>2, <2>4, <3>1 DEF Follows
  <2>6. \A i \in 1..m : i + 1 \in 1..n
    BY <1>1, <2>2
  <2>7. \A i \in 1..m :
           /\ rest[i].seq_num = rest[m].seq_num /\ rest[i].n_blocks = rest[m].n_blocks
           /\ IsDataBlock(rest[i]) => /\ rest[i].msgs[1] = rest[m].msgs[rest[i].block + 1]
                                      /\ DataLength(rest[i]) <= rest[i].room
           /\ ~IsDataBlock(rest[i]) => rest[i].msgs = rest[m].msgs
    <3>1. ASSUME NEW i \in 1..m
          PROVE  /\ rest[i].seq_num = rest[m].seq_num /\ rest[i].n_blocks = rest[m].n_blocks
                 /\ IsDataBlock(rest[i]) =>
                      /\ rest[i].msgs[1] = rest[m].msgs[rest[i].block + 1]
                      /\ DataLength(rest[i]) <= rest[i].room
                 /\ ~IsDataBlock(rest[i]) => rest[i].msgs = rest[m].msgs
      <4>1. PICK k \in 1..n : rest[i] = out[k]
        BY <2>2, <2>6
      <4>2. QED
        BY <1>7, <2>3, <4>1
    <3>2. QED
      BY <3>1
  <2>8. LastOut' = LastOut /\ LastOut' = rest[m]
    BY <1>3, <1>5, <2>2, <2>3 DEF LastOut
  <2>9. OutGroup'
    <3>1. Len(rest[m].msgs) = rest[m].n_blocks
      BY <1>7, <2>3
    <3>2. PICK r : r = rest
      OBVIOUS
    <3>3. enc_out_blocks' = r /\ Len(r) = m /\ LastOut' = r[m]
      BY <1>5, <2>2, <2>8, <3>2
    <3>4. QED
      BY <2>7, <3>1, <3>2, <3>3 DEF OutGroup
  <2>10. QED
    BY <1>1, <1>2, <1>3, <1>5, <1>9, <1>11, <2>3, <2>5, <2>8, <2>9 DEF out, n
<1>12. QED
  BY <1>8, <1>10, <1>11

(* The data block the decoder waits for is released at once.                *)
LEMMA DataReleased ==
  ASSUME DecInv, Coded, NEW p \in RealPackets, IsDataBlock(p), DecAddBlock(p),
         dec_out_blocks = <<>>,
         \/ p.block = 0 /\ m_prev_header.seq_num # p.seq_num
         \/ p.block # 0 /\ Holding(p.seq_num, p.block)
  PROVE  /\ dec_out_blocks' = <<ReleasedPacket(p)>>
         /\ p.block + 1 < p.n_blocks => Holding(p.seq_num, p.block + 1)'
<1>1. /\ p.block \in Nat /\ p.n_blocks \in Nat /\ p.block < p.n_blocks
      /\ BlockSize(p) \in Nat /\ BlockSize(p) > 0
      /\ ~Uncoded(p.n_blocks, p.n_fec_blocks)
  BY PacketFacts DEF IsDataBlock
<1>2. NewSequence(p) <=> p.seq_num # m_prev_header.seq_num
  BY NewSequenceFacts DEF DecInv
<1>3. m_block_size \in Nat /\ m_blocks \in Seq(RealPackets) /\ (m_block_size = 0 <=> m_blocks = <<>>)
  BY DEF DecInv, DecTyped, SizeTells
<1>4. /\ KeptSize(p) \in Nat /\ KeptBlocks(p) \in Seq(RealPackets)
      /\ Len(KeptBlocks(p)) = p.block
  <2>1. CASE p.block = 0
    <3>1. KeptBlocks(p) = <<>> /\ KeptSize(p) = 0
      BY <1>2, <1>3, <2>1 DEF KeptBlocks, KeptSize, Break
    <3>2. QED
      BY <2>1, <3>1, EmptySeq
  <2>2. CASE p.block # 0
    <3>1. KeptBlocks(p) = m_blocks /\ KeptSize(p) = m_block_size /\ Len(m_blocks) = p.block
      BY <1>2, <2>2 DEF KeptBlocks, KeptSize, Break, Holding
    <3>2. QED
      BY <1>3, <3>1
  <2>3. QED
    BY <2>1, <2>2
<1>5. AddDataBlock(p)
  <2>1. m_block_size # 0 \/ NewSequence(p)
    BY <1>2 DEF Holding
  <2>2. QED
    BY <1>1, <2>1 DEF DecAddBlock, PassThrough, SkipBlock, HoldFecBlock, DecodeGroup
<1>6. Len(Append(KeptBlocks(p), p)) = p.block + 1
  BY <1>4, AppendProperties
<1>7. dec_out_blocks' = <<ReleasedPacket(p)>>
  <2>1. NoGap(Append(KeptBlocks(p), p), p)
    BY <1>1, <1>6 DEF NoGap
  <2>2. dec_out_blocks' = Append(<<>>, ReleasedPacket(p))
    BY <1>5, <2>1 DEF AddDataBlock
  <2>3. QED
    BY <2>2
<1>8. ASSUME p.block + 1 < p.n_blocks
      PROVE  Holding(p.seq_num, p.block + 1)'
  <2>1. Len(Append(KeptBlocks(p), p)) # p.n_blocks
    BY <1>1, <1>6, <1>8
  <2>2. /\ m_block_size' = IF KeptSize(p) > BlockSize(p) THEN KeptSize(p) ELSE BlockSize(p)
        /\ m_blocks' = Append(KeptBlocks(p), p)
        /\ m_prev_header' = [seq_num |-> p.seq_num, block |-> p.block]
    BY <1>5, <2>1 DEF AddDataBlock
  <2>3. m_block_size' # 0
    BY <1>1, <1>4, <2>2
  <2>4. QED
    BY <1>6, <2>2, <2>3 DEF Holding
<1>9. QED
  BY <1>7, <1>8

(* A data block that was not cut short is released intact.                  *)
LEMMA ReleasedIntact ==
  ASSUME NEW p \in RealPackets, DataLength(p) <= p.room
  PROVE  ReleasedPacket(p) = [id |-> p.msgs[1].id, length |-> p.msgs[1].length, intact |-> TRUE]
<1>1. p.msgs \in Seq(Messages) /\ Len(p.msgs) >= 1
  BY DEF RealPackets, Packets
<1>2. p.msgs[1] \in Messages
  <2>1. Len(p.msgs) \in Nat
    BY <1>1, LenProperties
  <2>2. 1 \in 1..Len(p.msgs)
    BY <1>1, <2>1
  <2>3. QED
    BY <1>1, <2>2, ElementOfSeq
<1>3. p.msgs[1].id # 0
  BY <1>2, BlockAssumption DEF BlockAssumption, Messages
<1>4. QED
  BY <1>3 DEF ReleasedPacket, Released, DataLength

(* What is delivered stays, and more comes behind it.                       *)
LEMMA AppendKeeps ==
  ASSUME NEW s, IsSeq(s), NEW x
  PROVE  /\ IsSeq(Append(s, x)) /\ Len(Append(s, x)) = Len(s) + 1 /\ Len(s) \in Nat
         /\ \A i \in 1..Len(s) : Append(s, x)[i] = s[i]
         /\ Append(s, x)[Len(s) + 1] = x
<1> DEFINE S == {s[i] : i \in 1..Len(s)} \cup {x}
<1>1. s \in Seq(S) /\ x \in S
  <2>1. \A i \in 1..Len(s) : s[i] \in S
    OBVIOUS
  <2>2. x \in S
    OBVIOUS
  <2> HIDE DEF S
  <2>3. s \in [1..Len(s) -> S] /\ Len(s) \in Nat
    BY <2>1 DEF IsSeq
  <2>4. QED
    BY <2>2, <2>3
<1> HIDE DEF S
<1>2. /\ Append(s, x) \in Seq(S) /\ Len(Append(s, x)) = Len(s) + 1 /\ Len(s) \in Nat
      /\ \A i \in 1..Len(s) : Append(s, x)[i] = s[i]
      /\ Append(s, x)[Len(s) + 1] = x
  BY <1>1, AppendProperties, LenProperties
<1>3. IsSeq(Append(s, x))
  <2>1. Append(s, x) \in [1..Len(Append(s, x)) -> S] /\ Len(Append(s, x)) \in Nat
    BY <1>2, LenProperties
  <2>2. QED
    BY <2>1 DEF IsSeq
<1>4. QED
  BY <1>2, <1>3

(* get_block(): a message released is delivered, one delivered stays so.    *)
LEMMA DeliverArrives ==
  ASSUME IsSeq(delivered), Deliver
  PROVE  /\ IsSeq(delivered)'
         /\ \A m \in Messages : Arrives(m) => Intact(m)'
<1> DEFINE r == Head(dec_out_blocks)
<1>1. delivered' = Append(delivered, r) \/ (delivered' = delivered /\ ~(r.length > 0))
  BY DEF Deliver
<1>2. /\ IsSeq(Append(delivered, r)) /\ Len(Append(delivered, r)) = Len(delivered) + 1
      /\ Len(delivered) \in Nat
      /\ \A i \in 1..Len(delivered) : Append(delivered, r)[i] = delivered[i]
      /\ Append(delivered, r)[Len(delivered) + 1] = r
  BY AppendKeeps
<1> HIDE DEF r
<1>3. IsSeq(delivered)'
  BY <1>1, <1>2
<1>4. ASSUME NEW m \in Messages, Arrives(m)
      PROVE  Intact(m)'
  <2>1. CASE Intact(m)
    <3>1. PICK k \in 1..Len(delivered) :
            delivered[k].id = m.id /\ delivered[k].length = m.length /\ delivered[k].intact
      BY <2>1 DEF Intact
    <3>2. k \in 1..Len(delivered') /\ delivered'[k] = delivered[k]
      BY <1>1, <1>2
    <3>3. QED
      BY <3>1, <3>2 DEF Intact
  <2>2. CASE dec_out_blocks = <<[id |-> m.id, length |-> m.length, intact |-> TRUE]>>
    <3>1. r = [id |-> m.id, length |-> m.length, intact |-> TRUE]
      BY <2>2 DEF r
    <3>2. m.length > 0
      <4>1. m.length \in 1..MaxBlockSize
        BY BlockAssumption DEF BlockAssumption, Messages
      <4>2. QED
        BY <4>1, ConstantFacts
    <3>3. delivered' = Append(delivered, r)
      BY <1>1, <3>1, <3>2
    <3>4. Len(delivered) + 1 \in 1..Len(delivered') /\ delivered'[Len(delivered) + 1] = r
      BY <1>2, <3>3
    <3>5. QED
      BY <3>1, <3>4 DEF Intact
  <2>3. QED
    BY <1>4, <2>1, <2>2 DEF Arrives
<1>5. QED
  BY <1>3, <1>4

(* The history of the group as its packet p goes on the air.                *)
LEMMA OnAirFacts ==
  ASSUME PrefixInv, Coded, EncGetBlock, NEW p, p = Head(enc_out_blocks)
  PROVE  /\ OnAir(p) = [msgs |-> LastOut.msgs, got |-> OnAir(p).got,
                        ready |-> OnAir(p).ready, lost |-> air.lost,
                        silent |-> OnAir(p).silent]
         /\ p.block # 0 => OnAir(p) = air /\ Underway(p)
         /\ p.block = 0 => OnAir(p).got = {} /\ OnAir(p).ready = Ready(p.seq_num)
         /\ LastOut.msgs \in Seq(Messages)
<1>1. /\ LinkInv /\ OutGroup /\ AirRecord /\ AheadOfLoss
  BY DEF PrefixInv
<1>2. /\ enc_out_blocks # <<>> /\ p = enc_out_blocks[1] /\ LastOut \in RealPackets
      /\ p.block = 0 => Len(enc_out_blocks) # 1
  BY <1>1, OnTheAir
<1>3. p.block # 0 => OnAir(p) = air /\ Underway(p)
  BY <1>1, <1>2 DEF AheadOfLoss, OnAir
<1>4. LastOut.msgs \in Seq(Messages)
  BY <1>2 DEF RealPackets, Packets
<1>5. CASE p.block # 0
  BY <1>1, <1>3, <1>4, <1>5 DEF Underway, AirRecord
<1>6. CASE p.block = 0
  <2>1. OnAir(p) = [msgs |-> LastOut.msgs, got |-> {}, ready |-> Ready(p.seq_num), lost |-> air.lost,
                    silent |-> air.silent + 1]
    BY <1>2, <1>6 DEF OnAir, LastOut
  <2>2. QED
    BY <1>4, <1>6, <2>1
<1>7. QED
  BY <1>5, <1>6

(* The invariant after a packet, from what it says of the first b + 1.      *)
LEMMA PacketOver ==
  ASSUME PrefixInv, Coded, EncGetBlock, NEW p, p = Head(enc_out_blocks),
         air'.msgs = LastOut.msgs,
         Upto(p.block + 1)',
         p.block + 1 < p.n_blocks /\ air'.ready /\ AllReceived(p.block + 1)' =>
           Holding(p.seq_num, p.block + 1)'
  PROVE  AheadOfLoss'
<1>1. /\ p \in RealPackets /\ Len(LastOut.msgs) = p.n_blocks
      /\ \/ enc_out_blocks' = <<>> /\ p.block + 1 > p.n_blocks
         \/ /\ enc_out_blocks' # <<>> /\ LastOut' = LastOut
            /\ enc_out_blocks'[1].block = p.block + 1
            /\ enc_out_blocks'[1].seq_num = p.seq_num
            /\ enc_out_blocks'[1].n_blocks = p.n_blocks
  BY OnTheAir DEF PrefixInv
<1>2. p.block \in Nat /\ p.n_blocks \in Nat
  BY <1>1, PacketFacts
<1>3. CASE enc_out_blocks' = <<>> /\ p.block + 1 > p.n_blocks
  <2>1. \A i \in 1..Len(air'.msgs) : i <= p.block + 1
    BY <1>1, <1>2, <1>3
  <2>2. QED
    BY <1>3, <2>1 DEF AheadOfLoss, Upto
<1>4. CASE enc_out_blocks' # <<>> /\ LastOut' = LastOut /\
           enc_out_blocks'[1].block = p.block + 1 /\
           enc_out_blocks'[1].seq_num = p.seq_num /\ enc_out_blocks'[1].n_blocks = p.n_blocks
  <2>1. PICK q : q = enc_out_blocks'[1]
    OBVIOUS
  <2>2. q.block = p.block + 1 /\ q.seq_num = p.seq_num /\ q.n_blocks = p.n_blocks
    BY <1>4, <2>1
  <2>3. Underway(q)'
    BY <1>4, <2>2 DEF Underway, IsDataBlock
  <2>4. QED
    BY <1>4, <2>1, <2>3 DEF AheadOfLoss
<1>5. QED
  BY <1>1, <1>3, <1>4

(* A packet that is lost leaves the blocks before it as they were.          *)
LEMMA LostAhead ==
  ASSUME PrefixInv, Coded, TransmitLost
  PROVE  AheadOfLoss' /\ air'.msgs \in Seq(Messages)
<1>1. PICK p : p = Head(enc_out_blocks)
  OBVIOUS
<1>2. /\ EncGetBlock /\ air' = [OnAir(p) EXCEPT !.lost = @ + 1]
      /\ UNCHANGED <<dec_out_blocks, delivered>>
  BY <1>1 DEF TransmitLost, decVars
<1>3. /\ OnAir(p) = [msgs |-> LastOut.msgs, got |-> OnAir(p).got,
                     ready |-> OnAir(p).ready, lost |-> air.lost,
                     silent |-> OnAir(p).silent]
      /\ p.block # 0 => OnAir(p) = air /\ Underway(p)
      /\ p.block = 0 => OnAir(p).got = {}
      /\ LastOut.msgs \in Seq(Messages)
  BY <1>1, <1>2, OnAirFacts
<1>4. p \in RealPackets /\ p.block \in Nat
  BY <1>1, <1>2, OnTheAir, PacketFacts DEF PrefixInv
<1>5. air'.msgs = LastOut.msgs /\ air'.got = OnAir(p).got /\ air'.ready = OnAir(p).ready
  BY <1>2, <1>3
<1>6. \A x \in air'.got : x \in Nat /\ x < p.block
  BY <1>3, <1>5 DEF Underway, Upto
<1>7. ~AllReceived(p.block + 1)'
  <2>1. p.block + 1 \in 1..(p.block + 1) /\ (p.block + 1) - 1 = p.block
    BY <1>4
  <2>2. p.block \notin air'.got
    BY <1>4, <1>6
  <2>3. QED
    BY <2>1, <2>2 DEF AllReceived, Received
<1>8. ASSUME air'.ready, NEW i \in 1..Len(air'.msgs), i <= p.block + 1, AllReceived(i)'
      PROVE  Arrives(air.msgs[i])'
  <2>1. i # p.block + 1 /\ i <= p.block /\ p.block # 0
    BY <1>4, <1>7, <1>8
  <2>2. Underway(p) /\ air'.msgs = air.msgs /\ air'.got = air.got /\ air'.ready = air.ready
    BY <1>3, <1>5, <2>1
  <2>3. AllReceived(i)
    BY <1>8, <2>2 DEF AllReceived, Received
  <2>4. Arrives(air.msgs[i])
    BY <1>8, <2>1, <2>2, <2>3 DEF Underway, Upto
  <2>5. PICK m : m = air.msgs[i]
    OBVIOUS
  <2>6. Arrives(m) => Arrives(m)'
    BY <1>2 DEF Arrives, Intact
  <2>7. QED
    BY <2>2, <2>4, <2>5, <2>6
<1>9. Upto(p.block + 1)'
  <2>1. \A x \in air'.got : x \in Nat /\ x < p.block + 1
    BY <1>4, <1>6
  <2>2. QED
    BY <1>8, <2>1 DEF Upto
<1>10. QED
  BY <1>1, <1>2, <1>3, <1>5, <1>7, <1>9, PacketOver

(* A packet that arrives is released at once if none before it was lost.    *)
LEMMA HeardAhead ==
  ASSUME PrefixInv, Coded, TransmitHeard
  PROVE  AheadOfLoss' /\ air'.msgs \in Seq(Messages)
<1>1. PICK p : p = Head(enc_out_blocks)
  OBVIOUS
<1>2. /\ EncGetBlock /\ DecAddBlock(p) /\ air' = [OnAirHeard(p) EXCEPT !.got = @ \cup {p.block}]
      /\ dec_out_blocks = <<>> /\ delivered' = delivered
  BY <1>1 DEF TransmitHeard
<1>3. /\ OnAir(p) = [msgs |-> LastOut.msgs, got |-> OnAir(p).got,
                     ready |-> OnAir(p).ready, lost |-> air.lost,
                     silent |-> OnAir(p).silent]
      /\ p.block # 0 => OnAir(p) = air /\ Underway(p)
      /\ p.block = 0 => OnAir(p).got = {} /\ OnAir(p).ready = Ready(p.seq_num)
      /\ LastOut.msgs \in Seq(Messages)
  BY <1>1, <1>2, OnAirFacts
<1>4. /\ p \in RealPackets /\ Len(LastOut.msgs) = p.n_blocks
      /\ IsDataBlock(p) => /\ p.msgs[1] = LastOut.msgs[p.block + 1]
                           /\ DataLength(p) <= p.room
  BY <1>1, <1>2, OnTheAir DEF PrefixInv
<1>5. p.block \in Nat /\ p.n_blocks \in Nat
  BY <1>4, PacketFacts
<1>6. /\ air'.msgs = LastOut.msgs /\ air'.got = OnAir(p).got \cup {p.block}
      /\ air'.ready = OnAir(p).ready
  <2>1. /\ air'.msgs = OnAir(p).msgs /\ air'.ready = OnAir(p).ready
        /\ air'.got = OnAir(p).got \cup {p.block}
    BY <1>2, AirCounts DEF PrefixInv
  <2>2. QED
    BY <1>3, <2>1
<1>7. \A x \in OnAir(p).got : x \in Nat /\ x < p.block
  BY <1>3 DEF Underway, Upto
<1>8. ASSUME NEW i \in Nat, i <= p.block, AllReceived(i)', p.block # 0
      PROVE  AllReceived(i) /\ Underway(p) /\ air'.msgs = air.msgs /\ air'.ready = air.ready
  <2>1. Underway(p) /\ OnAir(p) = air
    BY <1>3, <1>8
  <2>2. ASSUME NEW k \in 1..i PROVE k - 1 \in air.got
    <3>1. k - 1 \in air'.got /\ k - 1 # p.block
      BY <1>5, <1>8 DEF AllReceived, Received
    <3>2. QED
      BY <1>6, <2>1, <3>1
  <2>3. AllReceived(i)
    BY <2>2 DEF AllReceived, Received
  <2>4. air.msgs = LastOut.msgs
    BY <2>1 DEF Underway
  <2>5. QED
    BY <1>6, <2>1, <2>3, <2>4
(* The decoder waits for p when everything before it came.                  *)
<1>9. ASSUME air'.ready, IsDataBlock(p), AllReceived(p.block + 1)'
      PROVE  /\ dec_out_blocks' = <<ReleasedPacket(p)>>
             /\ p.block + 1 < p.n_blocks => Holding(p.seq_num, p.block + 1)'
  <2>1. AllReceived(p.block)'
    <3>1. 1..p.block \subseteq 1..(p.block + 1)
      BY <1>5
    <3>2. QED
      BY <1>9, <3>1 DEF AllReceived
  <2>2. \/ p.block = 0 /\ m_prev_header.seq_num # p.seq_num
        \/ p.block # 0 /\ Holding(p.seq_num, p.block)
    <3>1. CASE p.block = 0
      BY <1>3, <1>6, <1>9, <3>1 DEF Ready
    <3>2. CASE p.block # 0
      <4>1. p.block <= p.block
        BY <1>5
      <4>2. AllReceived(p.block) /\ Underway(p) /\ air.ready
        BY <1>5, <1>8, <1>9, <2>1, <3>2, <4>1
      <4>3. QED
        BY <1>9, <3>2, <4>2 DEF Underway
    <3>3. QED
      BY <3>1, <3>2
  <2>3. QED
    BY <1>2, <1>4, <1>9, <2>2, DataReleased DEF PrefixInv, LinkInv
<1>10. ASSUME air'.ready, NEW i \in 1..Len(air'.msgs), i <= p.block + 1, AllReceived(i)'
       PROVE  Arrives(air.msgs[i])'
  <2>1. i \in Nat /\ i >= 1 /\ i <= p.n_blocks
    BY <1>4, <1>5, <1>6
  <2>2. CASE i <= p.block
    <3>1. p.block # 0
      BY <1>5, <2>1, <2>2
    <3>2. AllReceived(i) /\ Underway(p) /\ air'.msgs = air.msgs /\ air'.ready = air.ready
      BY <1>8, <1>10, <2>1, <2>2, <3>1
    <3>3. Arrives(air.msgs[i])
      BY <1>10, <2>2, <3>2 DEF Underway, Upto
    <3>4. PICK m : m = air.msgs[i]
      OBVIOUS
    <3>5. Intact(m)
      BY <1>2, <3>3, <3>4 DEF Arrives
    <3>6. Arrives(m)'
      BY <1>2, <3>5 DEF Arrives, Intact
    <3>7. QED
      BY <3>2, <3>4, <3>6
  <2>3. CASE i = p.block + 1
    <3>1. IsDataBlock(p)
      BY <1>5, <2>1, <2>3 DEF IsDataBlock
    <3>2. dec_out_blocks' = <<ReleasedPacket(p)>>
      BY <1>9, <1>10, <2>3, <3>1
    <3>3. PICK m : m = p.msgs[1]
      OBVIOUS
    <3>4. ReleasedPacket(p) = [id |-> m.id, length |-> m.length, intact |-> TRUE]
      BY <1>4, <3>1, <3>3, ReleasedIntact
    <3>5. Arrives(m)'
      BY <3>2, <3>4 DEF Arrives
    <3>6. air'.msgs[i] = m
      BY <1>4, <1>6, <2>3, <3>1, <3>3
    <3>7. QED
      BY <3>5, <3>6
  <2>4. QED
    BY <1>5, <1>10, <2>1, <2>2, <2>3
<1>11. Upto(p.block + 1)'
  <2>1. \A x \in air'.got : x \in Nat /\ x < p.block + 1
    BY <1>5, <1>6, <1>7
  <2>2. QED
    BY <1>10, <2>1 DEF Upto
<1>12. ASSUME p.block + 1 < p.n_blocks, air'.ready, AllReceived(p.block + 1)'
       PROVE  Holding(p.seq_num, p.block + 1)'
  <2>1. IsDataBlock(p)
    BY <1>5, <1>12 DEF IsDataBlock
  <2>2. QED
    BY <1>9, <1>12, <2>1
<1>13. QED
  BY <1>1, <1>2, <1>3, <1>6, <1>11, <1>12, PacketOver

(* The invariant holds at the start,                                        *)
LEMMA InitPrefixInv == Init => PrefixInv
<1> SUFFICES ASSUME Init PROVE PrefixInv
  OBVIOUS
<1>1. LinkInv
  BY InitLinkInv
<1>2. /\ enc_out_blocks = <<>> /\ relayed = <<>> /\ delivered = <<>> /\ air.msgs = <<>>
      /\ ~air.ready /\ AirRecord
  BY DEF Init, EncInit, NoGroup, AirRecord
<1>3. IsSeq(delivered) /\ air.msgs \in Seq(Messages)
  BY <1>2, EmptySeq DEF IsSeq
<1>4. QED
  BY <1>1, <1>2, <1>3 DEF PrefixInv, OutGroup, AheadOfLoss

(* and every step keeps it.                                                 *)
LEMMA NextPrefixInv ==
  ASSUME Coded, ~Relay, PrefixInv, [Next]_vars
  PROVE  PrefixInv'
<1>1. /\ LinkInv /\ OutGroup /\ AirRecord /\ air.msgs \in Seq(Messages) /\ relayed = <<>>
      /\ IsSeq(delivered) /\ AheadOfLoss
  BY DEF PrefixInv
<1>2. LinkInv'
  BY <1>1, NextLinkInv
(* The encoder takes a message or a flush while nothing is on the air.      *)
<1>3. ASSUME enc_out_blocks = <<>>, Produces,
             UNCHANGED <<dec_out_blocks, relayed, delivered, air>>
      PROVE  PrefixInv'
  <2>1. /\ OutGroup'
        /\ enc_out_blocks' = <<>> \/ (enc_out_blocks' # <<>> /\ enc_out_blocks'[1].block = 0)
    BY <1>1, <1>3, ProducedGroup DEF LinkInv
  <2>2. AheadOfLoss'
    BY <1>1, <1>3, <2>1 DEF AheadOfLoss, AllReceived, Received, Arrives, Intact
  <2>3. QED
    BY <1>1, <1>2, <1>3, <2>1, <2>2 DEF PrefixInv, AirRecord, IsSeq
<1>4. ASSUME NEW l \in Lengths, SendMessage(l)
      PROVE  PrefixInv'
  <2>1. /\ enc_out_blocks = <<>> /\ EncAddBlock([id |-> sent + 1, length |-> l])
        /\ UNCHANGED <<dec_out_blocks, relayed, delivered, air>>
    BY <1>4 DEF SendMessage, decVars
  <2>2. Produces
    BY <1>1, <1>4, <2>1, SentMessage, AddProduces DEF LinkInv
  <2>3. QED
    BY <1>3, <2>1, <2>2
<1>5. CASE SendFlush
  <2>1. /\ enc_out_blocks = <<>> /\ Flush
        /\ UNCHANGED <<dec_out_blocks, relayed, delivered, air>>
    BY <1>5 DEF SendFlush, decVars
  <2>2. Produces
    BY <1>1, <2>1, FlushProduces DEF LinkInv
  <2>3. QED
    BY <1>3, <2>1, <2>2
<1>6. CASE TransmitHeard \/ TransmitLost
  <2>1. /\ EncGetBlock /\ relayed' = relayed /\ delivered' = delivered
        /\ \/ air' = [OnAirHeard(Head(enc_out_blocks)) EXCEPT
                       !.got = @ \cup {Head(enc_out_blocks).block}]
           \/ air' = [OnAir(Head(enc_out_blocks)) EXCEPT !.lost = @ + 1]
    BY <1>6 DEF TransmitHeard, TransmitLost, RelayHears
  <2>2. AirRecord'
    BY <1>1, <2>1, AirCounts
  <2>3. OutGroup'
    BY <1>1, <2>1, OnTheAir
  <2>4. AheadOfLoss' /\ air'.msgs \in Seq(Messages)
    BY <1>6, HeardAhead, LostAhead
  <2>5. QED
    BY <1>1, <1>2, <2>1, <2>2, <2>3, <2>4 DEF PrefixInv, IsSeq
<1>7. CASE RelayTransmit
  BY <1>1, <1>7 DEF RelayTransmit
<1>8. CASE Deliver
  <2>1. /\ IsSeq(delivered)'
        /\ \A m \in Messages : Arrives(m) => Intact(m)'
    BY <1>1, <1>8, DeliverArrives
  <2>2. UNCHANGED <<enc_out_blocks, relayed, air, m_block_size, m_prev_header, m_blocks>>
    BY <1>8 DEF Deliver, DecGetBlock, encVars
  <2>3. \A i \in 1..Len(air.msgs) : Arrives(air.msgs[i]) => Arrives(air.msgs[i])'
    <3>1. ASSUME NEW i \in 1..Len(air.msgs), Arrives(air.msgs[i])
          PROVE  Arrives(air.msgs[i])'
      <4>1. PICK m : m = air.msgs[i]
        OBVIOUS
      <4>2. m \in Messages
        BY <1>1, <4>1, ElementOfSeq
      <4>3. Arrives(m)'
        BY <2>1, <3>1, <4>1, <4>2 DEF Arrives
      <4>4. QED
        BY <2>2, <4>1, <4>3
    <3>2. QED
      BY <3>1
  <2>4. \A i : AllReceived(i)' <=> AllReceived(i)
    BY <2>2 DEF AllReceived, Received
  <2>5. AheadOfLoss'
    <3>1. CASE enc_out_blocks = <<>>
      BY <1>1, <2>2, <2>3, <2>4, <3>1 DEF AheadOfLoss
    <3>2. CASE enc_out_blocks # <<>>
      <4>1. PICK p : p = enc_out_blocks[1]
        OBVIOUS
      <4>2. Underway(p) => Underway(p)'
        <5>1. ASSUME Upto(p.block) PROVE Upto(p.block)'
          BY <2>2, <2>3, <2>4, <5>1 DEF Upto
        <5>2. LastOut' = LastOut
          BY <2>2 DEF LastOut
        <5>3. Holding(p.seq_num, p.block)' <=> Holding(p.seq_num, p.block)
          BY <2>2 DEF Holding
        <5>4. QED
          BY <2>2, <2>4, <5>1, <5>2, <5>3 DEF Underway
      <4>3. QED
        BY <1>1, <2>2, <3>2, <4>1, <4>2 DEF AheadOfLoss
    <3>3. QED
      BY <3>1, <3>2
  <2>6. OutGroup'
    BY <1>1, <2>2 DEF OutGroup, LastOut
  <2>7. QED
    BY <1>1, <1>2, <2>1, <2>2, <2>5, <2>6 DEF PrefixInv, AirRecord
<1>9. CASE UNCHANGED vars
  <2>1. UNCHANGED <<enc_out_blocks, relayed, air, m_block_size, m_prev_header, m_blocks,
                    dec_out_blocks, delivered>>
    BY <1>9 DEF vars, encVars, decVars
  <2>2. QED
    BY <1>1, <1>2, <2>1
       DEF PrefixInv, OutGroup, LastOut, AirRecord, IsSeq, AheadOfLoss, Underway, Upto,
           Holding, AllReceived, Received, Arrives, Intact
<1>10. QED
  BY <1>4, <1>5, <1>6, <1>7, <1>8, <1>9 DEF Next

(* Data blocks ahead of the first loss are delivered, however the group     *)
(* ends: on every coded link without a relay whose decoder was ready for    *)
(* the group, for all sizes, losses and flushes and however often the       *)
(* sequence number comes round.                                             *)
THEOREM PrefixArrives == Coded /\ ~Relay => (Spec => []PrefixDelivered)
<1> SUFFICES ASSUME Coded, ~Relay PROVE Spec => []PrefixDelivered
  OBVIOUS
<1>1. PrefixInv /\ [Next]_vars => PrefixInv'
  BY NextPrefixInv
<1>2. ASSUME PrefixInv PROVE PrefixDelivered
  <2>1. SUFFICES ASSUME GroupOver, air.ready, NEW i \in 1..Len(air.msgs), AllReceived(i)
                 PROVE  Intact(air.msgs[i])
    BY DEF PrefixDelivered, AllReceived
  <2>2. enc_out_blocks = <<>> /\ dec_out_blocks = <<>>
    BY <2>1 DEF GroupOver
  <2>3. Arrives(air.msgs[i])
    BY <1>2, <2>1, <2>2 DEF PrefixInv, AheadOfLoss
  <2>4. QED
    BY <2>2, <2>3 DEF Arrives
<1>3. QED
  BY <1>1, <1>2, InitPrefixInv, PTL DEF Spec

-----------------------------------------------------------------------------
(********************************** Lists **********************************)

(* Numbers have a least.                                                    *)
LEMMA LeastOf ==
  ASSUME NEW S \in SUBSET Nat, S # {}
  PROVE  \E x \in S : \A y \in S : x <= y
<1>1. PICK x \in S : \A y \in S : ~(<<y, x>> \in OpToRel(<, Nat))
  BY NatLessThanWellFounded, WFMin
<1>2. ASSUME NEW y \in S PROVE x <= y
  <2>1. x \in Nat /\ y \in Nat
    OBVIOUS
  <2>2. ~(y < x)
    BY <1>1, <2>1 DEF OpToRel
  <2>3. QED
    BY <2>1, <2>2
<1>3. QED
  BY <1>2

(* The number of positions up to i.                                         *)
CountTo(S, i) == Cardinality({j \in S : j <= i})

(* How it grows with i.                                                     *)
LEMMA CountUp ==
  ASSUME NEW n \in Nat, NEW S \in SUBSET (1..n)
  PROVE  /\ IsFiniteSet(S) /\ Cardinality(S) \in Nat /\ Cardinality(S) <= n
         /\ CountTo(S, 0) = 0 /\ CountTo(S, n) = Cardinality(S)
         /\ \A i \in 0..n : CountTo(S, i) \in Nat
         /\ \A i \in 1..n : CountTo(S, i) = IF i \in S THEN CountTo(S, i - 1) + 1 ELSE CountTo(S, i - 1)
         /\ \A i, j \in 0..n : i <= j => CountTo(S, i) <= CountTo(S, j)
<1> DEFINE T(i) == {j \in S : j <= i}
<1>1. IsFiniteSet(S) /\ Cardinality(S) \in Nat /\ Cardinality(S) <= n
  <2>1. IsFiniteSet(1..n) /\ Cardinality(1..n) = n
    BY FS_Interval
  <2>2. QED
    BY <2>1, FS_Subset, FS_CardinalityType
<1>2. \A j \in S : j \in Nat /\ j >= 1 /\ j <= n
  OBVIOUS
<1>3. T(0) = {} /\ T(n) = S
  <2>1. \A j \in S : ~(j <= 0) /\ j <= n
    BY <1>2
  <2>2. QED
    BY <2>1, Zenon
<1>4. ASSUME NEW i PROVE IsFiniteSet(T(i)) /\ Cardinality(T(i)) \in Nat
  <2>1. T(i) \in SUBSET S
    OBVIOUS
  <2>2. IsFiniteSet(T(i))
    BY <1>1, <2>1, FS_Subset
  <2>3. QED
    BY <2>2, FS_CardinalityType
<1>5. ASSUME NEW i \in 1..n
      PROVE  CountTo(S, i) = IF i \in S THEN CountTo(S, i - 1) + 1 ELSE CountTo(S, i - 1)
  <2>1. CASE i \in S
    <3>0. ~(i <= i - 1) /\ \A j \in S : j <= i <=> j <= i - 1 \/ j = i
      BY <1>2
    <3>1. T(i) = T(i - 1) \cup {i} /\ i \notin T(i - 1)
      BY <2>1, <3>0, Zenon
    <3> HIDE DEF T
    <3>2. Cardinality(T(i)) = Cardinality(T(i - 1)) + 1
      BY <1>4, <3>1, FS_AddElement
    <3>3. QED
      BY <2>1, <3>2 DEF CountTo, T
  <2>2. CASE i \notin S
    <3>0. \A j \in S : j <= i <=> j <= i - 1
      BY <1>2, <2>2
    <3>1. T(i) = T(i - 1)
      BY <3>0, Zenon
    <3>2. QED
      BY <2>2, <3>1 DEF CountTo
  <2>3. QED
    BY <2>1, <2>2
<1>6. ASSUME NEW i \in 0..n, NEW j \in 0..n, i <= j
      PROVE  CountTo(S, i) <= CountTo(S, j)
  <2>0. \A x \in S : x <= i => x <= j
    BY <1>2, <1>6
  <2>1. T(i) \in SUBSET T(j)
    BY <2>0, Zenon
  <2> HIDE DEF T
  <2>2. Cardinality(T(i)) <= Cardinality(T(j))
    BY <1>4, <2>1, FS_Subset
  <2>3. QED
    BY <2>2 DEF CountTo, T
<1>7. CountTo(S, 0) = 0 /\ CountTo(S, n) = Cardinality(S)
  BY <1>3, FS_EmptySet DEF CountTo
<1>8. \A i \in 0..n : CountTo(S, i) \in Nat
  BY <1>4 DEF CountTo
<1>9. QED
  BY <1>1, <1>5, <1>6, <1>7, <1>8

(* The k-th position is one, they come in order, and none is left out.      *)
LEMMA NthFacts ==
  ASSUME NEW n \in Nat, NEW S \in SUBSET (1..n)
  PROVE  /\ \A k \in 1..Cardinality(S) : Nth(S, k) \in S /\ CountTo(S, Nth(S, k)) = k
         /\ \A k, l \in 1..Cardinality(S) : k < l => Nth(S, k) < Nth(S, l)
         /\ \A i \in S : \E k \in 1..Cardinality(S) : Nth(S, k) = i
<1>1. /\ Cardinality(S) \in Nat /\ CountTo(S, 0) = 0 /\ CountTo(S, n) = Cardinality(S)
      /\ \A i \in 0..n : CountTo(S, i) \in Nat
      /\ \A i \in 1..n : CountTo(S, i) = IF i \in S THEN CountTo(S, i - 1) + 1 ELSE CountTo(S, i - 1)
      /\ \A i, j \in 0..n : i <= j => CountTo(S, i) <= CountTo(S, j)
  BY CountUp
<1>2. \A i \in S : i \in 1..n
  OBVIOUS
<1>3. ASSUME NEW k \in 1..Cardinality(S)
      PROVE  Nth(S, k) \in S /\ CountTo(S, Nth(S, k)) = k
  <2> DEFINE U == {i \in 0..n : CountTo(S, i) >= k}
  <2>1. n \in U
    BY <1>1
  <2>2. U \in SUBSET Nat /\ U # {}
    BY <2>1
  <2>3. PICK i \in U : \A j \in U : i <= j
    BY <2>2, LeastOf
  <2>4. i \in 0..n /\ CountTo(S, i) >= k /\ CountTo(S, i) \in Nat
    BY <1>1
  <2>5. i # 0
    BY <1>1, <2>4
  <2>6. i \in 1..n /\ i - 1 \in 0..n
    BY <2>4, <2>5
  <2>7. CountTo(S, i - 1) \in Nat /\ CountTo(S, i - 1) < k
    <3>1. i - 1 \notin U
      BY <2>3, <2>6
    <3>2. QED
      BY <1>1, <2>6, <3>1
  <2>8. CountTo(S, i) = IF i \in S THEN CountTo(S, i - 1) + 1 ELSE CountTo(S, i - 1)
    BY <1>1, <2>6
  <2>9. i \in S /\ CountTo(S, i) = k
    BY <2>4, <2>7, <2>8
  <2>10. \E x \in S : CountTo(S, x) = k
    BY <2>9
  <2>11. QED
    BY <2>10 DEF Nth, CountTo
<1>4. ASSUME NEW k \in 1..Cardinality(S), NEW l \in 1..Cardinality(S), k < l
      PROVE  Nth(S, k) < Nth(S, l)
  <2>1. PICK a, b : a = Nth(S, k) /\ b = Nth(S, l)
    OBVIOUS
  <2>2. a \in S /\ CountTo(S, a) = k /\ b \in S /\ CountTo(S, b) = l
    BY <1>3, <2>1
  <2>3. a \in 0..n /\ b \in 0..n
    BY <2>2
  <2>4. ~(b <= a)
    <3>1. b <= a => l <= k
      BY <1>1, <2>2, <2>3
    <3>2. QED
      BY <1>1, <1>4, <3>1
  <2>5. QED
    BY <2>1, <2>3, <2>4
<1>5. ASSUME NEW i \in S
      PROVE  \E k \in 1..Cardinality(S) : Nth(S, k) = i
  <2>1. PICK k : k = CountTo(S, i)
    OBVIOUS
  <2>2. i \in 1..n /\ i \in 0..n /\ i - 1 \in 0..n /\ n \in 0..n
    BY <1>2
  <2>3. k \in Nat /\ k = CountTo(S, i - 1) + 1 /\ CountTo(S, i - 1) \in Nat /\ k <= Cardinality(S)
    BY <1>1, <2>1, <2>2
  <2>4. k \in 1..Cardinality(S)
    BY <1>1, <2>3
  <2>5. PICK j : j = Nth(S, k)
    OBVIOUS
  <2>6. j \in S /\ CountTo(S, j) = k
    BY <1>3, <2>4, <2>5
  <2>7. j \in 1..n /\ j \in 0..n /\ j - 1 \in 0..n
    BY <1>2, <2>6
  <2>8. k = CountTo(S, j - 1) + 1 /\ CountTo(S, j - 1) \in Nat
    BY <1>1, <2>6, <2>7
  <2>9. ~(i < j)
    <3>1. i <= j - 1 => k <= CountTo(S, j - 1)
      BY <1>1, <2>1, <2>2, <2>7
    <3>2. QED
      BY <2>2, <2>3, <2>7, <2>8, <3>1
  <2>10. ~(j < i)
    <3>1. j <= i - 1 => k <= CountTo(S, i - 1)
      BY <1>1, <2>2, <2>6, <2>7
    <3>2. QED
      BY <2>2, <2>3, <2>7, <3>1
  <2>11. QED
    BY <2>2, <2>4, <2>5, <2>7, <2>9, <2>10
<1>6. QED
  BY <1>3, <1>4, <1>5

(* What a list keeps at a set of its positions.                             *)
LEMMA SublistFacts ==
  ASSUME NEW list, Len(list) \in Nat, NEW S \in SUBSET (1..Len(list))
  PROVE  /\ IsSeq(Sublist(list, S)) /\ Len(Sublist(list, S)) = Cardinality(S)
         /\ Cardinality(S) \in Nat /\ Cardinality(S) <= Len(list)
         /\ \A k \in 1..Cardinality(S) : /\ Nth(S, k) \in S
                                         /\ Sublist(list, S)[k] = list[Nth(S, k)]
<1>1. Cardinality(S) \in Nat /\ Cardinality(S) <= Len(list)
  BY CountUp
<1>2. Sublist(list, S) = [k \in 1..Cardinality(S) |-> list[Nth(S, k)]]
  BY DEF Sublist
<1>3. \A k \in 1..Cardinality(S) : Nth(S, k) \in S
  BY NthFacts
<1>4. IsSeq(Sublist(list, S)) /\ Len(Sublist(list, S)) = Cardinality(S)
  BY <1>1, <1>2 DEF IsSeq
<1>5. QED
  BY <1>1, <1>2, <1>3, <1>4

-----------------------------------------------------------------------------
(*********************************** Types *********************************)

RealFec == {p \in RealPackets : Coded /\ ~IsDataBlock(p)}

Releases == [id : Ids \cup {0}, length : Nat, intact : BOOLEAN]

Counters ==
  [total_blocks : Nat, total_packets : Nat, dropped_blocks : Nat, dropped_packets : Nat,
   lost_sync : Nat]

AirType ==
  air \in [msgs : Seq(Messages), got : SUBSET Nat, ready : BOOLEAN, lost : Nat, silent : Nat]

DecRest ==
  /\ m_fec_blocks \in Seq(RealFec)
  /\ dec_out_blocks \in Seq(Releases)
  /\ m_stats \in Counters

(* The inductive invariant: an FEC block held stands for a whole group,     *)
(* from which decode() takes the message of any block number it asks for.   *)
TypeInv == LinkInv /\ DecRest /\ delivered \in Seq(Releases) /\ AirType

(* A set of positions has a last.                                           *)
LEMMA GreatestOf ==
  ASSUME NEW n \in Nat, NEW S \in SUBSET (1..n), S # {}
  PROVE  \E x \in S : \A y \in S : y <= x
<1> DEFINE T == {n - x : x \in S}
<1>1. \A x \in S : x \in Nat /\ x <= n /\ n - x \in Nat
  OBVIOUS
<1>2. T \in SUBSET Nat /\ T # {}
  BY <1>1
<1>3. PICK t \in T : \A u \in T : t <= u
  BY <1>2, LeastOf
<1>4. PICK x \in S : t = n - x
  OBVIOUS
<1>5. ASSUME NEW y \in S PROVE y <= x
  <2>1. t <= n - y
    BY <1>3
  <2>2. QED
    BY <1>1, <1>4, <2>1
<1>6. QED
  BY <1>5

(* What is released has its type.                                           *)
LEMMA ReleasedType ==
  ASSUME NEW id \in Ids \cup {0}, NEW length \in Nat, NEW room
  PROVE  Released(id, length, room) \in Releases
<1>1. (id # 0 /\ length <= room) \in BOOLEAN
  OBVIOUS
<1>2. QED
  BY <1>1 DEF Released, Releases

(* A message has a number that is not 0 and a length.                       *)
LEMMA MessageTypes ==
  ASSUME NEW m \in Messages
  PROVE  m.id \in Ids /\ m.id \in Nat /\ m.id # 0 /\ m.length \in Nat /\ m.length > 0
<1>1. m.id \in Ids /\ m.length \in Lengths
  BY DEF Messages
<1>2. m.length \in 1..MaxBlockSize /\ m.id \in Nat \ {0}
  BY <1>1, BlockAssumption DEF BlockAssumption
<1>3. QED
  BY <1>1, <1>2, ConstantFacts

(* A packet carries at least one message.                                   *)
LEMMA PacketMessage ==
  ASSUME NEW p \in RealPackets
  PROVE  p.msgs \in Seq(Messages) /\ Len(p.msgs) \in Nat /\ p.msgs[1] \in Messages
<1>1. p.msgs \in Seq(Messages) /\ Len(p.msgs) >= 1
  BY DEF RealPackets, Packets
<1>2. Len(p.msgs) \in Nat
  BY <1>1, LenProperties
<1>3. 1 \in 1..Len(p.msgs)
  BY <1>1, <1>2
<1>4. QED
  BY <1>1, <1>2, <1>3, ElementOfSeq

(* A data block released has its type.                                      *)
LEMMA PacketReleased ==
  ASSUME NEW p \in RealPackets
  PROVE  ReleasedPacket(p) \in Releases
<1>1. p.msgs[1].id \in Ids \cup {0} /\ DataLength(p) \in Nat
  BY PacketMessage, MessageTypes DEF DataLength
<1>2. QED
  BY <1>1, ReleasedType DEF ReleasedPacket

(* An FEC block knows every message of its group.                           *)
LEMMA FecMessages ==
  ASSUME NEW f \in RealFec
  PROVE  /\ f \in RealPackets /\ f.n_blocks \in Nat /\ Len(f.msgs) = f.n_blocks
         /\ \A k \in 1..f.n_blocks : f.msgs[k] \in Messages
<1>1. f \in RealPackets /\ Coded /\ ~IsDataBlock(f)
  BY DEF RealFec
<1>2. Len(f.msgs) = f.n_blocks
  BY <1>1 DEF RealPackets
<1>3. QED
  BY <1>1, <1>2, PacketFacts, PacketMessage, ElementOfSeq

(* The last block held of a number.                                         *)
LEMMA LastOfNumber ==
  ASSUME NEW blocks \in Seq(RealPackets), NEW i \in Index(blocks)
  PROVE  LET k == CHOOSE k \in 1..Len(blocks) :
                    /\ blocks[k].block = i
                    /\ \A j \in (k + 1)..Len(blocks) : blocks[j].block # i
         IN  k \in 1..Len(blocks) /\ blocks[k].block = i
<1> DEFINE S == {k \in 1..Len(blocks) : blocks[k].block = i}
<1>1. Len(blocks) \in Nat
  BY LenProperties
<1>2. S \in SUBSET (1..Len(blocks)) /\ S # {}
  BY DEF Index
<1>3. PICK k \in S : \A y \in S : y <= k
  BY <1>1, <1>2, GreatestOf
<1>4. \A j \in (k + 1)..Len(blocks) : j \in 1..Len(blocks) /\ ~(j <= k)
  BY <1>1, <1>2
<1>5. \A j \in (k + 1)..Len(blocks) : blocks[j].block # i
  BY <1>3, <1>4
<1>6. \E x \in 1..Len(blocks) :
        /\ blocks[x].block = i
        /\ \A j \in (x + 1)..Len(blocks) : blocks[j].block # i
  BY <1>5
<1>7. QED
  BY <1>6

(* A block decode() releases: received, rebuilt or garbage.                 *)
LEMMA DecodedBlockType ==
  ASSUME NEW blocks \in Seq(RealPackets), blocks # <<>>,
         NEW fecs \in Seq(RealFec), fecs # <<>>, NEW size \in Nat,
         NEW garbage \in [Erased(blocks) -> GarbageLengths(size)],
         NEW i \in 0..(blocks[1].n_blocks - 1)
  PROVE  DecodedBlock(i, blocks, fecs, size, garbage) \in Releases
<1>1. CASE i \in Index(blocks)
  <2>1. PICK k \in 1..Len(blocks) : DecodedBlock(i, blocks, fecs, size, garbage) = ReleasedPacket(blocks[k])
    BY <1>1, LastOfNumber DEF DecodedBlock
  <2>2. blocks[k] \in RealPackets
    BY ElementOfSeq
  <2>3. QED
    BY <2>1, <2>2, PacketReleased
<1>2. CASE i \notin Index(blocks) /\ Solvable(blocks, fecs)
  <2>1. Len(fecs) \in Nat /\ Len(fecs) # 0
    BY EmptySeq, LenProperties
  <2>2. 1 \in 1..Len(fecs)
    BY <2>1
  <2>3. fecs[1] \in RealFec /\ fecs[1].n_blocks = blocks[1].n_blocks
    BY <1>2, <2>2, ElementOfSeq DEF Solvable
  <2>4. PICK f : f = fecs[1]
    OBVIOUS
  <2>5. f.n_blocks \in Nat /\ i + 1 \in 1..f.n_blocks
    BY <2>3, <2>4, FecMessages
  <2>6. f.msgs[i + 1] \in Messages
    BY <2>3, <2>4, <2>5, FecMessages
  <2>7. DecodedBlock(i, blocks, fecs, size, garbage) =
          Released(f.msgs[i + 1].id, f.msgs[i + 1].length, size - 2)
    BY <1>2, <2>4 DEF DecodedBlock
  <2>8. QED
    BY <2>6, <2>7, MessageTypes, ReleasedType
<1>3. CASE i \notin Index(blocks) /\ ~Solvable(blocks, fecs)
  <2>1. i \in Erased(blocks)
    BY <1>3 DEF Erased
  <2>2. garbage[i] \in Nat
    <3>1. garbage[i] \in GarbageLengths(size)
      BY <2>1
    <3>2. QED
      BY <3>1 DEF GarbageLengths
  <2>3. DecodedBlock(i, blocks, fecs, size, garbage) = Released(0, garbage[i], 0)
    BY <1>3 DEF DecodedBlock
  <2>4. 0 \in Ids \cup {0}
    OBVIOUS
  <2>5. QED
    BY <2>2, <2>3, <2>4, ReleasedType
<1>4. QED
  BY <1>1, <1>2, <1>3

(* decode() considers the blocks from the first erased one on.              *)
LEMMA DecodedFacts ==
  ASSUME NEW blocks \in Seq(RealPackets), blocks # <<>>, Erased(blocks) # {},
         NEW fecs, NEW size, NEW garbage
  PROVE  /\ FirstErased(blocks) \in Erased(blocks)
         /\ \A e \in Erased(blocks) : FirstErased(blocks) <= e
         /\ FirstErased(blocks) \in Nat /\ blocks[1].n_blocks \in Nat
         /\ FirstErased(blocks) < blocks[1].n_blocks
         /\ Len(Decoded(blocks, fecs, size, garbage)) = blocks[1].n_blocks - FirstErased(blocks)
         /\ IsSeq(Decoded(blocks, fecs, size, garbage))
         /\ \A k \in 1..(blocks[1].n_blocks - FirstErased(blocks)) :
              Decoded(blocks, fecs, size, garbage)[k] =
                DecodedBlock(FirstErased(blocks) + k - 1, blocks, fecs, size, garbage)
<1> DEFINE n == blocks[1].n_blocks
           D == Decoded(blocks, fecs, size, garbage)
<1>1. n \in Nat
  <2>1. Len(blocks) \in Nat /\ Len(blocks) # 0
    BY EmptySeq, LenProperties
  <2>2. 1 \in 1..Len(blocks)
    BY <2>1
  <2>3. blocks[1] \in RealPackets
    BY <2>2, ElementOfSeq
  <2>4. QED
    BY <2>3, PacketFacts
<1>2. Erased(blocks) \in SUBSET (0..(n - 1))
  BY DEF Erased
<1>3. Erased(blocks) \in SUBSET Nat
  <2>1. \A x \in 0..(n - 1) : x \in Nat
    BY <1>1
  <2>2. QED
    BY <1>2, <2>1
<1>4. \E e \in Erased(blocks) : \A f \in Erased(blocks) : e <= f
  BY <1>3, LeastOf
<1>5. PICK e : e = FirstErased(blocks)
  OBVIOUS
<1>6. e \in Erased(blocks) /\ \A f \in Erased(blocks) : e <= f
  BY <1>4, <1>5 DEF FirstErased
<1>7. e \in 0..(n - 1) /\ n - e \in Nat
  <2>1. e \in 0..(n - 1)
    BY <1>2, <1>6
  <2> HIDE DEF n
  <2>2. QED
    BY <1>1, <2>1
<1>8. D = [k \in 1..(n - e) |-> DecodedBlock(e + k - 1, blocks, fecs, size, garbage)]
  BY <1>5 DEF Decoded
<1>9. Len(D) = n - e /\ IsSeq(D)
  <2> HIDE DEF n, D
  <2>1. QED
    BY <1>7, <1>8 DEF IsSeq
<1>10. e \in Nat /\ e < n
  <2> HIDE DEF n
  <2>1. QED
    BY <1>1, <1>7
<1>11. QED
  BY <1>1, <1>5, <1>6, <1>8, <1>9, <1>10

(* What is pushed to the queue of released blocks.                          *)
LEMMA AcceptedType ==
  ASSUME NEW list, NEW size, Len(list) \in Nat, \A k \in 1..Len(list) : list[k] \in Releases
  PROVE  /\ Acceptable(list, size) \in Seq(Releases)
         /\ Len(Acceptable(list, size)) \in Nat /\ Len(Acceptable(list, size)) <= Len(list)
<1> DEFINE S == {i \in 1..Len(list) : list[i].length <= size}
           A == Sublist(list, S)
<1>1. S \in SUBSET (1..Len(list))
  OBVIOUS
<1>2. A = Acceptable(list, size)
  BY DEF Acceptable
<1> HIDE DEF S, A
<1>3. /\ IsSeq(A) /\ Len(A) = Cardinality(S)
      /\ Cardinality(S) \in Nat /\ Cardinality(S) <= Len(list)
      /\ \A k \in 1..Cardinality(S) : Nth(S, k) \in S /\ A[k] = list[Nth(S, k)]
  BY <1>1, SublistFacts DEF A
<1>4. \A k \in 1..Len(A) : A[k] \in Releases
  BY <1>1, <1>3
<1>5. A \in Seq(Releases)
  <2>1. A = [k \in 1..Len(A) |-> A[k]] /\ Len(A) \in Nat
    BY <1>3 DEF IsSeq
  <2>2. A \in [1..Len(A) -> Releases]
    BY <1>4, <2>1
  <2>3. QED
    BY <2>1, <2>2, IsASeq
<1>6. QED
  BY <1>2, <1>3, <1>5

(* Every counter stays a number: the gaps counted are never negative.       *)
LEMMA GapsCounted ==
  ASSUME DecInv, NEW p \in RealPackets
  PROVE  /\ Skipped(p) \in Nat /\ SkippedAtStart(p) \in Nat
         /\ LostGroups(p) \in Nat /\ LostSync(p) \in Nat /\ Gap(p) \in Nat
<1>1. /\ p.seq_num \in Nat /\ p.block \in Nat /\ p.n_blocks \in Nat /\ p.n_fec_blocks \in Nat
  BY PacketFacts, ConstantFacts
<1>2. m_prev_header.seq_num \in Nat /\ m_prev_header.block \in Nat /\ m_block_size \in Nat
  BY ConstantFacts DEF DecInv, DecTyped
<1>3. UnrolledSeq(p) \in Nat /\ UnrolledSeq(p) >= m_prev_header.seq_num
  BY NewSequenceFacts DEF DecInv
<1>4. Skipped(p) \in Nat
  <2>1. ASSUME NEW s \in Nat, NEW b \in Nat PROVE PacketNumber(s, b, p) \in Int
    BY <1>1 DEF PacketNumber
  <2>2. PICK x, y : /\ x = PacketNumber(m_prev_header.seq_num, m_prev_header.block, p)
                    /\ y = PacketNumber(UnrolledSeq(p), p.block, p)
    OBVIOUS
  <2>3. x \in Int /\ y \in Int
    BY <1>1, <1>2, <1>3, <2>1, <2>2
  <2>4. BlockGap(p) = p.block - m_prev_header.block - 1
    BY DEF BlockGap
  <2>5. Skipped(p) = IF m_block_size = 0 THEN 0
                     ELSE IF NewSequence(p) THEN (IF x < y THEN y - x ELSE 0)
                     ELSE IF p.block <= m_prev_header.block THEN 1
                     ELSE p.block - m_prev_header.block - 1
    BY <2>2, <2>4 DEF Skipped
  <2>6. QED
    BY <1>1, <1>2, <2>3, <2>5
<1>5. SkippedAtStart(p) \in Nat
  BY <1>1 DEF SkippedAtStart
<1>6. LostGroups(p) \in Nat
  BY <1>2, <1>3 DEF LostGroups
<1>7. LostSync(p) \in Nat
  BY DEF LostSync
<1>8. Gap(p) \in Nat
  BY <1>2, <1>3 DEF Gap
<1>9. QED
  BY <1>4, <1>5, <1>6, <1>7, <1>8

(* The counters of add_block() keep their type,                             *)
LEMMA CountType ==
  ASSUME DecInv, NEW p \in RealPackets, m_stats \in Counters
  PROVE  Count(p) \in Counters
<1>1. /\ m_stats.total_packets \in Nat /\ m_stats.dropped_packets \in Nat
      /\ m_stats.dropped_blocks \in Nat /\ m_stats.lost_sync \in Nat
  BY DEF Counters
<1>2. PICK a \in Nat, b \in Nat, c \in Nat, d \in Nat :
        /\ a = m_stats.total_packets + 1
        /\ b = m_stats.dropped_packets + Skipped(p) + SkippedAtStart(p)
        /\ c = m_stats.dropped_blocks + LostGroups(p)
        /\ d = m_stats.lost_sync + LostSync(p)
  <2>1. /\ m_stats.total_packets + 1 \in Nat
        /\ m_stats.dropped_packets + Skipped(p) + SkippedAtStart(p) \in Nat
        /\ m_stats.dropped_blocks + LostGroups(p) \in Nat
        /\ m_stats.lost_sync + LostSync(p) \in Nat
    BY <1>1, GapsCounted
  <2>2. QED
    BY <2>1, Zenon
<1>3. Count(p) = [m_stats EXCEPT !.total_packets = a, !.dropped_packets = b,
                                 !.dropped_blocks = c, !.lost_sync = d]
  BY <1>2, Zenon DEF Count
<1>4. [m_stats EXCEPT !.total_packets = a, !.dropped_packets = b,
                      !.dropped_blocks = c, !.lost_sync = d] \in Counters
  BY DEF Counters
<1>5. QED
  BY <1>3, <1>4

(* and so do they with more counted.                                        *)
LEMMA CountersMore ==
  ASSUME NEW s \in Counters
  PROVE  /\ [s EXCEPT !.total_blocks = @ + 1] \in Counters
         /\ [s EXCEPT !.total_packets = @ + 1] \in Counters
         /\ [s EXCEPT !.lost_sync = @ + 1] \in Counters
         /\ \A a \in Nat, b \in Nat : b <= a =>
              [s EXCEPT !.dropped_blocks = @ + a - b] \in Counters
<1>1. /\ [s EXCEPT !.total_blocks = @ + 1] \in Counters
      /\ [s EXCEPT !.total_packets = @ + 1] \in Counters
      /\ [s EXCEPT !.lost_sync = @ + 1] \in Counters
  BY DEF Counters
<1>2. ASSUME NEW a \in Nat, NEW b \in Nat, b <= a
      PROVE  [s EXCEPT !.dropped_blocks = @ + a - b] \in Counters
  BY <1>2 DEF Counters
<1>3. QED
  BY <1>1, <1>2

(* Without coding, both counts of drops grow by the gap.                    *)
LEMMA PassCount ==
  ASSUME NEW s \in Counters, NEW g \in Nat
  PROVE  [s EXCEPT !.total_packets = @ + 1, !.dropped_packets = @ + g,
                   !.dropped_blocks = @ + g] \in Counters
<1>1. PICK a \in Nat, b \in Nat, c \in Nat :
        a = s.total_packets + 1 /\ b = s.dropped_packets + g /\ c = s.dropped_blocks + g
  BY DEF Counters
<1>2. [s EXCEPT !.total_packets = @ + 1, !.dropped_packets = @ + g, !.dropped_blocks = @ + g] =
        [s EXCEPT !.total_packets = a, !.dropped_packets = b, !.dropped_blocks = c]
  BY <1>1, Zenon
<1>3. [s EXCEPT !.total_packets = a, !.dropped_packets = b, !.dropped_blocks = c] \in Counters
  BY DEF Counters
<1>4. QED
  BY <1>2, <1>3

(* add_block() keeps the rest of the decoder's types.                       *)
LEMMA AddBlockDecRest ==
  ASSUME DecInv, DecRest, NEW p \in RealPackets, DecAddBlock(p)
  PROVE  DecRest'
<1>1. /\ m_fec_blocks \in Seq(RealFec) /\ dec_out_blocks \in Seq(Releases)
      /\ m_stats \in Counters
  BY DEF DecRest
<1>2. /\ ReleasedPacket(p) \in Releases
      /\ Append(dec_out_blocks, ReleasedPacket(p)) \in Seq(Releases)
  BY <1>1, PacketReleased, AppendProperties
<1>3. Count(p) \in Counters /\ [Count(p) EXCEPT !.total_blocks = @ + 1] \in Counters
  BY <1>1, CountType, CountersMore
<1>4. KeptFecBlocks(p) \in Seq(RealFec)
  BY <1>1, EmptySeq DEF KeptFecBlocks
<1>5. CASE PassThrough(p)
  <2>1. m_stats' \in Counters
    BY <1>1, <1>5, GapsCounted, PassCount DEF PassThrough
  <2>2. QED
    BY <1>1, <1>2, <1>5, <2>1 DEF PassThrough, DecRest
<1>6. CASE SkipBlock(p)
  BY <1>1, <1>6, CountersMore DEF SkipBlock, DecRest
<1>7. CASE AddDataBlock(p)
  <2>1. m_stats' \in Counters
    BY <1>3, <1>7 DEF AddDataBlock
  <2>2. m_fec_blocks' \in Seq(RealFec)
    BY <1>4, <1>7, EmptySeq DEF AddDataBlock, ClearGroup
  <2>3. dec_out_blocks' \in Seq(Releases)
    BY <1>1, <1>2, <1>7 DEF AddDataBlock
  <2>4. QED
    BY <2>1, <2>2, <2>3 DEF DecRest
<1>8. ASSUME Accepts(p), ~IsDataBlock(p)
      PROVE  p \in RealFec /\ Append(KeptFecBlocks(p), p) \in Seq(RealFec)
  <2>1. p \in RealFec
    BY <1>8, PacketFacts DEF RealFec, Accepts
  <2>2. QED
    BY <1>4, <2>1, AppendProperties
<1>9. CASE HoldFecBlock(p)
  BY <1>1, <1>3, <1>8, <1>9 DEF HoldFecBlock, DecRest
<1>10. CASE DecodeGroup(p)
  <2> DEFINE blocks == KeptBlocks(p)
             fecs == Append(KeptFecBlocks(p), p)
             counts == [Count(p) EXCEPT !.total_blocks = @ + 1]
  <2>1. Accepts(p) /\ ~IsDataBlock(p) /\ m_fec_blocks' = <<>>
    BY <1>10 DEF DecodeGroup, ClearGroup
  <2>2. fecs \in Seq(RealFec) /\ fecs # <<>> /\ blocks \in Seq(RealPackets) /\ m_block_size \in Nat
    BY <1>4, <1>8, <2>1, KeptFacts, AppendProperties DEF DecInv, DecTyped
  <2>3. counts \in Counters
    BY <1>3
  <2>4. CASE m_stats' = counts /\ UNCHANGED dec_out_blocks
    BY <1>1, <2>1, <2>3, <2>4, EmptySeq DEF DecRest
  <2>5. CASE m_stats' = [counts EXCEPT !.lost_sync = @ + 1] /\ UNCHANGED dec_out_blocks
    <3>1. m_stats' \in Counters
      BY <2>3, <2>5, CountersMore
    <3>2. QED
      BY <1>1, <2>1, <2>5, <3>1, EmptySeq DEF DecRest
  <2>6. ASSUME blocks # <<>>, Erased(blocks) # {},
               NEW garbage \in [Erased(blocks) -> GarbageLengths(m_block_size)],
               LET released == Decoded(blocks, fecs, m_block_size, garbage)
                   accepted == Acceptable(released, m_block_size)
               IN  /\ dec_out_blocks' = dec_out_blocks \o accepted
                   /\ m_stats' = [counts EXCEPT !.dropped_blocks =
                                     @ + Len(released) - Len(accepted)]
        PROVE  DecRest'
    <3> DEFINE released == Decoded(blocks, fecs, m_block_size, garbage)
               accepted == Acceptable(released, m_block_size)
    <3>1. /\ dec_out_blocks' = dec_out_blocks \o accepted
          /\ m_stats' = [counts EXCEPT !.dropped_blocks = @ + Len(released) - Len(accepted)]
      BY <2>6
    <3> HIDE DEF blocks, fecs, counts
    <3>2. PICK e, n : e = FirstErased(blocks) /\ n = blocks[1].n_blocks
      OBVIOUS
    <3>3. /\ e \in Nat /\ n \in Nat /\ e < n /\ Len(released) = n - e
          /\ \A k \in 1..(n - e) :
               released[k] = DecodedBlock(e + k - 1, blocks, fecs, m_block_size, garbage)
      BY <2>2, <2>6, <3>2, DecodedFacts
    <3>4. ASSUME NEW k \in 1..(n - e)
          PROVE  released[k] \in Releases
      <4>1. e + k - 1 \in 0..(n - 1)
        BY <3>3
      <4>2. DecodedBlock(e + k - 1, blocks, fecs, m_block_size, garbage) \in Releases
        BY <2>2, <2>6, <3>2, <4>1, DecodedBlockType
      <4>3. QED
        BY <3>3, <4>2
    <3> HIDE DEF released
    <3>5. Len(released) \in Nat /\ \A k \in 1..Len(released) : released[k] \in Releases
      BY <3>3, <3>4
    <3>6. /\ accepted \in Seq(Releases)
          /\ Len(accepted) \in Nat /\ Len(accepted) <= Len(released)
      BY <3>5, AcceptedType
    <3> HIDE DEF accepted
    <3>7. dec_out_blocks' \in Seq(Releases)
      BY <1>1, <3>1, <3>6, ConcatProperties
    <3>8. m_stats' \in Counters
      BY <2>3, <3>1, <3>5, <3>6, CountersMore
    <3>9. QED
      BY <2>1, <3>7, <3>8, EmptySeq DEF DecRest
  <2>7. QED
    BY <1>10, <2>4, <2>5, <2>6 DEF DecodeGroup
<1>11. QED
  BY <1>5, <1>6, <1>7, <1>9, <1>10 DEF DecAddBlock

(* The history keeps its type.                                              *)
LEMMA AirKeepsType ==
  ASSUME LinkInv, AirType, EncGetBlock, NEW p, p = Head(enc_out_blocks),
         \/ air' = [OnAirHeard(p) EXCEPT !.got = @ \cup {p.block}]
         \/ air' = [OnAir(p) EXCEPT !.lost = @ + 1]
  PROVE  AirType'
<1> DEFINE out == enc_out_blocks
           q == enc_out_blocks[Len(enc_out_blocks)]
<1>1. out \in Seq(RealPackets) /\ out # <<>> /\ Len(out) \in Nat /\ Len(out) >= 1
  BY EmptySeq, LenProperties DEF LinkInv, AirTyped, EncGetBlock
<1>2. p \in RealPackets /\ q \in RealPackets
  BY <1>1, HeadTailProperties, ElementOfSeq
<1>3. p.block \in Nat /\ p.msgs \in Seq(Messages) /\ q.msgs \in Seq(Messages)
  BY <1>2, PacketFacts, PacketMessage
<1>4. /\ air.msgs \in Seq(Messages) /\ air.got \in SUBSET Nat /\ air.ready \in BOOLEAN
      /\ air.lost \in Nat /\ air.silent \in Nat /\ AirRecord
  BY DEF AirType, AirRecord
<1>5. /\ OnAir(p).msgs \in Seq(Messages) /\ OnAir(p).got \in SUBSET Nat
      /\ OnAir(p).ready \in BOOLEAN /\ OnAir(p).silent \in Nat
  <2>1. CASE p.block = 0
    <3>1. Ready(p.seq_num) \in BOOLEAN
      BY DEF Ready
    <3>2. QED
      BY <1>3, <1>4, <2>1, <3>1 DEF OnAir
  <2>2. CASE p.block # 0
    BY <1>4, <2>2 DEF OnAir
  <2>3. QED
    BY <2>1, <2>2
<1>6. /\ AirRecord' /\ air'.msgs \in Seq(Messages) /\ air'.got \in SUBSET Nat
      /\ air'.ready \in BOOLEAN
  <2>1. OnAir(p).got \cup {p.block} \in SUBSET Nat
    BY <1>3, <1>5
  <2>2. QED
    BY <1>4, <1>5, <2>1, AirCounts
<1>7. QED
  BY <1>6 DEF AirType, AirRecord

(* Types are right at the start,                                            *)
LEMMA InitTypeInv == Init => TypeInv
<1> SUFFICES ASSUME Init PROVE TypeInv
  OBVIOUS
<1>1. DecRest
  <2>1. m_stats \in Counters
    BY DEF Init, DecInit, Counters
  <2>2. QED
    BY <2>1, EmptySeq DEF Init, DecInit, DecRest
<1>2. delivered \in Seq(Releases) /\ AirType
  BY EmptySeq DEF Init, AirType, NoGroup
<1>3. QED
  BY <1>1, <1>2, InitLinkInv DEF TypeInv

(* every step keeps them,                                                   *)
LEMMA NextTypeInv == TypeInv /\ [Next]_vars => TypeInv'
<1> SUFFICES ASSUME TypeInv, [Next]_vars PROVE TypeInv'
  OBVIOUS
<1>1. LinkInv /\ DecRest /\ delivered \in Seq(Releases) /\ AirType /\ LinkInv'
  BY NextLinkInv DEF TypeInv
<1>2. ASSUME UNCHANGED <<m_fec_blocks, dec_out_blocks, m_stats>>
      PROVE  DecRest'
  BY <1>1, <1>2 DEF DecRest
<1>3. ASSUME NEW l \in Lengths, SendMessage(l)
      PROVE  TypeInv'
  <2>1. UNCHANGED <<m_fec_blocks, dec_out_blocks, m_stats, delivered, air>>
    BY <1>3 DEF SendMessage, decVars
  <2>2. QED
    BY <1>1, <1>2, <2>1 DEF TypeInv, AirType
<1>4. CASE SendFlush \/ UNCHANGED vars
  <2>1. UNCHANGED <<m_fec_blocks, dec_out_blocks, m_stats, delivered, air>>
    BY <1>4 DEF SendFlush, decVars, vars
  <2>2. QED
    BY <1>1, <1>2, <2>1 DEF TypeInv, AirType
<1>5. CASE TransmitHeard
  <2>1. PICK p : p = Head(enc_out_blocks)
    OBVIOUS
  <2>2. /\ EncGetBlock /\ DecAddBlock(p) /\ delivered' = delivered
        /\ air' = [OnAirHeard(p) EXCEPT !.got = @ \cup {p.block}]
    BY <1>5, <2>1 DEF TransmitHeard
  <2>3. AirType'
    BY <1>1, <2>1, <2>2, AirKeepsType
  <2>4. DecRest'
    BY <1>1, <2>1, <2>2, TakenPacket, AddBlockDecRest DEF LinkInv
  <2>5. QED
    BY <1>1, <2>2, <2>3, <2>4 DEF TypeInv
<1>6. CASE TransmitLost
  <2>1. PICK p : p = Head(enc_out_blocks)
    OBVIOUS
  <2>2. /\ EncGetBlock /\ delivered' = delivered
        /\ UNCHANGED <<m_fec_blocks, dec_out_blocks, m_stats>>
        /\ air' = [OnAir(p) EXCEPT !.lost = @ + 1]
    BY <1>6, <2>1 DEF TransmitLost, decVars
  <2>3. AirType'
    BY <1>1, <2>1, <2>2, AirKeepsType
  <2>4. QED
    BY <1>1, <1>2, <2>2, <2>3 DEF TypeInv
<1>7. CASE RelayTransmit
  <2>1. PICK p : p = Head(relayed)
    OBVIOUS
  <2>2. /\ relayed # <<>> /\ UNCHANGED <<delivered, air>>
        /\ \/ DecAddBlock(p)
           \/ UNCHANGED <<m_fec_blocks, dec_out_blocks, m_stats>>
    BY <1>7, <2>1 DEF RelayTransmit, decVars
  <2>3. p \in RealPackets
    BY <1>1, <2>1, <2>2, HeadTailProperties DEF LinkInv, AirTyped
  <2>4. DecRest'
    BY <1>1, <1>2, <2>2, <2>3, AddBlockDecRest DEF LinkInv
  <2>5. QED
    BY <1>1, <2>2, <2>4 DEF TypeInv, AirType
<1>8. CASE Deliver
  <2>1. /\ dec_out_blocks # <<>> /\ dec_out_blocks' = Tail(dec_out_blocks)
        /\ UNCHANGED <<m_fec_blocks, m_stats, air>>
        /\ \/ delivered' = Append(delivered, Head(dec_out_blocks))
           \/ delivered' = delivered
    BY <1>8 DEF Deliver, DecGetBlock
  <2>2. /\ dec_out_blocks \in Seq(Releases) /\ m_fec_blocks \in Seq(RealFec)
        /\ m_stats \in Counters
    BY <1>1 DEF DecRest
  <2>3. Head(dec_out_blocks) \in Releases /\ Tail(dec_out_blocks) \in Seq(Releases)
    BY <2>1, <2>2, HeadTailProperties
  <2>4. delivered' \in Seq(Releases)
    BY <1>1, <2>1, <2>3, AppendProperties
  <2>5. DecRest'
    BY <2>1, <2>2, <2>3 DEF DecRest
  <2>6. QED
    BY <1>1, <2>1, <2>4, <2>5 DEF TypeInv, AirType
<1>9. QED
  BY <1>3, <1>4, <1>5, <1>6, <1>7, <1>8 DEF Next

(* and so they always are.                                                  *)
LEMMA TypeInvariant == Spec => []TypeInv
BY InitTypeInv, NextTypeInv, PTL DEF Spec

(* The whole link is well typed, with any losses and any copies from a      *)
(* relay: the counters of drops never go below zero, decode() indexes no    *)
(* message beyond the group of the FEC block it takes it from, and what it  *)
(* releases is a message's or garbage.                                      *)
THEOREM LinkTypeOK == Spec => []TypeOK
<1>1. TypeInv => TypeOK
  <2> SUFFICES ASSUME TypeInv PROVE TypeOK
    OBVIOUS
  <2>1. /\ LinkInv /\ DecRest /\ delivered \in Seq(Releases) /\ AirType
    BY DEF TypeInv
  <2>2. EncTypeOK /\ sent \in 0..MaxMessages
    BY <2>1 DEF LinkInv, EncInv
  <2>3. \A S, T : S \subseteq T => Seq(S) \subseteq Seq(T)
    OBVIOUS
  <2>4. RealPackets \subseteq Packets /\ RealFec \subseteq Packets
    BY DEF RealPackets, RealFec
  <2>5. /\ m_blocks \in Seq(Packets) /\ m_fec_blocks \in Seq(Packets) /\ relayed \in Seq(Packets)
    BY <2>1, <2>3, <2>4 DEF LinkInv, AirTyped, DecInv, DecTyped, DecRest
  <2>6. DecTypeOK
    BY <2>1, <2>5 DEF LinkInv, DecInv, DecTyped, DecRest, DecTypeOK, Releases, Counters
  <2>7. QED
    BY <2>1, <2>2, <2>5, <2>6 DEF TypeOK, Releases, AirType
<1>2. QED
  BY <1>1, TypeInvariant, PTL

(****************************** The group held *****************************)

(* A data block of the group with these messages.                           *)
OfGroup(q, msgs) ==
  /\ q.n_blocks = Len(msgs)
  /\ IsDataBlock(q)
  /\ q.msgs[1] = msgs[q.block + 1]
  /\ DataLength(q) <= q.room

(* What the decoder holds once b packets of group seq have been on the air: *)
(* nothing of it has been heard, or the data blocks heard are the blocks    *)
(* held, unless the group is complete.                                      *)
Tracked(msgs, got, seq, b) ==
  /\ \A x \in got : x \in Nat /\ x < b
  /\ got = {} => m_prev_header.seq_num # seq
  /\ got # {} =>
       /\ m_prev_header.seq_num = seq
       /\ \A i \in 1..Len(m_blocks) : OfGroup(m_blocks[i], msgs) /\ m_blocks[i].block < b
       /\ m_blocks # <<>> => Index(m_blocks) = {x \in got : x < Len(msgs)}

TracksGroup ==
  enc_out_blocks # <<>> /\ enc_out_blocks[1].block # 0 =>
    /\ air.msgs = LastOut.msgs
    /\ Tracked(air.msgs, air.got, enc_out_blocks[1].seq_num, enc_out_blocks[1].block)

(* Block numbers that increase, and those of data blocks of one group size. *)
Climbing(blocks) ==
  \A i, j \in 1..Len(blocks) : i < j => blocks[i].block < blocks[j].block

Increasing(blocks) ==
  /\ Climbing(blocks)
  /\ \A i \in 1..Len(blocks) : IsDataBlock(blocks[i]) /\ blocks[i].n_blocks = blocks[1].n_blocks

HeldShape == Increasing(m_blocks) /\ (m_blocks # <<>> => Len(m_blocks) < m_blocks[1].n_blocks)

(* Group numbers from a to b, going round past zero.                        *)
Distance(a, b) == IF b >= a THEN b - a ELSE b - a + SeqMod - 1

(* The groups begun since the decoder last heard one.                       *)
SilentGroups ==
  m_prev_header.seq_num # 0 =>
    IF enc_out_blocks = <<>>
    THEN Distance(m_prev_header.seq_num, m_seq_num) = air.silent + 1
    ELSE Distance(m_prev_header.seq_num, enc_out_blocks[1].seq_num) =
           IF enc_out_blocks[1].block = 0 THEN air.silent + 1 ELSE air.silent

(* The inductive invariant of a link without a relay, kept by every step    *)
(* from a state where no outage is too long.                                *)
HeldInv ==
  /\ TypeInv
  /\ relayed = <<>>
  /\ HeldShape
  /\ Coded => OutGroup /\ TracksGroup /\ SilentGroups

(* The packet p about to be sent, a packet of the group described by msgs   *)
(* and got: the decoder knows nothing of it or holds what was heard of it.  *)
LEMMA KeptGroup ==
  ASSUME DecInv, NEW p \in RealPackets, NEW msgs, NEW got, got # {} => HeldShape,
         Len(msgs) = p.n_blocks, Accepts(p), Tracked(msgs, got, p.seq_num, p.block)
  PROVE  /\ Increasing(KeptBlocks(p))
         /\ \A i \in 1..Len(KeptBlocks(p)) :
              OfGroup(KeptBlocks(p)[i], msgs) /\ KeptBlocks(p)[i].block < p.block
         /\ Index(KeptBlocks(p)) = {x \in got : x < Len(msgs)}
         /\ KeptBlocks(p) # <<>> => KeptBlocks(p)[1].n_blocks = p.n_blocks
         /\ Len(KeptBlocks(p)) \in Nat /\ Len(KeptBlocks(p)) < p.n_blocks
<1>1. NewSequence(p) <=> p.seq_num # m_prev_header.seq_num
  BY NewSequenceFacts DEF DecInv
<1>2. m_block_size = 0 <=> m_blocks = <<>>
  BY DEF DecInv, SizeTells
<1>3. p.n_blocks \in Nat /\ p.n_blocks > 0
  BY PacketFacts DEF Accepts, Uncoded
<1>4. CASE got = {}
  <2>1. KeptBlocks(p) = <<>>
    BY <1>1, <1>2, <1>4 DEF Tracked, KeptBlocks, Break
  <2>2. Len(KeptBlocks(p)) = 0 /\ Index(KeptBlocks(p)) = {}
    BY <2>1, EmptySeq DEF Index
  <2>3. QED
    BY <1>3, <1>4, <2>1, <2>2 DEF Increasing, Climbing
<1>5. CASE got # {}
  <2>1. m_blocks # <<>> /\ KeptBlocks(p) = m_blocks
    BY <1>1, <1>2, <1>5 DEF Tracked, KeptBlocks, Break, Accepts
  <2>2. Len(m_blocks) \in Nat /\ 1 \in 1..Len(m_blocks)
    <3>1. m_blocks \in Seq(RealPackets)
      BY DEF DecInv, DecTyped
    <3>2. Len(m_blocks) \in Nat /\ Len(m_blocks) # 0
      BY <2>1, <3>1, LenProperties, EmptySeq
    <3>3. QED
      BY <3>2
  <2>3. m_blocks[1].n_blocks = p.n_blocks
    BY <1>5, <2>2 DEF Tracked, OfGroup
  <2>4. QED
    BY <1>5, <2>1, <2>2, <2>3 DEF Tracked, HeldShape
<1>6. QED
  BY <1>4, <1>5

(* The next block of a group goes behind those held.                        *)
LEMMA AppendIncreasing ==
  ASSUME NEW K \in Seq(RealPackets), NEW p \in RealPackets, IsDataBlock(p), Increasing(K),
         \A i \in 1..Len(K) : K[i].block < p.block,
         K # <<>> => K[1].n_blocks = p.n_blocks
  PROVE  /\ Increasing(Append(K, p)) /\ Append(K, p)[1].n_blocks = p.n_blocks
         /\ Index(Append(K, p)) = Index(K) \cup {p.block}
<1> DEFINE B == Append(K, p)
<1>1. /\ Len(B) = Len(K) + 1 /\ Len(K) \in Nat
      /\ \A i \in 1..Len(K) : B[i] = K[i]
      /\ B[Len(K) + 1] = p
  BY AppendProperties, LenProperties
<1>2. K = <<>> <=> Len(K) = 0
  BY EmptySeq
<1> HIDE DEF B
<1>3. \A i \in 1..Len(B) : i \in 1..Len(K) \/ i = Len(K) + 1
  BY <1>1
<1>4. B[1].n_blocks = p.n_blocks
  <2>1. CASE Len(K) = 0
    BY <1>1, <2>1
  <2>2. CASE Len(K) # 0
    <3>1. 1 \in 1..Len(K)
      BY <1>1, <2>2
    <3>2. QED
      BY <1>1, <1>2, <2>2, <3>1
  <2>3. QED
    BY <2>1, <2>2
<1>5. ASSUME NEW i \in 1..Len(B)
      PROVE  IsDataBlock(B[i]) /\ B[i].n_blocks = B[1].n_blocks
  <2>1. CASE i = Len(K) + 1
    BY <1>1, <1>4, <2>1
  <2>2. CASE i \in 1..Len(K)
    <3>1. K # <<>>
      BY <1>1, <1>2, <2>2
    <3>2. IsDataBlock(K[i]) /\ K[i].n_blocks = K[1].n_blocks
      BY <2>2 DEF Increasing, Climbing
    <3>3. QED
      BY <1>1, <1>4, <2>2, <3>1, <3>2
  <2>3. QED
    BY <1>3, <2>1, <2>2
<1>6. ASSUME NEW i \in 1..Len(B), NEW j \in 1..Len(B), i < j
      PROVE  B[i].block < B[j].block
  <2>1. i \in 1..Len(K)
    BY <1>1, <1>6
  <2>2. CASE j = Len(K) + 1
    BY <1>1, <2>1, <2>2
  <2>3. CASE j \in 1..Len(K)
    BY <1>1, <1>6, <2>1, <2>3 DEF Increasing, Climbing
  <2>4. QED
    BY <1>3, <2>2, <2>3
<1>7. Index(B) = Index(K) \cup {p.block}
  <2>1. ASSUME NEW x \in Index(B) PROVE x \in Index(K) \cup {p.block}
    <3>1. PICK i \in 1..Len(B) : x = B[i].block
      BY DEF Index
    <3>2. CASE i \in 1..Len(K)
      BY <1>1, <3>1, <3>2 DEF Index
    <3>3. CASE i = Len(K) + 1
      BY <1>1, <3>1, <3>3
    <3>4. QED
      BY <1>3, <3>2, <3>3
  <2>2. ASSUME NEW x \in Index(K) PROVE x \in Index(B)
    <3>1. PICK i \in 1..Len(K) : x = K[i].block
      BY DEF Index
    <3>2. i \in 1..Len(B) /\ B[i] = K[i]
      BY <1>1
    <3>3. QED
      BY <3>1, <3>2 DEF Index
  <2>3. p.block \in Index(B)
    <3>1. Len(K) + 1 \in 1..Len(B)
      BY <1>1
    <3>2. QED
      BY <1>1, <3>1 DEF Index
  <2>4. QED
    BY <2>1, <2>2, <2>3
<1>8. QED
  BY <1>4, <1>5, <1>6, <1>7 DEF Increasing, Climbing, B

(* add_block() of the next packet of the group.                             *)
LEMMA TracksHeard ==
  ASSUME DecInv, Coded, NEW p \in RealPackets, NEW msgs, NEW got, got # {} => HeldShape,
         Len(msgs) = p.n_blocks,
         IsDataBlock(p) => OfGroup(p, msgs),
         Tracked(msgs, got, p.seq_num, p.block), DecAddBlock(p)
  PROVE  /\ Tracked(msgs, got \cup {p.block}, p.seq_num, p.block + 1)'
         /\ HeldShape'
<1>0. PICK more : more = got \cup {p.block}
  OBVIOUS
<1>1. p.block \in Nat /\ p.n_blocks \in Nat /\ Len(msgs) \in Nat
  BY PacketFacts
<1>2. m_prev_header'.seq_num = p.seq_num
  <2>1. m_prev_header' = [seq_num |-> p.seq_num, block |-> p.block]
    BY DEF DecAddBlock, PassThrough, SkipBlock, AddDataBlock, HoldFecBlock, DecodeGroup
  <2>2. QED
    BY <2>1
<1>3. \A x \in more : x \in Nat /\ x < p.block + 1
  BY <1>0, <1>1 DEF Tracked
<1>4. SUFFICES /\ \A i \in 1..Len(m_blocks') :
                     OfGroup(m_blocks'[i], msgs) /\ m_blocks'[i].block < p.block + 1
               /\ m_blocks' # <<>> => Index(m_blocks') = {x \in more : x < Len(msgs)}
               /\ HeldShape'
  <2>1. more # {}
    BY <1>0
  <2>2. Tracked(msgs, more, p.seq_num, p.block + 1)'
    BY <1>2, <1>3, <1>4, <2>1 DEF Tracked, OfGroup, IsDataBlock, DataLength
  <2>3. QED
    BY <1>0, <1>4, <2>2
<1>5. CASE m_blocks' = <<>>
  BY <1>5, EmptySeq DEF HeldShape, Increasing, Climbing
<1>6. CASE m_blocks' # <<>>
  <2>1. ~PassThrough(p)
    BY PacketFacts DEF PassThrough
  <2>2. ~SkipBlock(p)
    BY <1>6 DEF SkipBlock, DecInv, SizeTells
  <2>3. ~DecodeGroup(p)
    BY <1>6 DEF DecodeGroup, ClearGroup
  <2>4. Accepts(p)
    BY <2>1, <2>2, <2>3 DEF DecAddBlock, AddDataBlock, HoldFecBlock
  <2>5. PICK K : K = KeptBlocks(p)
    OBVIOUS
  <2>6. /\ Increasing(K)
        /\ \A i \in 1..Len(K) : OfGroup(K[i], msgs) /\ K[i].block < p.block
        /\ Index(K) = {x \in got : x < Len(msgs)}
        /\ K # <<>> => K[1].n_blocks = p.n_blocks
        /\ Len(K) \in Nat /\ Len(K) < p.n_blocks
        /\ K \in Seq(RealPackets)
    BY <2>4, <2>5, KeptGroup, KeptFacts
  <2>7. ASSUME NEW i \in 1..Len(K) PROVE K[i].block < p.block + 1
    <3>1. K[i].block < p.block /\ K[i] \in RealPackets
      BY <2>6, ElementOfSeq
    <3>2. K[i].block \in Nat
      BY <3>1, PacketFacts
    <3>3. QED
      BY <1>1, <3>1, <3>2
  <2>8. CASE AddDataBlock(p)
    <3>1. PICK B : B = Append(K, p)
      OBVIOUS
    <3>2. m_blocks' = B /\ Len(B) # p.n_blocks /\ IsDataBlock(p)
      BY <1>6, <2>5, <2>8, <3>1 DEF AddDataBlock, ClearGroup
    <3>3. /\ Increasing(B) /\ B[1].n_blocks = p.n_blocks
          /\ Index(B) = Index(K) \cup {p.block}
      BY <2>6, <3>1, <3>2, AppendIncreasing
    <3>4. /\ Len(B) = Len(K) + 1
          /\ \A i \in 1..Len(K) : B[i] = K[i]
          /\ B[Len(K) + 1] = p
      BY <2>6, <3>1, AppendProperties
    <3>5. Len(B) < p.n_blocks
      BY <1>1, <2>6, <3>2, <3>4
    <3>6. ASSUME NEW i \in 1..Len(B)
          PROVE  OfGroup(B[i], msgs) /\ B[i].block < p.block + 1
      <4>1. i \in 1..Len(K) \/ i = Len(K) + 1
        BY <2>6, <3>4
      <4>2. CASE i \in 1..Len(K)
        BY <2>6, <2>7, <3>4, <4>2
      <4>3. CASE i = Len(K) + 1
        BY <1>1, <3>2, <3>4, <4>3
      <4>4. QED
        BY <4>1, <4>2, <4>3
    <3>7. Index(B) = {x \in more : x < Len(msgs)}
      <4>1. p.block < Len(msgs)
        BY <3>2 DEF IsDataBlock
      <4>2. QED
        BY <1>0, <2>6, <3>3, <4>1
    <3>8. QED
      BY <3>2, <3>3, <3>5, <3>6, <3>7 DEF HeldShape, Increasing, Climbing
  <2>9. CASE HoldFecBlock(p)
    <3>1. m_blocks' = K /\ ~(p.block < Len(msgs))
      BY <2>5, <2>9 DEF HoldFecBlock, IsDataBlock
    <3>2. Index(K) = {x \in more : x < Len(msgs)}
      BY <1>0, <2>6, <3>1
    <3>3. QED
      BY <2>6, <2>7, <3>1, <3>2 DEF HeldShape, Increasing, Climbing
  <2>10. QED
    BY <2>1, <2>2, <2>3, <2>8, <2>9 DEF DecAddBlock
<1>7. QED
  BY <1>5, <1>6

(* A packet that is lost changes nothing of it.                             *)
LEMMA TracksLost ==
  ASSUME DecInv, NEW p \in RealPackets, NEW msgs, NEW got,
         Tracked(msgs, got, p.seq_num, p.block), UNCHANGED <<m_prev_header, m_blocks>>
  PROVE  Tracked(msgs, got, p.seq_num, p.block + 1)'
<1>1. p.block \in Nat /\ m_blocks \in Seq(RealPackets)
  BY PacketFacts DEF DecInv, DecTyped
<1>2. \A x \in got : x \in Nat /\ x < p.block + 1
  BY <1>1 DEF Tracked
<1>3. ASSUME NEW i \in 1..Len(m_blocks), m_blocks[i].block < p.block
      PROVE  m_blocks[i].block < p.block + 1
  <2>1. m_blocks[i] \in RealPackets
    BY <1>1, ElementOfSeq
  <2>2. QED
    BY <1>1, <1>3, <2>1, PacketFacts
<1>4. QED
  BY <1>2, <1>3 DEF Tracked, OfGroup, IsDataBlock, DataLength, Index

(* The history as packet p of a coded group goes on the air.                *)
LEMMA AirOfGroup ==
  ASSUME LinkInv, Coded, OutGroup, EncGetBlock, NEW p, p = Head(enc_out_blocks)
  PROVE  /\ p.block = 0 => OnAir(p).msgs = LastOut.msgs /\ OnAir(p).got = {}
         /\ p.block # 0 => OnAir(p) = air
<1>1. p.block = 0 => Len(enc_out_blocks) # 1
  BY OnTheAir
<1>2. QED
  BY <1>1 DEF OnAir, LastOut

(* The decoder has heard nothing of the group of packet p, or holds what    *)
(* was heard of it: its number differs from the last one heard as long as   *)
(* the number has not come round.                                           *)
LEMMA PacketTracked ==
  ASSUME HeldInv, Coded, EncGetBlock, NEW p, p = Head(enc_out_blocks)
  PROVE  /\ Tracked(LastOut.msgs, OnAir(p).got, p.seq_num, p.block)
         /\ OnAir(p).msgs = LastOut.msgs
<1>1. LinkInv /\ OutGroup /\ TracksGroup /\ SilentGroups /\ air.silent \in Nat
  BY DEF HeldInv, TypeInv, AirType
<1>2. p \in RealPackets /\ enc_out_blocks # <<>> /\ p = enc_out_blocks[1]
  BY <1>1, OnTheAir
<1>3. CASE p.block # 0
  BY <1>1, <1>2, <1>3, AirOfGroup DEF TracksGroup
<1>4. CASE p.block = 0
  <2>1. OnAir(p).msgs = LastOut.msgs /\ OnAir(p).got = {}
    BY <1>1, <1>4, AirOfGroup
  <2>2. m_prev_header.seq_num # p.seq_num
    <3>1. p.seq_num \in Nat /\ p.seq_num # 0
      BY <1>2, PacketFacts, ConstantFacts
    <3>2. m_prev_header.seq_num # 0 => Distance(m_prev_header.seq_num, p.seq_num) = air.silent + 1
      BY <1>1, <1>2, <1>4 DEF SilentGroups
    <3>3. QED
      BY <1>1, <3>1, <3>2 DEF Distance
  <2>3. QED
    BY <2>1, <2>2 DEF Tracked
<1>5. QED
  BY <1>3, <1>4

(* A drained encoder goes on with the next number.                          *)
LEMMA SilentProduced ==
  ASSUME EncInv, Coded, Produces, enc_out_blocks = <<>>, SilentGroups,
         UNCHANGED <<m_prev_header, air>>
  PROVE  SilentGroups'
<1>1. CASE enc_out_blocks' = <<>> /\ m_seq_num' = m_seq_num
  BY <1>1 DEF SilentGroups, Distance
<1>2. ASSUME NEW in, Gathered(in), enc_out_blocks' = GroupPackets(in)
      PROVE  SilentGroups'
  <2>1. /\ Len(in) \in Nat /\ Len(in) >= 1 /\ Len(GroupPackets(in)) = Len(in) + NumFecBlocks
        /\ \A i \in 1..(Len(in) + NumFecBlocks) :
             GroupPackets(in)[i].seq_num = m_seq_num /\ GroupPackets(in)[i].block = i - 1
    BY <1>2, GroupShape DEF EncInv
  <2>2. 1 \in 1..(Len(in) + NumFecBlocks) /\ Len(in) + NumFecBlocks # 0
    BY <2>1, ConstantFacts
  <2>3. enc_out_blocks' # <<>> /\ enc_out_blocks'[1].seq_num = m_seq_num /\ enc_out_blocks'[1].block = 0
    BY <1>2, <2>1, <2>2, EmptySeq
  <2>4. QED
    BY <2>3 DEF SilentGroups, Distance
<1>3. QED
  BY <1>1, <1>2 DEF Produces

(* One group further, short of a whole turn.                                *)
LEMMA DistanceNext ==
  ASSUME NEW a \in 1..(SeqMod - 1), NEW b \in 1..(SeqMod - 1)
  PROVE  /\ Distance(a, b) < SeqMod - 2 => Distance(a, NextSeq(b)) = Distance(a, b) + 1
         /\ Distance(b, NextSeq(b)) = 1 /\ Distance(b, b) = 0
BY ConstantFacts DEF Distance, NextSeq

(* The packet sent, heard or lost.                                          *)
LEMMA SilentSent ==
  ASSUME HeldInv, Coded, NoLongOutage, EncGetBlock, NEW p, p = Head(enc_out_blocks),
         \/ m_prev_header'.seq_num = p.seq_num /\ air'.silent = 0
         \/ m_prev_header' = m_prev_header /\ air'.silent = OnAir(p).silent
  PROVE  SilentGroups'
<1>1. LinkInv /\ OutGroup /\ SilentGroups /\ AirRecord
  BY DEF HeldInv, TypeInv, AirType, AirRecord
<1>2. /\ p \in RealPackets /\ enc_out_blocks # <<>> /\ p = enc_out_blocks[1]
      /\ p.block = 0 => Len(enc_out_blocks) # 1
      /\ \/ enc_out_blocks' = <<>> /\ p.block + 1 > p.n_blocks
         \/ /\ enc_out_blocks' # <<>>
            /\ enc_out_blocks'[1].block = p.block + 1
            /\ enc_out_blocks'[1].seq_num = p.seq_num
  BY <1>1, OnTheAir
<1>3. /\ p.seq_num \in 1..(SeqMod - 1) /\ p.block \in Nat /\ p.n_blocks \in Nat /\ p.n_blocks # 0
  BY <1>2, PacketFacts DEF Uncoded
<1>4. enc_out_blocks' # <<>> => enc_out_blocks'[1].block # 0
  BY <1>2, <1>3
<1>5. enc_out_blocks' = <<>> => p.block # 0
  BY <1>2, <1>3
<1>6. m_seq_num' = NextSeq(p.seq_num)
  <2>1. m_seq_num' = m_seq_num
    BY DEF EncGetBlock
  <2>2. m_seq_num = NextSeq(LastOut.seq_num)
    BY <1>1, <1>2 DEF LinkInv, EncInv, GroupsContiguous, Coded, LastOut
  <2>3. LastOut.seq_num = p.seq_num
    <3>1. Len(enc_out_blocks) \in Nat /\ Len(enc_out_blocks) # 0
      BY <1>1, <1>2, LenProperties, EmptySeq DEF LinkInv, AirTyped
    <3>2. 1 \in 1..Len(enc_out_blocks)
      BY <3>1
    <3>3. QED
      BY <1>1, <1>2, <3>2 DEF OutGroup
  <2>4. QED
    BY <2>1, <2>2, <2>3
<1>7. CASE m_prev_header'.seq_num = p.seq_num /\ air'.silent = 0
  BY <1>2, <1>3, <1>4, <1>6, <1>7, DistanceNext DEF SilentGroups, Distance
<1>8. CASE m_prev_header' = m_prev_header /\ air'.silent = OnAir(p).silent
  <2> SUFFICES ASSUME m_prev_header.seq_num # 0 PROVE SilentGroups'
    BY <1>8 DEF SilentGroups
  <2>1. PICK a \in 1..(SeqMod - 1), s \in Nat : a = m_prev_header.seq_num /\ s = air.silent
    <3>1. m_prev_header.seq_num \in 1..(SeqMod - 1)
      BY <1>1, ConstantFacts DEF LinkInv, DecInv, DecTyped
    <3>2. QED
      BY <1>1, <3>1 DEF AirRecord
  <2>2. s < SeqMod - 2
    BY <2>1 DEF NoLongOutage, Coded
  <2>3. OnAir(p).silent = IF p.block = 0 THEN s + 1 ELSE s
    BY <2>1 DEF OnAir
  <2>4. Distance(a, p.seq_num) = IF p.block = 0 THEN s + 1 ELSE s
    BY <1>1, <1>2, <2>1 DEF SilentGroups
  <2>5. CASE enc_out_blocks' = <<>>
    <3>1. Distance(a, NextSeq(p.seq_num)) = s + 1 /\ air'.silent = s
      BY <1>3, <1>5, <1>8, <2>2, <2>3, <2>4, <2>5, DistanceNext
    <3>2. QED
      BY <1>6, <1>8, <2>1, <2>5, <3>1 DEF SilentGroups, Distance
  <2>6. CASE enc_out_blocks' # <<>>
    <3>1. /\ enc_out_blocks'[1].seq_num = p.seq_num /\ enc_out_blocks'[1].block # 0
          /\ air'.silent = Distance(a, p.seq_num)
      BY <1>2, <1>4, <1>8, <2>3, <2>4, <2>6
    <3>2. QED
      BY <1>8, <2>1, <2>6, <3>1 DEF SilentGroups, Distance
  <2>7. QED
    BY <2>5, <2>6
<1>9. QED
  BY <1>7, <1>8

(* Where the next packet of the group stands.                               *)
LEMMA TracksNext ==
  ASSUME LinkInv, Coded, OutGroup, EncGetBlock, NEW p, p = Head(enc_out_blocks),
         air'.msgs = LastOut.msgs, NEW msgs, msgs = LastOut.msgs, NEW got, got = air'.got,
         Tracked(msgs, got, p.seq_num, p.block + 1)'
  PROVE  TracksGroup'
<1>1. \/ enc_out_blocks' = <<>>
      \/ /\ enc_out_blocks' # <<>> /\ LastOut' = LastOut
         /\ enc_out_blocks'[1].block = p.block + 1
         /\ enc_out_blocks'[1].seq_num = p.seq_num
  BY OnTheAir
<1>2. CASE enc_out_blocks' = <<>>
  BY <1>2 DEF TracksGroup
<1>3. CASE /\ enc_out_blocks' # <<>> /\ LastOut' = LastOut
           /\ enc_out_blocks'[1].block = p.block + 1
           /\ enc_out_blocks'[1].seq_num = p.seq_num
  BY <1>3 DEF TracksGroup, Tracked
<1>4. QED
  BY <1>1, <1>2, <1>3

(* Nothing is held and nothing has been heard at the start.                 *)
LEMMA InitHeldInv == Init => HeldInv
<1> SUFFICES ASSUME Init PROVE HeldInv
  OBVIOUS
<1>1. TypeInv
  BY InitTypeInv
<1>2. /\ relayed = <<>> /\ enc_out_blocks = <<>> /\ m_blocks = <<>> /\ m_prev_header.seq_num = 0
  BY DEF Init, EncInit, DecInit
<1>3. HeldShape
  BY <1>2, EmptySeq DEF HeldShape, Increasing, Climbing
<1>4. QED
  BY <1>1, <1>2, <1>3 DEF HeldInv, OutGroup, TracksGroup, SilentGroups

(* Sending a packet of a coded group keeps what is known of it.             *)
LEMMA SentHeldInv ==
  ASSUME HeldInv, Coded, NoLongOutage, TransmitHeard \/ TransmitLost
  PROVE  HeldShape' /\ OutGroup' /\ TracksGroup' /\ SilentGroups'
<1>1. PICK p : p = Head(enc_out_blocks)
  OBVIOUS
<1>2. LinkInv /\ OutGroup /\ AirRecord /\ HeldShape /\ DecInv
  BY DEF HeldInv, TypeInv, AirType, AirRecord, LinkInv
<1>3. EncGetBlock
  BY DEF TransmitHeard, TransmitLost
<1>4. PICK msgs, got : msgs = LastOut.msgs /\ got = OnAir(p).got
  OBVIOUS
<1>5. /\ p \in RealPackets /\ Len(msgs) = p.n_blocks
      /\ IsDataBlock(p) => OfGroup(p, msgs)
      /\ OutGroup'
  BY <1>1, <1>2, <1>3, <1>4, OnTheAir DEF OfGroup
<1>6. Tracked(msgs, got, p.seq_num, p.block) /\ OnAir(p).msgs = msgs
  BY <1>1, <1>3, <1>4, PacketTracked
<1>7. CASE TransmitHeard
  <2>1. DecAddBlock(p) /\ air' = [OnAirHeard(p) EXCEPT !.got = @ \cup {p.block}]
    BY <1>1, <1>7 DEF TransmitHeard
  <2>2. air'.msgs = msgs /\ air'.got = got \cup {p.block} /\ air'.silent = 0
    BY <1>2, <1>4, <1>6, <2>1, AirCounts
  <2>3. PICK more : more = got \cup {p.block}
    OBVIOUS
  <2>4. Tracked(msgs, more, p.seq_num, p.block + 1)' /\ HeldShape'
    BY <1>2, <1>5, <1>6, <2>1, <2>3, TracksHeard
  <2>5. TracksGroup'
    BY <1>1, <1>2, <1>3, <1>4, <2>2, <2>3, <2>4, TracksNext
  <2>6. m_prev_header'.seq_num = p.seq_num
    <3>1. m_prev_header' = [seq_num |-> p.seq_num, block |-> p.block]
      BY <2>1 DEF DecAddBlock, PassThrough, SkipBlock, AddDataBlock, HoldFecBlock, DecodeGroup
    <3>2. QED
      BY <3>1
  <2>7. SilentGroups'
    BY <1>1, <1>3, <2>2, <2>6, SilentSent
  <2>8. QED
    BY <1>5, <2>4, <2>5, <2>7
<1>8. CASE TransmitLost
  <2>1. /\ UNCHANGED <<m_prev_header, m_blocks>>
        /\ air' = [OnAir(p) EXCEPT !.lost = @ + 1]
    BY <1>1, <1>8 DEF TransmitLost, decVars
  <2>2. air'.msgs = msgs /\ air'.got = got /\ air'.silent = OnAir(p).silent
    BY <1>2, <1>4, <1>6, <2>1, AirCounts
  <2>3. Tracked(msgs, got, p.seq_num, p.block + 1)'
    BY <1>2, <1>5, <1>6, <2>1, TracksLost
  <2>4. TracksGroup'
    BY <1>1, <1>2, <1>3, <1>4, <2>2, <2>3, TracksNext
  <2>5. SilentGroups'
    BY <1>1, <1>3, <2>1, <2>2, SilentSent
  <2>6. HeldShape'
    BY <1>2, <2>1 DEF HeldShape, Increasing, Climbing
  <2>7. QED
    BY <1>5, <2>4, <2>5, <2>6
<1>9. QED
  BY <1>7, <1>8

(* Every step from a state without too long an outage keeps the invariant.  *)
LEMMA NextHeldInv ==
  ASSUME ~Relay, HeldInv, NoLongOutage, [Next]_vars
  PROVE  HeldInv'
<1>1. TypeInv' /\ LinkInv /\ LinkInv' /\ EncInv
  BY NextTypeInv DEF HeldInv, TypeInv, LinkInv
<1>2. ASSUME Produces, enc_out_blocks = <<>>,
             UNCHANGED <<m_prev_header, m_blocks, relayed, air>>
      PROVE  HeldInv'
  <2>1. HeldShape' /\ relayed' = <<>>
    BY <1>2 DEF HeldInv, HeldShape, Increasing, Climbing
  <2>2. ASSUME Coded PROVE OutGroup' /\ TracksGroup' /\ SilentGroups'
    <3>1. OutGroup' /\ (enc_out_blocks' = <<>> \/ enc_out_blocks'[1].block = 0)
      BY <1>1, <1>2, <2>2, ProducedGroup
    <3>2. SilentGroups'
      BY <1>1, <1>2, <2>2, SilentProduced DEF HeldInv
    <3>3. QED
      BY <3>1, <3>2 DEF TracksGroup
  <2>3. QED
    BY <1>1, <2>1, <2>2 DEF HeldInv
<1>3. ASSUME NEW l \in Lengths, SendMessage(l)
      PROVE  HeldInv'
  <2>1. /\ enc_out_blocks = <<>> /\ EncAddBlock([id |-> sent + 1, length |-> l])
        /\ UNCHANGED <<m_prev_header, m_blocks, relayed, air>>
    BY <1>3 DEF SendMessage, decVars
  <2>2. Produces
    BY <1>1, <1>3, <2>1, SentMessage, AddProduces
  <2>3. QED
    BY <1>2, <2>1, <2>2
<1>4. CASE SendFlush
  <2>1. /\ enc_out_blocks = <<>> /\ Flush
        /\ UNCHANGED <<m_prev_header, m_blocks, relayed, air>>
    BY <1>4 DEF SendFlush, decVars
  <2>2. QED
    BY <1>1, <1>2, <2>1, FlushProduces
<1>5. CASE TransmitHeard \/ TransmitLost
  <2>1. relayed' = <<>>
    BY <1>5 DEF TransmitHeard, TransmitLost, RelayHears, HeldInv
  <2>2. CASE Coded
    BY <1>1, <1>5, <2>1, <2>2, SentHeldInv DEF HeldInv
  <2>3. CASE ~Coded
    <3>1. m_blocks' = <<>>
      BY <1>1, <2>3 DEF LinkInv, DecInv, NothingHeld
    <3>2. HeldShape'
      BY <3>1, EmptySeq DEF HeldShape, Increasing, Climbing
    <3>3. QED
      BY <1>1, <2>1, <2>3, <3>2 DEF HeldInv, Coded
  <2>4. QED
    BY <2>2, <2>3
<1>6. CASE RelayTransmit
  BY <1>6 DEF RelayTransmit, HeldInv
<1>7. CASE Deliver \/ UNCHANGED vars
  <2>1. UNCHANGED <<m_seq_num, enc_out_blocks, relayed, air, m_prev_header, m_blocks>>
    BY <1>7 DEF Deliver, DecGetBlock, encVars, vars, decVars
  <2>2. HeldShape' /\ relayed' = <<>>
    BY <2>1 DEF HeldInv, HeldShape, Increasing, Climbing
  <2>3. ASSUME Coded PROVE OutGroup' /\ TracksGroup' /\ SilentGroups'
    BY <2>1, <2>3 DEF HeldInv, OutGroup, LastOut, TracksGroup, Tracked, SilentGroups, Distance
  <2>4. QED
    BY <1>1, <2>2, <2>3 DEF HeldInv
<1>8. QED
  BY <1>3, <1>4, <1>5, <1>6, <1>7 DEF Next

(* The blocks decode() works on belong to one group, come in the order of   *)
(* their numbers and leave at least one of its blocks to rebuild: on every  *)
(* link without a relay, of any size and with any losses, as long as no     *)
(* outage swallows a whole turn of the sequence number.                     *)
THEOREM LinkHoldsGroup == ~Relay => (Spec /\ []NoLongOutage => []HeldGroup)
<1> SUFFICES ASSUME ~Relay PROVE Spec /\ []NoLongOutage => []HeldGroup
  OBVIOUS
<1>1. HeldInv /\ NoLongOutage /\ [Next]_vars => HeldInv'
  BY NextHeldInv
<1>2. ASSUME HeldInv PROVE HeldGroup
  <2>1. DecInv /\ HeldShape
    BY <1>2 DEF HeldInv, TypeInv, LinkInv
  <2>2. ASSUME NEW i \in 1..Len(m_blocks), i > 1
        PROVE  m_blocks[i - 1].block < m_blocks[i].block
    <3>1. Len(m_blocks) \in Nat
      BY <2>1, LenProperties DEF DecInv, DecTyped
    <3>2. i - 1 \in 1..Len(m_blocks) /\ i - 1 < i
      BY <2>2, <3>1
    <3>3. QED
      BY <2>1, <3>2 DEF HeldShape, Increasing, Climbing
  <2>3. QED
    BY <2>1, <2>2 DEF HeldGroup, DecInv, SizeTells, OneGroupHeld, HeldShape, Increasing, Climbing
<1>3. QED
  BY <1>1, <1>2, InitHeldInv, PTL DEF Spec

(******************************** What decode() releases *******************)

(* Blocks held are as many as their numbers.                                *)
LEMMA IndexCount ==
  ASSUME NEW K \in Seq(RealPackets), Climbing(K)
  PROVE  IsFiniteSet(Index(K)) /\ Cardinality(Index(K)) = Len(K) /\ Len(K) \in Nat
<1> DEFINE f == [i \in 1..Len(K) |-> K[i].block]
<1>1. Len(K) \in Nat
  BY LenProperties
<1>2. f \in Surjection(1..Len(K), Index(K))
  BY DEF Surjection, Index
<1>3. \A i \in 1..Len(K) : K[i].block \in Nat
  BY ElementOfSeq, PacketFacts
<1>4. ASSUME NEW i \in 1..Len(K), NEW j \in 1..Len(K), K[i].block = K[j].block
      PROVE  i = j
  <2>1. ~(i < j) /\ ~(j < i)
    BY <1>3, <1>4 DEF Climbing
  <2>2. QED
    BY <1>1, <2>1
<1>5. f \in Injection(1..Len(K), Index(K))
  BY <1>4 DEF Injection, IsInjective, Index
<1>6. IsFiniteSet(1..Len(K)) /\ Cardinality(1..Len(K)) = Len(K)
  BY <1>1, FS_Interval
<1> HIDE DEF f
<1>7. QED
  BY <1>1, <1>2, <1>5, <1>6, FS_Surjection

(* Without a gap, all the numbers before p's are there.                     *)
LEMMA NoGapAll ==
  ASSUME NEW K \in Seq(RealPackets), Increasing(K), NEW b \in Nat, Len(K) = b,
         \A i \in 1..Len(K) : K[i].block < b
  PROVE  Index(K) = 0..(b - 1)
<1>1. IsFiniteSet(0..(b - 1)) /\ Cardinality(0..(b - 1)) = b
  BY FS_Interval
<1>2. Index(K) \in SUBSET (0..(b - 1))
  <2>1. \A i \in 1..Len(K) : K[i].block \in 0..(b - 1)
    BY ElementOfSeq, PacketFacts
  <2>2. QED
    BY <2>1 DEF Index
<1>3. QED
  BY <1>1, <1>2, IndexCount, FS_Subset DEF Increasing

(* A block of the group with these messages, received or rebuilt, or not to *)
(* be rebuilt.  The FEC blocks end with the one just received.              *)
LEMMA DecodedBlockIs ==
  ASSUME NEW msgs, NEW blocks \in Seq(RealPackets), NEW fecs, Len(fecs) \in Nat, Len(fecs) >= 1,
         \A k \in 1..Len(blocks) : OfGroup(blocks[k], msgs),
         fecs[Len(fecs)].msgs = msgs,
         NEW i \in Nat, NEW size, NEW garbage
  PROVE  /\ i \in Index(blocks) =>
              DecodedBlock(i, blocks, fecs, size, garbage) =
                [id |-> msgs[i + 1].id, length |-> msgs[i + 1].length, intact |-> TRUE]
         /\ i \notin Index(blocks) /\ Solvable(blocks, fecs) =>
              DecodedBlock(i, blocks, fecs, size, garbage) =
                Released(msgs[i + 1].id, msgs[i + 1].length, size - 2)
         /\ i \notin Index(blocks) /\ ~Solvable(blocks, fecs) =>
              DecodedBlock(i, blocks, fecs, size, garbage) = Released(0, garbage[i], 0)
<1>1. ASSUME i \in Index(blocks)
      PROVE  DecodedBlock(i, blocks, fecs, size, garbage) =
               [id |-> msgs[i + 1].id, length |-> msgs[i + 1].length, intact |-> TRUE]
  <2>1. PICK k \in 1..Len(blocks) :
          /\ DecodedBlock(i, blocks, fecs, size, garbage) = ReleasedPacket(blocks[k])
          /\ blocks[k].block = i
    BY <1>1, LastOfNumber DEF DecodedBlock
  <2>2. PICK q : q = blocks[k]
    OBVIOUS
  <2>3. q \in RealPackets /\ DataLength(q) <= q.room /\ q.msgs[1] = msgs[i + 1]
    BY <2>1, <2>2, ElementOfSeq DEF OfGroup
  <2>4. QED
    BY <2>1, <2>2, <2>3, ReleasedIntact
<1>2. ASSUME i \notin Index(blocks), Solvable(blocks, fecs)
      PROVE  DecodedBlock(i, blocks, fecs, size, garbage) =
               Released(msgs[i + 1].id, msgs[i + 1].length, size - 2)
  <2>1. Len(fecs) \in 1..Len(fecs)
    OBVIOUS
  <2>2. fecs[1].msgs = msgs
    BY <1>2, <2>1 DEF Solvable
  <2>3. QED
    BY <1>2, <2>2 DEF DecodedBlock
<1>3. ASSUME i \notin Index(blocks), ~Solvable(blocks, fecs)
      PROVE  DecodedBlock(i, blocks, fecs, size, garbage) = Released(0, garbage[i], 0)
  BY <1>3 DEF DecodedBlock
<1>4. QED
  BY <1>1, <1>2, <1>3

(* The messages of a group carry consecutive numbers.                       *)
Consecutive(msgs, base) == \A k \in 1..Len(msgs) : msgs[k].id = base + k

(* Released message numbers: above lo, up to hi, increasing.                *)
Rising(list, lo, hi) ==
  \A k \in 1..Len(list) : list[k].id # 0 =>
    /\ lo < list[k].id /\ list[k].id <= hi
    /\ \A j \in 1..(k - 1) : list[j].id < list[k].id

(* decode() releases messages from the first one missing on, in order.      *)
LEMMA AcceptedRising ==
  ASSUME NEW list, Len(list) \in Nat, NEW size, NEW c \in Nat,
         \A k \in 1..Len(list) : list[k].id = 0 \/ list[k].id = c + k
  PROVE  Rising(Acceptable(list, size), c, c + Len(list))
<1> DEFINE S == {i \in 1..Len(list) : list[i].length <= size}
           A == Sublist(list, S)
<1>1. S \in SUBSET (1..Len(list))
  OBVIOUS
<1>2. A = Acceptable(list, size)
  BY DEF Acceptable
<1> HIDE DEF S, A
<1>3. /\ Len(A) = Cardinality(S) /\ Cardinality(S) \in Nat
      /\ \A k \in 1..Cardinality(S) : Nth(S, k) \in S /\ A[k] = list[Nth(S, k)]
  BY <1>1, SublistFacts DEF A
<1>4. \A k, l \in 1..Cardinality(S) : k < l => Nth(S, k) < Nth(S, l)
  BY <1>1, NthFacts
<1>5. ASSUME NEW k \in 1..Len(A), A[k].id # 0
      PROVE  /\ c < A[k].id /\ A[k].id <= c + Len(list)
             /\ \A j \in 1..(k - 1) : A[j].id < A[k].id
  <2>1. PICK x \in 1..Len(list) : x = Nth(S, k) /\ A[k] = list[x]
    BY <1>1, <1>3
  <2>2. A[k].id = c + x
    BY <1>5, <2>1
  <2>3. ASSUME NEW j \in 1..(k - 1) PROVE A[j].id < A[k].id
    <3>1. j \in 1..Cardinality(S) /\ k \in 1..Cardinality(S) /\ j < k
      BY <1>3
    <3>2. PICK y \in 1..Len(list) : y = Nth(S, j) /\ A[j] = list[y]
      BY <1>1, <1>3, <3>1
    <3>3. y < x
      BY <1>4, <2>1, <3>1, <3>2
    <3>4. A[j].id = 0 \/ A[j].id = c + y
      BY <3>2
    <3>5. QED
      BY <2>2, <3>3, <3>4
  <2>4. QED
    BY <2>2, <2>3
<1>6. QED
  BY <1>2, <1>5 DEF Rising

(************************** The promise of a datagram link *****************)

Below(list, b) == \A k \in 1..Len(list) : list[k].id <= b

(* Every message released so far has a number up to b.                      *)
PastBelow(b) == Below(delivered, b) /\ Below(dec_out_blocks, b)

(* The messages gathered are the last ones handed over,                     *)
InNumbered ==
  /\ Len(m_in_blocks) <= sent
  /\ \A i \in 1..Len(m_in_blocks) : m_in_blocks[i].msgs[1].id = sent - Len(m_in_blocks) + i

(* and so are those of the group on the air.                                *)
OutNumbered ==
  enc_out_blocks # <<>> =>
    /\ m_in_blocks = <<>>
    /\ Len(LastOut.msgs) <= sent
    /\ Consecutive(LastOut.msgs, sent - Len(LastOut.msgs))

(* Before anything of the group is heard, only messages before it were      *)
(* released; while it is incomplete, only those before every missing block. *)
Bounded ==
  IF enc_out_blocks = <<>>
  THEN PastBelow(sent - Len(m_in_blocks))
  ELSE IF enc_out_blocks[1].block = 0 \/ air.got = {}
  THEN PastBelow(sent - Len(LastOut.msgs))
  ELSE /\ PastBelow(sent)
       /\ m_blocks # <<>> =>
            \A e \in 0..(Len(LastOut.msgs) - 1) :
              e \notin air.got => PastBelow(sent - Len(LastOut.msgs) + e)

(* Without coding, the packet on the air carries the last message.          *)
PlainBounded ==
  IF enc_out_blocks = <<>>
  THEN PastBelow(sent)
  ELSE /\ Len(enc_out_blocks) = 1
       /\ sent >= 1
       /\ enc_out_blocks[1].msgs[1].id = sent
       /\ PastBelow(sent - 1)

(* What waits to be delivered comes after all that was.                     *)
Ordered ==
  \A j \in 1..Len(dec_out_blocks) : dec_out_blocks[j].id # 0 =>
    /\ \A i \in 1..Len(delivered) : delivered[i].id < dec_out_blocks[j].id
    /\ \A i \in 1..(j - 1) : dec_out_blocks[i].id < dec_out_blocks[j].id

DatagramInv ==
  /\ HeldInv
  /\ Ordered
  /\ Coded => InNumbered /\ OutNumbered /\ Bounded
  /\ ~Coded => PlainBounded

(* A block released carries a number.                                       *)
LEMMA ReleaseNumber ==
  ASSUME NEW r \in Releases
  PROVE  r.id \in Nat /\ r.id \in Ids \cup {0}
<1>1. r.id \in Ids \cup {0}
  BY DEF Releases
<1>2. \A x \in Ids : x \in Nat
  BY BlockAssumption DEF BlockAssumption
<1>3. QED
  BY <1>1, <1>2

(* A bound can be raised,                                                   *)
LEMMA BelowMore ==
  ASSUME NEW list \in Seq(Releases), NEW b \in Int, NEW c \in Int, b <= c, Below(list, b)
  PROVE  Below(list, c)
<1>1. ASSUME NEW k \in 1..Len(list) PROVE list[k].id <= c
  <2>1. list[k].id \in Nat
    BY ElementOfSeq, ReleaseNumber
  <2>2. list[k].id <= b
    BY DEF Below
  <2>3. QED
    BY <2>1, <2>2
<1>2. QED
  BY <1>1 DEF Below

(* for what was delivered and what was released.                            *)
LEMMA PastMore ==
  ASSUME TypeInv, NEW b \in Int, NEW c \in Int, b <= c, PastBelow(b)
  PROVE  PastBelow(c)
BY BelowMore DEF TypeInv, DecRest, PastBelow

(* The next message gathered has the next number.                           *)
LEMMA AppendNumbered ==
  ASSUME EncInv, InNumbered, sent \in Nat, NEW msg \in Messages, msg.id = sent + 1
  PROVE  LET in == Append(m_in_blocks, GetNextBlock(msg))
         IN  /\ Len(in) = Len(m_in_blocks) + 1 /\ Len(m_in_blocks) \in Nat
             /\ Len(in) <= sent + 1
             /\ \A i \in 1..Len(in) : in[i].msgs[1].id = sent + 1 - Len(in) + i
<1> DEFINE in == Append(m_in_blocks, GetNextBlock(msg))
           m == Len(m_in_blocks)
<1>1. m_in_blocks \in Seq(Packets) /\ m \in Nat /\ GetNextBlock(msg) \in Packets
  BY LenProperties, AppendGathered DEF EncInv, EncTypeOK
<1>2. /\ Len(in) = m + 1
      /\ \A i \in 1..m : in[i] = m_in_blocks[i]
      /\ in[m + 1] = GetNextBlock(msg)
  BY <1>1, AppendProperties
<1>3. GetNextBlock(msg).msgs[1] = msg
  BY DEF GetNextBlock
<1>4. m <= sent /\ \A i \in 1..m : m_in_blocks[i].msgs[1].id = sent - m + i
  BY DEF InNumbered
<1> HIDE DEF in, m
<1>5. ASSUME NEW i \in 1..Len(in) PROVE in[i].msgs[1].id = sent + 1 - Len(in) + i
  <2>1. CASE i = m + 1
    <3>1. sent + 1 - Len(in) + i = sent + 1
      BY <1>1, <1>2, <2>1
    <3>2. in[i].msgs[1].id = sent + 1
      BY <1>2, <1>3, <2>1
    <3>3. QED
      BY <3>1, <3>2
  <2>2. CASE i # m + 1
    <3>1. i \in 1..m /\ sent + 1 - Len(in) + i = sent - m + i
      BY <1>1, <1>2, <2>2
    <3>2. QED
      BY <1>2, <1>4, <3>1
  <2>3. QED
    BY <2>1, <2>2
<1>6. Len(in) <= sent + 1
  BY <1>1, <1>2, <1>4
<1>7. QED
  BY <1>1, <1>2, <1>5, <1>6 DEF in, m

(* encode_blocks(): the group's messages keep their numbers.                *)
LEMMA EncodeNumbered ==
  ASSUME EncInv, Coded, enc_out_blocks = <<>>, NEW in, Gathered(in), EncodeBlocks(in),
         sent' \in Nat, Len(in) <= sent',
         \A i \in 1..Len(in) : in[i].msgs[1].id = sent' - Len(in) + i
  PROVE  /\ InNumbered' /\ OutNumbered'
         /\ enc_out_blocks' # <<>> /\ enc_out_blocks'[1].block = 0
         /\ Len(LastOut'.msgs) = Len(in)
<1> DEFINE grp == GroupPackets(in)
           n == Len(in) + NumFecBlocks
           M == [j \in 1..Len(in) |-> in[j].msgs[1]]
<1>1. /\ grp \in Seq(Packets) /\ Len(in) \in Nat /\ Len(in) >= 1 /\ Len(grp) = n
      /\ \A i \in 1..n : grp[i].block = i - 1
  BY GroupShape DEF EncInv
<1>2. enc_out_blocks' = grp /\ m_in_blocks' = <<>>
  BY <1>1, ConcatEmptySeq DEF EncodeBlocks
<1>3. NumFecBlocks \in Nat /\ NumFecBlocks # 0
  BY ConstantFacts DEF Coded, Uncoded
<1>4. n \in (Len(in) + 1)..n /\ 1 \in 1..n /\ n # 0
  BY <1>1, <1>3
<1>5. grp[n].msgs = M
  BY <1>4, GroupPayload DEF EncInv
<1>6. Len(M) = Len(in) /\ \A i \in 1..Len(in) : M[i].id = in[i].msgs[1].id
  BY <1>1
<1> HIDE DEF grp, n, M
<1>7. enc_out_blocks' # <<>> /\ enc_out_blocks'[1].block = 0
  BY <1>1, <1>2, <1>4, EmptySeq
<1>8. LastOut'.msgs = M
  BY <1>1, <1>2, <1>5 DEF LastOut
<1>9. InNumbered'
  BY <1>2, EmptySeq DEF InNumbered
<1>10. OutNumbered'
  <2>1. \A k \in 1..Len(M) : M[k].id = sent' - Len(M) + k
    BY <1>6
  <2>2. QED
    BY <1>2, <1>6, <1>8, <2>1 DEF OutNumbered, Consecutive
<1>11. QED
  BY <1>6, <1>7, <1>8, <1>9, <1>10

(* A message or a flush, handed to a drained encoder.                       *)
LEMMA HandedDatagram ==
  ASSUME DatagramInv, enc_out_blocks = <<>>, UNCHANGED <<delivered, dec_out_blocks>>,
         \/ \E l \in Lengths : SendMessage(l)
         \/ SendFlush
  PROVE  /\ Coded => InNumbered' /\ OutNumbered' /\ Bounded'
         /\ ~Coded => PlainBounded'
         /\ Ordered'
<1>1. TypeInv /\ LinkInv /\ EncInv /\ sent \in Nat
  <2>1. TypeInv /\ LinkInv /\ EncInv
    BY DEF DatagramInv, HeldInv, TypeInv, LinkInv
  <2>2. QED
    BY <2>1, LinkAssumption DEF LinkInv, LinkAssumption
<1>2. Ordered'
  BY DEF DatagramInv, Ordered
<1>3. \A b : PastBelow(b) => PastBelow(b)'
  BY DEF PastBelow, Below
<1>4. Len(m_in_blocks) \in Nat /\ m_in_blocks \in Seq(Packets)
  BY <1>1, LenProperties DEF EncInv, EncTypeOK
<1>5. Coded => InNumbered /\ PastBelow(sent - Len(m_in_blocks))
  BY DEF DatagramInv, Bounded
(* A whole group, numbered up to the last message handed over.              *)
<1>6. ASSUME Coded, NEW in, Gathered(in), EncodeBlocks(in), sent' \in Nat, Len(in) <= sent',
             Len(in) \in Nat, sent' - Len(in) = sent - Len(m_in_blocks),
             \A i \in 1..Len(in) : in[i].msgs[1].id = sent' - Len(in) + i
      PROVE  InNumbered' /\ OutNumbered' /\ Bounded'
  <2>1. /\ InNumbered' /\ OutNumbered'
        /\ enc_out_blocks' # <<>> /\ enc_out_blocks'[1].block = 0
        /\ Len(LastOut'.msgs) = Len(in)
    BY <1>1, <1>6, EncodeNumbered
  <2>2. PICK b : b = sent - Len(m_in_blocks)
    OBVIOUS
  <2>3. PastBelow(b)' /\ b = sent' - Len(LastOut'.msgs)
    BY <1>3, <1>5, <1>6, <2>1, <2>2
  <2>4. Bounded'
    BY <2>1, <2>3 DEF Bounded
  <2>5. QED
    BY <2>1, <2>4
<1>7. ASSUME NEW l \in Lengths, SendMessage(l)
      PROVE  /\ Coded => InNumbered' /\ OutNumbered' /\ Bounded'
             /\ ~Coded => PlainBounded'
  <2>1. PICK msg : msg = [id |-> sent + 1, length |-> l]
    OBVIOUS
  <2>2. msg \in Messages /\ msg.id = sent + 1 /\ sent' = sent + 1 /\ EncAddBlock(msg)
    BY <1>1, <1>7, <2>1, SentMessage DEF SendMessage
  <2>3. PICK in : in = Append(m_in_blocks, GetNextBlock(msg))
    OBVIOUS
  <2>4. CASE PassBlock(msg)
    <3>1. ~Coded /\ enc_out_blocks' = <<GetNextBlock(msg)>>
      BY <2>4 DEF PassBlock, Coded
    <3>2. GetNextBlock(msg).msgs[1].id = sent + 1
      BY <2>2 DEF GetNextBlock
    <3>3. PICK q : q = GetNextBlock(msg)
      OBVIOUS
    <3>4. enc_out_blocks' # <<>> /\ Len(enc_out_blocks') = 1 /\ enc_out_blocks'[1] = q
      BY <3>1, <3>3
    <3>5. PICK b : b = sent
      OBVIOUS
    <3>6. PastBelow(b)' /\ sent' - 1 = b
      BY <1>1, <1>3, <2>2, <3>1, <3>5 DEF DatagramInv, PlainBounded
    <3>7. PlainBounded'
      BY <1>1, <2>2, <3>2, <3>3, <3>4, <3>6 DEF PlainBounded
    <3>8. QED
      BY <3>1, <3>7
  <2>5. ASSUME Coded
        PROVE  /\ Len(in) = Len(m_in_blocks) + 1 /\ Len(in) <= sent'
               /\ \A i \in 1..Len(in) : in[i].msgs[1].id = sent' - Len(in) + i
               /\ Gathered(in)
    BY <1>1, <1>5, <2>2, <2>3, <2>5, AppendNumbered, AppendGathered DEF EncInv
  <2>6. CASE HoldBlock(msg)
    <3>1. Coded /\ m_in_blocks' = in /\ enc_out_blocks' = <<>>
      BY <2>3, <2>6 DEF HoldBlock, Coded
    <3>2. InNumbered' /\ OutNumbered'
      BY <2>5, <3>1 DEF InNumbered, OutNumbered
    <3>3. PICK b : b = sent - Len(m_in_blocks)
      OBVIOUS
    <3>4. b = sent' - Len(m_in_blocks') /\ PastBelow(b)'
      BY <1>1, <1>3, <1>4, <1>5, <2>2, <2>5, <3>1, <3>3
    <3>5. Bounded'
      BY <3>1, <3>4 DEF Bounded
    <3>6. QED
      BY <3>1, <3>2, <3>5
  <2>7. CASE CompleteGroup(msg)
    <3>1. Coded /\ EncodeBlocks(in)
      BY <2>3, <2>7 DEF CompleteGroup, Coded
    <3>2. sent' \in Nat /\ Len(in) \in Nat /\ sent' - Len(in) = sent - Len(m_in_blocks)
      <4>1. PICK s \in Nat, m \in Nat : s = sent /\ m = Len(m_in_blocks)
        BY <1>1, <1>4
      <4>2. sent' = s + 1 /\ Len(in) = m + 1
        BY <2>2, <2>5, <3>1, <4>1
      <4>3. QED
        BY <4>1, <4>2
    <3>3. QED
      BY <1>6, <2>5, <3>1, <3>2
  <2>8. QED
    BY <2>2, <2>4, <2>6, <2>7 DEF EncAddBlock
<1>8. CASE SendFlush
  <2>1. Flush /\ sent' = sent
    BY <1>8 DEF SendFlush
  <2>2. Gathered(m_in_blocks) /\ Coded /\ EncodeBlocks(m_in_blocks)
    BY <1>1, <2>1 DEF EncInv, EncTypeOK, GroupGathered, NothingGathered, Gathered, Flush, Coded
  <2>3. PICK in : in = m_in_blocks
    OBVIOUS
  <2>4. Len(in) <= sent' /\ \A i \in 1..Len(in) : in[i].msgs[1].id = sent' - Len(in) + i
    BY <1>5, <2>1, <2>2, <2>3 DEF InNumbered
  <2>5. sent' \in Nat /\ Len(in) \in Nat /\ sent' - Len(in) = sent - Len(m_in_blocks)
    BY <1>1, <1>4, <2>1, <2>3
  <2>6. QED
    BY <1>2, <1>6, <2>2, <2>3, <2>4, <2>5
<1>9. QED
  BY <1>2, <1>7, <1>8

(* The list decode() releases.                                              *)
DecodesTo(blocks, fecs, size, list) ==
  \E garbage \in [Erased(blocks) -> GarbageLengths(size)] :
    list = Acceptable(Decoded(blocks, fecs, size, garbage), size)

(* What the completion by an FEC block releases.                            *)
LEMMA DecodeReleases ==
  ASSUME DecInv, DecRest, NEW p \in RealPackets, dec_out_blocks = <<>>, DecodeGroup(p)
  PROVE  /\ Accepts(p) /\ ~IsDataBlock(p) /\ m_blocks' = <<>>
         /\ KeptFecBlocks(p) \in Seq(RealFec) /\ p \in RealFec
         /\ Append(KeptFecBlocks(p), p) \in Seq(RealFec)
         /\ Len(KeptBlocks(p)) + Len(KeptFecBlocks(p)) + 1 = p.n_blocks
         /\ \/ dec_out_blocks' = <<>> /\ KeptBlocks(p) = <<>>
            \/ dec_out_blocks' = <<>> /\ KeptBlocks(p)[1].n_blocks > p.n_blocks
            \/ /\ KeptBlocks(p) # <<>> /\ Erased(KeptBlocks(p)) # {}
               /\ DecodesTo(KeptBlocks(p), Append(KeptFecBlocks(p), p), m_block_size, dec_out_blocks')
<1>1. Accepts(p) /\ ~IsDataBlock(p) /\ m_blocks' = <<>>
  BY DEF DecodeGroup, ClearGroup
<1>2. PICK F, B : F = KeptFecBlocks(p) /\ B = KeptBlocks(p)
  OBVIOUS
<1>3. F \in Seq(RealFec) /\ B \in Seq(RealPackets) /\ m_block_size \in Nat
  BY <1>1, <1>2, EmptySeq, KeptFacts DEF KeptFecBlocks, DecRest, DecInv, DecTyped
<1>4. p \in RealFec
  BY <1>1, PacketFacts DEF RealFec, Accepts
<1>5. PICK fecs : fecs = Append(F, p)
  OBVIOUS
<1>6. /\ fecs \in Seq(RealFec) /\ fecs # <<>> /\ Len(fecs) = Len(F) + 1
      /\ Len(F) \in Nat /\ Len(B) \in Nat
  BY <1>3, <1>4, <1>5, AppendProperties, LenProperties
<1>7. Len(B) + Len(fecs) = p.n_blocks
  BY <1>2, <1>5 DEF DecodeGroup
<1>8. CASE B = <<>> /\ UNCHANGED dec_out_blocks
  BY <1>1, <1>2, <1>3, <1>4, <1>5, <1>6, <1>7, <1>8
<1>9. CASE B[1].n_blocks > Len(B) + Len(fecs) /\ UNCHANGED dec_out_blocks
  BY <1>1, <1>2, <1>3, <1>4, <1>5, <1>6, <1>7, <1>9
<1>10. ASSUME B # <<>>, Erased(B) # {},
              NEW garbage \in [Erased(B) -> GarbageLengths(m_block_size)],
              dec_out_blocks' =
                dec_out_blocks \o Acceptable(Decoded(B, fecs, m_block_size, garbage), m_block_size)
       PROVE  DecodesTo(B, fecs, m_block_size, dec_out_blocks')
  <2>1. PICK released : released = Decoded(B, fecs, m_block_size, garbage)
    OBVIOUS
  <2>2. PICK e, n : e = FirstErased(B) /\ n = B[1].n_blocks
    OBVIOUS
  <2>3. /\ e \in Nat /\ n \in Nat /\ e < n /\ Len(released) = n - e
        /\ \A k \in 1..(n - e) :
             released[k] = DecodedBlock(e + k - 1, B, fecs, m_block_size, garbage)
    BY <1>3, <1>10, <2>1, <2>2, DecodedFacts
  <2>4. ASSUME NEW k \in 1..(n - e)
        PROVE  released[k] \in Releases
    <3>1. e + k - 1 \in 0..(n - 1)
      BY <2>3
    <3>2. DecodedBlock(e + k - 1, B, fecs, m_block_size, garbage) \in Releases
      BY <1>3, <1>6, <1>10, <2>2, <3>1, DecodedBlockType
    <3>3. QED
      BY <2>3, <3>2
  <2>5. Len(released) \in Nat /\ \A k \in 1..Len(released) : released[k] \in Releases
    BY <2>3, <2>4
  <2>6. Acceptable(released, m_block_size) \in Seq(Releases)
    BY <2>5, AcceptedType
  <2>7. dec_out_blocks' = Acceptable(released, m_block_size)
    BY <1>10, <2>1, <2>6, ConcatEmptySeq
  <2>8. QED
    BY <2>1, <2>7 DEF DecodesTo
<1>11. \/ B = <<>> /\ UNCHANGED dec_out_blocks
       \/ B[1].n_blocks > Len(B) + Len(fecs) /\ UNCHANGED dec_out_blocks
       \/ /\ B # <<>> /\ Erased(B) # {}
          /\ \E garbage \in [Erased(B) -> GarbageLengths(m_block_size)] :
               dec_out_blocks' =
                dec_out_blocks \o Acceptable(Decoded(B, fecs, m_block_size, garbage), m_block_size)
  BY <1>2, <1>5 DEF DecodeGroup
<1>12. QED
  BY <1>1, <1>2, <1>3, <1>4, <1>5, <1>6, <1>7, <1>8, <1>9, <1>10, <1>11

(* What is decoded of a tracked group comes after the first block missing.  *)
LEMMA DecodedRising ==
  ASSUME NEW msgs, NEW base \in Nat, Consecutive(msgs, base),
         NEW blocks \in Seq(RealPackets), blocks # <<>>, Erased(blocks) # {},
         \A k \in 1..Len(blocks) : OfGroup(blocks[k], msgs),
         NEW fecs, Len(fecs) \in Nat, Len(fecs) >= 1, fecs[Len(fecs)].msgs = msgs,
         NEW size, NEW list, DecodesTo(blocks, fecs, size, list)
  PROVE  /\ FirstErased(blocks) \in Erased(blocks) /\ Len(msgs) = blocks[1].n_blocks
         /\ Rising(list, base + FirstErased(blocks), base + Len(msgs))
<1>1. PICK garbage \in [Erased(blocks) -> GarbageLengths(size)] :
        list = Acceptable(Decoded(blocks, fecs, size, garbage), size)
  BY DEF DecodesTo
<1>2. PICK rel : rel = Decoded(blocks, fecs, size, garbage)
  OBVIOUS
<1>3. PICK e, n : e = FirstErased(blocks) /\ n = blocks[1].n_blocks
  OBVIOUS
<1>4. /\ e \in Nat /\ n \in Nat /\ e < n /\ Len(rel) = n - e /\ e \in Erased(blocks)
      /\ \A k \in 1..(n - e) : rel[k] = DecodedBlock(e + k - 1, blocks, fecs, size, garbage)
  BY <1>2, <1>3, DecodedFacts
<1>5. Len(msgs) = n
  <2>1. Len(blocks) \in Nat /\ Len(blocks) # 0
    BY LenProperties, EmptySeq
  <2>2. 1 \in 1..Len(blocks)
    BY <2>1
  <2>3. QED
    BY <1>3, <2>2 DEF OfGroup
<1>6. ASSUME NEW k \in 1..(n - e)
      PROVE  rel[k].id = 0 \/ rel[k].id = base + e + k
  <2>1. PICK i \in Nat : i = e + k - 1
    BY <1>4
  <2>2. i + 1 \in 1..Len(msgs) /\ base + (i + 1) = base + e + k
    BY <1>4, <1>5, <2>1
  <2>3. msgs[i + 1].id = base + e + k
    BY <2>2 DEF Consecutive
  <2>4. PICK r : r = DecodedBlock(i, blocks, fecs, size, garbage)
    OBVIOUS
  <2>5. r.id = msgs[i + 1].id \/ r.id = 0
    BY <2>4, DecodedBlockIs DEF Released
  <2>6. QED
    BY <1>4, <2>1, <2>3, <2>4, <2>5
<1>7. base + e \in Nat /\ Len(rel) \in Nat /\ base + e + Len(rel) = base + Len(msgs)
  BY <1>4, <1>5
<1>8. \A k \in 1..Len(rel) : rel[k].id = 0 \/ rel[k].id = (base + e) + k
  BY <1>4, <1>6
<1>9. Rising(Acceptable(rel, size), base + e, base + e + Len(rel))
  BY <1>7, <1>8, AcceptedRising
<1>10. QED
  BY <1>1, <1>2, <1>3, <1>4, <1>5, <1>7, <1>9

(* What the next packet of a tracked group releases: nothing; itself, when  *)
(* all before it came; or the group from its first missing block on.        *)
Opens(p, msgs, got, base) ==
  /\ Accepts(p) /\ IsDataBlock(p)
  /\ dec_out_blocks' = <<ReleasedPacket(p)>>
  /\ ReleasedPacket(p).id = base + p.block + 1
  /\ \A e \in 0..(p.block - 1) : e \in got

Completes(p, msgs, got, base) ==
  /\ Accepts(p) /\ m_blocks' = <<>>
  /\ \E e \in 0..(Len(msgs) - 1) :
       e \notin got /\ Rising(dec_out_blocks', base + e, base + Len(msgs))

(* add_block() of the next packet of a tracked group does one of these.     *)
LEMMA HeardReleases ==
  ASSUME DecInv, HeldShape, DecRest, Coded, NEW p \in RealPackets, NEW msgs, NEW got,
         NEW base \in Nat, Consecutive(msgs, base),
         Len(msgs) = p.n_blocks,
         IsDataBlock(p) => OfGroup(p, msgs),
         ~IsDataBlock(p) => p.msgs = msgs,
         Tracked(msgs, got, p.seq_num, p.block), DecAddBlock(p), dec_out_blocks = <<>>
  PROVE  \/ dec_out_blocks' = <<>>
         \/ Opens(p, msgs, got, base)
         \/ Completes(p, msgs, got, base)
<1>1. p.block \in Nat /\ p.n_blocks \in Nat /\ ~PassThrough(p)
  BY PacketFacts DEF PassThrough
<1>2. PICK K : K = KeptBlocks(p)
  OBVIOUS
<1>3. ASSUME Accepts(p)
      PROVE  /\ Increasing(K) /\ K \in Seq(RealPackets)
             /\ \A i \in 1..Len(K) : OfGroup(K[i], msgs) /\ K[i].block < p.block
             /\ Index(K) = {x \in got : x < Len(msgs)}
             /\ Len(K) \in Nat
  BY <1>2, <1>3, KeptGroup, KeptFacts
<1>4. CASE SkipBlock(p) \/ HoldFecBlock(p)
  BY <1>4 DEF SkipBlock, HoldFecBlock
<1>5. CASE AddDataBlock(p)
  <2>1. Accepts(p) /\ IsDataBlock(p)
    BY <1>5 DEF AddDataBlock
  <2>2. CASE ~NoGap(Append(K, p), p)
    BY <1>2, <1>5, <2>2 DEF AddDataBlock
  <2>3. CASE NoGap(Append(K, p), p)
    <3>1. dec_out_blocks' = <<ReleasedPacket(p)>>
      <4>1. dec_out_blocks' = Append(<<>>, ReleasedPacket(p))
        BY <1>2, <1>5, <2>3 DEF AddDataBlock
      <4>2. QED
        BY <4>1
    <3>2. Len(K) = p.block
      <4>1. Len(Append(K, p)) = Len(K) + 1
        BY <1>3, <2>1, AppendProperties
      <4>2. QED
        BY <1>1, <1>3, <2>1, <2>3, <4>1 DEF NoGap
    <3>3. Index(K) = 0..(p.block - 1)
      BY <1>1, <1>3, <2>1, <3>2, NoGapAll
    <3>4. \A e \in 0..(p.block - 1) : e \in got
      BY <1>3, <2>1, <3>3
    <3>5. ReleasedPacket(p).id = base + p.block + 1
      <4>1. p.block + 1 \in 1..Len(msgs)
        BY <1>1, <2>1 DEF IsDataBlock
      <4>2. msgs[p.block + 1].id = base + (p.block + 1)
        BY <4>1 DEF Consecutive
      <4>3. ReleasedPacket(p).id = p.msgs[1].id
        BY DEF ReleasedPacket, Released
      <4>4. QED
        BY <1>1, <2>1, <4>2, <4>3 DEF OfGroup
    <3>6. QED
      BY <2>1, <3>1, <3>4, <3>5 DEF Opens
  <2>4. QED
    BY <2>2, <2>3
<1>6. CASE DecodeGroup(p)
  <2>1. PICK fecs : fecs = Append(KeptFecBlocks(p), p)
    OBVIOUS
  <2>2. /\ Accepts(p) /\ ~IsDataBlock(p) /\ m_blocks' = <<>>
        /\ KeptFecBlocks(p) \in Seq(RealFec) /\ p \in RealFec
        /\ \/ dec_out_blocks' = <<>>
           \/ /\ K # <<>> /\ Erased(K) # {}
              /\ DecodesTo(K, fecs, m_block_size, dec_out_blocks')
    BY <1>2, <1>6, <2>1, DecodeReleases
  <2>3. Len(fecs) \in Nat /\ Len(fecs) >= 1 /\ fecs[Len(fecs)].msgs = msgs
    <3>1. PICK F \in Seq(RealFec) : F = KeptFecBlocks(p)
      BY <2>2
    <3>2. Len(fecs) = Len(F) + 1 /\ Len(F) \in Nat /\ fecs[Len(F) + 1] = p
      BY <2>1, <2>2, <3>1, AppendProperties, LenProperties
    <3>3. QED
      BY <2>2, <3>2
  <2>4. CASE K # <<>> /\ Erased(K) # {} /\ DecodesTo(K, fecs, m_block_size, dec_out_blocks')
    <3>1. PICK e : e = FirstErased(K)
      OBVIOUS
    <3>2. PICK list : list = dec_out_blocks'
      OBVIOUS
    <3>3. /\ e \in Erased(K) /\ Len(msgs) = K[1].n_blocks
          /\ Rising(list, base + e, base + Len(msgs))
      BY <1>3, <2>2, <2>3, <2>4, <3>1, <3>2, DecodedRising
    <3>4. e \in 0..(Len(msgs) - 1) /\ e \notin Index(K)
      BY <3>3 DEF Erased
    <3>5. e \notin got
      BY <1>1, <1>3, <2>2, <3>4
    <3>6. QED
      BY <2>2, <3>2, <3>3, <3>4, <3>5 DEF Completes
  <2>5. QED
    BY <2>2, <2>4
<1>7. QED
  BY <1>1, <1>4, <1>5, <1>6 DEF DecAddBlock

(* The messages of the group on the air, and what was delivered before its  *)
(* packet p.                                                                *)
LEMMA AirNumbered ==
  ASSUME DatagramInv, Coded, EncGetBlock, NEW p, p = Head(enc_out_blocks),
         dec_out_blocks = <<>>
  PROVE  LET n == Len(LastOut.msgs)
             base == sent - n
             got == OnAir(p).got
         IN  /\ sent \in Nat /\ n \in Nat /\ n = p.n_blocks /\ n >= 1 /\ base \in Nat
             /\ Consecutive(LastOut.msgs, base)
             /\ m_in_blocks = <<>>
             /\ Below(delivered, sent)
             /\ got = {} => Below(delivered, base)
             /\ got # {} /\ m_blocks # <<>> =>
                  \A e \in 0..(n - 1) : e \notin got => Below(delivered, base + e)
<1> DEFINE n == Len(LastOut.msgs)
           base == sent - n
           got == OnAir(p).got
<1>1. TypeInv /\ LinkInv /\ OutGroup /\ OutNumbered /\ Bounded
  BY DEF DatagramInv, HeldInv, TypeInv
<1>2. sent \in Nat
  BY <1>1, LinkAssumption DEF LinkInv, LinkAssumption
<1>3. /\ p \in RealPackets /\ n = p.n_blocks /\ enc_out_blocks # <<>> /\ p = enc_out_blocks[1]
  BY <1>1, OnTheAir
<1>4. n \in Nat /\ n >= 1
  BY <1>3, PacketFacts DEF Uncoded
<1>5. n <= sent /\ Consecutive(LastOut.msgs, base) /\ m_in_blocks = <<>>
  BY <1>1, <1>3 DEF OutNumbered
<1>6. base \in Nat /\ base <= sent
  <2> HIDE DEF n
  <2>1. QED
    BY <1>2, <1>4, <1>5
<1>7. p.block = 0 \/ got = {} => Below(delivered, base)
  <2>1. p.block = 0 \/ air.got = {} => Below(delivered, base)
    BY <1>1, <1>3 DEF Bounded, PastBelow
  <2>2. p.block # 0 => got = air.got
    BY <1>1, AirOfGroup
  <2>3. QED
    BY <2>1, <2>2
<1>8. p.block = 0 => got = {}
  BY <1>1, AirOfGroup
<1>9. CASE got = {}
  <2>1. Below(delivered, base)
    BY <1>7, <1>9
  <2>2. Below(delivered, sent)
    <3> HIDE DEF base
    <3>1. QED
      BY <1>1, <1>2, <1>6, <2>1, BelowMore DEF TypeInv
  <2>3. QED
    BY <1>2, <1>3, <1>4, <1>5, <1>6, <1>9, <2>1, <2>2
<1>10. CASE got # {}
  <2>1. p.block # 0 /\ got = air.got
    BY <1>1, <1>8, <1>10, AirOfGroup
  <2>2. /\ PastBelow(sent)
        /\ m_blocks # <<>> => \A e \in 0..(n - 1) : e \notin got => PastBelow(base + e)
    BY <1>1, <1>3, <1>10, <2>1 DEF Bounded
  <2>3. QED
    BY <1>2, <1>3, <1>4, <1>5, <1>6, <1>10, <2>2 DEF PastBelow
<1>11. QED
  BY <1>9, <1>10

(* A packet of a coded group, heard or lost.                                *)
LEMMA SentDatagram ==
  ASSUME DatagramInv, Coded, TypeInv', TransmitHeard \/ TransmitLost
  PROVE  InNumbered' /\ OutNumbered' /\ Bounded' /\ Ordered'
<1>1. PICK p : p = Head(enc_out_blocks)
  OBVIOUS
<1>2. /\ EncGetBlock /\ dec_out_blocks = <<>> /\ sent' = sent /\ delivered' = delivered
      /\ m_in_blocks' = m_in_blocks
  BY DEF TransmitHeard, TransmitLost, EncGetBlock
<1>3. TypeInv /\ LinkInv /\ OutGroup /\ OutNumbered /\ InNumbered /\ HeldShape /\ DecInv /\ DecRest /\ AirRecord
  BY DEF DatagramInv, HeldInv, TypeInv, LinkInv, AirType, AirRecord
<1>4. PICK msgs, got : msgs = LastOut.msgs /\ got = OnAir(p).got
  OBVIOUS
<1>5. PICK n, base : n = Len(msgs) /\ base = sent - n
  OBVIOUS
<1>6. /\ sent \in Nat /\ n \in Nat /\ n = p.n_blocks /\ n >= 1 /\ base \in Nat /\ base + n = sent
      /\ Consecutive(msgs, base)
      /\ m_in_blocks = <<>>
      /\ Below(delivered, sent)
      /\ got = {} => Below(delivered, base)
      /\ got # {} /\ m_blocks # <<>> =>
           \A e \in 0..(n - 1) : e \notin got => Below(delivered, base + e)
  BY <1>1, <1>2, <1>4, <1>5, AirNumbered
<1>7. /\ p \in RealPackets
      /\ IsDataBlock(p) => OfGroup(p, msgs)
      /\ ~IsDataBlock(p) => p.msgs = msgs
      /\ \/ enc_out_blocks' = <<>>
         \/ /\ enc_out_blocks' # <<>> /\ LastOut' = LastOut
            /\ enc_out_blocks'[1].block = p.block + 1
  BY <1>1, <1>2, <1>3, <1>4, OnTheAir DEF OfGroup
<1>8. p.block \in Nat /\ p.block + 1 # 0
  BY <1>7, PacketFacts
<1>9. Tracked(msgs, got, p.seq_num, p.block)
  BY <1>1, <1>2, <1>4, PacketTracked DEF DatagramInv
<1>10. InNumbered' /\ OutNumbered'
  <2>1. InNumbered'
    BY <1>2, <1>3 DEF InNumbered
  <2>2. OutNumbered'
    BY <1>2, <1>3, <1>6, <1>7 DEF OutNumbered, Consecutive, EncGetBlock
  <2>3. QED
    BY <2>1, <2>2
<1>11. Len(m_in_blocks') = 0
  BY <1>2, <1>6, EmptySeq
(* It is enough to bound what is delivered and what is released.            *)
<1>12. ASSUME PastBelow(sent)',
              air'.got = {} => PastBelow(base)',
              air'.got # {} /\ m_blocks' # <<>> =>
                \A e \in 0..(n - 1) : e \notin air'.got => PastBelow(base + e)'
       PROVE  Bounded'
  <2>1. CASE enc_out_blocks' = <<>>
    <3>1. PICK s : s = sent
      OBVIOUS
    <3>2. PastBelow(s)' /\ sent' - Len(m_in_blocks') = s
      BY <1>2, <1>6, <1>11, <1>12, <3>1
    <3>3. QED
      BY <2>1, <3>2 DEF Bounded
  <2>2. CASE enc_out_blocks' # <<>>
    <3>1. enc_out_blocks'[1].block # 0 /\ Len(LastOut'.msgs) = n /\ sent' - Len(LastOut'.msgs) = base
      BY <1>2, <1>4, <1>5, <1>7, <1>8, <2>2
    <3>2. CASE air'.got = {}
      BY <1>12, <2>2, <3>1, <3>2 DEF Bounded, PastBelow, Below
    <3>3. CASE air'.got # {}
      BY <1>12, <2>2, <3>1, <3>3 DEF Bounded, PastBelow, Below
    <3>4. QED
      BY <3>2, <3>3
  <2>3. QED
    BY <2>1, <2>2
<1>13. \A b : PastBelow(b)' <=> Below(delivered, b) /\ Below(dec_out_blocks', b)
  BY <1>2 DEF PastBelow, Below
<1>14. \A b : Below(<<>>, b)
  BY EmptySeq DEF Below
<1>15. CASE TransmitLost
  <2>1. /\ UNCHANGED <<m_blocks, dec_out_blocks>>
        /\ air' = [OnAir(p) EXCEPT !.lost = @ + 1]
    BY <1>1, <1>15 DEF TransmitLost, decVars
  <2>2. air'.got = got
    BY <1>3, <1>4, <2>1, AirCounts
  <2>3. Below(dec_out_blocks, sent)
    BY <1>2, <1>14
  <2>4. PastBelow(sent)'
    BY <1>2, <1>6, <1>13, <1>14, <2>1 DEF PastBelow, Below
  <2>5. Bounded'
    BY <1>2, <1>6, <1>12, <1>13, <1>14, <2>1, <2>2, <2>4
  <2>6. Ordered'
    BY <1>2, <2>1, EmptySeq DEF Ordered
  <2>7. QED
    BY <1>10, <2>5, <2>6
<1>16. CASE TransmitHeard
  <2>1. DecAddBlock(p) /\ air' = [OnAirHeard(p) EXCEPT !.got = @ \cup {p.block}]
    BY <1>1, <1>16 DEF TransmitHeard
  <2>2. air'.got = got \cup {p.block}
    BY <1>3, <1>4, <2>1, AirCounts
  <2>3. \/ dec_out_blocks' = <<>>
        \/ Opens(p, msgs, got, base)
        \/ Completes(p, msgs, got, base)
    BY <1>2, <1>3, <1>5, <1>6, <1>7, <1>9, <2>1, HeardReleases
  (* Blocks still held were held before, or nothing of the group was.       *)
  <2>4. Accepts(p) => \A e \in 0..(n - 1) : e \notin got => Below(delivered, base + e)
    <3>1. CASE got = {}
      <4>1. ASSUME NEW e \in 0..(n - 1) PROVE Below(delivered, base + e)
        <5>1. base + e \in Int /\ base <= base + e
          BY <1>6
        <5>2. QED
          BY <1>3, <1>6, <3>1, <5>1, BelowMore DEF TypeInv
      <4>2. QED
        BY <4>1
    <3>2. CASE got # {}
      <4>1. Accepts(p) => m_blocks # <<>>
        <5>1. NewSequence(p) <=> p.seq_num # m_prev_header.seq_num
          BY <1>3, <1>7, NewSequenceFacts DEF DecInv
        <5>2. m_prev_header.seq_num = p.seq_num
          BY <1>9, <3>2 DEF Tracked
        <5>3. QED
          BY <1>3, <5>1, <5>2 DEF Accepts, DecInv, SizeTells
      <4>2. QED
        BY <1>6, <3>2, <4>1
    <3>3. QED
      BY <3>1, <3>2
  <2>5. m_blocks' # <<>> => Accepts(p)
    BY <1>3, <1>7, <2>1, PacketFacts
       DEF DecAddBlock, PassThrough, SkipBlock, AddDataBlock, HoldFecBlock, DecodeGroup, ClearGroup,
           DecInv, SizeTells
  <2>6. \A e \in 0..(n - 1) : e \notin air'.got => e \notin got /\ e # p.block
    BY <2>2
  <2>7. CASE dec_out_blocks' = <<>>
    <3>1. PastBelow(sent)'
      BY <1>2, <1>6, <1>13, <1>14, <2>7 DEF PastBelow, Below
    <3>2. m_blocks' # <<>> => \A e \in 0..(n - 1) : e \notin air'.got => PastBelow(base + e)'
      BY <1>13, <1>14, <2>4, <2>5, <2>6, <2>7
    <3>3. Bounded'
      BY <1>12, <2>2, <3>1, <3>2
    <3>4. Ordered'
      BY <2>7, EmptySeq DEF Ordered
    <3>5. QED
      BY <1>10, <3>3, <3>4
  <2>8. CASE Opens(p, msgs, got, base)
    <3>1. PICK r : r = ReleasedPacket(p)
      OBVIOUS
    <3>2. /\ dec_out_blocks' = <<r>> /\ r.id = base + p.block + 1 /\ Accepts(p)
          /\ p.block < n /\ \A e \in 0..(p.block - 1) : e \in got
      BY <1>6, <2>8, <3>1 DEF Opens, IsDataBlock
    <3>3. Len(dec_out_blocks') = 1 /\ dec_out_blocks'[1] = r
      BY <3>2
    <3>4. \A b : r.id <= b => Below(dec_out_blocks', b)
      BY <3>3 DEF Below
    <3>5. r.id \in Nat /\ r.id <= sent
      BY <1>6, <1>8, <3>2
    <3>6. PastBelow(sent)'
      BY <1>2, <1>6, <1>13, <3>4, <3>5 DEF PastBelow, Below
    <3>7. ASSUME NEW e \in 0..(n - 1), e \notin air'.got
          PROVE  PastBelow(base + e)'
      <4>1. e \notin got /\ e # p.block
        BY <2>6, <3>7
      <4>2. ~(e \in 0..(p.block - 1))
        BY <3>2, <4>1
      <4>3. r.id <= base + e
        BY <1>6, <1>8, <3>2, <4>1, <4>2
      <4>4. QED
        BY <1>13, <2>4, <3>2, <3>4, <4>1, <4>3
    <3>8. Bounded'
      BY <1>12, <2>2, <3>6, <3>7
    <3>9. ASSUME NEW i \in 1..Len(delivered) PROVE delivered[i].id < r.id
      <4>1. p.block \in 0..(n - 1) /\ p.block \notin got
        BY <1>6, <1>8, <1>9, <3>2 DEF Tracked
      <4>2. delivered[i].id <= base + p.block
        BY <2>4, <3>2, <4>1 DEF Below
      <4>3. delivered[i].id \in Nat
        BY <1>3, ElementOfSeq, ReleaseNumber DEF TypeInv
      <4>4. QED
        BY <1>6, <1>8, <3>2, <4>2, <4>3
    <3>10. Ordered'
      <4>1. \A j \in 1..Len(dec_out_blocks') : j = 1
        BY <3>3
      <4>2. QED
        BY <1>2, <3>3, <3>9, <4>1 DEF Ordered
    <3>11. QED
      BY <1>10, <3>8, <3>10
  <2>9. CASE Completes(p, msgs, got, base)
    <3>1. PICK e \in 0..(n - 1) : e \notin got /\ Rising(dec_out_blocks', base + e, base + n)
      BY <1>5, <2>9 DEF Completes
    <3>2. Accepts(p) /\ m_blocks' = <<>>
      BY <2>9 DEF Completes
    <3>3. Below(delivered, base + e)
      BY <2>4, <3>1, <3>2
    <3>4. Below(dec_out_blocks', sent)
      <4>1. ASSUME NEW k \in 1..Len(dec_out_blocks') PROVE dec_out_blocks'[k].id <= sent
        <5>1. dec_out_blocks'[k].id = 0 \/ dec_out_blocks'[k].id <= base + n
          BY <3>1 DEF Rising
        <5>2. QED
          BY <1>6, <5>1
      <4>2. QED
        BY <4>1 DEF Below
    <3>5. PastBelow(sent)'
      BY <1>2, <1>6, <1>13, <3>4 DEF PastBelow, Below
    <3>6. Bounded'
      BY <1>12, <2>2, <3>2, <3>5
    <3>7. ASSUME NEW j \in 1..Len(dec_out_blocks'), dec_out_blocks'[j].id # 0
          PROVE  /\ \A i \in 1..Len(delivered) : delivered[i].id < dec_out_blocks'[j].id
                 /\ \A i \in 1..(j - 1) : dec_out_blocks'[i].id < dec_out_blocks'[j].id
      <4>1. /\ base + e < dec_out_blocks'[j].id
            /\ \A i \in 1..(j - 1) : dec_out_blocks'[i].id < dec_out_blocks'[j].id
        BY <3>1, <3>7 DEF Rising
      <4>2. ASSUME NEW i \in 1..Len(delivered) PROVE delivered[i].id < dec_out_blocks'[j].id
        <5>1. delivered[i].id \in Nat /\ delivered[i].id <= base + e
          BY <1>3, <3>3, ElementOfSeq, ReleaseNumber DEF TypeInv, Below
        <5>2. PICK x : x = dec_out_blocks'[j]
          OBVIOUS
        <5>3. x.id \in Nat
          <6>1. dec_out_blocks' \in Seq(Releases)
            BY DEF TypeInv, DecRest
          <6>2. QED
            BY <5>2, <6>1, ElementOfSeq, ReleaseNumber
        <5>4. QED
          BY <1>6, <4>1, <5>1, <5>2, <5>3
      <4>3. QED
        BY <4>1, <4>2
    <3>8. Ordered'
      BY <1>2, <3>7 DEF Ordered
    <3>9. QED
      BY <1>10, <3>6, <3>8
  <2>10. QED
    BY <2>3, <2>7, <2>8, <2>9
<1>17. QED
  BY <1>15, <1>16

(* A packet of a link without coding, heard or lost.                        *)
LEMMA PlainSent ==
  ASSUME DatagramInv, ~Coded, TypeInv', TransmitHeard \/ TransmitLost
  PROVE  PlainBounded' /\ Ordered'
<1>1. PICK p : p = Head(enc_out_blocks)
  OBVIOUS
<1>2. /\ EncGetBlock /\ dec_out_blocks = <<>> /\ sent' = sent /\ delivered' = delivered
      /\ enc_out_blocks # <<>> /\ enc_out_blocks' = Tail(enc_out_blocks)
  BY DEF TransmitHeard, TransmitLost, EncGetBlock
<1>3. TypeInv /\ LinkInv /\ PlainBounded /\ delivered \in Seq(Releases)
  BY DEF DatagramInv, HeldInv, TypeInv
<1>4. sent \in Nat
  BY <1>3, LinkAssumption DEF LinkInv, LinkAssumption
<1>5. /\ Len(enc_out_blocks) = 1 /\ sent >= 1 /\ enc_out_blocks[1].msgs[1].id = sent
      /\ Below(delivered, sent - 1)
  BY <1>2, <1>3 DEF PlainBounded, PastBelow
<1>6. p \in RealPackets /\ p = enc_out_blocks[1] /\ enc_out_blocks' = <<>>
  <2>1. enc_out_blocks \in Seq(RealPackets)
    BY <1>3 DEF LinkInv, AirTyped
  <2>2. Tail(enc_out_blocks) \in Seq(RealPackets) /\ Len(Tail(enc_out_blocks)) = 0
    BY <1>2, <1>5, <2>1, HeadTailProperties
  <2>3. QED
    BY <1>1, <1>2, <2>1, <2>2, HeadTailProperties, EmptySeq
<1>7. Below(delivered, sent)
  <2>1. sent - 1 \in Int /\ sent - 1 <= sent
    BY <1>4
  <2>2. QED
    BY <1>3, <1>4, <1>5, <2>1, BelowMore
<1>8. ASSUME Below(dec_out_blocks', sent)
      PROVE  PlainBounded'
  BY <1>2, <1>6, <1>7, <1>8 DEF PlainBounded, PastBelow, Below
<1>9. CASE TransmitLost
  <2>1. dec_out_blocks' = <<>>
    BY <1>2, <1>9 DEF TransmitLost, decVars
  <2>2. QED
    BY <1>8, <2>1, EmptySeq DEF Ordered, Below
<1>10. CASE TransmitHeard
  <2>1. PassThrough(p)
    <3>1. DecAddBlock(p) /\ Uncoded(p.n_blocks, p.n_fec_blocks)
      BY <1>1, <1>6, <1>10, PacketFacts DEF TransmitHeard
    <3>2. QED
      BY <3>1 DEF DecAddBlock, SkipBlock, AddDataBlock, HoldFecBlock, DecodeGroup, Accepts
  <2>2. PICK r : r = ReleasedPacket(p)
    OBVIOUS
  <2>3. dec_out_blocks' = <<r>> /\ r.id = sent
    <3>1. dec_out_blocks' = Append(<<>>, r)
      BY <1>2, <2>1, <2>2 DEF PassThrough
    <3>2. r.id = p.msgs[1].id
      BY <2>2 DEF ReleasedPacket, Released
    <3>3. QED
      BY <1>5, <1>6, <3>1, <3>2
  <2>4. Len(dec_out_blocks') = 1 /\ dec_out_blocks'[1].id = sent
    BY <2>3
  <2>5. \A k \in 1..Len(dec_out_blocks') : k = 1
    BY <2>4
  <2>6. Below(dec_out_blocks', sent)
    BY <1>4, <2>4, <2>5 DEF Below
  <2>7. ASSUME NEW i \in 1..Len(delivered) PROVE delivered[i].id < sent
    <3>1. delivered[i].id \in Nat /\ delivered[i].id <= sent - 1
      BY <1>3, <1>5, ElementOfSeq, ReleaseNumber DEF Below
    <3>2. QED
      BY <1>4, <3>1
  <2>8. Ordered'
    BY <1>2, <2>4, <2>5, <2>7 DEF Ordered
  <2>9. QED
    BY <1>8, <2>6, <2>8
<1>11. QED
  BY <1>9, <1>10

(* The bounds are about what was released, delivered or not.                *)
LEMMA BoundsKept ==
  ASSUME \A b : PastBelow(b) => PastBelow(b)',
         UNCHANGED <<m_in_blocks, enc_out_blocks, sent, air, m_blocks>>
  PROVE  /\ InNumbered => InNumbered'
         /\ OutNumbered => OutNumbered'
         /\ Bounded => Bounded'
         /\ PlainBounded => PlainBounded'
<1>1. LastOut' = LastOut
  BY DEF LastOut
<1>2. InNumbered => InNumbered'
  BY DEF InNumbered
<1>3. OutNumbered => OutNumbered'
  BY <1>1 DEF OutNumbered, Consecutive
<1>4. PICK s, n, m : s = sent /\ n = Len(LastOut.msgs) /\ m = Len(m_in_blocks)
  OBVIOUS
<1>5. sent' = s /\ Len(LastOut'.msgs) = n /\ Len(m_in_blocks') = m
  BY <1>1, <1>4
<1>6. /\ PastBelow(s) => PastBelow(s)'
      /\ PastBelow(s - 1) => PastBelow(s - 1)'
      /\ PastBelow(s - m) => PastBelow(s - m)'
      /\ PastBelow(s - n) => PastBelow(s - n)'
      /\ \A e : PastBelow(s - n + e) => PastBelow(s - n + e)'
  OBVIOUS
<1>7. Bounded => Bounded'
  BY <1>1, <1>4, <1>6 DEF Bounded
<1>8. PlainBounded => PlainBounded'
  BY <1>4, <1>6 DEF PlainBounded
<1>9. QED
  BY <1>2, <1>3, <1>7, <1>8

(* get_block() hands on the first block released.                           *)
LEMMA DeliverOrdered ==
  ASSUME TypeInv, Ordered, Deliver
  PROVE  /\ Ordered' /\ \A b : PastBelow(b) => PastBelow(b)'
<1>1. PICK r, t : r = Head(dec_out_blocks) /\ t = Tail(dec_out_blocks)
  OBVIOUS
<1>2. dec_out_blocks # <<>> /\ dec_out_blocks \in Seq(Releases) /\ delivered \in Seq(Releases)
  BY DEF Deliver, DecGetBlock, TypeInv, DecRest
<1>3. PICK n \in Nat : n = Len(dec_out_blocks) /\ n >= 1
  BY <1>2, LenProperties, EmptySeq
<1>4. /\ r = dec_out_blocks[1] /\ r \in Releases /\ Len(t) = n - 1
      /\ \A i \in 1..(n - 1) : t[i] = dec_out_blocks[i + 1]
  BY <1>1, <1>2, <1>3, HeadTailProperties
<1>5. dec_out_blocks' = t /\ (delivered' = Append(delivered, r) \/ delivered' = delivered)
  BY <1>1 DEF Deliver, DecGetBlock
<1>6. PICK d \in Nat : d = Len(delivered)
  BY <1>2, LenProperties
<1>7. ASSUME NEW i \in 1..Len(delivered')
      PROVE  \/ i \in 1..d /\ delivered'[i] = delivered[i]
             \/ delivered'[i] = r
  <2>1. /\ Len(Append(delivered, r)) = d + 1
        /\ \A k \in 1..d : Append(delivered, r)[k] = delivered[k]
        /\ Append(delivered, r)[d + 1] = r
    BY <1>2, <1>4, <1>6, AppendProperties
  <2>2. CASE delivered' = delivered
    BY <1>6, <1>7, <2>2
  <2>3. CASE delivered' = Append(delivered, r)
    <3>1. i \in 1..d \/ i = d + 1
      BY <1>6, <1>7, <2>1, <2>3
    <3>2. QED
      BY <2>1, <2>3, <3>1
  <2>4. QED
    BY <1>5, <2>2, <2>3
<1>8. 1 \in 1..n /\ \A i \in 1..(n - 1) : i + 1 \in 1..n
  BY <1>3
<1>9. ASSUME NEW b, PastBelow(b) PROVE PastBelow(b)'
  <2>1. r.id <= b /\ \A i \in 1..d : delivered[i].id <= b
    BY <1>3, <1>4, <1>6, <1>8, <1>9 DEF PastBelow, Below
  <2>2. \A i \in 1..Len(delivered') : delivered'[i].id <= b
    BY <1>7, <2>1
  <2>3. \A i \in 1..(n - 1) : t[i].id <= b
    BY <1>3, <1>4, <1>8, <1>9 DEF PastBelow, Below
  <2>4. QED
    BY <1>4, <1>5, <2>2, <2>3 DEF PastBelow, Below
<1>10. ASSUME NEW j \in 1..(n - 1), t[j].id # 0
       PROVE  /\ \A i \in 1..Len(delivered') : delivered'[i].id < t[j].id
              /\ \A i \in 1..(j - 1) : t[i].id < t[j].id
  <2>1. j + 1 \in 1..n /\ t[j] = dec_out_blocks[j + 1]
    BY <1>4, <1>8
  <2>2. /\ \A i \in 1..d : delivered[i].id < t[j].id
        /\ \A i \in 1..((j + 1) - 1) : dec_out_blocks[i].id < t[j].id
    BY <1>3, <1>6, <1>10, <2>1 DEF Ordered
  <2>3. 1 \in 1..((j + 1) - 1) /\ \A i \in 1..(j - 1) : i + 1 \in 1..((j + 1) - 1) /\ i \in 1..(n - 1)
    BY <1>3
  <2>4. r.id < t[j].id
    BY <1>4, <2>2, <2>3
  <2>5. \A i \in 1..(j - 1) : t[i].id < t[j].id
    BY <1>4, <2>2, <2>3
  <2>6. QED
    BY <1>7, <2>2, <2>4, <2>5
<1>11. Ordered'
  BY <1>4, <1>5, <1>10 DEF Ordered
<1>12. QED
  BY <1>9, <1>11

(* The invariant holds at the start,                                        *)
LEMMA InitDatagramInv == Init => DatagramInv
<1> SUFFICES ASSUME Init PROVE DatagramInv
  OBVIOUS
<1>1. /\ HeldInv /\ delivered = <<>> /\ dec_out_blocks = <<>> /\ enc_out_blocks = <<>>
      /\ m_in_blocks = <<>> /\ sent = 0
  BY InitHeldInv DEF Init, EncInit, DecInit
<1>2. \A b : PastBelow(b)
  BY <1>1, EmptySeq DEF PastBelow, Below
<1>3. Len(m_in_blocks) = 0
  BY <1>1, EmptySeq
<1>4. QED
  BY <1>1, <1>2, <1>3 DEF DatagramInv, Ordered, InNumbered, OutNumbered, Bounded, PlainBounded

(* and every step keeps it.                                                 *)
LEMMA NextDatagramInv ==
  ASSUME ~Relay, DatagramInv, NoLongOutage, [Next]_vars
  PROVE  DatagramInv'
<1>1. HeldInv /\ HeldInv' /\ TypeInv /\ TypeInv'
  BY NextHeldInv DEF DatagramInv, HeldInv
<1>2. CASE (\E l \in Lengths : SendMessage(l)) \/ SendFlush
  <2>1. enc_out_blocks = <<>> /\ UNCHANGED <<delivered, dec_out_blocks>>
    BY <1>2 DEF SendMessage, SendFlush, decVars
  <2>2. QED
    BY <1>1, <1>2, <2>1, HandedDatagram DEF DatagramInv
<1>3. CASE TransmitHeard \/ TransmitLost
  BY <1>1, <1>3, SentDatagram, PlainSent DEF DatagramInv
<1>4. CASE RelayTransmit
  BY <1>1, <1>4 DEF RelayTransmit, HeldInv
<1>5. CASE Deliver
  <2>1. UNCHANGED <<m_in_blocks, enc_out_blocks, sent, air, m_blocks>>
    BY <1>5 DEF Deliver, DecGetBlock, encVars
  <2>2. Ordered' /\ \A b : PastBelow(b) => PastBelow(b)'
    BY <1>1, <1>5, DeliverOrdered DEF DatagramInv
  <2>3. QED
    BY <1>1, <2>1, <2>2, BoundsKept DEF DatagramInv
<1>6. CASE UNCHANGED vars
  <2>1. UNCHANGED <<m_in_blocks, enc_out_blocks, sent, air, m_blocks, delivered, dec_out_blocks>>
    BY <1>6 DEF vars, encVars, decVars
  <2>2. Ordered' /\ \A b : PastBelow(b) => PastBelow(b)'
    BY <2>1 DEF DatagramInv, Ordered, PastBelow, Below
  <2>3. QED
    BY <1>1, <2>1, <2>2, BoundsKept DEF DatagramInv
<1>7. QED
  BY <1>2, <1>3, <1>4, <1>5, <1>6 DEF Next

(* The numbers of what was delivered.                                       *)
Numbers(d) == [k \in 1..Len(d) |-> d[k].id]

(* All that was released is a message handed over, or garbage.              *)
LEMMA PastHanded ==
  ASSUME DatagramInv
  PROVE  PastBelow(sent) /\ sent \in Nat
<1>2. TypeInv /\ LinkInv /\ EncInv
  BY DEF DatagramInv, HeldInv, TypeInv, LinkInv
<1>3. sent \in Nat
  BY <1>2, LinkAssumption DEF LinkInv, LinkAssumption
<1>4. ASSUME NEW x \in Nat, PastBelow(sent - x) PROVE PastBelow(sent)
  <2>1. sent - x \in Int /\ sent - x <= sent
    BY <1>3
  <2>2. QED
    BY <1>2, <1>3, <1>4, <2>1, PastMore
<1>5. CASE ~Coded
  <2>1. PastBelow(sent) \/ PastBelow(sent - 1)
    BY <1>5 DEF DatagramInv, PlainBounded
  <2>2. 1 \in Nat
    OBVIOUS
  <2>3. QED
    BY <1>3, <1>4, <2>1, <2>2, Zenon
<1>6. CASE Coded
  <2>1. Len(m_in_blocks) \in Nat
    BY <1>2, LenProperties DEF EncInv, EncTypeOK
  <2>2. enc_out_blocks # <<>> => Len(LastOut.msgs) \in Nat
    <3>1. ASSUME enc_out_blocks # <<>> PROVE LastOut \in RealPackets
      <4>1. enc_out_blocks \in Seq(RealPackets)
        BY <1>2 DEF LinkInv, AirTyped
      <4>2. Len(enc_out_blocks) \in Nat /\ Len(enc_out_blocks) # 0
        BY <3>1, <4>1, LenProperties, EmptySeq
      <4>3. Len(enc_out_blocks) \in 1..Len(enc_out_blocks)
        BY <4>2
      <4>4. QED
        BY <4>1, <4>3, ElementOfSeq DEF LastOut
    <3>2. QED
      BY <3>1, PacketMessage
  <2>3. \/ PastBelow(sent)
        \/ PastBelow(sent - Len(m_in_blocks))
        \/ enc_out_blocks # <<>> /\ PastBelow(sent - Len(LastOut.msgs))
    BY <1>6 DEF DatagramInv, Bounded
  <2>4. QED
    BY <1>3, <1>4, <2>1, <2>2, <2>3, Zenon
<1>7. QED
  BY <1>3, <1>5, <1>6

(* Every step is one of the datagram link, or nothing it can see.           *)
LEMMA DatagramStep ==
  ASSUME ~Relay, DatagramInv, [Next]_vars
  PROVE  [Datagrams!Next]_<<sent, [k \in 1..Len(delivered) |-> delivered[k].id]>>
<1>1. TypeInv /\ Ordered /\ PastBelow(sent) /\ sent \in Nat
  BY PastHanded DEF DatagramInv, HeldInv
<1>2. Numbers(delivered) = [k \in 1..Len(delivered) |-> delivered[k].id]
  BY DEF Numbers
<1>3. SUFFICES Datagrams!Next \/ UNCHANGED <<sent, delivered>>
  OBVIOUS
<1>4. ASSUME NEW l \in Lengths, SendMessage(l) PROVE Datagrams!Next
  BY <1>4 DEF SendMessage, Datagrams!Next, Datagrams!Hand
<1>5. CASE SendFlush \/ TransmitHeard \/ TransmitLost \/ RelayTransmit \/ UNCHANGED vars
  BY <1>5 DEF SendFlush, TransmitHeard, TransmitLost, RelayTransmit, vars
<1>6. CASE Deliver
  <2>1. PICK r : r = Head(dec_out_blocks)
    OBVIOUS
  <2>2. /\ dec_out_blocks # <<>> /\ sent' = sent
        /\ delivered' = Append(delivered, r) \/ delivered' = delivered
    BY <1>6, <2>1 DEF Deliver, DecGetBlock
  <2>3. dec_out_blocks \in Seq(Releases) /\ delivered \in Seq(Releases)
    BY <1>1 DEF TypeInv, DecRest
  <2>4. Len(dec_out_blocks) \in Nat /\ Len(dec_out_blocks) # 0
    BY <2>2, <2>3, LenProperties, EmptySeq
  <2>5. 1 \in 1..Len(dec_out_blocks) /\ r = dec_out_blocks[1] /\ r \in Releases
    BY <2>1, <2>2, <2>3, <2>4, HeadTailProperties
  <2>6. r.id \in Nat /\ r.id <= sent
    BY <1>1, <2>5, ReleaseNumber DEF PastBelow, Below
  <2>7. r.id # 0 => \A i \in 1..Len(delivered) : delivered[i].id < r.id
    BY <1>1, <2>5 DEF Ordered
  <2>8. CASE delivered' = Append(delivered, r)
    <3>1. PICK d \in Nat : d = Len(delivered)
      BY <2>3, LenProperties
    <3>2. /\ Len(delivered') = d + 1
          /\ \A i \in 1..d : delivered'[i] = delivered[i]
          /\ delivered'[d + 1] = r
      BY <2>3, <2>5, <2>8, <3>1, AppendProperties
    <3>3. PICK N : N = Numbers(delivered)
      OBVIOUS
    <3>4. N \in Seq(Nat) /\ Len(N) = d /\ \A i \in 1..d : N[i] = delivered[i].id
      <4>1. \A i \in 1..d : delivered[i].id \in Nat
        BY <2>3, <3>1, ElementOfSeq, ReleaseNumber
      <4>2. N = [i \in 1..d |-> delivered[i].id]
        BY <3>1, <3>3 DEF Numbers
      <4>3. N \in [1..d -> Nat]
        BY <4>1, <4>2
      <4>4. QED
        BY <4>2, <4>3, IsASeq
    <3>5. Numbers(delivered') = Append(N, r.id)
      <4>1. PICK A : A = Append(N, r.id)
        OBVIOUS
      <4>2. /\ A \in Seq(Nat) /\ Len(A) = d + 1
            /\ \A i \in 1..d : A[i] = N[i]
            /\ A[d + 1] = r.id
        BY <2>6, <3>4, <4>1, AppendProperties
      <4>3. A = [i \in 1..(d + 1) |-> A[i]]
        BY <4>2, LenProperties
      <4>4. ASSUME NEW i \in 1..(d + 1) PROVE A[i] = delivered'[i].id
        <5>1. i \in 1..d \/ i = d + 1
          OBVIOUS
        <5>2. QED
          BY <3>2, <3>4, <4>2, <5>1
      <4>5. Numbers(delivered') = [i \in 1..(d + 1) |-> delivered'[i].id]
        BY <3>2 DEF Numbers
      <4>6. QED
        BY <4>1, <4>3, <4>4, <4>5
    <3>6. [k \in 1..Len(delivered') |-> delivered'[k].id] = Append(N, r.id)
      BY <3>5 DEF Numbers
    <3>7. [k \in 1..Len(delivered) |-> delivered[k].id] = N
      BY <1>2, <3>3
    <3>8. CASE r.id = 0
      <4>1. Datagrams!ReleaseGarbage
        BY <2>2, <3>6, <3>7, <3>8 DEF Datagrams!ReleaseGarbage, Datagrams!Garbage
      <4>2. QED
        BY <4>1 DEF Datagrams!Next
    <3>9. CASE r.id # 0
      <4>1. r.id \in 1..sent
        BY <1>1, <2>6, <3>9
      <4>2. \A i \in 1..Len(N) : N[i] < r.id
        BY <2>7, <3>1, <3>4, <3>9
      <4>3. Datagrams!ReleaseMessage
        BY <2>2, <3>6, <3>7, <4>1, <4>2 DEF Datagrams!ReleaseMessage
      <4>4. QED
        BY <4>3 DEF Datagrams!Next
    <3>10. QED
      BY <3>8, <3>9
  <2>9. QED
    BY <2>2, <2>8
<1>7. QED
  BY <1>4, <1>5, <1>6 DEF Next

(* A link without a relay is a datagram link: whatever the radio loses and  *)
(* however the decoder fills the gaps, what comes out is, in order and once *)
(* each, some of the messages handed over, or garbage; for every size of    *)
(* group and of message, full groups and flushed ones, as long as no outage *)
(* swallows a whole turn of the sequence number.                            *)
THEOREM LinkImplements == ~Relay => (Spec /\ []NoLongOutage => ImplementsDatagramLink)
<1> SUFFICES ASSUME ~Relay PROVE Spec /\ []NoLongOutage => ImplementsDatagramLink
  OBVIOUS
<1>1. Init => Datagrams!Init
  <2> SUFFICES ASSUME Init PROVE Datagrams!Init
    OBVIOUS
  <2>1. sent = 0 /\ delivered = <<>>
    BY DEF Init
  <2>2. [k \in 1..Len(delivered) |-> delivered[k].id] = <<>>
    BY <2>1
  <2>3. QED
    BY <2>1, <2>2 DEF Datagrams!Init
<1>2. DatagramInv /\ NoLongOutage /\ [Next]_vars => DatagramInv'
  BY NextDatagramInv
<1>3. DatagramInv /\ [Next]_vars =>
        [Datagrams!Next]_<<sent, [k \in 1..Len(delivered) |-> delivered[k].id]>>
  BY DatagramStep
<1>4. QED
  BY <1>1, <1>2, <1>3, InitDatagramInv, PTL DEF Spec, ImplementsDatagramLink, Datagrams!Spec

-----------------------------------------------------------------------------
(************************** A group lost in part ***************************)

(* FEC blocks of the group with these messages, numbered below b.           *)
FecsOf(fecs, msgs, b) ==
  /\ Climbing(fecs)
  /\ \A i \in 1..Len(fecs) :
       /\ fecs[i].n_blocks = Len(msgs) /\ fecs[i].msgs = msgs
       /\ Len(msgs) <= fecs[i].block /\ fecs[i].block < b

(* EnoughReceived's data block and LongestReceived, of any group.           *)
DataIn(msgs, got) == \E i \in 1..Len(msgs) : (i - 1) \in got

LongestIn(msgs, got) ==
  \A i \in 1..Len(msgs) :
    \E k \in 1..Len(msgs) : (k - 1) \in got /\ msgs[i].length <= msgs[k].length

(* Delivered, or released to be delivered.                                  *)
Coming(m) ==
  \/ Intact(m)
  \/ \E k \in 1..Len(dec_out_blocks) :
       dec_out_blocks[k] = [id |-> m.id, length |-> m.length, intact |-> TRUE]

AllComing(msgs) == \A i \in 1..Len(msgs) : Coming(msgs[i])

(* Every block heard is held while more are needed.                         *)
Waiting(msgs, got, b) ==
  /\ FecsOf(m_fec_blocks, msgs, b)
  /\ Cardinality(got) = Len(m_blocks) + Len(m_fec_blocks)
  /\ Cardinality(got) < Len(msgs)

(* No data block is to come, and the group was rebuilt if it could be.      *)
Settled(msgs, got, b) ==
  /\ Len(msgs) <= b
  /\ DataIn(msgs, got) /\ LongestIn(msgs, got) => AllComing(msgs)

(* A group the decoder was ready for, once b of its packets were on the air.*)
ReadyGroup(msgs, got, seq, b) ==
  /\ Tracked(msgs, got, seq, b)
  /\ IsFiniteSet(got)
  /\ got = {} => m_block_size # 0 \/ m_fec_blocks = <<>>
  /\ got # {} => /\ HeldShape
                 /\ m_blocks # <<>> => Waiting(msgs, got, b)
                 /\ m_blocks = <<>> => Settled(msgs, got, b)

(* Once all its packets were on the air, enough of them rebuilt it.         *)
LEMMA ReadyGroupOver ==
  ASSUME NEW msgs, Len(msgs) \in Nat, NEW got, NEW seq, NEW b, ReadyGroup(msgs, got, seq, b)',
         Cardinality(got) >= Len(msgs), DataIn(msgs, got), LongestIn(msgs, got)
  PROVE  AllComing(msgs)'
<1>1. got # {} /\ IsFiniteSet(got)
  BY DEF DataIn, ReadyGroup
<1>2. Cardinality(got) \in Nat
  BY <1>1, FS_CardinalityType
<1>3. m_blocks' = <<>>
  BY <1>1, <1>2 DEF ReadyGroup, Waiting
<1>4. QED
  BY <1>1, <1>3 DEF ReadyGroup, Settled

(* What is kept when packet p of such a group is accepted.                  *)
LEMMA KeptReady ==
  ASSUME DecInv, DecRest, NEW p \in RealPackets, NEW msgs, NEW got,
         Len(msgs) = p.n_blocks, Accepts(p), ReadyGroup(msgs, got, p.seq_num, p.block)
  PROVE  /\ KeptFecBlocks(p) \in Seq(RealFec) /\ Len(KeptFecBlocks(p)) \in Nat
         /\ FecsOf(KeptFecBlocks(p), msgs, p.block)
         /\ Cardinality(got) = Len(KeptBlocks(p)) + Len(KeptFecBlocks(p))
         /\ Cardinality(got) < Len(msgs)
         /\ got # {} => KeptBlocks(p) # <<>>
         /\ KeptBlocks(p) # <<>> => KeptSize(p) = m_block_size
<1>1. NewSequence(p) <=> p.seq_num # m_prev_header.seq_num
  BY NewSequenceFacts DEF DecInv
<1>2. m_block_size = 0 <=> m_blocks = <<>>
  BY DEF DecInv, SizeTells
<1>3. p.n_blocks \in Nat /\ p.n_blocks > 0
  BY PacketFacts DEF Accepts, Uncoded
<1>4. m_fec_blocks \in Seq(RealFec)
  BY DEF DecRest
<1>5. CASE got = {}
  <2>1. KeptBlocks(p) = <<>> /\ KeptFecBlocks(p) = <<>>
    BY <1>1, <1>2, <1>5 DEF ReadyGroup, Tracked, KeptBlocks, KeptFecBlocks, Break
  <2>2. Len(<<>>) = 0 /\ <<>> \in Seq(RealFec) /\ Cardinality({}) = 0
    BY EmptySeq, FS_EmptySet
  <2>3. FecsOf(<<>>, msgs, p.block)
    BY <2>2 DEF FecsOf, Climbing
  <2>4. QED
    BY <1>3, <1>5, <2>1, <2>2, <2>3
<1>6. CASE got # {}
  <2>1. m_blocks # <<>> /\ KeptBlocks(p) = m_blocks /\ KeptFecBlocks(p) = m_fec_blocks
    BY <1>1, <1>2, <1>6 DEF ReadyGroup, Tracked, KeptBlocks, KeptFecBlocks, Break, Accepts
  <2>2. KeptSize(p) = m_block_size
    BY <1>1, <1>6 DEF ReadyGroup, Tracked, KeptSize, Break
  <2>3. Waiting(msgs, got, p.block)
    BY <1>6, <2>1 DEF ReadyGroup
  <2>4. Len(m_fec_blocks) \in Nat
    BY <1>4, LenProperties
  <2>5. QED
    BY <1>4, <2>1, <2>2, <2>3, <2>4 DEF Waiting
<1>7. QED
  BY <1>5, <1>6

(* One more FEC block of the group.                                         *)
LEMMA MoreFecs ==
  ASSUME NEW F \in Seq(RealFec), NEW p \in RealFec, NEW msgs, FecsOf(F, msgs, p.block),
         Len(msgs) = p.n_blocks, p.msgs = msgs
  PROVE  /\ Append(F, p) \in Seq(RealFec) /\ Len(Append(F, p)) = Len(F) + 1 /\ Len(F) \in Nat
         /\ FecsOf(Append(F, p), msgs, p.block + 1)
<1>1. PICK G : G = Append(F, p)
  OBVIOUS
<1>2. /\ G \in Seq(RealFec) /\ Len(G) = Len(F) + 1 /\ Len(F) \in Nat
      /\ \A i \in 1..Len(F) : G[i] = F[i]
      /\ G[Len(F) + 1] = p
  BY <1>1, AppendProperties, LenProperties
<1>3. p.block \in Nat /\ p.n_blocks \in Nat /\ ~(p.block < p.n_blocks)
  BY PacketFacts DEF RealFec, IsDataBlock
<1>4. ASSUME NEW i \in 1..Len(F) PROVE F[i].block \in Nat
  BY <1>4, ElementOfSeq, PacketFacts DEF RealFec
<1>5. ASSUME NEW i \in 1..Len(G)
      PROVE  /\ G[i].n_blocks = Len(msgs) /\ G[i].msgs = msgs
             /\ Len(msgs) <= G[i].block /\ G[i].block < p.block + 1
  <2>1. i \in 1..Len(F) \/ i = Len(F) + 1
    BY <1>2
  <2>2. CASE i \in 1..Len(F)
    <3>1. /\ F[i].n_blocks = Len(msgs) /\ F[i].msgs = msgs
          /\ Len(msgs) <= F[i].block /\ F[i].block < p.block
      BY <2>2 DEF FecsOf
    <3>2. F[i].block < p.block + 1
      BY <1>3, <1>4, <2>2, <3>1
    <3>3. QED
      BY <1>2, <2>2, <3>1, <3>2
  <2>3. CASE i = Len(F) + 1
    BY <1>2, <1>3, <2>3
  <2>4. QED
    BY <2>1, <2>2, <2>3
<1>6. ASSUME NEW i \in 1..Len(G), NEW j \in 1..Len(G), i < j PROVE G[i].block < G[j].block
  <2>1. i \in 1..Len(F) /\ (j \in 1..Len(F) \/ j = Len(F) + 1)
    BY <1>2, <1>6
  <2>2. QED
    BY <1>2, <1>6, <2>1 DEF FecsOf, Climbing
<1>7. QED
  BY <1>1, <1>2, <1>5, <1>6 DEF FecsOf, Climbing

(* The numbers that are missing.                                            *)
LEMMA Complement ==
  ASSUME NEW n \in Nat, NEW S \in SUBSET (0..(n - 1))
  PROVE  Cardinality((0..(n - 1)) \ S) = n - Cardinality(S)
<1>1. PICK I : I = 0..(n - 1)
  OBVIOUS
<1>2. IsFiniteSet(I) /\ Cardinality(I) = n
  BY <1>1, FS_Interval
<1>3. I \cap S = S
  BY <1>1
<1>4. Cardinality(I \ S) = Cardinality(I) - Cardinality(I \cap S)
  BY <1>2, FS_Difference
<1>5. QED
  BY <1>1, <1>2, <1>3, <1>4

(* As many blocks of one group as it has data blocks determine the rest.    *)
LEMMA SolvableGroup ==
  ASSUME NEW K \in Seq(RealPackets), K # <<>>, Climbing(K), NEW msgs,
         \A i \in 1..Len(K) : OfGroup(K[i], msgs),
         NEW G \in Seq(RealFec), NEW b, FecsOf(G, msgs, b), Len(G) >= 1,
         Len(K) + Len(G) = Len(msgs)
  PROVE  Solvable(K, G)
<1>1. Len(K) \in Nat /\ Len(G) \in Nat /\ 1 \in 1..Len(K) /\ 1 \in 1..Len(G)
  <2>1. Len(K) \in Nat /\ Len(G) \in Nat /\ Len(K) # 0
    BY LenProperties, EmptySeq
  <2>2. QED
    BY <2>1
<1>2. K[1].n_blocks = Len(msgs)
  BY <1>1 DEF OfGroup
<1>3. PICK n \in Nat : n = Len(msgs)
  BY <1>1
<1>5. Index(K) \in SUBSET (0..(n - 1))
  <2>1. ASSUME NEW i \in 1..Len(K) PROVE K[i].block \in 0..(n - 1)
    <3>1. K[i].block \in Nat /\ K[i].block < n
      BY <1>3, ElementOfSeq, PacketFacts DEF OfGroup, IsDataBlock
    <3>2. QED
      BY <3>1
  <2>2. QED
    BY <2>1 DEF Index
<1>6. IsFiniteSet(Index(K)) /\ Cardinality(Index(K)) = Len(K)
  BY IndexCount
<1>7. Erased(K) = (0..(n - 1)) \ Index(K)
  BY <1>2, <1>3 DEF Erased
<1>8. Cardinality(Erased(K)) = Len(G)
  <2>1. Cardinality((0..(n - 1)) \ Index(K)) = n - Cardinality(Index(K))
    BY <1>5, Complement
  <2>2. QED
    BY <1>1, <1>3, <1>6, <1>7, <2>1
<1>9. Cardinality(Index(G)) = Len(G)
  <2>1. G \in Seq(RealPackets)
    <3>1. \A i \in 1..Len(G) : G[i] \in RealPackets
      BY ElementOfSeq DEF RealFec
    <3>2. G \in [1..Len(G) -> RealFec] 
      BY LenProperties
    <3>3. G \in [1..Len(G) -> RealPackets]
      BY <3>1, <3>2
    <3>4. QED
      BY <1>1, <3>3, IsASeq
  <2>2. QED
    BY <2>1, IndexCount DEF FecsOf
<1>10. \A i \in 1..Len(G) : G[i].n_blocks = K[1].n_blocks /\ G[i].msgs = G[1].msgs
  BY <1>1, <1>2 DEF FecsOf
<1>11. \A i \in 1..Len(K) : G[1].msgs[K[i].block + 1] = K[i].msgs[1]
  BY <1>1 DEF FecsOf, OfGroup
<1>12. QED
  BY <1>8, <1>9, <1>10, <1>11 DEF Solvable

(* decode() drops only blocks that claim too many bytes.                    *)
LEMMA ListedAll ==
  ASSUME NEW list, Len(list) \in Nat, NEW size, NEW x \in 1..Len(list), list[x].length <= size
  PROVE  \E j \in 1..Len(Acceptable(list, size)) : Acceptable(list, size)[j] = list[x]
<1> DEFINE S == {i \in 1..Len(list) : list[i].length <= size}
           A == Sublist(list, S)
<1>1. S \in SUBSET (1..Len(list)) /\ x \in S
  OBVIOUS
<1>2. A = Acceptable(list, size)
  BY DEF Acceptable
<1> HIDE DEF S, A
<1>3. /\ Len(A) = Cardinality(S) /\ Cardinality(S) \in Nat
      /\ \A k \in 1..Cardinality(S) : Nth(S, k) \in S /\ A[k] = list[Nth(S, k)]
  BY <1>1, SublistFacts DEF A
<1>4. PICK j \in 1..Cardinality(S) : Nth(S, j) = x
  BY <1>1, NthFacts
<1>5. QED
  BY <1>2, <1>3, <1>4

(* A released block that holds message m, whole.                            *)
Whole(m) == [id |-> m.id, length |-> m.length, intact |-> TRUE]

Listed(m, list) == \E j \in 1..Len(list) : list[j] = Whole(m)

(* Of a group that can be rebuilt, decode() releases every block from the   *)
(* first one missing on that is no longer than what it works on.            *)
LEMMA DecodedAll ==
  ASSUME NEW K \in Seq(RealPackets), K # <<>>, Erased(K) # {}, NEW msgs,
         \A k \in 1..Len(K) : OfGroup(K[k], msgs),
         NEW G, Len(G) \in Nat, Len(G) >= 1, G[Len(G)].msgs = msgs, Solvable(K, G),
         NEW size \in Nat, NEW list, DecodesTo(K, G, size, list),
         NEW i \in 1..Len(msgs), i > FirstErased(K), msgs[i] \in Messages,
         msgs[i].length + 2 <= size
  PROVE  Listed(msgs[i], list)
<1>1. PICK garbage \in [Erased(K) -> GarbageLengths(size)] :
        list = Acceptable(Decoded(K, G, size, garbage), size)
  BY DEF DecodesTo
<1>2. PICK rel, e, n : rel = Decoded(K, G, size, garbage) /\ e = FirstErased(K) /\ n = K[1].n_blocks
  OBVIOUS
<1>3. /\ e \in Nat /\ n \in Nat /\ e < n /\ Len(rel) = n - e
      /\ \A k \in 1..(n - e) : rel[k] = DecodedBlock(e + k - 1, K, G, size, garbage)
  BY <1>2, DecodedFacts
<1>4. Len(msgs) = n
  <2>1. Len(K) \in Nat /\ Len(K) # 0
    BY LenProperties, EmptySeq
  <2>2. 1 \in 1..Len(K)
    BY <2>1
  <2>3. QED
    BY <1>2, <2>2 DEF OfGroup
<1>5. PICK x \in 1..(n - e), c \in Nat : x = i - e /\ c = i - 1 /\ e + x - 1 = c /\ c + 1 = i
  <2>1. i \in 1..n /\ i > e
    BY <1>2, <1>4
  <2>2. i - e \in 1..(n - e) /\ i - 1 \in Nat /\ e + (i - e) - 1 = i - 1 /\ (i - 1) + 1 = i
    BY <1>3, <2>1
  <2>3. QED
    BY <2>2
<1>6. rel[x] = DecodedBlock(c, K, G, size, garbage)
  BY <1>3, <1>5
<1>7. PICK m \in Messages : m = msgs[i]
  OBVIOUS
<1>8. m.id # 0 /\ m.length \in Nat /\ m.length <= size - 2 /\ m.length <= size
  BY <1>7, MessageTypes
<1>9. Released(m.id, m.length, size - 2) = Whole(m)
  BY <1>8 DEF Released, Whole
<1>10. rel[x] = Whole(m)
  <2>1. msgs[c + 1] = m
    BY <1>5, <1>7
  <2>2. PICK r : r = DecodedBlock(c, K, G, size, garbage)
    OBVIOUS
  <2>3. c \in Index(K) => r = [id |-> msgs[c + 1].id, length |-> msgs[c + 1].length, intact |-> TRUE]
    BY <2>2, DecodedBlockIs
  <2>4. c \notin Index(K) => r = Released(msgs[c + 1].id, msgs[c + 1].length, size - 2)
    BY <2>2, DecodedBlockIs
  <2>5. QED
    BY <1>6, <1>9, <2>1, <2>2, <2>3, <2>4 DEF Whole
<1>11. rel[x].length <= size /\ x \in 1..Len(rel) /\ Len(rel) \in Nat
  BY <1>3, <1>8, <1>10 DEF Whole
<1>12. \E j \in 1..Len(list) : list[j] = rel[x]
  BY <1>1, <1>2, <1>11, ListedAll
<1>13. QED
  BY <1>7, <1>10, <1>12 DEF Listed

(* More FEC blocks do not change what data arrived.                         *)
LEMMA SameData ==
  ASSUME NEW msgs, Len(msgs) \in Nat, NEW got, NEW b \in Nat, Len(msgs) <= b
  PROVE  /\ DataIn(msgs, got \cup {b}) <=> DataIn(msgs, got)
         /\ LongestIn(msgs, got \cup {b}) <=> LongestIn(msgs, got)
<1>1. \A i \in 1..Len(msgs) : (i - 1) \in got \cup {b} <=> (i - 1) \in got
  OBVIOUS
<1>2. QED
  BY <1>1, Zenon DEF DataIn, LongestIn

(* The blocks held are as large as every message of the group, when one as  *)
(* long as the longest arrived.                                             *)
LEMMA LongestFits ==
  ASSUME NEW msgs \in Seq(Messages), NEW got, LongestIn(msgs, got), NEW size \in Nat, NEW K,
         \A k \in 1..Len(K) : OfGroup(K[k], msgs) /\ BlockSize(K[k]) <= size,
         Index(K) = {x \in got : x < Len(msgs)}, NEW i \in 1..Len(msgs)
  PROVE  msgs[i].length + 2 <= size
<1>1. PICK k \in 1..Len(msgs) : (k - 1) \in got /\ msgs[i].length <= msgs[k].length
  BY DEF LongestIn
<1>2. Len(msgs) \in Nat
  BY LenProperties
<1>3. k - 1 \in Index(K)
  BY <1>1, <1>2
<1>4. PICK j \in 1..Len(K) : K[j].block = k - 1
  BY <1>3 DEF Index
<1>5. K[j].msgs[1] = msgs[k] /\ BlockSize(K[j]) <= size
  <2>1. (k - 1) + 1 = k
    BY <1>2
  <2>2. QED
    BY <1>4, <2>1 DEF OfGroup
<1>6. msgs[k].length + 2 <= size
  BY <1>5 DEF BlockSize, DataLength
<1>7. msgs[i].length \in Nat /\ msgs[k].length \in Nat
  BY ElementOfSeq, MessageTypes
<1>8. QED
  BY <1>1, <1>6, <1>7

(* A block heard is one more.                                               *)
LEMMA OneMore ==
  ASSUME NEW got, IsFiniteSet(got), NEW b \in Nat, \A x \in got : x < b
  PROVE  /\ IsFiniteSet(got \cup {b}) /\ Cardinality(got \cup {b}) = Cardinality(got) + 1
         /\ Cardinality(got) \in Nat
<1>1. b \notin got
  OBVIOUS
<1>2. QED
  BY <1>1, FS_AddElement, FS_CardinalityType

(* The next packet of a group that is still incomplete is held.             *)
LEMMA HeardWaiting ==
  ASSUME DecInv, DecRest, Coded, NEW p \in RealPackets, NEW msgs, NEW got,
         Len(msgs) = p.n_blocks, ~IsDataBlock(p) => p.msgs = msgs,
         ReadyGroup(msgs, got, p.seq_num, p.block), DecAddBlock(p), m_blocks' # <<>>
  PROVE  Waiting(msgs, got \cup {p.block}, p.block + 1)'
<1>1. p.block \in Nat /\ p.n_blocks \in Nat
  BY PacketFacts
<1>2. Accepts(p) /\ (AddDataBlock(p) \/ HoldFecBlock(p))
  <2>1. ~PassThrough(p)
    BY PacketFacts DEF PassThrough
  <2>2. ~SkipBlock(p)
    BY DEF SkipBlock, DecInv, SizeTells
  <2>3. ~DecodeGroup(p)
    BY DEF DecodeGroup, ClearGroup
  <2>4. QED
    BY <2>1, <2>2, <2>3 DEF DecAddBlock, AddDataBlock, HoldFecBlock
<1>3. PICK K, F, more : K = KeptBlocks(p) /\ F = KeptFecBlocks(p) /\ more = got \cup {p.block}
  OBVIOUS
<1>4. /\ F \in Seq(RealFec) /\ Len(F) \in Nat /\ FecsOf(F, msgs, p.block)
      /\ Cardinality(got) = Len(K) + Len(F) /\ Cardinality(got) < Len(msgs)
  BY <1>2, <1>3, KeptReady
<1>5. K \in Seq(RealPackets) /\ Len(K) \in Nat
  BY <1>2, <1>3, KeptFacts, LenProperties
<1>6. Cardinality(more) = Len(K) + Len(F) + 1
  BY <1>1, <1>3, <1>4, OneMore DEF ReadyGroup, Tracked
<1>7. CASE AddDataBlock(p)
  <2>1. m_blocks' = Append(K, p) /\ m_fec_blocks' = F /\ IsDataBlock(p) /\ Len(Append(K, p)) # p.n_blocks
    BY <1>3, <1>7 DEF AddDataBlock, ClearGroup
  <2>2. Len(Append(K, p)) = Len(K) + 1
    BY <1>5, AppendProperties
  <2>3. Len(F) = 0
    <3>1. SUFFICES ASSUME Len(F) # 0 PROVE FALSE
      OBVIOUS
    <3>2. 1 \in 1..Len(F)
      BY <1>4, <3>1
    <3>3. F[1] \in RealPackets
      BY <1>4, <3>2, ElementOfSeq DEF RealFec
    <3>4. F[1].block \in Nat /\ Len(msgs) <= F[1].block /\ F[1].block < p.block
      BY <1>4, <3>2, <3>3, PacketFacts DEF FecsOf
    <3>5. QED
      BY <1>1, <2>1, <3>4 DEF IsDataBlock
  <2>4. FecsOf(F, msgs, p.block + 1)
    BY <1>4, <2>3 DEF FecsOf
  <2>5. Cardinality(more) = Len(K) + 1 /\ Len(K) + 1 < Len(msgs)
    BY <1>1, <1>4, <1>5, <1>6, <2>1, <2>2, <2>3
  <2>6. Len(m_blocks') = Len(K) + 1 /\ Len(m_fec_blocks') = 0 /\ Len(K) + 1 + 0 = Len(K) + 1
    BY <1>5, <2>1, <2>2, <2>3
  <2>7. FecsOf(m_fec_blocks', msgs, p.block + 1)
    BY <2>1, <2>4
  <2>8. QED
    BY <1>3, <2>5, <2>6, <2>7 DEF Waiting, FecsOf, Climbing
<1>8. CASE HoldFecBlock(p)
  <2>1. /\ m_blocks' = K /\ m_fec_blocks' = Append(F, p) /\ ~IsDataBlock(p)
        /\ Len(K) + Len(F) + 1 # p.n_blocks
    BY <1>3, <1>8 DEF HoldFecBlock
  <2>2. p \in RealFec /\ p.msgs = msgs
    BY <2>1 DEF RealFec
  <2>3. Len(Append(F, p)) = Len(F) + 1 /\ FecsOf(Append(F, p), msgs, p.block + 1)
    BY <1>4, <2>2, MoreFecs
  <2>4. Cardinality(more) = Len(m_blocks') + Len(m_fec_blocks')
    BY <1>4, <1>5, <1>6, <2>1, <2>3
  <2>5. Cardinality(more) < Len(msgs)
    <3>1. PICK a \in Nat, f \in Nat, n \in Nat : a = Len(K) /\ f = Len(F) /\ n = Len(msgs)
      BY <1>1, <1>4, <1>5
    <3>2. a + f < n /\ a + f + 1 # n
      BY <1>4, <2>1, <3>1
    <3>3. a + f + 1 < n
      BY <3>2
    <3>4. QED
      BY <1>6, <3>1, <3>3
  <2>6. FecsOf(m_fec_blocks', msgs, p.block + 1)
    BY <2>1, <2>3
  <2>7. QED
    BY <1>3, <2>4, <2>5, <2>6 DEF Waiting, FecsOf, Climbing
<1>9. QED
  BY <1>2, <1>7, <1>8

(* The first b messages are coming if their blocks arrived.                 *)
PrefixComing(msgs, got, b) ==
  \A i \in 1..Len(msgs) : i <= b /\ (\A k \in 1..i : (k - 1) \in got) => Coming(msgs[i])

(* A group completed by a data block.                                       *)
LEMMA AddedSettled ==
  ASSUME DecInv, DecRest, Coded, NEW p \in RealPackets, NEW msgs, NEW got,
         Len(msgs) = p.n_blocks, ReadyGroup(msgs, got, p.seq_num, p.block),
         AddDataBlock(p), m_blocks' = <<>>,
         PrefixComing(msgs, got \cup {p.block}, p.block + 1)'
  PROVE  Len(msgs) <= p.block + 1 /\ AllComing(msgs)'
<1>1. p.block \in Nat /\ p.n_blocks \in Nat /\ p.n_blocks > 0 /\ Accepts(p) /\ IsDataBlock(p)
  BY PacketFacts DEF AddDataBlock, Accepts, Uncoded
<1>2. PICK K, B, more : K = KeptBlocks(p) /\ B = Append(K, p) /\ more = got \cup {p.block}
  OBVIOUS
<1>3. /\ Increasing(K) /\ K \in Seq(RealPackets)
      /\ \A i \in 1..Len(K) : OfGroup(K[i], msgs) /\ K[i].block < p.block
      /\ Index(K) = {x \in got : x < Len(msgs)}
      /\ K # <<>> => K[1].n_blocks = p.n_blocks
      /\ Len(K) \in Nat
  BY <1>1, <1>2, KeptGroup, KeptFacts DEF ReadyGroup
<1>4. /\ B \in Seq(RealPackets) /\ Len(B) = Len(K) + 1
      /\ \A i \in 1..Len(K) : B[i] = K[i]
      /\ B[Len(K) + 1] = p
  BY <1>2, <1>3, AppendProperties
<1>5. Increasing(B) /\ Index(B) = Index(K) \cup {p.block}
  BY <1>1, <1>2, <1>3, AppendIncreasing
<1>6. Len(B) = p.n_blocks
  <2>1. B # <<>>
    BY <1>3, <1>4, EmptySeq
  <2>2. QED
    BY <1>2, <2>1 DEF AddDataBlock
<1>7. ASSUME NEW i \in 1..Len(B) PROVE B[i].block < p.n_blocks
  <2>1. i \in 1..Len(K) \/ i = Len(K) + 1
    BY <1>3, <1>4
  <2>2. QED
    BY <1>1, <1>3, <1>4, <2>1 DEF OfGroup, IsDataBlock
<1>8. Index(B) = 0..(p.n_blocks - 1)
  BY <1>1, <1>4, <1>5, <1>6, <1>7, NoGapAll
<1>9. \A x \in 0..(p.n_blocks - 1) : x \in more /\ x <= p.block
  <2>1. ASSUME NEW x \in Index(K) PROVE x \in got /\ x <= p.block
    <3>1. x \in got /\ x \in Nat /\ x < p.block
      BY <1>3, <2>1 DEF ReadyGroup, Tracked
    <3>2. QED
      BY <1>1, <3>1
  <2>2. QED
    BY <1>1, <1>2, <1>5, <1>8, <2>1
<1>10. p.n_blocks - 1 \in 0..(p.n_blocks - 1)
  BY <1>1
<1>11. Len(msgs) <= p.block + 1
  BY <1>1, <1>9, <1>10
<1>12. ASSUME NEW i \in 1..Len(msgs) PROVE Coming(msgs[i])'
  <2>1. i <= p.block + 1
    BY <1>1, <1>11
  <2>2. \A k \in 1..i : k - 1 \in 0..(p.n_blocks - 1)
    BY <1>1
  <2>3. QED
    BY <1>2, <1>9, <2>1, <2>2 DEF PrefixComing
<1>13. QED
  BY <1>11, <1>12 DEF AllComing

(* A group completed by an FEC block: decode() releases what is missing.    *)
LEMMA DecodedSettled ==
  ASSUME DecInv, DecRest, Coded, NEW p \in RealPackets, NEW msgs \in Seq(Messages), NEW got,
         Len(msgs) = p.n_blocks, ~IsDataBlock(p) => p.msgs = msgs,
         ReadyGroup(msgs, got, p.seq_num, p.block), DecodeGroup(p), dec_out_blocks = <<>>,
         PrefixComing(msgs, got \cup {p.block}, p.block + 1)',
         DataIn(msgs, got), LongestIn(msgs, got)
  PROVE  AllComing(msgs)'
<1>1. p.block \in Nat /\ p.n_blocks \in Nat
  BY PacketFacts
<1>2. PICK K, F, G : K = KeptBlocks(p) /\ F = KeptFecBlocks(p) /\ G = Append(F, p)
  OBVIOUS
<1>3. /\ Accepts(p) /\ ~IsDataBlock(p) /\ p \in RealFec
      /\ Len(K) + Len(F) + 1 = p.n_blocks
      /\ \/ dec_out_blocks' = <<>> /\ K = <<>>
         \/ dec_out_blocks' = <<>> /\ K[1].n_blocks > p.n_blocks
         \/ /\ K # <<>> /\ Erased(K) # {}
            /\ DecodesTo(K, G, m_block_size, dec_out_blocks')
  BY <1>2, DecodeReleases
<1>4. /\ F \in Seq(RealFec) /\ FecsOf(F, msgs, p.block)
      /\ K # <<>> /\ KeptSize(p) = m_block_size
  <2>1. got # {}
    BY DEF DataIn
  <2>2. QED
    BY <1>2, <1>3, <2>1, KeptReady
<1>5. /\ Increasing(K) /\ K \in Seq(RealPackets)
      /\ \A i \in 1..Len(K) : OfGroup(K[i], msgs) /\ K[i].block < p.block
      /\ Index(K) = {x \in got : x < Len(msgs)}
      /\ K[1].n_blocks = p.n_blocks
      /\ Len(K) \in Nat
  BY <1>2, <1>3, <1>4, KeptGroup, KeptFacts DEF ReadyGroup
<1>6. m_block_size \in Nat /\ \A i \in 1..Len(K) : BlockSize(K[i]) <= m_block_size
  BY <1>2, <1>3, <1>4, KeptFacts
<1>7. Erased(K) # {} /\ DecodesTo(K, G, m_block_size, dec_out_blocks')
  BY <1>1, <1>3, <1>4, <1>5
<1>8. /\ G \in Seq(RealFec) /\ Len(G) = Len(F) + 1 /\ Len(F) \in Nat
      /\ FecsOf(G, msgs, p.block + 1)
  BY <1>2, <1>3, <1>4, MoreFecs
<1>9. Solvable(K, G)
  <2>1. Len(G) >= 1 /\ Len(K) + Len(G) = Len(msgs)
    BY <1>1, <1>3, <1>5, <1>8
  <2>2. QED
    BY <1>4, <1>5, <1>8, <2>1, SolvableGroup DEF Increasing
<1>10. PICK e \in Nat : e = FirstErased(K) /\ \A f \in Erased(K) : e <= f
  BY <1>4, <1>5, <1>7, DecodedFacts
<1>11. PICK list, size : list = dec_out_blocks' /\ size = m_block_size
  OBVIOUS
<1>12. ASSUME NEW i \in 1..Len(msgs), i > e PROVE Coming(msgs[i])'
  <2>1. msgs[i].length + 2 <= size
    BY <1>5, <1>6, <1>11, LongestFits
  <2>2. msgs[i] \in Messages
    BY ElementOfSeq
  <2>3. Len(G) \in Nat /\ Len(G) >= 1 /\ G[Len(G)].msgs = msgs
    <3>1. Len(G) \in Nat /\ Len(G) >= 1
      BY <1>8
    <3>2. Len(G) \in 1..Len(G)
      BY <3>1
    <3>3. QED
      BY <1>8, <3>1, <3>2 DEF FecsOf
  <2>4. Listed(msgs[i], list)
    <3>1. DecodesTo(K, G, size, list) /\ size \in Nat
      BY <1>6, <1>7, <1>11
    <3>2. QED
      BY <1>4, <1>5, <1>7, <1>9, <1>10, <1>12, <2>1, <2>2, <2>3, <3>1, DecodedAll
  <2>5. QED
    BY <1>11, <2>4 DEF Listed, Whole, Coming
<1>13. ASSUME NEW i \in 1..Len(msgs), ~(i > e) PROVE Coming(msgs[i])'
  <2>1. ASSUME NEW k \in 1..i PROVE (k - 1) \in got \cup {p.block}
    <3>1. k - 1 \in 0..(p.n_blocks - 1) /\ ~(e <= k - 1)
      BY <1>1, <1>13
    <3>2. k - 1 \in Index(K)
      BY <1>5, <1>10, <3>1 DEF Erased
    <3>3. QED
      BY <1>5, <3>2
  <2>2. i <= p.block + 1
    BY <1>1, <1>3 DEF IsDataBlock
  <2>3. QED
    BY <2>1, <2>2 DEF PrefixComing
<1>14. QED
  BY <1>12, <1>13 DEF AllComing

(* Once a group is complete, or nothing of its data will come.              *)
LEMMA HeardSettled ==
  ASSUME DecInv, DecRest, Coded, NEW p \in RealPackets, NEW msgs \in Seq(Messages), NEW got,
         Len(msgs) = p.n_blocks, ~IsDataBlock(p) => p.msgs = msgs,
         ReadyGroup(msgs, got, p.seq_num, p.block), DecAddBlock(p), m_blocks' = <<>>,
         dec_out_blocks = <<>>, delivered' = delivered,
         PrefixComing(msgs, got \cup {p.block}, p.block + 1)'
  PROVE  Settled(msgs, got \cup {p.block}, p.block + 1)'
<1>1. p.block \in Nat /\ p.n_blocks \in Nat /\ ~PassThrough(p)
  BY PacketFacts DEF PassThrough
<1>2. PICK more : more = got \cup {p.block}
  OBVIOUS
<1>3. ASSUME Len(msgs) <= p.block
      PROVE  /\ Len(msgs) <= p.block + 1
             /\ DataIn(msgs, more) <=> DataIn(msgs, got)
             /\ LongestIn(msgs, more) <=> LongestIn(msgs, got)
  <2>1. Len(msgs) \in Nat /\ Len(msgs) <= p.block + 1
    BY <1>1, <1>3
  <2>2. /\ DataIn(msgs, got \cup {p.block}) <=> DataIn(msgs, got)
        /\ LongestIn(msgs, got \cup {p.block}) <=> LongestIn(msgs, got)
    BY <1>1, <1>3, <2>1, SameData
  <2>3. QED
    BY <1>2, <2>1, <2>2
<1>4. ~IsDataBlock(p) => Len(msgs) <= p.block
  BY <1>1 DEF IsDataBlock
<1>5. CASE SkipBlock(p)
  <2>1. m_blocks = <<>> /\ m_prev_header.seq_num = p.seq_num /\ dec_out_blocks' = dec_out_blocks
    BY <1>5, NewSequenceFacts DEF SkipBlock, DecInv, SizeTells
  <2>2. Settled(msgs, got, p.block)
    BY <2>1 DEF ReadyGroup, Tracked
  <2>3. AllComing(msgs) => AllComing(msgs)'
    BY <2>1 DEF AllComing, Coming, Intact
  <2>4. Len(msgs) <= p.block + 1 /\ (DataIn(msgs, more) /\ LongestIn(msgs, more) => AllComing(msgs)')
    BY <1>3, <2>2, <2>3 DEF Settled
  <2>5. QED
    BY <1>2, <2>4 DEF Settled
<1>6. CASE AddDataBlock(p)
  BY <1>6, AddedSettled DEF Settled
<1>7. CASE HoldFecBlock(p)
  <2>1. Accepts(p) /\ ~IsDataBlock(p) /\ KeptBlocks(p) = <<>>
    BY <1>7 DEF HoldFecBlock
  <2>2. got = {}
    BY <2>1, KeptReady
  <2>3. ~DataIn(msgs, more) /\ Len(msgs) <= p.block + 1
    BY <1>3, <1>4, <2>1, <2>2 DEF DataIn
  <2>4. QED
    BY <1>2, <2>3 DEF Settled
<1>8. CASE DecodeGroup(p)
  <2>1. ~IsDataBlock(p)
    BY <1>8 DEF DecodeGroup
  <2>2. DataIn(msgs, got) /\ LongestIn(msgs, got) => AllComing(msgs)'
    BY <1>8, DecodedSettled
  <2>3. Len(msgs) <= p.block + 1 /\ (DataIn(msgs, more) /\ LongestIn(msgs, more) => AllComing(msgs)')
    BY <1>3, <1>4, <2>1, <2>2
  <2>4. QED
    BY <1>2, <2>3 DEF Settled
<1>9. QED
  BY <1>1, <1>5, <1>6, <1>7, <1>8 DEF DecAddBlock

(* A packet of the group is heard,                                          *)
LEMMA HeardReady ==
  ASSUME DecInv, DecRest, Coded, NEW p \in RealPackets, NEW msgs \in Seq(Messages), NEW got,
         Len(msgs) = p.n_blocks, IsDataBlock(p) => OfGroup(p, msgs),
         ~IsDataBlock(p) => p.msgs = msgs,
         ReadyGroup(msgs, got, p.seq_num, p.block), DecAddBlock(p),
         dec_out_blocks = <<>>, delivered' = delivered,
         PrefixComing(msgs, got \cup {p.block}, p.block + 1)'
  PROVE  ReadyGroup(msgs, got \cup {p.block}, p.seq_num, p.block + 1)'
<1>1. PICK more : more = got \cup {p.block}
  OBVIOUS
<1>2. Tracked(msgs, more, p.seq_num, p.block + 1)' /\ HeldShape'
  BY <1>1, TracksHeard DEF ReadyGroup
<1>3. IsFiniteSet(more) /\ more # {}
  <2>1. p.block \in Nat /\ IsFiniteSet(got) /\ \A x \in got : x < p.block
    BY PacketFacts DEF ReadyGroup, Tracked
  <2>2. QED
    BY <1>1, <2>1, OneMore
<1>4. m_blocks' # <<>> => Waiting(msgs, more, p.block + 1)'
  BY <1>1, HeardWaiting
<1>5. m_blocks' = <<>> => Settled(msgs, more, p.block + 1)'
  BY <1>1, HeardSettled
<1>6. QED
  BY <1>1, <1>2, <1>3, <1>4, <1>5 DEF ReadyGroup

(* or lost.                                                                 *)
LEMMA LostReady ==
  ASSUME DecInv, DecRest, NEW p \in RealPackets, NEW msgs, Len(msgs) \in Nat, NEW got,
         ReadyGroup(msgs, got, p.seq_num, p.block), UNCHANGED decVars, delivered' = delivered
  PROVE  ReadyGroup(msgs, got, p.seq_num, p.block + 1)'
<1>1. p.block \in Nat /\ UNCHANGED <<m_block_size, m_prev_header, m_blocks, m_fec_blocks, dec_out_blocks>>
  BY PacketFacts DEF decVars
<1>2. Tracked(msgs, got, p.seq_num, p.block + 1)'
  BY <1>1, TracksLost DEF ReadyGroup
<1>3. HeldShape => HeldShape'
  BY <1>1 DEF HeldShape, Increasing, Climbing
<1>4. ASSUME FecsOf(m_fec_blocks, msgs, p.block) PROVE FecsOf(m_fec_blocks, msgs, p.block + 1)'
  <2>1. ASSUME NEW i \in 1..Len(m_fec_blocks) PROVE m_fec_blocks[i].block < p.block + 1
    <3>1. m_fec_blocks[i] \in RealPackets
      BY ElementOfSeq DEF DecRest, RealFec
    <3>2. m_fec_blocks[i].block \in Nat /\ m_fec_blocks[i].block < p.block
      BY <1>4, <3>1, PacketFacts DEF FecsOf
    <3>3. QED
      BY <1>1, <3>2
  <2>2. QED
    BY <1>1, <1>4, <2>1 DEF FecsOf, Climbing
<1>5. Waiting(msgs, got, p.block) => Waiting(msgs, got, p.block + 1)'
  BY <1>1, <1>4 DEF Waiting
<1>6. AllComing(msgs) => AllComing(msgs)'
  BY <1>1 DEF AllComing, Coming, Intact
<1>7. Settled(msgs, got, p.block) => Settled(msgs, got, p.block + 1)'
  <2>1. Len(msgs) <= p.block => Len(msgs) <= p.block + 1
    BY <1>1
  <2>2. QED
    BY <1>6, <2>1 DEF Settled, DataIn, LongestIn
<1>8. QED
  BY <1>1, <1>2, <1>3, <1>5, <1>7 DEF ReadyGroup

Recovering ==
  air.ready =>
    IF enc_out_blocks = <<>>
    THEN EnoughReceived /\ LongestReceived => AllComing(air.msgs)
    ELSE enc_out_blocks[1].block # 0 =>
           ReadyGroup(air.msgs, air.got, enc_out_blocks[1].seq_num, enc_out_blocks[1].block)

(* The inductive invariant: the messages ahead of the first loss arrive,    *)
(* and the blocks held determine the others as soon as there are enough.    *)
RecoverInv == PrefixInv /\ TypeInv /\ Recovering

(* A packet of the group goes on the air.                                   *)
LEMMA SentRecovers ==
  ASSUME Coded, RecoverInv, PrefixInv', TransmitHeard \/ TransmitLost
  PROVE  Recovering'
<1>1. SUFFICES ASSUME air'.ready PROVE Recovering'
  BY DEF Recovering
<1>2. PICK p : p = Head(enc_out_blocks)
  OBVIOUS
<1>3. /\ EncGetBlock /\ PrefixInv /\ LinkInv /\ OutGroup /\ AirRecord /\ DecInv /\ DecRest
  BY DEF TransmitHeard, TransmitLost, RecoverInv, PrefixInv, TypeInv, LinkInv
<1>4. PICK msgs, got : msgs = LastOut.msgs /\ got = OnAir(p).got
  OBVIOUS
<1>5. /\ p \in RealPackets /\ Len(msgs) = p.n_blocks
      /\ IsDataBlock(p) => OfGroup(p, msgs)
      /\ ~IsDataBlock(p) => p.msgs = msgs
      /\ enc_out_blocks # <<>> /\ p = enc_out_blocks[1]
      /\ \/ enc_out_blocks' = <<>> /\ p.block + 1 > p.n_blocks
         \/ /\ enc_out_blocks' # <<>>
            /\ enc_out_blocks'[1].block = p.block + 1
            /\ enc_out_blocks'[1].seq_num = p.seq_num
  BY <1>2, <1>3, <1>4, OnTheAir DEF OfGroup
<1>6. p.block \in Nat /\ p.n_blocks \in Nat
  BY <1>5, PacketFacts
<1>7. /\ OnAir(p).msgs = msgs /\ msgs \in Seq(Messages)
      /\ p.block # 0 => OnAir(p) = air
      /\ p.block = 0 => got = {} /\ OnAir(p).ready = Ready(p.seq_num)
  <2>1. /\ OnAir(p) = [msgs |-> LastOut.msgs, got |-> OnAir(p).got,
                       ready |-> OnAir(p).ready, lost |-> air.lost,
                       silent |-> OnAir(p).silent]
        /\ p.block # 0 => OnAir(p) = air
        /\ p.block = 0 => OnAir(p).got = {} /\ OnAir(p).ready = Ready(p.seq_num)
        /\ LastOut.msgs \in Seq(Messages)
    BY <1>2, <1>3, OnAirFacts
  <2>2. QED
    BY <1>4, <2>1
(* The decoder was ready for it.                                            *)
<1>8. ASSUME OnAir(p).ready PROVE ReadyGroup(msgs, got, p.seq_num, p.block)
  <2>1. CASE p.block # 0
    BY <1>4, <1>5, <1>7, <1>8, <2>1 DEF RecoverInv, Recovering
  <2>2. CASE p.block = 0
    <3>1. got = {} /\ m_prev_header.seq_num # p.seq_num /\ (m_block_size # 0 \/ m_fec_blocks = <<>>)
      BY <1>7, <1>8, <2>2 DEF Ready
    <3>2. QED
      BY <3>1, FS_EmptySet DEF ReadyGroup, Tracked
  <2>3. QED
    BY <2>1, <2>2
(* What is known after it settles the matter.                               *)
<1>9. ASSUME NEW more, air'.msgs = msgs, air'.got = more,
             ReadyGroup(msgs, more, p.seq_num, p.block + 1)'
      PROVE  Recovering'
  <2>1. CASE enc_out_blocks' = <<>>
    <3>1. ASSUME EnoughReceived', LongestReceived' PROVE AllComing(msgs)'
      <4>1. /\ Cardinality(more) >= Len(msgs) /\ DataIn(msgs, more) /\ LongestIn(msgs, more)
        BY <1>9, <3>1 DEF EnoughReceived, LongestReceived, Received, DataIn, LongestIn
      <4>2. QED
        BY <1>5, <1>6, <1>9, <4>1, ReadyGroupOver
    <3>2. QED
      BY <1>9, <2>1, <3>1 DEF Recovering
  <2>2. CASE enc_out_blocks' # <<>>
    <3>1. enc_out_blocks'[1].block = p.block + 1 /\ enc_out_blocks'[1].seq_num = p.seq_num
      BY <1>5, <2>2
    <3>2. ReadyGroup(air.msgs, air.got, enc_out_blocks[1].seq_num, enc_out_blocks[1].block)'
      BY <1>9, <3>1
    <3>3. QED
      BY <2>2, <3>2 DEF Recovering
  <2>3. QED
    BY <2>1, <2>2
<1>10. CASE TransmitLost
  <2>1. /\ UNCHANGED decVars /\ delivered' = delivered
        /\ air' = [OnAir(p) EXCEPT !.lost = @ + 1]
    BY <1>2, <1>10 DEF TransmitLost
  <2>2. air'.msgs = msgs /\ air'.got = got /\ air'.ready = OnAir(p).ready
    BY <1>3, <1>4, <1>7, <2>1, AirCounts
  <2>3. ReadyGroup(msgs, got, p.seq_num, p.block)
    BY <1>1, <1>8, <2>2
  <2>4. ReadyGroup(msgs, got, p.seq_num, p.block + 1)'
    BY <1>3, <1>5, <1>6, <2>1, <2>3, LostReady
  <2>5. QED
    BY <1>9, <2>2, <2>4
<1>11. CASE TransmitHeard
  <2>1. /\ DecAddBlock(p) /\ dec_out_blocks = <<>> /\ delivered' = delivered
        /\ air' = [OnAirHeard(p) EXCEPT !.got = @ \cup {p.block}]
    BY <1>2, <1>11 DEF TransmitHeard
  <2>2. PICK more : more = got \cup {p.block}
    OBVIOUS
  <2>3. air'.msgs = msgs /\ air'.got = more /\ air'.ready = OnAir(p).ready
    BY <1>3, <1>4, <1>7, <2>1, <2>2, AirCounts
  <2>4. ReadyGroup(msgs, got, p.seq_num, p.block)
    BY <1>1, <1>8, <2>3
  <2>5. PrefixComing(msgs, more, p.block + 1)'
    <3>1. SUFFICES ASSUME NEW i \in 1..Len(msgs), i <= p.block + 1,
                          \A k \in 1..i : (k - 1) \in more
                   PROVE  Coming(msgs[i])'
      BY DEF PrefixComing
    <3>2. AllReceived(i)'
      BY <2>3, <3>1 DEF AllReceived, Received
    <3>3. Arrives(air.msgs[i])'
      <4>1. AheadOfLoss'
        BY DEF PrefixInv
      <4>2. CASE enc_out_blocks' = <<>>
        BY <1>1, <2>3, <3>2, <4>1, <4>2 DEF AheadOfLoss
      <4>3. CASE enc_out_blocks' # <<>>
        <5>1. enc_out_blocks'[1].block = p.block + 1 /\ p.block + 1 # 0
          BY <1>5, <1>6, <4>3
        <5>2. Upto(p.block + 1)'
          <6>1. Underway(enc_out_blocks[1])'
            BY <4>1, <4>3, <5>1 DEF AheadOfLoss
          <6>2. Upto(enc_out_blocks[1].block)'
            BY <6>1 DEF Underway
          <6>3. QED
            BY <5>1, <6>2 DEF Upto
        <5>3. QED
          BY <1>1, <2>3, <3>1, <3>2, <5>2 DEF Upto
      <4>4. QED
        BY <4>2, <4>3
    <3>4. PICK m : m = msgs[i]
      OBVIOUS
    <3>5. Arrives(m)'
      BY <2>3, <3>3, <3>4
    <3>6. CASE Intact(m)'
      BY <3>4, <3>6 DEF Coming
    <3>7. CASE dec_out_blocks' = <<[id |-> m.id, length |-> m.length, intact |-> TRUE]>>
      <4>1. 1 \in 1..Len(dec_out_blocks') /\ dec_out_blocks'[1] = [id |-> m.id, length |-> m.length, intact |-> TRUE]
        BY <3>7
      <4>2. QED
        BY <3>4, <4>1 DEF Coming
    <3>8. QED
      BY <3>5, <3>6, <3>7 DEF Arrives
  <2>6. ReadyGroup(msgs, more, p.seq_num, p.block + 1)'
    BY <1>3, <1>5, <1>7, <2>1, <2>2, <2>4, <2>5, HeardReady
  <2>7. QED
    BY <1>9, <2>3, <2>6
<1>12. QED
  BY <1>10, <1>11

(* A message that is coming stays so until it is delivered.                 *)
LEMMA DeliverComing ==
  ASSUME IsSeq(delivered), dec_out_blocks \in Seq(Releases), Deliver,
         NEW m \in Messages, Coming(m)
  PROVE  Coming(m)'
<1>1. \A x \in Messages : Arrives(x) => Intact(x)'
  BY DeliverArrives
<1>2. CASE Intact(m)
  BY <1>1, <1>2 DEF Arrives, Coming
<1>3. ASSUME NEW k \in 1..Len(dec_out_blocks),
             dec_out_blocks[k] = [id |-> m.id, length |-> m.length, intact |-> TRUE]
      PROVE  Coming(m)'
  <2>1. PICK r, t : r = Head(dec_out_blocks) /\ t = Tail(dec_out_blocks)
    OBVIOUS
  <2>2. dec_out_blocks # <<>> /\ dec_out_blocks' = t
    BY <2>1 DEF Deliver, DecGetBlock
  <2>3. PICK n \in Nat : n = Len(dec_out_blocks)
    BY LenProperties
  <2>4. r = dec_out_blocks[1] /\ Len(t) = n - 1 /\ \A i \in 1..(n - 1) : t[i] = dec_out_blocks[i + 1]
    BY <2>1, <2>2, <2>3, HeadTailProperties
  <2>5. CASE k = 1
    <3>1. r.id = m.id /\ r.length = m.length /\ r.intact
      BY <1>3, <2>4, <2>5
    <3>2. r.length > 0
      BY <3>1, MessageTypes
    <3>3. delivered' = Append(delivered, r)
      BY <2>1, <3>2 DEF Deliver
    <3>4. /\ Len(delivered') = Len(delivered) + 1 /\ Len(delivered) \in Nat
          /\ delivered'[Len(delivered) + 1] = r
      BY <3>3, AppendKeeps
    <3>5. Len(delivered) + 1 \in 1..Len(delivered')
      BY <3>4
    <3>6. QED
      BY <3>1, <3>4, <3>5 DEF Coming, Intact
  <2>6. CASE k # 1
    <3>1. k - 1 \in 1..(n - 1) /\ (k - 1) + 1 = k
      BY <2>3, <2>6
    <3>2. t[k - 1] = [id |-> m.id, length |-> m.length, intact |-> TRUE]
      BY <1>3, <2>4, <3>1
    <3>3. QED
      BY <2>2, <2>4, <3>1, <3>2 DEF Coming
  <2>7. QED
    BY <2>5, <2>6
<1>4. QED
  BY <1>2, <1>3 DEF Coming

(* Every step keeps the invariant.                                          *)
LEMMA NextRecoverInv ==
  ASSUME Coded, ~Relay, RecoverInv, [Next]_vars
  PROVE  RecoverInv'
<1>1. PrefixInv /\ PrefixInv' /\ TypeInv /\ TypeInv' /\ Recovering
  BY NextPrefixInv, NextTypeInv DEF RecoverInv
<1>2. CASE (\E l \in Lengths : SendMessage(l)) \/ SendFlush
  <2>1. enc_out_blocks = <<>> /\ UNCHANGED <<dec_out_blocks, delivered, air>>
    BY <1>2 DEF SendMessage, SendFlush, decVars
  <2>2. EncInv /\ Produces
    <3>1. LinkInv /\ EncInv
      BY <1>1 DEF TypeInv, LinkInv
    <3>2. ASSUME NEW l \in Lengths, SendMessage(l) PROVE Produces
      BY <3>1, <3>2, SentMessage, AddProduces DEF SendMessage
    <3>3. SendFlush => Produces
      BY <3>1, <2>1, FlushProduces DEF SendFlush
    <3>4. QED
      BY <1>2, <3>1, <3>2, <3>3
  <2>3. enc_out_blocks' = <<>> \/ enc_out_blocks'[1].block = 0
    BY <2>1, <2>2, ProducedGroup
  <2>4. Recovering'
    BY <1>1, <2>1, <2>3
       DEF Recovering, EnoughReceived, LongestReceived, Received, AllComing, Coming, Intact
  <2>5. QED
    BY <1>1, <2>4 DEF RecoverInv
<1>3. CASE TransmitHeard \/ TransmitLost
  BY <1>1, <1>3, SentRecovers DEF RecoverInv
<1>4. CASE RelayTransmit
  BY <1>1, <1>4 DEF RelayTransmit, PrefixInv
<1>5. CASE Deliver \/ UNCHANGED vars
  <2>1. /\ UNCHANGED <<enc_out_blocks, air, m_block_size, m_prev_header, m_blocks, m_fec_blocks>>
        /\ Deliver \/ UNCHANGED <<delivered, dec_out_blocks>>
    BY <1>5 DEF Deliver, DecGetBlock, encVars, vars, decVars
  <2>2. PICK msgs, got : msgs \in Seq(Messages) /\ msgs = air.msgs /\ got = air.got
    BY <1>1 DEF PrefixInv
  <2>3. ASSUME AllComing(msgs) PROVE AllComing(msgs)'
    <3>1. ASSUME NEW i \in 1..Len(msgs) PROVE Coming(msgs[i])'
      <4>1. PICK m \in Messages : m = msgs[i]
        BY <2>2, ElementOfSeq
      <4>2. Coming(m)
        BY <2>3, <4>1 DEF AllComing
      <4>3. Coming(m)'
        <5>1. CASE Deliver
          BY <1>1, <4>2, <5>1, DeliverComing DEF PrefixInv, TypeInv, DecRest
        <5>2. CASE UNCHANGED <<delivered, dec_out_blocks>>
          BY <4>2, <5>2 DEF Coming, Intact
        <5>3. QED
          BY <2>1, <5>1, <5>2
      <4>4. QED
        BY <4>1, <4>3
    <3>2. QED
      BY <3>1 DEF AllComing
  <2>4. ASSUME NEW seq, NEW b, ReadyGroup(msgs, got, seq, b) PROVE ReadyGroup(msgs, got, seq, b)'
    <3>1. Tracked(msgs, got, seq, b)' <=> Tracked(msgs, got, seq, b)
      BY <2>1 DEF Tracked, OfGroup, IsDataBlock, DataLength, Index
    <3>2. HeldShape' <=> HeldShape
      BY <2>1 DEF HeldShape, Increasing, Climbing, IsDataBlock
    <3>3. Waiting(msgs, got, b)' <=> Waiting(msgs, got, b)
      BY <2>1 DEF Waiting, FecsOf, Climbing
    <3>4. Settled(msgs, got, b) => Settled(msgs, got, b)'
      BY <2>3 DEF Settled
    <3>5. QED
      BY <2>1, <2>4, <3>1, <3>2, <3>3, <3>4 DEF ReadyGroup
  <2>5. Recovering'
    <3>1. CASE enc_out_blocks = <<>>
      <4>1. (EnoughReceived' <=> EnoughReceived) /\ (LongestReceived' <=> LongestReceived)
        BY <2>1 DEF EnoughReceived, LongestReceived, Received
      <4>2. QED
        BY <1>1, <2>1, <2>2, <2>3, <3>1, <4>1 DEF Recovering
    <3>2. CASE enc_out_blocks # <<>>
      <4>1. PICK seq, b : seq = enc_out_blocks[1].seq_num /\ b = enc_out_blocks[1].block
        OBVIOUS
      <4>2. ReadyGroup(msgs, got, seq, b) => ReadyGroup(msgs, got, seq, b)'
        BY <2>4
      <4>3. QED
        BY <1>1, <2>1, <2>2, <3>2, <4>1, <4>2 DEF Recovering
    <3>3. QED
      BY <3>1, <3>2
  <2>6. QED
    BY <1>1, <2>5 DEF RecoverInv
<1>6. QED
  BY <1>2, <1>3, <1>4, <1>5 DEF Next

(* A group is rebuilt whatever part of it is lost, as long as it is no more *)
(* than the code covers: when the decoder was ready for it, as many blocks  *)
(* arrived as it has messages, one of them a data block, and none lost was  *)
(* longer than the longest that arrived, every message is delivered intact. *)
(* For every coded link without a relay, of any number of data and FEC      *)
(* blocks, any lengths, full groups and flushed ones.                       *)
THEOREM GroupsRecovered == Coded /\ ~Relay => (Spec => []GroupRecovered)
<1> SUFFICES ASSUME Coded, ~Relay PROVE Spec => []GroupRecovered
  OBVIOUS
<1>1. Init => RecoverInv
  <2>1. Init => Recovering
    BY DEF Init, NoGroup, Recovering
  <2>2. QED
    BY <2>1, InitPrefixInv, InitTypeInv DEF RecoverInv
<1>2. RecoverInv /\ [Next]_vars => RecoverInv'
  BY NextRecoverInv
<1>3. ASSUME RecoverInv PROVE GroupRecovered
  <2>1. SUFFICES ASSUME GroupOver, air.ready, EnoughReceived, LongestReceived,
                        NEW i \in 1..Len(air.msgs)
                 PROVE  Intact(air.msgs[i])
    BY DEF GroupRecovered
  <2>2. enc_out_blocks = <<>> /\ Len(dec_out_blocks) = 0
    BY <2>1, EmptySeq DEF GroupOver
  <2>3. Coming(air.msgs[i])
    BY <1>3, <2>1, <2>2 DEF RecoverInv, Recovering, AllComing
  <2>4. QED
    BY <2>2, <2>3 DEF Coming
<1>4. QED
  BY <1>1, <1>2, <1>3, PTL DEF Spec

-----------------------------------------------------------------------------
(********************************* Garbage *********************************)

OneSequence(fecs, seq) == \A k \in 1..Len(fecs) : fecs[k].seq_num = seq

(* FEC blocks that came without a data block are of the last group heard,   *)
(* the last of them at least.                                               *)
FecLast ==
  m_block_size = 0 /\ m_fec_blocks # <<>> =>
    m_fec_blocks[Len(m_fec_blocks)].seq_num = m_prev_header.seq_num

(* With a data block of the group held, the FEC blocks held are of the same *)
(* group if they carry its number.                                          *)
FecTracked(msgs, got, seq, b) ==
  got # {} /\ m_blocks # <<>> /\ OneSequence(m_fec_blocks, seq) => FecsOf(m_fec_blocks, msgs, b)

FecTracks ==
  enc_out_blocks # <<>> /\ enc_out_blocks[1].block # 0 =>
    FecTracked(air.msgs, air.got, enc_out_blocks[1].seq_num, enc_out_blocks[1].block)

(* The inductive invariant, kept from a state without too long an outage.   *)
GarbageInv == HeldInv /\ (Coded => FecLast /\ FecTracks)

(* Of a group that can be rebuilt decode() releases nothing but messages.   *)
LEMMA RebuiltReal ==
  ASSUME NEW K \in Seq(RealPackets), K # <<>>, Erased(K) # {}, NEW msgs \in Seq(Messages),
         \A k \in 1..Len(K) : OfGroup(K[k], msgs),
         NEW G, Len(G) \in Nat, Len(G) >= 1, G[Len(G)].msgs = msgs, Solvable(K, G),
         NEW size, NEW list, DecodesTo(K, G, size, list), NEW j \in 1..Len(list)
  PROVE  list[j].id # 0
<1>1. PICK garbage \in [Erased(K) -> GarbageLengths(size)] :
        list = Acceptable(Decoded(K, G, size, garbage), size)
  BY DEF DecodesTo
<1>2. PICK rel, e, n : rel = Decoded(K, G, size, garbage) /\ e = FirstErased(K) /\ n = K[1].n_blocks
  OBVIOUS
<1>3. /\ e \in Nat /\ n \in Nat /\ e < n /\ Len(rel) = n - e
      /\ \A k \in 1..(n - e) : rel[k] = DecodedBlock(e + k - 1, K, G, size, garbage)
  BY <1>2, DecodedFacts
<1>4. Len(msgs) = n
  <2>1. Len(K) \in Nat /\ Len(K) # 0
    BY LenProperties, EmptySeq
  <2>2. 1 \in 1..Len(K)
    BY <2>1
  <2>3. QED
    BY <1>2, <2>2 DEF OfGroup
<1>5. ASSUME NEW x \in 1..(n - e) PROVE rel[x].id # 0
  <2>1. PICK c \in Nat : c = e + x - 1
    BY <1>3
  <2>2. c + 1 \in 1..Len(msgs)
    BY <1>3, <1>4, <2>1
  <2>3. msgs[c + 1].id # 0
    BY <2>2, ElementOfSeq, MessageTypes
  <2>4. PICK r : r = DecodedBlock(c, K, G, size, garbage)
    OBVIOUS
  <2>5. c \in Index(K) => r = [id |-> msgs[c + 1].id, length |-> msgs[c + 1].length, intact |-> TRUE]
    BY <2>4, DecodedBlockIs
  <2>6. c \notin Index(K) => r = Released(msgs[c + 1].id, msgs[c + 1].length, size - 2)
    BY <2>4, DecodedBlockIs
  <2>7. r.id = msgs[c + 1].id
    BY <2>5, <2>6 DEF Released
  <2>8. QED
    BY <1>3, <2>1, <2>3, <2>4, <2>7
<1> DEFINE S == {i \in 1..Len(rel) : rel[i].length <= size}
<1>6. list = Sublist(rel, S) /\ S \in SUBSET (1..Len(rel))
  BY <1>1, <1>2 DEF Acceptable
<1> HIDE DEF S
<1>7. Len(rel) \in Nat
  BY <1>3
<1>8. /\ Len(list) = Cardinality(S)
      /\ \A k \in 1..Cardinality(S) : Nth(S, k) \in S /\ list[k] = rel[Nth(S, k)]
  BY <1>6, <1>7, SublistFacts
<1>9. PICK x \in 1..(n - e) : list[j] = rel[x]
  BY <1>3, <1>6, <1>8
<1>10. QED
  BY <1>5, <1>9

(* What is kept of the group of the packet p that is accepted.              *)
LEMMA KeptFecs ==
  ASSUME DecInv, DecRest, FecLast, NEW p \in RealPackets, Accepts(p), NEW msgs, NEW got,
         Tracked(msgs, got, p.seq_num, p.block), FecTracked(msgs, got, p.seq_num, p.block)
  PROVE  /\ KeptFecBlocks(p) \in Seq(RealFec)
         /\ OneSequence(KeptFecBlocks(p), p.seq_num) => FecsOf(KeptFecBlocks(p), msgs, p.block)
         /\ KeptBlocks(p) # <<>> => /\ KeptFecBlocks(p) = m_fec_blocks
                                    /\ m_prev_header.seq_num = p.seq_num
<1>1. NewSequence(p) <=> p.seq_num # m_prev_header.seq_num
  BY NewSequenceFacts DEF DecInv
<1>2. m_block_size = 0 <=> m_blocks = <<>>
  BY DEF DecInv, SizeTells
<1>3. m_fec_blocks \in Seq(RealFec) /\ KeptFecBlocks(p) \in Seq(RealFec)
  BY EmptySeq DEF DecRest, KeptFecBlocks
<1>4. CASE got = {}
  <2>1. KeptBlocks(p) = <<>> /\ m_prev_header.seq_num # p.seq_num
    BY <1>1, <1>2, <1>4 DEF Tracked, KeptBlocks, Break
  <2>2. CASE KeptFecBlocks(p) = <<>>
    <3>1. FecsOf(<<>>, msgs, p.block)
      BY EmptySeq DEF FecsOf, Climbing
    <3>2. QED
      BY <1>3, <2>1, <2>2, <3>1
  <2>3. CASE KeptFecBlocks(p) # <<>>
    <3>1. m_block_size = 0 /\ KeptFecBlocks(p) = m_fec_blocks
      BY <1>1, <2>1, <2>3 DEF KeptFecBlocks, Break
    <3>2. Len(m_fec_blocks) \in Nat /\ Len(m_fec_blocks) # 0
      BY <1>3, <2>3, <3>1, LenProperties, EmptySeq
    <3>3. Len(m_fec_blocks) \in 1..Len(m_fec_blocks)
      BY <3>2
    <3>4. ~OneSequence(m_fec_blocks, p.seq_num)
      BY <2>1, <2>3, <3>1, <3>3 DEF FecLast, OneSequence
    <3>5. QED
      BY <1>3, <2>1, <3>1, <3>4
  <2>4. QED
    BY <2>2, <2>3
<1>5. CASE got # {}
  <2>1. m_blocks # <<>> /\ KeptFecBlocks(p) = m_fec_blocks /\ m_prev_header.seq_num = p.seq_num
    BY <1>1, <1>2, <1>5 DEF Tracked, KeptFecBlocks, Break, Accepts
  <2>2. QED
    BY <1>3, <1>5, <2>1 DEF FecTracked
<1>6. QED
  BY <1>4, <1>5

(* Numbered below b, and so below any later one.                            *)
LEMMA FecsLater ==
  ASSUME NEW F \in Seq(RealFec), NEW msgs, NEW b \in Nat, FecsOf(F, msgs, b)
  PROVE  FecsOf(F, msgs, b + 1)
<1>1. ASSUME NEW i \in 1..Len(F) PROVE F[i].block < b + 1
  <2>1. F[i] \in RealPackets
    BY ElementOfSeq DEF RealFec
  <2>2. F[i].block \in Nat /\ F[i].block < b
    BY <2>1, PacketFacts DEF FecsOf
  <2>3. QED
    BY <2>2
<1>2. QED
  BY <1>1 DEF FecsOf

(* A packet of the group is heard,                                          *)
LEMMA HeardFecs ==
  ASSUME DecInv, DecRest, Coded, FecLast, NEW p \in RealPackets, NEW msgs, NEW got,
         Len(msgs) = p.n_blocks, ~IsDataBlock(p) => p.msgs = msgs,
         Tracked(msgs, got, p.seq_num, p.block), FecTracked(msgs, got, p.seq_num, p.block),
         DecAddBlock(p)
  PROVE  FecLast' /\ FecTracked(msgs, got \cup {p.block}, p.seq_num, p.block + 1)'
<1>1. p.block \in Nat /\ ~PassThrough(p) /\ BlockSize(p) \in Nat /\ BlockSize(p) > 0
  BY PacketFacts DEF PassThrough
<1>2. PICK F, more : F = KeptFecBlocks(p) /\ more = got \cup {p.block}
  OBVIOUS
<1>3. ASSUME Accepts(p)
      PROVE  F \in Seq(RealFec) /\ (OneSequence(F, p.seq_num) => FecsOf(F, msgs, p.block))
  BY <1>2, <1>3, KeptFecs
<1>4. m_prev_header'.seq_num = p.seq_num
  <2>1. m_prev_header' = [seq_num |-> p.seq_num, block |-> p.block]
    BY DEF DecAddBlock, PassThrough, SkipBlock, AddDataBlock, HoldFecBlock, DecodeGroup
  <2>2. QED
    BY <2>1
<1>5. CASE SkipBlock(p)
  <2>1. /\ m_block_size = 0 /\ m_blocks' = m_blocks /\ m_blocks = <<>>
        /\ m_block_size' = m_block_size /\ m_fec_blocks' = m_fec_blocks
        /\ m_prev_header.seq_num = p.seq_num
    BY <1>5, NewSequenceFacts DEF SkipBlock, DecInv, SizeTells
  <2>2. QED
    BY <1>4, <2>1 DEF FecLast, FecTracked
<1>6. CASE m_fec_blocks' = <<>> /\ m_blocks' = <<>>
  BY <1>6 DEF FecLast, FecTracked
<1>7. CASE AddDataBlock(p) /\ ~ClearGroup
  <2>1. Accepts(p) /\ m_fec_blocks' = F /\ m_block_size' # 0
    <3>1. /\ Accepts(p) /\ m_fec_blocks' = F
          /\ m_block_size' = IF KeptSize(p) > BlockSize(p) THEN KeptSize(p) ELSE BlockSize(p)
      BY <1>2, <1>7 DEF AddDataBlock
    <3>2. KeptSize(p) \in Nat
      BY <3>1, KeptFacts
    <3>3. QED
      BY <1>1, <3>1, <3>2
  <2>2. OneSequence(F, p.seq_num) => FecsOf(F, msgs, p.block + 1)
    BY <1>1, <1>3, <2>1, FecsLater
  <2>3. FecTracked(msgs, more, p.seq_num, p.block + 1)'
    BY <2>1, <2>2 DEF FecTracked, OneSequence, FecsOf, Climbing
  <2>4. QED
    BY <1>2, <2>1, <2>3 DEF FecLast
<1>8. CASE HoldFecBlock(p)
  <2>1. PICK G : G = Append(F, p)
    OBVIOUS
  <2>2. Accepts(p) /\ m_fec_blocks' = G /\ ~IsDataBlock(p) /\ p \in RealFec
    BY <1>2, <1>8, <2>1 DEF HoldFecBlock, RealFec
  <2>3. /\ Len(G) = Len(F) + 1 /\ Len(F) \in Nat /\ G[Len(F) + 1] = p
        /\ \A i \in 1..Len(F) : G[i] = F[i]
    BY <1>3, <2>1, <2>2, AppendProperties, LenProperties
  <2>4. OneSequence(G, p.seq_num) => FecsOf(G, msgs, p.block + 1)
    <3>1. 1..Len(F) \subseteq 1..Len(G)
      BY <2>3
    <3>2. OneSequence(G, p.seq_num) => OneSequence(F, p.seq_num)
      BY <2>3, <3>1 DEF OneSequence
    <3>3. FecsOf(F, msgs, p.block) => FecsOf(G, msgs, p.block + 1)
      BY <1>3, <2>1, <2>2, MoreFecs
    <3>4. QED
      BY <1>3, <2>2, <3>2, <3>3
  <2>5. FecTracked(msgs, more, p.seq_num, p.block + 1)'
    BY <2>2, <2>4 DEF FecTracked, OneSequence, FecsOf, Climbing
  <2>6. FecLast'
    BY <1>4, <2>2, <2>3 DEF FecLast
  <2>7. QED
    BY <1>2, <2>5, <2>6
<1>9. QED
  BY <1>1, <1>5, <1>6, <1>7, <1>8 DEF DecAddBlock, DecodeGroup, ClearGroup

(* What add_block() releases is a message, unless the FEC blocks held are   *)
(* of several groups.                                                       *)
LEMMA HeardReal ==
  ASSUME DecInv, DecRest, Coded, HeldShape, FecLast, NEW p \in RealPackets,
         NEW msgs \in Seq(Messages), NEW got,
         Len(msgs) = p.n_blocks, ~IsDataBlock(p) => p.msgs = msgs,
         Tracked(msgs, got, p.seq_num, p.block), FecTracked(msgs, got, p.seq_num, p.block),
         DecAddBlock(p), dec_out_blocks = <<>>,
         NEW j \in 1..Len(dec_out_blocks'), dec_out_blocks'[j].id = 0
  PROVE  \E k \in 1..Len(m_fec_blocks) : m_fec_blocks[k].seq_num # m_prev_header.seq_num
<1>1. p.n_blocks \in Nat /\ ~PassThrough(p)
  BY PacketFacts DEF PassThrough
<1>2. dec_out_blocks' # <<>>
  BY EmptySeq
<1>3. CASE SkipBlock(p) \/ HoldFecBlock(p)
  BY <1>2, <1>3 DEF SkipBlock, HoldFecBlock
<1>4. CASE AddDataBlock(p)
  <2>1. PICK r : r = ReleasedPacket(p)
    OBVIOUS
  <2>2. dec_out_blocks' = Append(<<>>, r)
    BY <1>2, <1>4, <2>1 DEF AddDataBlock
  <2>3. dec_out_blocks' = <<r>>
    BY <2>2
  <2>4. dec_out_blocks'[j] = r
    BY <2>3
  <2>5. r.id = p.msgs[1].id
    BY <2>1 DEF ReleasedPacket, Released
  <2>6. QED
    BY <2>4, <2>5, PacketMessage, MessageTypes
<1>5. CASE DecodeGroup(p)
  <2>1. PICK K, F, G, list : /\ K = KeptBlocks(p) /\ F = KeptFecBlocks(p) /\ G = Append(F, p)
                             /\ list = dec_out_blocks'
    OBVIOUS
  <2>2. /\ Accepts(p) /\ ~IsDataBlock(p) /\ p \in RealFec
        /\ Len(K) + Len(F) + 1 = p.n_blocks
        /\ K # <<>> /\ Erased(K) # {} /\ DecodesTo(K, G, m_block_size, list)
    BY <1>2, <1>5, <2>1, DecodeReleases
  <2>3. /\ Increasing(K) /\ K \in Seq(RealPackets)
        /\ \A i \in 1..Len(K) : OfGroup(K[i], msgs)
        /\ Len(K) \in Nat
    BY <2>1, <2>2, KeptGroup, KeptFacts
  <2>4. /\ F \in Seq(RealFec) /\ F = m_fec_blocks /\ m_prev_header.seq_num = p.seq_num
        /\ OneSequence(F, p.seq_num) => FecsOf(F, msgs, p.block)
    BY <2>1, <2>2, KeptFecs
  <2>5. ASSUME OneSequence(F, p.seq_num) PROVE FALSE
    <3>1. /\ G \in Seq(RealFec) /\ Len(G) = Len(F) + 1 /\ Len(F) \in Nat
          /\ FecsOf(G, msgs, p.block + 1)
      BY <2>1, <2>2, <2>4, <2>5, MoreFecs
    <3>2. Len(G) \in Nat /\ Len(G) >= 1 /\ Len(K) + Len(G) = Len(msgs)
      BY <1>1, <2>2, <2>3, <3>1
    <3>3. Solvable(K, G)
      BY <2>2, <2>3, <3>1, <3>2, SolvableGroup DEF Increasing
    <3>4. G[Len(G)].msgs = msgs
      <4>1. Len(G) \in 1..Len(G)
        BY <3>2
      <4>2. QED
        BY <3>1, <4>1 DEF FecsOf
    <3>5. list[j].id # 0
      BY <2>1, <2>2, <2>3, <3>2, <3>3, <3>4, RebuiltReal
    <3>6. QED
      BY <2>1, <3>5
  <2>6. QED
    BY <2>4, <2>5 DEF OneSequence
<1>6. QED
  BY <1>1, <1>3, <1>4, <1>5 DEF DecAddBlock

(* Nothing of the decoder or of the history changes.                        *)
LEMMA FecsUnchanged ==
  ASSUME UNCHANGED <<m_block_size, m_prev_header, m_blocks, m_fec_blocks>>
  PROVE  /\ FecLast' <=> FecLast
         /\ \A msgs, got, seq, b : FecTracked(msgs, got, seq, b)' <=> FecTracked(msgs, got, seq, b)
BY DEF FecLast, FecTracked, OneSequence, FecsOf, Climbing

(* What is known of packet p of a coded group as it goes on the air.        *)
LEMMA SentGroup ==
  ASSUME GarbageInv, Coded, EncGetBlock, NEW p, p = Head(enc_out_blocks),
         NEW msgs, msgs = LastOut.msgs, NEW got, got = OnAir(p).got
  PROVE  /\ DecInv /\ DecRest /\ HeldShape /\ FecLast
         /\ p \in RealPackets /\ Len(msgs) = p.n_blocks /\ msgs \in Seq(Messages)
         /\ ~IsDataBlock(p) => p.msgs = msgs
         /\ OnAir(p).msgs = msgs
         /\ Tracked(msgs, got, p.seq_num, p.block) /\ FecTracked(msgs, got, p.seq_num, p.block)
<1>1. HeldInv /\ LinkInv /\ OutGroup /\ DecInv /\ DecRest /\ HeldShape /\ FecLast /\ FecTracks
  BY DEF GarbageInv, HeldInv, TypeInv, LinkInv
<1>2. /\ p \in RealPackets /\ Len(msgs) = p.n_blocks /\ LastOut \in RealPackets
      /\ ~IsDataBlock(p) => p.msgs = msgs
      /\ enc_out_blocks # <<>> /\ p = enc_out_blocks[1]
  BY <1>1, OnTheAir
<1>3. Tracked(msgs, got, p.seq_num, p.block) /\ OnAir(p).msgs = msgs
  BY <1>1, PacketTracked
<1>4. msgs \in Seq(Messages)
  BY <1>2, PacketMessage
<1>5. FecTracked(msgs, got, p.seq_num, p.block)
  <2>1. CASE p.block = 0
    BY <1>1, <2>1, AirOfGroup DEF FecTracked
  <2>2. CASE p.block # 0
    BY <1>1, <1>2, <1>3, <2>2, AirOfGroup DEF FecTracks
  <2>3. QED
    BY <2>1, <2>2
<1>6. QED
  BY <1>1, <1>2, <1>3, <1>4, <1>5

(* Sending it.                                                              *)
LEMMA SentFecs ==
  ASSUME GarbageInv, Coded, TransmitHeard \/ TransmitLost
  PROVE  FecLast' /\ FecTracks'
<1>1. PICK p : p = Head(enc_out_blocks)
  OBVIOUS
<1>2. PICK msgs, got : msgs = LastOut.msgs /\ got = OnAir(p).got
  OBVIOUS
<1>3. EncGetBlock /\ AirRecord /\ LinkInv /\ OutGroup
  BY DEF TransmitHeard, TransmitLost, GarbageInv, HeldInv, TypeInv, AirType, AirRecord
<1>4. /\ DecInv /\ DecRest /\ HeldShape /\ FecLast
      /\ p \in RealPackets /\ Len(msgs) = p.n_blocks /\ msgs \in Seq(Messages)
      /\ ~IsDataBlock(p) => p.msgs = msgs
      /\ OnAir(p).msgs = msgs
      /\ Tracked(msgs, got, p.seq_num, p.block) /\ FecTracked(msgs, got, p.seq_num, p.block)
  BY <1>1, <1>2, <1>3, SentGroup
<1>5. enc_out_blocks' # <<>> => /\ enc_out_blocks'[1].block = p.block + 1
                                /\ enc_out_blocks'[1].seq_num = p.seq_num
  BY <1>1, <1>3, OnTheAir
<1>6. ASSUME NEW more, air'.msgs = msgs, air'.got = more,
             FecTracked(msgs, more, p.seq_num, p.block + 1)'
      PROVE  FecTracks'
  <2>1. CASE enc_out_blocks' = <<>>
    BY <2>1 DEF FecTracks
  <2>2. CASE enc_out_blocks' # <<>>
    <3>1. FecTracked(air.msgs, air.got, enc_out_blocks[1].seq_num, enc_out_blocks[1].block)'
      BY <1>5, <1>6, <2>2
    <3>2. QED
      BY <3>1 DEF FecTracks
  <2>3. QED
    BY <2>1, <2>2
<1>7. CASE TransmitHeard
  <2>1. DecAddBlock(p) /\ air' = [OnAirHeard(p) EXCEPT !.got = @ \cup {p.block}]
    BY <1>1, <1>7 DEF TransmitHeard
  <2>2. PICK more : more = got \cup {p.block}
    OBVIOUS
  <2>3. air'.msgs = msgs /\ air'.got = more
    BY <1>2, <1>3, <1>4, <2>1, <2>2, AirCounts
  <2>4. FecLast' /\ FecTracked(msgs, more, p.seq_num, p.block + 1)'
    BY <1>4, <2>1, <2>2, HeardFecs
  <2>5. QED
    BY <1>6, <2>3, <2>4
<1>8. CASE TransmitLost
  <2>1. /\ UNCHANGED <<m_block_size, m_prev_header, m_blocks, m_fec_blocks>>
        /\ air' = [OnAir(p) EXCEPT !.lost = @ + 1]
    BY <1>1, <1>8 DEF TransmitLost, decVars
  <2>2. air'.msgs = msgs /\ air'.got = got
    BY <1>2, <1>3, <1>4, <2>1, AirCounts
  <2>3. FecTracked(msgs, got, p.seq_num, p.block + 1)
    <3>1. p.block \in Nat /\ m_fec_blocks \in Seq(RealFec)
      BY <1>4, PacketFacts DEF DecRest
    <3>2. QED
      BY <1>4, <3>1, FecsLater DEF FecTracked
  <2>4. FecLast' /\ FecTracked(msgs, got, p.seq_num, p.block + 1)'
    BY <1>4, <2>1, <2>3, FecsUnchanged
  <2>5. QED
    BY <1>6, <2>2, <2>4
<1>9. QED
  BY <1>7, <1>8

(* Every step from a state without too long an outage keeps the invariant.  *)
LEMMA NextGarbageInv ==
  ASSUME ~Relay, GarbageInv, NoLongOutage, [Next]_vars
  PROVE  GarbageInv'
<1>1. HeldInv /\ HeldInv'
  BY NextHeldInv DEF GarbageInv
<1>2. SUFFICES ASSUME Coded PROVE FecLast' /\ FecTracks'
  BY <1>1 DEF GarbageInv
<1>3. FecLast /\ FecTracks
  BY <1>2 DEF GarbageInv
<1>4. CASE (\E l \in Lengths : SendMessage(l)) \/ SendFlush
  <2>1. /\ enc_out_blocks = <<>>
        /\ UNCHANGED <<m_block_size, m_prev_header, m_blocks, m_fec_blocks>>
    BY <1>4 DEF SendMessage, SendFlush, decVars
  <2>2. EncInv /\ Produces
    <3>1. LinkInv /\ EncInv
      BY <1>1 DEF HeldInv, TypeInv, LinkInv
    <3>2. ASSUME NEW l \in Lengths, SendMessage(l) PROVE Produces
      BY <3>1, <3>2, SentMessage, AddProduces DEF SendMessage
    <3>3. SendFlush => Produces
      BY <3>1, <2>1, FlushProduces DEF SendFlush
    <3>4. QED
      BY <1>4, <3>1, <3>2, <3>3
  <2>3. enc_out_blocks' = <<>> \/ enc_out_blocks'[1].block = 0
    BY <1>2, <2>1, <2>2, ProducedGroup
  <2>4. QED
    BY <1>3, <2>1, <2>3, FecsUnchanged DEF FecTracks
<1>5. CASE TransmitHeard \/ TransmitLost
  BY <1>2, <1>5, SentFecs
<1>6. CASE RelayTransmit
  BY <1>1, <1>6 DEF RelayTransmit, HeldInv
<1>7. CASE Deliver \/ UNCHANGED vars
  <2>1. UNCHANGED <<enc_out_blocks, air, m_block_size, m_prev_header, m_blocks, m_fec_blocks>>
    BY <1>7 DEF Deliver, DecGetBlock, encVars, vars, decVars
  <2>2. PICK msgs, got, seq, b : /\ msgs = air.msgs /\ got = air.got
                                 /\ seq = enc_out_blocks[1].seq_num /\ b = enc_out_blocks[1].block
    OBVIOUS
  <2>3. FecLast' /\ (FecTracked(msgs, got, seq, b) => FecTracked(msgs, got, seq, b)')
    BY <1>3, <2>1, FecsUnchanged
  <2>4. QED
    BY <1>3, <2>1, <2>2, <2>3 DEF FecTracks
<1>8. QED
  BY <1>4, <1>5, <1>6, <1>7 DEF Next

(* The condition of GarbageNeedsMixture, of a step.                         *)
GarbageMixed ==
  \A i \in 1..Len(dec_out_blocks') :
    dec_out_blocks'[i].id = 0 =>
      \/ \E k \in 1..Len(dec_out_blocks) : dec_out_blocks[k].id = 0
      \/ MixedBlocks
      \/ \E k \in 1..Len(m_fec_blocks) : m_fec_blocks[k].block = m_prev_header'.block

(* Every step meets it.                                                     *)
LEMMA GarbageStep ==
  ASSUME ~Relay, GarbageInv, Next
  PROVE  GarbageMixed
<1>1. TypeInv /\ relayed = <<>> /\ dec_out_blocks \in Seq(Releases)
  BY DEF GarbageInv, HeldInv, TypeInv, DecRest
<1>2. CASE UNCHANGED dec_out_blocks
  BY <1>2 DEF GarbageMixed
<1>3. CASE Deliver
  <2>0. PICK n \in Nat : n = Len(dec_out_blocks)
    BY <1>1, LenProperties
  <2>1. PICK t : t = Tail(dec_out_blocks)
    OBVIOUS
  <2>2. dec_out_blocks # <<>> /\ dec_out_blocks' = t
    BY <1>3, <2>1 DEF Deliver, DecGetBlock
  <2>3. Len(t) = n - 1 /\ \A i \in 1..(n - 1) : t[i] = dec_out_blocks[i + 1]
    BY <1>1, <2>0, <2>1, <2>2, HeadTailProperties
  <2>4. \A i \in 1..(n - 1) : i + 1 \in 1..n
    OBVIOUS
  <2>5. QED
    BY <2>0, <2>2, <2>3, <2>4 DEF GarbageMixed
<1>4. CASE TransmitHeard
  <2>1. PICK p : p = Head(enc_out_blocks)
    OBVIOUS
  <2>2. /\ EncGetBlock /\ dec_out_blocks = <<>> /\ DecAddBlock(p)
        /\ enc_out_blocks # <<>> /\ enc_out_blocks \in Seq(RealPackets)
    BY <1>1, <1>4, <2>1 DEF TransmitHeard, EncGetBlock, TypeInv, LinkInv, AirTyped
  <2>3. CASE Coded
    <3>1. PICK msgs, got : msgs = LastOut.msgs /\ got = OnAir(p).got
      OBVIOUS
    <3>2. ASSUME NEW i \in 1..Len(dec_out_blocks'), dec_out_blocks'[i].id = 0 PROVE MixedBlocks
      <4>1. /\ DecInv /\ DecRest /\ HeldShape /\ FecLast
            /\ p \in RealPackets /\ Len(msgs) = p.n_blocks /\ msgs \in Seq(Messages)
            /\ ~IsDataBlock(p) => p.msgs = msgs
            /\ Tracked(msgs, got, p.seq_num, p.block) /\ FecTracked(msgs, got, p.seq_num, p.block)
        BY <2>1, <2>2, <2>3, <3>1, SentGroup
      <4>2. \E k \in 1..Len(m_fec_blocks) : m_fec_blocks[k].seq_num # m_prev_header.seq_num
        BY <2>2, <2>3, <3>2, <4>1, HeardReal
      <4>3. QED
        BY <4>2 DEF MixedBlocks
    <3>3. QED
      BY <3>2 DEF GarbageMixed
  <2>4. CASE ~Coded
    <3>1. p \in RealPackets
      BY <2>1, <2>2, HeadTailProperties
    <3>2. PassThrough(p)
      <4>1. Uncoded(p.n_blocks, p.n_fec_blocks)
        BY <2>4, <3>1, PacketFacts
      <4>2. QED
        BY <2>2, <4>1 DEF DecAddBlock, SkipBlock, AddDataBlock, HoldFecBlock, DecodeGroup, Accepts
    <3>3. PICK r : r = ReleasedPacket(p)
      OBVIOUS
    <3>4. dec_out_blocks' = Append(<<>>, r)
      BY <2>2, <3>2, <3>3 DEF PassThrough
    <3>5. dec_out_blocks' = <<r>>
      BY <3>4
    <3>6. \A i \in 1..Len(dec_out_blocks') : dec_out_blocks'[i] = r
      BY <3>5
    <3>7. r.id # 0
      <4>1. r.id = p.msgs[1].id
        BY <3>3 DEF ReleasedPacket, Released
      <4>2. QED
        BY <3>1, <4>1, PacketMessage, MessageTypes
    <3>8. QED
      BY <3>6, <3>7 DEF GarbageMixed
  <2>5. QED
    BY <2>3, <2>4
<1>5. ~RelayTransmit
  BY <1>1 DEF RelayTransmit
<1>6. QED
  BY <1>2, <1>3, <1>4, <1>5 DEF Next, SendMessage, SendFlush, TransmitLost, decVars

(* Without a relay, only FEC blocks left from an earlier group can make     *)
(* decode() release bytes that belong to no message: whatever else is lost, *)
(* what it releases are the messages of the group.                          *)
THEOREM OnlyMixtureIsGarbage == ~Relay => (Spec /\ []NoLongOutage => GarbageNeedsMixture)
<1> SUFFICES ASSUME ~Relay PROVE Spec /\ []NoLongOutage => GarbageNeedsMixture
  OBVIOUS
<1>1. Init => GarbageInv
  <2> SUFFICES ASSUME Init PROVE GarbageInv
    OBVIOUS
  <2>1. HeldInv /\ m_fec_blocks = <<>> /\ enc_out_blocks = <<>>
    BY InitHeldInv DEF Init, DecInit, EncInit
  <2>2. QED
    BY <2>1 DEF GarbageInv, FecLast, FecTracks
<1>2. GarbageInv /\ NoLongOutage /\ [Next]_vars => GarbageInv'
  BY NextGarbageInv
<1>3. GarbageInv /\ [Next]_vars =>
        [\A i \in 1..Len(dec_out_blocks') :
           dec_out_blocks'[i].id = 0 =>
             \/ \E k \in 1..Len(dec_out_blocks) : dec_out_blocks[k].id = 0
             \/ MixedBlocks
             \/ \E k \in 1..Len(m_fec_blocks) :
                  m_fec_blocks[k].block = m_prev_header'.block]_vars
  BY GarbageStep DEF GarbageMixed
<1>4. QED
  BY <1>1, <1>2, <1>3, PTL DEF Spec, GarbageNeedsMixture

=============================================================================
