-------------------------- MODULE FECEncoderProofs --------------------------
(***************************************************************************)
(* For any group size, block size, sequence range and pattern of adds,     *)
(* flushes and gets: the encoder is well typed, numbers the blocks it      *)
(* gathers correctly, and releases whole groups in sequence.               *)
(***************************************************************************)
EXTENDS FECEncoder, FiniteSetTheorems, SequenceTheorems, TLAPS

(* A link without coding gathers nothing.                                   *)
NothingGathered == Uncoded(NumBlocks, NumFecBlocks) => m_in_blocks = <<>>

(* The inductive invariant.                                                 *)
EncInv == EncTypeOK /\ GroupGathered /\ GroupsContiguous /\ NothingGathered

LEMMA ConstantFacts ==
  /\ NumBlocks \in Nat /\ NumFecBlocks \in Nat
  /\ MaxBlockSize \in Nat /\ MaxBlockSize > 2
  /\ SeqMod \in Nat /\ SeqMod > 2
BY BlockAssumption DEF BlockAssumption

LEMMA NextSeqType ==
  ASSUME NEW s \in 1..(SeqMod - 1)
  PROVE  NextSeq(s) \in 1..(SeqMod - 1)
BY ConstantFacts DEF NextSeq

LEMMA MaxLengthType ==
  ASSUME NEW in
  PROVE  MaxLength(in) \in Nat
<1> DEFINE B == {b \in 1..MaxBlockSize : \E i \in 1..Len(in) : b <= DataLength(in[i])}
<1>1. IsFiniteSet(1..MaxBlockSize)
  BY ConstantFacts, FS_Interval
<1>2. B \in SUBSET (1..MaxBlockSize)
  OBVIOUS
<1>3. IsFiniteSet(B)
  BY <1>1, <1>2, FS_Subset
<1>4. Cardinality(B) \in Nat
  BY <1>3, FS_CardinalityType
<1>5. QED
  BY <1>4 DEF MaxLength

(* The blocks of a group as encode_blocks() finds them.                     *)
Gathered(in) ==
  /\ in \in Seq(Packets)
  /\ in # <<>>
  /\ \A i \in 1..Len(in) :
       /\ in[i].block = i - 1
       /\ in[i].seq_num = m_seq_num
       /\ in[i].n_fec_blocks = NumFecBlocks
       /\ Len(in[i].msgs) = 1

(* The new block fits behind the gathered ones.                             *)
LEMMA AppendGathered ==
  ASSUME EncTypeOK, GroupGathered, NEW msg \in Messages
  PROVE  /\ GetNextBlock(msg) \in Packets
         /\ Gathered(Append(m_in_blocks, GetNextBlock(msg)))
         /\ Len(Append(m_in_blocks, GetNextBlock(msg))) = Len(m_in_blocks) + 1
<1> DEFINE blk == GetNextBlock(msg)
           in  == Append(m_in_blocks, blk)
<1>1. m_in_blocks \in Seq(Packets) /\ Len(m_in_blocks) \in Nat
  BY LenProperties DEF EncTypeOK
<1>2. <<msg>> \in Seq(Messages) /\ Len(<<msg>>) = 1
  OBVIOUS
<1>3. blk \in Packets
  BY <1>1, <1>2, ConstantFacts DEF GetNextBlock, Packets, EncTypeOK
<1>4. /\ in \in Seq(Packets)
      /\ in # <<>>
      /\ Len(in) = Len(m_in_blocks) + 1
      /\ \A i \in 1..Len(m_in_blocks) : in[i] = m_in_blocks[i]
      /\ in[Len(m_in_blocks) + 1] = blk
  BY <1>1, <1>3, AppendProperties
<1>5. /\ blk.block = Len(m_in_blocks) /\ blk.seq_num = m_seq_num
      /\ blk.n_fec_blocks = NumFecBlocks /\ Len(blk.msgs) = 1
  BY <1>2 DEF GetNextBlock
<1>6. ASSUME NEW i \in 1..Len(in)
      PROVE  /\ in[i].block = i - 1
             /\ in[i].seq_num = m_seq_num
             /\ in[i].n_fec_blocks = NumFecBlocks
             /\ Len(in[i].msgs) = 1
  <2>1. CASE i \in 1..Len(m_in_blocks)
    BY <1>4, <2>1 DEF GroupGathered
  <2>2. CASE i = Len(m_in_blocks) + 1
    BY <1>1, <1>4, <1>5, <2>2
  <2>3. QED
    BY <1>1, <1>4, <2>1, <2>2
<1>7. QED
  BY <1>3, <1>4, <1>6 DEF Gathered

(* The packets of a group: as many as its data and FEC blocks, numbered     *)
(* from 0, all under the group's sequence number and sizes.                 *)
LEMMA GroupShape ==
  ASSUME EncTypeOK, NEW in, Gathered(in)
  PROVE  /\ GroupPackets(in) \in Seq(Packets)
         /\ Len(in) \in Nat /\ Len(in) >= 1
         /\ Len(GroupPackets(in)) = Len(in) + NumFecBlocks
         /\ \A i \in 1..(Len(in) + NumFecBlocks) :
              /\ GroupPackets(in)[i].block = i - 1
              /\ GroupPackets(in)[i].seq_num = m_seq_num
              /\ GroupPackets(in)[i].n_blocks = Len(in)
              /\ GroupPackets(in)[i].n_fec_blocks = NumFecBlocks
              /\ Len(GroupPackets(in)[i].msgs) >= 1
<1> DEFINE D == DataPackets(in)
           F == FecPackets(in)
<1>1. in \in Seq(Packets) /\ Len(in) \in Nat /\ Len(in) >= 1
  BY EmptySeq, LenProperties DEF Gathered
<1>2. \A i \in 1..Len(in) : in[i] \in Packets
  BY <1>1, ElementOfSeq
<1>3. MaxLength(in) \in Nat
  BY MaxLengthType
<1>4. /\ D \in Seq(Packets)
      /\ Len(D) = Len(in)
      /\ \A i \in 1..Len(in) :
           /\ D[i].block = i - 1 /\ D[i].seq_num = m_seq_num
           /\ D[i].n_blocks = Len(in) /\ D[i].n_fec_blocks = NumFecBlocks
           /\ Len(D[i].msgs) >= 1
  <2>1. ASSUME NEW i \in 1..Len(in)
        PROVE  /\ [in[i] EXCEPT !.n_blocks = Len(in), !.room = MaxLength(in)] \in Packets
               /\ D[i] = [in[i] EXCEPT !.n_blocks = Len(in), !.room = MaxLength(in)]
    BY <1>1, <1>2, <1>3 DEF Packets, DataPackets
  <2>2. D \in [1..Len(in) -> Packets]
    BY <2>1 DEF DataPackets
  <2>3. D \in Seq(Packets) /\ Len(D) = Len(in)
    BY <1>1, <2>2
  <2>4. ASSUME NEW i \in 1..Len(in)
        PROVE  /\ D[i].block = i - 1 /\ D[i].seq_num = m_seq_num
               /\ D[i].n_blocks = Len(in) /\ D[i].n_fec_blocks = NumFecBlocks
               /\ Len(D[i].msgs) >= 1
    <3>1. /\ D[i].block = in[i].block /\ D[i].seq_num = in[i].seq_num
          /\ D[i].n_blocks = Len(in) /\ D[i].n_fec_blocks = in[i].n_fec_blocks
          /\ D[i].msgs = in[i].msgs
      BY <1>2, <2>1 DEF Packets
    <3>2. /\ in[i].block = i - 1 /\ in[i].seq_num = m_seq_num
          /\ in[i].n_fec_blocks = NumFecBlocks /\ Len(in[i].msgs) = 1
      BY DEF Gathered
    <3> HIDE DEF D
    <3>3. Len(D[i].msgs) = 1
      BY <3>1, <3>2
    <3>4. QED
      BY <3>1, <3>2, <3>3
  <2>5. QED
    BY <2>3, <2>4
<1>5. /\ F \in Seq(Packets)
      /\ Len(F) = NumFecBlocks
      /\ \A i \in 1..NumFecBlocks :
           /\ F[i].block = Len(in) + i - 1 /\ F[i].seq_num = m_seq_num
           /\ F[i].n_blocks = Len(in) /\ F[i].n_fec_blocks = NumFecBlocks
           /\ Len(F[i].msgs) >= 1
  <2> DEFINE M == [j \in 1..Len(in) |-> in[j].msgs[1]]
  <2>1. M \in Seq(Messages)
    <3>1. ASSUME NEW j \in 1..Len(in) PROVE in[j].msgs[1] \in Messages
      <4>1. in[j].msgs \in Seq(Messages) /\ Len(in[j].msgs) = 1
        BY <1>2 DEF Gathered, Packets
      <4>2. QED
        BY <4>1, ElementOfSeq
    <3>2. M \in [1..Len(in) -> Messages]
      BY <3>1
    <3>3. QED
      BY <1>1, <3>2
  <2>2. ASSUME NEW i \in 1..NumFecBlocks
        PROVE  /\ F[i] = [seq_num |-> m_seq_num, block |-> Len(in) + i - 1,
                          n_blocks |-> Len(in), n_fec_blocks |-> NumFecBlocks,
                          msgs |-> M, room |-> MaxLength(in)]
               /\ F[i] \in Packets
    <3>1. F[i] = [seq_num |-> m_seq_num, block |-> Len(in) + i - 1,
                  n_blocks |-> Len(in), n_fec_blocks |-> NumFecBlocks,
                  msgs |-> M, room |-> MaxLength(in)]
      BY DEF FecPackets
    <3>2. Len(in) + i - 1 \in Nat /\ m_seq_num \in 0..(SeqMod - 1)
      BY <1>1, ConstantFacts DEF EncTypeOK
    <3> HIDE DEF M
    <3>3. QED
      BY <1>1, <1>3, <2>1, <3>1, <3>2, ConstantFacts DEF Packets
  <2>3. F \in [1..NumFecBlocks -> Packets]
    BY <2>2 DEF FecPackets
  <2>4. F \in Seq(Packets) /\ Len(F) = NumFecBlocks
    BY <2>3, ConstantFacts
  <2>5. Len(M) >= 1
    BY <1>1
  <2> HIDE DEF M
  <2>6. QED
    BY <2>2, <2>4, <2>5
<1>6. /\ GroupPackets(in) = D \o F
      /\ GroupPackets(in) \in Seq(Packets)
      /\ Len(GroupPackets(in)) = Len(in) + NumFecBlocks
      /\ \A i \in 1..(Len(in) + NumFecBlocks) :
           GroupPackets(in)[i] = IF i <= Len(in) THEN D[i] ELSE F[i - Len(in)]
  <2> HIDE DEF D, F
  <2>1. GroupPackets(in) = D \o F
    BY DEF GroupPackets, D, F
  <2>2. /\ D \o F \in Seq(Packets)
        /\ Len(D \o F) = Len(D) + Len(F)
        /\ \A i \in 1..(Len(D) + Len(F)) :
             (D \o F)[i] = IF i <= Len(D) THEN D[i] ELSE F[i - Len(D)]
    <3>1. D \in Seq(Packets) /\ F \in Seq(Packets)
      BY <1>4, <1>5
    <3>2. QED
      BY <3>1, ConcatProperties
  <2>3. Len(D) = Len(in) /\ Len(F) = NumFecBlocks
    BY <1>4, <1>5
  <2>4. QED
    BY <2>1, <2>2, <2>3
<1>7. ASSUME NEW i \in 1..(Len(in) + NumFecBlocks)
      PROVE  /\ GroupPackets(in)[i].block = i - 1
             /\ GroupPackets(in)[i].seq_num = m_seq_num
             /\ GroupPackets(in)[i].n_blocks = Len(in)
             /\ GroupPackets(in)[i].n_fec_blocks = NumFecBlocks
             /\ Len(GroupPackets(in)[i].msgs) >= 1
  <2> HIDE DEF D, F
  <2>1. CASE i <= Len(in)
    BY <1>1, <1>4, <1>6, <2>1, ConstantFacts
  <2>2. CASE ~(i <= Len(in))
    <3>1. i - Len(in) \in 1..NumFecBlocks
      BY <1>1, <2>2, ConstantFacts
    <3>2. GroupPackets(in)[i] = F[i - Len(in)]
      BY <1>6, <2>2
    <3>3. F[i - Len(in)].block = Len(in) + (i - Len(in)) - 1
      BY <1>5, <3>1
    <3>4. GroupPackets(in)[i].block = i - 1
      BY <1>1, <3>2, <3>3
    <3>5. QED
      BY <1>5, <3>1, <3>2, <3>4
  <2>3. QED
    BY <2>1, <2>2
<1>8. QED
  BY <1>1, <1>6, <1>7

(* Whole groups in sequence, ending before group seq.                       *)
Contiguous(out, seq) ==
  /\ \A i \in 1..(Len(out) - 1) : Follows(out[i], out[i + 1])
  /\ out # <<>> =>
       LET last == out[Len(out)]
       IN  /\ last.block + 1 = last.n_blocks + last.n_fec_blocks
           /\ seq = NextSeq(last.seq_num)

LEMMA ContiguousForm ==
  GroupsContiguous <=>
    (~Uncoded(NumBlocks, NumFecBlocks) => Contiguous(enc_out_blocks, m_seq_num))
BY DEF GroupsContiguous, Contiguous

(* Appending a whole group keeps the stream contiguous.                     *)
LEMMA GroupAppended ==
  ASSUME EncTypeOK, NEW in, Gathered(in), NumFecBlocks >= 1,
         Contiguous(enc_out_blocks, m_seq_num)
  PROVE  Contiguous(enc_out_blocks \o GroupPackets(in), NextSeq(m_seq_num))
<1> DEFINE out == enc_out_blocks
           grp == GroupPackets(in)
           n   == Len(in) + NumFecBlocks
           cat == out \o grp
<1>1. /\ grp \in Seq(Packets) /\ Len(in) \in Nat /\ Len(in) >= 1 /\ Len(grp) = n
      /\ \A i \in 1..n :
           /\ grp[i].block = i - 1 /\ grp[i].seq_num = m_seq_num
           /\ grp[i].n_blocks = Len(in) /\ grp[i].n_fec_blocks = NumFecBlocks
  BY GroupShape
<1>2. out \in Seq(Packets) /\ Len(out) \in Nat /\ (out = <<>> <=> Len(out) = 0)
  BY EmptySeq, LenProperties DEF EncTypeOK
<1>3. n \in Nat /\ n >= 2
  BY <1>1, ConstantFacts
<1> HIDE DEF out, grp, n
<1>4. /\ cat \in Seq(Packets)
      /\ Len(cat) = Len(out) + Len(grp)
      /\ \A i \in 1..(Len(out) + Len(grp)) :
           cat[i] = IF i <= Len(out) THEN out[i] ELSE grp[i - Len(out)]
  BY <1>1, <1>2, ConcatProperties
<1> HIDE DEF cat
<1>5. Len(cat) = Len(out) + n /\ Len(grp) = n
  BY <1>1, <1>4
<1>6. ASSUME NEW i \in 1..(Len(cat) - 1)
      PROVE  Follows(cat[i], cat[i + 1])
  <2>1. CASE i < Len(out)
    <3>1. cat[i] = out[i] /\ cat[i + 1] = out[i + 1] /\ i \in 1..(Len(out) - 1)
      BY <1>2, <1>3, <1>4, <1>5, <2>1
    <3>2. Follows(out[i], out[i + 1])
      BY <3>1 DEF Contiguous, out
    <3>3. QED
      BY <3>1, <3>2
  <2>2. CASE i = Len(out)
    <3>1. cat[i] = out[Len(out)] /\ cat[i + 1] = grp[1] /\ out # <<>>
      BY <1>2, <1>3, <1>4, <1>5, <2>2
    <3>2. /\ out[Len(out)].block + 1
               = out[Len(out)].n_blocks + out[Len(out)].n_fec_blocks
          /\ m_seq_num = NextSeq(out[Len(out)].seq_num)
      BY <3>1 DEF Contiguous, out
    <3>3. grp[1].block = 0 /\ grp[1].seq_num = m_seq_num
      BY <1>1, <1>3
    <3>4. QED
      BY <3>1, <3>2, <3>3 DEF Follows
  <2>3. CASE i > Len(out)
    <3> DEFINE k == i - Len(out)
    <3>1. k \in 1..n /\ k + 1 \in 1..n /\ k < n
      BY <1>2, <1>3, <1>5, <2>3
    <3>2. cat[i] = grp[k] /\ cat[i + 1] = grp[k + 1]
      <4>1. (i + 1) - Len(out) = k + 1
        BY <1>2, <2>3
      <4>2. i \in 1..(Len(out) + Len(grp)) /\ i + 1 \in 1..(Len(out) + Len(grp))
        BY <1>2, <1>3, <1>5
      <4>3. ~(i <= Len(out)) /\ ~(i + 1 <= Len(out))
        BY <1>2, <2>3
      <4>4. QED
        BY <1>4, <4>1, <4>2, <4>3
    <3> HIDE DEF k
    <3>3. /\ grp[k].block = k - 1 /\ grp[k].seq_num = m_seq_num
          /\ grp[k].n_blocks = Len(in) /\ grp[k].n_fec_blocks = NumFecBlocks
          /\ grp[k + 1].block = k + 1 - 1 /\ grp[k + 1].seq_num = m_seq_num
          /\ grp[k + 1].n_blocks = Len(in)
      BY <1>1, <3>1
    <3>4. k \in Nat /\ k < Len(in) + NumFecBlocks
      BY <1>3, <3>1 DEF n
    <3>5. QED
      BY <3>2, <3>3, <3>4, <1>1, ConstantFacts DEF Follows
  <2>4. QED
    BY <1>2, <1>3, <1>5, <2>1, <2>2, <2>3
<1>7. cat[Len(cat)] = grp[n]
  <2>1. (Len(out) + n) - Len(out) = n /\ ~(Len(out) + n <= Len(out))
    BY <1>2, <1>3
  <2>2. Len(out) + n \in 1..(Len(out) + Len(grp))
    BY <1>2, <1>3, <1>5
  <2>3. QED
    BY <1>4, <1>5, <2>1, <2>2
<1>8. /\ grp[n].block + 1 = grp[n].n_blocks + grp[n].n_fec_blocks
      /\ grp[n].seq_num = m_seq_num
  <2>1. /\ grp[n].block = n - 1 /\ grp[n].seq_num = m_seq_num
        /\ grp[n].n_blocks = Len(in) /\ grp[n].n_fec_blocks = NumFecBlocks
    BY <1>1, <1>3
  <2>2. QED
    BY <1>1, <2>1, ConstantFacts DEF n
<1>9. Contiguous(cat, NextSeq(m_seq_num))
  BY <1>6, <1>7, <1>8 DEF Contiguous
<1>10. QED
  BY <1>9 DEF cat, out, grp

LEMMA InitEncInv == EncInit => EncInv
<1> SUFFICES ASSUME EncInit PROVE EncInv
  OBVIOUS
<1>1. <<>> \in Seq(Packets) /\ Len(<<>>) = 0
  OBVIOUS
<1>2. EncTypeOK
  BY <1>1, StartAssumption DEF EncInit, EncTypeOK, StartAssumption
<1>3. GroupGathered
  BY <1>1 DEF EncInit, GroupGathered
<1>4. GroupsContiguous
  BY <1>1 DEF EncInit, GroupsContiguous
<1>5. NothingGathered
  BY DEF EncInit, NothingGathered
<1>6. QED
  BY <1>2, <1>3, <1>4, <1>5 DEF EncInv

(* encode_blocks(), whether it is the last block or a flush that calls it.  *)
LEMMA EncodeBlocksEncInv ==
  ASSUME EncInv, NEW in, Gathered(in), EncodeBlocks(in)
  PROVE  EncInv'
<1> USE DEF EncodeBlocks
<1>1. /\ GroupPackets(in) \in Seq(Packets)
      /\ enc_out_blocks \in Seq(Packets)
  BY GroupShape DEF EncInv, EncTypeOK
<1>2. EncTypeOK'
  <2>1. enc_out_blocks' \in Seq(Packets)
    BY <1>1, ConcatProperties
  <2>2. m_seq_num' \in 1..(SeqMod - 1)
    BY NextSeqType DEF EncInv, EncTypeOK
  <2>3. m_in_blocks' \in Seq(Packets)
    OBVIOUS
  <2>4. QED
    BY <2>1, <2>2, <2>3 DEF EncTypeOK
<1>3. GroupGathered'
  <2>1. Len(<<>>) = 0
    OBVIOUS
  <2>2. QED
    BY <2>1 DEF GroupGathered
<1>4. GroupsContiguous'
  <2>1. SUFFICES ASSUME ~Uncoded(NumBlocks, NumFecBlocks)
                 PROVE  Contiguous(enc_out_blocks, m_seq_num)'
    BY DEF GroupsContiguous, Contiguous
  <2>2. NumFecBlocks >= 1
    BY <2>1, ConstantFacts DEF Uncoded
  <2>3. Contiguous(enc_out_blocks, m_seq_num)
    BY <2>1, ContiguousForm DEF EncInv
  <2>4. Contiguous(enc_out_blocks \o GroupPackets(in), NextSeq(m_seq_num))
    BY <2>2, <2>3, GroupAppended DEF EncInv
  <2>5. QED
    BY <2>4
<1>5. NothingGathered'
  BY DEF NothingGathered
<1>6. QED
  BY <1>2, <1>3, <1>4, <1>5 DEF EncInv

LEMMA AddBlockEncInv ==
  ASSUME EncInv, NEW msg \in Messages, EncAddBlock(msg)
  PROVE  EncInv'
<1> DEFINE blk == GetNextBlock(msg)
           in  == Append(m_in_blocks, blk)
<1>1. blk \in Packets /\ Gathered(in) /\ Len(in) = Len(m_in_blocks) + 1
  BY AppendGathered DEF EncInv
<1> HIDE DEF blk
<1>2. m_in_blocks \in Seq(Packets) /\ Len(m_in_blocks) \in Nat
  BY LenProperties DEF EncInv, EncTypeOK
<1>3. CASE PassBlock(msg)
  <2>1. EncTypeOK'
    <3>1. enc_out_blocks' \in Seq(Packets)
      BY <1>1, <1>3, AppendProperties DEF EncInv, EncTypeOK, PassBlock, blk
    <3>2. m_seq_num' \in 1..(SeqMod - 1)
      BY <1>3, NextSeqType DEF EncInv, EncTypeOK, PassBlock
    <3>3. QED
      BY <1>2, <1>3, <3>1, <3>2 DEF EncTypeOK, PassBlock
  <2>2. m_in_blocks = <<>>
    BY <1>3 DEF EncInv, NothingGathered, PassBlock
  <2>3. GroupGathered'
    BY <1>3, <2>2 DEF GroupGathered, PassBlock
  <2>4. GroupsContiguous'
    BY <1>3 DEF GroupsContiguous, PassBlock
  <2>5. QED
    BY <1>3, <2>1, <2>2, <2>3, <2>4 DEF EncInv, NothingGathered, PassBlock
<1>4. CASE HoldBlock(msg)
  <2>1. m_in_blocks' = in /\ UNCHANGED <<m_seq_num, enc_out_blocks>>
    BY <1>4 DEF HoldBlock, blk
  <2>2. EncTypeOK'
    BY <1>1, <2>1 DEF EncInv, EncTypeOK, Gathered
  <2>3. Len(in) < NumBlocks
    <3>1. NumBlocks \in Nat /\ NumBlocks # 0 /\ Len(m_in_blocks) # NumBlocks - 1
      BY <1>4, ConstantFacts DEF HoldBlock, Uncoded
    <3>2. m_in_blocks = <<>> => Len(m_in_blocks) = 0
      OBVIOUS
    <3>3. Len(m_in_blocks) < NumBlocks
      BY <1>2, <3>1, <3>2 DEF EncInv, GroupGathered
    <3>4. QED
      BY <1>1, <1>2, <3>1, <3>3
  <2>4. GroupGathered'
    BY <1>1, <2>1, <2>3 DEF GroupGathered, Gathered
  <2>5. GroupsContiguous'
    BY <2>1 DEF EncInv, GroupsContiguous
  <2>6. NothingGathered'
    BY <1>4 DEF NothingGathered, HoldBlock
  <2>7. QED
    BY <2>2, <2>4, <2>5, <2>6 DEF EncInv
<1>5. CASE CompleteGroup(msg)
  BY <1>1, <1>5, EncodeBlocksEncInv DEF CompleteGroup, blk
<1>6. QED
  BY <1>3, <1>4, <1>5 DEF EncAddBlock

LEMMA FlushEncInv ==
  ASSUME EncInv, Flush
  PROVE  EncInv'
<1>1. Gathered(m_in_blocks)
  BY DEF EncInv, EncTypeOK, GroupGathered, Gathered, Flush
<1>2. QED
  BY <1>1, EncodeBlocksEncInv DEF Flush

(* Taking the first packet leaves a stream that is still contiguous.        *)
LEMMA GetBlockEncInv ==
  ASSUME EncInv, EncGetBlock
  PROVE  EncInv'
<1> DEFINE out == enc_out_blocks
           rest == Tail(enc_out_blocks)
<1>1. out \in Seq(Packets) /\ out # <<>> /\ Len(out) \in Nat
  BY LenProperties DEF EncInv, EncTypeOK, EncGetBlock
<1>2. /\ rest \in Seq(Packets)
      /\ Len(rest) = Len(out) - 1
      /\ \A i \in 1..Len(rest) : rest[i] = out[i + 1]
  BY <1>1, HeadTailProperties
<1>3. rest # <<>> => Len(rest) >= 1
  BY <1>2, EmptySeq, LenProperties
<1>4. /\ enc_out_blocks' = rest
      /\ UNCHANGED <<m_seq_num, m_in_blocks>>
  BY DEF EncGetBlock
<1> HIDE DEF out, rest
<1>5. EncTypeOK' /\ GroupGathered' /\ NothingGathered'
  BY <1>2, <1>4 DEF EncInv, EncTypeOK, GroupGathered, NothingGathered
<1>6. ASSUME Contiguous(out, m_seq_num)
      PROVE  Contiguous(rest, m_seq_num)
  <2>1. ASSUME NEW i \in 1..(Len(rest) - 1)
        PROVE  Follows(rest[i], rest[i + 1])
    <3>1. rest[i] = out[i + 1] /\ rest[i + 1] = out[(i + 1) + 1]
      BY <1>1, <1>2
    <3>2. i + 1 \in 1..(Len(out) - 1)
      BY <1>1, <1>2
    <3>3. Follows(out[i + 1], out[(i + 1) + 1])
      BY <1>6, <3>2 DEF Contiguous
    <3>4. QED
      BY <3>1, <3>3
  <2>2. rest # <<>> => rest[Len(rest)] = out[Len(out)]
    BY <1>1, <1>2, <1>3
  <2>3. QED
    BY <1>1, <1>6, <2>1, <2>2 DEF Contiguous
<1>7. GroupsContiguous'
  <2>1. GroupsContiguous
    BY DEF EncInv
  <2>2. ~Uncoded(NumBlocks, NumFecBlocks) => Contiguous(rest, m_seq_num)
    BY <1>6, <2>1, ContiguousForm DEF out
  <2>3. QED
    BY <1>4, <2>2 DEF GroupsContiguous, Contiguous
<1>8. QED
  BY <1>5, <1>7 DEF EncInv

LEMMA NextEncInv == EncInv /\ [EncNext]_encVars => EncInv'
<1> SUFFICES ASSUME EncInv, [EncNext]_encVars PROVE EncInv'
  OBVIOUS
<1>1. ASSUME NEW msg \in Messages, EncAddBlock(msg) PROVE EncInv'
  BY <1>1, AddBlockEncInv
<1>2. CASE Flush
  BY <1>2, FlushEncInv
<1>3. CASE EncGetBlock
  BY <1>3, GetBlockEncInv
<1>4. CASE UNCHANGED encVars
  BY <1>4 DEF encVars, EncInv, EncTypeOK, GroupGathered, NothingGathered,
              GroupsContiguous
<1>5. QED
  BY <1>1, <1>2, <1>3, <1>4 DEF EncNext

THEOREM EncInvariant == EncSpec => []EncInv
<1>1. QED
  BY InitEncInv, NextEncInv, PTL DEF EncSpec

(* The sequence number never becomes 0, which the decoder keeps for "no     *)
(* packet yet", and every packet carries fields of the header's types.      *)
THEOREM EncoderTypeOK == EncSpec => []EncTypeOK
<1>1. EncInv => EncTypeOK
  BY DEF EncInv
<1>2. QED
  BY <1>1, EncInvariant, PTL

(* add_block() and encode_blocks() agree on the group being gathered: its   *)
(* size, its numbering and its sequence number.                             *)
THEOREM EncoderGathers == EncSpec => []GroupGathered
<1>1. EncInv => GroupGathered
  BY DEF EncInv
<1>2. QED
  BY <1>1, EncInvariant, PTL

(* A coded link sends whole groups, in sequence, each numbered from 0 to    *)
(* its last FEC block, whatever the pattern of adds, flushes and gets.      *)
THEOREM EncoderContiguous == EncSpec => []GroupsContiguous
<1>1. EncInv => GroupsContiguous
  BY DEF EncInv
<1>2. QED
  BY <1>1, EncInvariant, PTL

=============================================================================
