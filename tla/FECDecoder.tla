----------------------------- MODULE FECDecoder -----------------------------
(***************************************************************************)
(* FECDecoder of src/fec.cc: collects the blocks of the group being        *)
(* received, releases data blocks as long as none is missing, and rebuilds *)
(* the missing ones once as many blocks as the group has data blocks came  *)
(* in.  m_stats.bytes, which is only reported, is left out.                *)
(***************************************************************************)
EXTENDS FECBlock, FiniteSets

VARIABLES
  m_block_size,    \* largest block of the current group, 0 between groups
  m_prev_header,   \* sequence and block number of the previous packet
  m_blocks,        \* data blocks of the current group
  m_fec_blocks,    \* FEC blocks of the current group
  dec_out_blocks,  \* m_out_blocks: what the decoder releases
  m_stats          \* its counters

decVars ==
  <<m_block_size, m_prev_header, m_blocks, m_fec_blocks, dec_out_blocks, m_stats>>

(* A released block: whose bytes it holds (0: no message's), the length its *)
(* header claims, and whether those bytes are all there.                    *)
Released(id, length, room) ==
  [id |-> id, length |-> length, intact |-> id # 0 /\ length <= room]

ReleasedPacket(p) == Released(p.msgs[1].id, DataLength(p), p.room)

(*************************** Sequence accounting ***************************)

UnrolledSeq(p) ==
  IF m_prev_header.seq_num > p.seq_num THEN p.seq_num + SeqMod ELSE p.seq_num

NewSequence(p) == UnrolledSeq(p) # m_prev_header.seq_num

(* A packet of another group while one is incomplete: it is given up.       *)
Break(p) == m_block_size # 0 /\ NewSequence(p)

(* What is left of the current group once a break has been dealt with.      *)
KeptSize(p) == IF Break(p) THEN 0 ELSE m_block_size

(* Mutant: the data blocks survive the break.                               *)
KeptBlocksAlways(p) == m_blocks
KeptBlocks(p) == IF Break(p) THEN <<>> ELSE m_blocks

KeptFecBlocks(p) == IF Break(p) THEN <<>> ELSE m_fec_blocks

(* Packets counted as dropped before p: at a break, the distance between    *)
(* the two packets in a numbering that gives every group p's size; within   *)
(* a group the gap, or one for a block number that does not increase.       *)
PacketNumber(seq, block, p) == seq * (p.n_blocks + p.n_fec_blocks) + block

(* Mutant: the packet itself counts as part of the gap.                     *)
BlockGapInclusive(p) == p.block - m_prev_header.block
BlockGap(p) == p.block - m_prev_header.block - 1

Skipped(p) ==
  LET pbn == PacketNumber(m_prev_header.seq_num, m_prev_header.block, p)
      bn  == PacketNumber(UnrolledSeq(p), p.block, p)
  IN  IF m_block_size = 0 THEN 0
      ELSE IF NewSequence(p) THEN (IF pbn < bn THEN bn - pbn ELSE 0)
      ELSE IF p.block <= m_prev_header.block THEN 1
      ELSE BlockGap(p)

SkippedAtStart(p) == IF KeptSize(p) = 0 THEN p.block ELSE 0

LostGroups(p) ==
  IF Break(p) THEN UnrolledSeq(p) - m_prev_header.seq_num ELSE 0

(* A sequence number below the previous one, which unrolling rules out.     *)
LostSync(p) ==
  IF Break(p) /\ UnrolledSeq(p) < m_prev_header.seq_num THEN 1 ELSE 0

Count(p) ==
  [m_stats EXCEPT !.total_packets = @ + 1,
                  !.dropped_packets = @ + Skipped(p) + SkippedAtStart(p),
                  !.dropped_blocks = @ + LostGroups(p),
                  !.lost_sync = @ + LostSync(p)]

(******************************** Decoding *********************************)

Index(blocks) == {blocks[i].block : i \in 1..Len(blocks)}

Erased(blocks) == (0..(blocks[1].n_blocks - 1)) \ Index(blocks)

(* fec_decode() rebuilds the erased blocks from as many FEC blocks, all of  *)
(* them different rows of the same group as the data blocks.  From anything *)
(* else it computes bytes that belong to no message.                        *)
Solvable(blocks, fecs) ==
  /\ Cardinality(Erased(blocks)) = Len(fecs)
  /\ Cardinality(Index(fecs)) = Len(fecs)
  /\ \A i \in 1..Len(fecs) :
       /\ fecs[i].n_blocks = blocks[1].n_blocks
       /\ fecs[i].msgs = fecs[1].msgs
  /\ \A i \in 1..Len(blocks) : fecs[1].msgs[blocks[i].block + 1] = blocks[i].msgs[1]

(* The lengths garbage can claim: none, one that passes the check on the    *)
(* length, one that does not.                                               *)
GarbageLengths(size) == {0, 1, size + 1}

(* Block i after fec_decode() over the first `size' bytes: a block received *)
(* (the last one of that number), a block rebuilt, or garbage.              *)
DecodedBlock(i, blocks, fecs, size, garbage) ==
  IF i \in Index(blocks)
  THEN ReleasedPacket(blocks[CHOOSE k \in 1..Len(blocks) :
                               /\ blocks[k].block = i
                               /\ \A j \in (k + 1)..Len(blocks) : blocks[j].block # i])
  ELSE IF Solvable(blocks, fecs)
  THEN Released(fecs[1].msgs[i + 1].id, fecs[1].msgs[i + 1].length, size - 2)
  ELSE Released(0, garbage[i], 0)

(* The blocks decode() considers, from the first erased one on; those that  *)
(* claim more than `size' bytes are dropped.                                *)
FirstErased(blocks) ==
  CHOOSE e \in Erased(blocks) : \A f \in Erased(blocks) : e <= f

(* Mutant: the blocks released before the gap are released again.           *)
DecodedFromStart(blocks, fecs, size, garbage) ==
  [k \in 1..blocks[1].n_blocks |-> DecodedBlock(k - 1, blocks, fecs, size, garbage)]

Decoded(blocks, fecs, size, garbage) ==
  LET first == FirstErased(blocks)
  IN  [k \in 1..(blocks[1].n_blocks - first) |->
         DecodedBlock(first + k - 1, blocks, fecs, size, garbage)]

(* The k-th position of a set of them, and what a list has at its positions. *)
Nth(S, k) == CHOOSE i \in S : Cardinality({j \in S : j <= i}) = k

Sublist(list, S) == [k \in 1..Cardinality(S) |-> list[Nth(S, k)]]

(* Mutant: the longest block no longer passes.                              *)
AcceptableShorter(released, size) ==
  Sublist(released, {i \in 1..Len(released) : released[i].length < size - 2})

Acceptable(released, size) ==
  Sublist(released, {i \in 1..Len(released) : released[i].length <= size})

(********************************* Actions *********************************)

(* The packets missing before one of a link without coding, in 16 bits:     *)
(* the same number again counts 65535.                                      *)
Gap(p) == (UnrolledSeq(p) - m_prev_header.seq_num - 1) % 65536

(* A block of a link without coding goes straight through.                  *)
PassThrough(p) ==
  /\ Uncoded(p.n_blocks, p.n_fec_blocks)
  /\ dec_out_blocks' = Append(dec_out_blocks, ReleasedPacket(p))
  /\ m_prev_header' = [seq_num |-> p.seq_num, block |-> p.block]
  /\ m_stats' = [m_stats EXCEPT !.total_packets = @ + 1,
                                !.dropped_packets = @ + Gap(p),
                                !.dropped_blocks = @ + Gap(p)]
  /\ UNCHANGED <<m_block_size, m_blocks, m_fec_blocks>>

(* The rest of a group that is already complete.                            *)
SkipBlock(p) ==
  /\ ~Uncoded(p.n_blocks, p.n_fec_blocks)
  /\ m_block_size = 0
  /\ ~NewSequence(p)
  /\ m_prev_header' = [seq_num |-> p.seq_num, block |-> p.block]
  /\ m_stats' = [m_stats EXCEPT !.total_packets = @ + 1]
  /\ UNCHANGED <<m_block_size, m_blocks, m_fec_blocks, dec_out_blocks>>

(* The guard of the rest of add_block().                                    *)
Accepts(p) ==
  /\ ~Uncoded(p.n_blocks, p.n_fec_blocks)
  /\ m_block_size # 0 \/ NewSequence(p)

(* What the two completion branches clear.                                  *)
ClearGroup ==
  /\ m_block_size' = 0
  /\ m_blocks' = <<>>
  /\ m_fec_blocks' = <<>>

(* Mutant: compares with the number of blocks.                              *)
NoGapOneLate(blocks, p) == Len(blocks) = p.block

(* "Release the block if we don't have a gap."                              *)
NoGap(blocks, p) == Len(blocks) - 1 = p.block

AddDataBlock(p) ==
  LET blocks == Append(KeptBlocks(p), p)
      size   == IF KeptSize(p) > BlockSize(p) THEN KeptSize(p) ELSE BlockSize(p)
  IN
  /\ Accepts(p)
  /\ IsDataBlock(p)
  /\ m_prev_header' = [seq_num |-> p.seq_num, block |-> p.block]
  /\ dec_out_blocks' = IF NoGap(blocks, p)
                       THEN Append(dec_out_blocks, ReleasedPacket(p))
                       ELSE dec_out_blocks
  /\ \/ /\ Len(blocks) = p.n_blocks
        /\ ClearGroup
        /\ m_stats' = [Count(p) EXCEPT !.total_blocks = @ + 1]
     \/ /\ Len(blocks) # p.n_blocks
        /\ m_block_size' = size
        /\ m_blocks' = blocks
        /\ m_fec_blocks' = KeptFecBlocks(p)
        /\ m_stats' = Count(p)

HoldFecBlock(p) ==
  /\ Accepts(p)
  /\ ~IsDataBlock(p)
  /\ Len(KeptBlocks(p)) + Len(KeptFecBlocks(p)) + 1 # p.n_blocks
  /\ m_prev_header' = [seq_num |-> p.seq_num, block |-> p.block]
  /\ m_block_size' = KeptSize(p)
  /\ m_blocks' = KeptBlocks(p)
  /\ m_fec_blocks' = Append(KeptFecBlocks(p), p)
  /\ m_stats' = Count(p)
  /\ UNCHANGED dec_out_blocks

(* Enough blocks: decode() and start over.  Without a single data block     *)
(* decode() returns at once, and a group that claims more blocks than there *)
(* are only counts as lost_sync; either way the group counts as received.   *)
(* With nothing erased, which takes blocks of groups of different sizes,    *)
(* erased_block_idxs[0] is read from an empty vector and the process dies:  *)
(* no step.                                                                 *)
DecodeGroup(p) ==
  LET blocks == KeptBlocks(p)
      fecs   == Append(KeptFecBlocks(p), p)
      counts == [Count(p) EXCEPT !.total_blocks = @ + 1]
  IN
  /\ Accepts(p)
  /\ ~IsDataBlock(p)
  /\ Len(blocks) + Len(fecs) = p.n_blocks
  /\ m_prev_header' = [seq_num |-> p.seq_num, block |-> p.block]
  /\ ClearGroup
  /\ \/ /\ blocks = <<>>
        /\ m_stats' = counts
        /\ UNCHANGED dec_out_blocks
     \/ /\ blocks # <<>>
        /\ blocks[1].n_blocks > Len(blocks) + Len(fecs)
        /\ m_stats' = [counts EXCEPT !.lost_sync = @ + 1]
        /\ UNCHANGED dec_out_blocks
     \/ /\ blocks # <<>>
        /\ blocks[1].n_blocks <= Len(blocks) + Len(fecs)
        /\ Erased(blocks) # {}
        /\ \E garbage \in [Erased(blocks) -> GarbageLengths(m_block_size)] :
             LET released == Decoded(blocks, fecs, m_block_size, garbage)
                 accepted == Acceptable(released, m_block_size)
             IN  /\ dec_out_blocks' = dec_out_blocks \o accepted
                 /\ m_stats' = [counts EXCEPT !.dropped_blocks =
                                   @ + Len(released) - Len(accepted)]

DecAddBlock(p) ==
  \/ PassThrough(p)
  \/ SkipBlock(p)
  \/ AddDataBlock(p)
  \/ HoldFecBlock(p)
  \/ DecodeGroup(p)

DecGetBlock ==
  /\ dec_out_blocks # <<>>
  /\ dec_out_blocks' = Tail(dec_out_blocks)
  /\ UNCHANGED <<m_block_size, m_prev_header, m_blocks, m_fec_blocks, m_stats>>

(* The header constructor zeroes the previous header.                       *)
DecInit ==
  /\ m_block_size = 0
  /\ m_prev_header = [seq_num |-> 0, block |-> 0]
  /\ m_blocks = <<>>
  /\ m_fec_blocks = <<>>
  /\ dec_out_blocks = <<>>
  /\ m_stats = [total_blocks |-> 0, total_packets |-> 0, dropped_blocks |-> 0,
                dropped_packets |-> 0, lost_sync |-> 0]

DecTypeOK ==
  /\ m_block_size \in Nat
  /\ m_prev_header \in [seq_num : 0..(SeqMod - 1), block : Nat]
  /\ m_blocks \in Seq(Packets)
  /\ m_fec_blocks \in Seq(Packets)
  /\ dec_out_blocks \in Seq([id : Ids \cup {0}, length : Nat, intact : BOOLEAN])
  /\ m_stats \in [total_blocks : Nat, total_packets : Nat, dropped_blocks : Nat,
                  dropped_packets : Nat, lost_sync : Nat]

=============================================================================
