------------------------------ MODULE FECBlock ------------------------------
(***************************************************************************)
(* The packet that travels over the radio: FECHeader and FECBlock of       *)
(* include/wifibroadcast/fec.hh.                                           *)
(*                                                                         *)
(* A message handed to the link is [id, length]; id stands for its bytes.  *)
(* A packet carries the header fields and                                  *)
(*   msgs  what its payload encodes: the one message of a data block, or   *)
(*         every message of the group for an FEC block (a row of the code  *)
(*         is a combination of all of them);                               *)
(*   room  the payload bytes the packet has on the air, pkt_length() less  *)
(*         the six header bytes.                                           *)
(* The length field lies inside the region the code protects, so an FEC    *)
(* block has no readable length: only data blocks are asked for it.        *)
(***************************************************************************)
EXTENDS Integers, Sequences

CONSTANTS
  NumBlocks,     \* data blocks per group ("blocks" of a link; 0: no coding)
  NumFecBlocks,  \* FEC blocks per group ("fec" of a link; 0: no coding)
  MaxBlockSize,  \* blocksize: the space of one block, length field included
  SeqMod,        \* one more than the largest sequence number (256: uint8_t)
  Lengths,       \* lengths of the messages offered to the link
  Ids            \* identities of those messages; 0 is kept for garbage

(* fec.c works on at most 128 data and 128 FEC blocks; the TUN device never *)
(* hands over more than blocksize bytes.                                    *)
ASSUME BlockAssumption ==
  /\ NumBlocks \in 0..128
  /\ NumFecBlocks \in 0..128
  /\ MaxBlockSize \in Nat
  /\ MaxBlockSize > 2
  /\ SeqMod \in Nat
  /\ SeqMod > 2
  /\ Lengths \subseteq 1..MaxBlockSize
  /\ Ids \subseteq Nat \ {0}

Messages == [id : Ids, length : Lengths]

Packets ==
  [seq_num : 0..(SeqMod - 1), block : Nat, n_blocks : Nat, n_fec_blocks : Nat,
   msgs : Seq(Messages), room : Nat]

(* A block with no coding: (num_blocks == 0) || (num_fec_blocks == 0).      *)
Uncoded(n, nfec) == n = 0 \/ nfec = 0

DataLength(p) == p.msgs[1].length

(* block_size(): the data and its two length bytes.                         *)
BlockSize(p) == DataLength(p) + 2

IsDataBlock(p) == p.block < p.n_blocks

(* Mutant: zero is not skipped.                                             *)
NextSeqWithZero(s) == IF s = SeqMod - 1 THEN 0 ELSE s + 1

(* ++m_seq_num in a byte, skipping zero.                                    *)
NextSeq(s) == IF s = SeqMod - 1 THEN 1 ELSE s + 1

=============================================================================
