----------------------------- MODULE FECEncoder -----------------------------
(***************************************************************************)
(* FECEncoder of src/fec.cc: gathers data blocks into a group, and once    *)
(* the group is full, or flushed early, releases its data blocks followed  *)
(* by the FEC blocks computed from them.  A link without coding releases   *)
(* every block at once.                                                    *)
(***************************************************************************)
EXTENDS FECBlock, FiniteSets

CONSTANTS
  StartSeq,   \* start_seq_num of the constructor
  OutBound    \* bound: packets a caller lets pile up before it adds another

ASSUME StartAssumption ==
  /\ StartSeq \in 1..(SeqMod - 1)
  /\ OutBound \in Nat

VARIABLES
  m_seq_num,       \* sequence number of the group being gathered
  m_in_blocks,     \* data blocks of the group being gathered
  enc_out_blocks   \* m_out_blocks: packets ready to be sent

encVars == <<m_seq_num, m_in_blocks, enc_out_blocks>>

(* The next data block and its header, get_next_block() and the first lines *)
(* of add_block().  Its buffer holds MaxBlockSize bytes after the header,   *)
(* two of them the length field.                                            *)
GetNextBlock(msg) ==
  [seq_num |-> m_seq_num, block |-> Len(m_in_blocks), n_blocks |-> NumBlocks,
   n_fec_blocks |-> NumFecBlocks, msgs |-> <<msg>>, room |-> MaxBlockSize - 2]

(* The largest data length of a group: the bytes some block of it uses.     *)
MaxLength(in) ==
  Cardinality({b \in 1..MaxBlockSize : \E i \in 1..Len(in) : b <= DataLength(in[i])})

(* The packets of a group: its data blocks cut to the largest of them and   *)
(* told how many they are, then the FEC blocks of the same size.            *)
DataPackets(in) ==
  [i \in 1..Len(in) |->
     [in[i] EXCEPT !.n_blocks = Len(in), !.room = MaxLength(in)]]

(* Mutant: FEC blocks numbered one too high.                                *)
FecPacketsOneHigh(in) ==
  [i \in 1..NumFecBlocks |->
     [seq_num |-> m_seq_num, block |-> Len(in) + i, n_blocks |-> Len(in),
      n_fec_blocks |-> NumFecBlocks,
      msgs |-> [j \in 1..Len(in) |-> in[j].msgs[1]], room |-> MaxLength(in)]]

FecPackets(in) ==
  [i \in 1..NumFecBlocks |->
     [seq_num |-> m_seq_num, block |-> Len(in) + i - 1, n_blocks |-> Len(in),
      n_fec_blocks |-> NumFecBlocks,
      msgs |-> [j \in 1..Len(in) |-> in[j].msgs[1]], room |-> MaxLength(in)]]

GroupPackets(in) == DataPackets(in) \o FecPackets(in)

(* Mutant: the blocks of the group are not cleared.                         *)
EncodeBlocksKeeping(in) ==
  /\ enc_out_blocks' = enc_out_blocks \o GroupPackets(in)
  /\ m_seq_num' = NextSeq(m_seq_num)
  /\ UNCHANGED m_in_blocks

EncodeBlocks(in) ==
  /\ enc_out_blocks' = enc_out_blocks \o GroupPackets(in)
  /\ m_seq_num' = NextSeq(m_seq_num)
  /\ m_in_blocks' = <<>>

PassBlock(msg) ==
  /\ Uncoded(NumBlocks, NumFecBlocks)
  /\ enc_out_blocks' = Append(enc_out_blocks, GetNextBlock(msg))
  /\ m_seq_num' = NextSeq(m_seq_num)
  /\ UNCHANGED m_in_blocks

HoldBlock(msg) ==
  /\ ~Uncoded(NumBlocks, NumFecBlocks)
  /\ Len(m_in_blocks) # NumBlocks - 1
  /\ m_in_blocks' = Append(m_in_blocks, GetNextBlock(msg))
  /\ UNCHANGED <<m_seq_num, enc_out_blocks>>

CompleteGroup(msg) ==
  /\ ~Uncoded(NumBlocks, NumFecBlocks)
  /\ Len(m_in_blocks) = NumBlocks - 1
  /\ EncodeBlocks(Append(m_in_blocks, GetNextBlock(msg)))

EncAddBlock(msg) == PassBlock(msg) \/ HoldBlock(msg) \/ CompleteGroup(msg)

(* flush(): encode_blocks() returns at once when nothing is held.           *)
Flush ==
  /\ m_in_blocks # <<>>
  /\ EncodeBlocks(m_in_blocks)

EncGetBlock ==
  /\ enc_out_blocks # <<>>
  /\ enc_out_blocks' = Tail(enc_out_blocks)
  /\ UNCHANGED <<m_seq_num, m_in_blocks>>

EncInit ==
  /\ m_seq_num = StartSeq
  /\ m_in_blocks = <<>>
  /\ enc_out_blocks = <<>>

EncNext ==
  \/ /\ Len(enc_out_blocks) <= OutBound
     /\ \/ \E msg \in Messages : EncAddBlock(msg)
        \/ Flush
  \/ EncGetBlock

EncSpec == EncInit /\ [][EncNext]_encVars

EncTypeOK ==
  /\ m_seq_num \in 1..(SeqMod - 1)
  /\ m_in_blocks \in Seq(Packets)
  /\ enc_out_blocks \in Seq(Packets)

(* A group never grows past its size, and the blocks it holds are numbered  *)
(* as they came, under the number the next group will be sent with          *)
(* (add_block and encode_blocks agree, whatever flushes come between).      *)
GroupGathered ==
  /\ m_in_blocks # <<>> => Len(m_in_blocks) < NumBlocks
  /\ \A i \in 1..Len(m_in_blocks) :
       /\ m_in_blocks[i].block = i - 1
       /\ m_in_blocks[i].seq_num = m_seq_num
       /\ m_in_blocks[i].n_fec_blocks = NumFecBlocks
       /\ Len(m_in_blocks[i].msgs) = 1

(* Within one group the blocks follow each other; the next group starts at  *)
(* block 0 under the next sequence number, right after the last FEC block.  *)
Follows(p, q) ==
  \/ /\ q.seq_num = p.seq_num
     /\ q.n_blocks = p.n_blocks
     /\ q.block = p.block + 1
     /\ q.block < p.n_blocks + p.n_fec_blocks
  \/ /\ q.seq_num = NextSeq(p.seq_num)
     /\ q.block = 0
     /\ p.block + 1 = p.n_blocks + p.n_fec_blocks

(* The stream a coded link puts on the air consists of whole groups in      *)
(* sequence, ending just before the group being gathered: no block of a     *)
(* later group, and no early flush, ever lands inside a group.              *)
GroupsContiguous ==
  ~Uncoded(NumBlocks, NumFecBlocks) =>
    /\ \A i \in 1..(Len(enc_out_blocks) - 1) :
         Follows(enc_out_blocks[i], enc_out_blocks[i + 1])
    /\ enc_out_blocks # <<>> =>
         LET last == enc_out_blocks[Len(enc_out_blocks)]
         IN  /\ last.block + 1 = last.n_blocks + last.n_fec_blocks
             /\ m_seq_num = NextSeq(last.seq_num)

=============================================================================
