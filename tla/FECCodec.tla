------------------------------ MODULE FECCodec ------------------------------
(***************************************************************************)
(* The codec of src/fec.c at work, symbol by symbol: fec_init() filling    *)
(* the multiplication table, fec_encode() on the sending side, fec_decode()*)
(* on the receiving side, and encode_buffer() of FECBufferEncoder.         *)
(*                                                                         *)
(* Two programs use it.  In the bridge the encoders are constructed before *)
(* any thread exists, but the decode thread constructs its decoders, each  *)
(* of which runs fec_init() again, while the send thread may be encoding   *)
(* already.  In the test program one thread does everything, on buffers.   *)
(*                                                                         *)
(* A block is the region the code protects: the length of its data (two    *)
(* bytes, one symbol here), the data, and zeros up to the size of the      *)
(* group.  Assertions are compiled out (-DNDEBUG).                         *)
(***************************************************************************)
EXTENDS GaloisField, Sequences, SequencesExt

CONSTANTS
  UNROLL,      \* symbols per turn of the unrolled loops
  Groups,      \* what the bridge encodes: [msgs, nfec]
  Buffers,     \* what the test program encodes: [buf, max, fec_ratio]
  SeqLimit,    \* one more than the largest sequence number (256: uint8_t)
  MaxInits,    \* bound: runs of fec_init() (one per encoder and decoder)
  MaxBuffers   \* bound: buffers of one run of the test program

(* A group has at most 128 blocks of each kind; the two bytes of a length   *)
(* and the data fit into a block.  fec_ratio is a pair, the ratio in lowest *)
(* terms.                                                                   *)
ASSUME CodecAssumption ==
  /\ UNROLL \in Nat \ {0}
  /\ SeqLimit \in Nat /\ SeqLimit > 2
  /\ MaxInits \in Nat /\ MaxBuffers \in Nat
  /\ \A g \in Groups :
       /\ Len(g.msgs) \in 1..Half /\ g.nfec \in 1..Half
       /\ \A i \in 1..Len(g.msgs) : g.msgs[i] \in Seq(GF) /\ Len(g.msgs[i]) \in GF
  /\ \A b \in Buffers :
       b.buf \in Seq(GF) /\ b.max \in Nat \ {0} /\ b.fec_ratio \in Nat \X (Nat \ {0})
       /\ b.buf # <<>>

VARIABLES
  program,        \* which program runs: "bridge" or "test"
  gf_mul_table,   \* the table in memory
  init_row,       \* next row fec_init() fills, GF_SIZE + 1: the zeros; or Idle
  inits,          \* runs of fec_init() begun
  pc,             \* where the group is: see below
  msgs,           \* the data of its blocks
  nfec,           \* number of its FEC blocks
  fec,            \* its FEC blocks, as far as they are computed
  at,             \* next turn of the loops of fec_encode()
  erased,         \* erased_blocks: indexes of the data blocks lost, increasing
  fec_block_nos,  \* numbers of the FEC blocks received, in order of arrival
  rows,           \* those FEC blocks, reduced
  matrix,         \* of invert_mat()
  pivots,         \* <<irow, icol>> of each column done
  rebuilt,        \* the blocks fec_decode() computed, by index
  m_seq_num,      \* of FECBufferEncoder
  overlapped,     \* history: the group was encoded while fec_init() ran
  singular,       \* history: invert_mat() found no pivot
  sent            \* history: the buffer, and the numbers of it and the one before

tableVars == <<gf_mul_table, init_row, inits>>
groupVars == <<msgs, nfec, fec, at, overlapped>>
decodeVars == <<erased, fec_block_nos, rows, matrix, pivots, rebuilt, singular>>
bufferVars == <<m_seq_num, sent>>
vars == <<program, tableVars, pc, groupVars, decodeVars, bufferVars>>

Idle == -1

NBlocks == Len(msgs)

(* The size of the group, the length symbol included.                       *)
SizeOf(ms) == Max({Len(ms[i]) : i \in 1..Len(ms)}) + 1
GroupSize == SizeOf(msgs)

Padded(m, size) ==
  [p \in 1..size |-> IF p = 1 THEN Len(m) ELSE IF p - 1 <= Len(m) THEN m[p - 1] ELSE 0]

Block(i) == Padded(msgs[i], GroupSize)

(****************************** fec_init() *********************************)

(* main() constructs encoders before it starts a thread, the test program a *)
(* decoder before it encodes: the first run meets nobody.                   *)
Initialized == init_row = Idle \/ inits > 1

(* The decode thread of the bridge constructs its next decoder.             *)
FecInit ==
  /\ program = "bridge"
  /\ init_row = Idle
  /\ inits < MaxInits
  /\ init_row' = 0
  /\ inits' = inits + 1
  /\ UNCHANGED <<program, gf_mul_table, pc, groupVars, decodeVars, bufferVars>>

(* A row of the first loops of init_mul_table().  generate_gf() has stored  *)
(* what gf_exp, gf_log and inverse hold already.                            *)
InitMulRow ==
  /\ init_row \in GF
  /\ gf_mul_table' = [gf_mul_table EXCEPT
                        ![init_row] = [j \in GF |-> LogProduct(init_row, j)]]
  /\ init_row' = init_row + 1
  /\ UNCHANGED <<program, inits, pc, groupVars, decodeVars, bufferVars>>

(* Mutant: only the row is cleared.                                         *)
InitZeroRowOnly ==
  /\ init_row = GF_SIZE + 1
  /\ gf_mul_table' = [gf_mul_table EXCEPT ![0] = [j \in GF |-> 0]]
  /\ init_row' = Idle
  /\ UNCHANGED <<program, inits, pc, groupVars, decodeVars, bufferVars>>

(* Its last loop.                                                           *)
InitZero ==
  /\ init_row = GF_SIZE + 1
  /\ gf_mul_table' = [i \in GF |-> [j \in GF |->
                        IF i = 0 \/ j = 0 THEN 0 ELSE gf_mul_table[i][j]]]
  /\ init_row' = Idle
  /\ UNCHANGED <<program, inits, pc, groupVars, decodeVars, bufferVars>>

(* What another thread may read: the table as it is, or, since nothing      *)
(* orders its reads with the stores of a running fec_init(), anything that  *)
(* run stores there.                                                        *)
TableReads(c, x) ==
  {gf_mul_table[c][x]} \cup
    IF init_row # Idle THEN {LogProduct(c, x), MulTable[c][x]} ELSE {}

(****************************** fec_encode() *******************************)

(* Symbols of one turn: the unrolled loop while a full turn is left (lim),  *)
(* then the final components one by one.                                    *)
Turn(pos, size) == IF pos < size - UNROLL + 1 THEN UNROLL ELSE 1

(* Mutant: the columns are counted from the first block again.              *)
CoefficientRepeated(row, blockNo) ==
  inverse[Plus[row][Half + (IF blockNo = 0 THEN 1 ELSE blockNo)]]

(* inverse[128 ^ row], inverse[row ^ col] with col counting from 129.       *)
Coefficient(row, blockNo) == inverse[Plus[row][Half + blockNo]]

(* One turn of mul() for the first block, of addmul() for the others.       *)
EncodeTurn ==
  LET c     == Coefficient(at.row, at.blockNo)
      turn  == (at.pos + 1)..(at.pos + Turn(at.pos, GroupSize))
      src   == Block(at.blockNo + 1)
      old   == fec[at.row + 1]
      next  == at.pos + Turn(at.pos, GroupSize)
  IN
  /\ pc = "encode"
  /\ program = "test" => init_row = Idle
  /\ \E v \in {f \in [turn -> GF] : \A p \in turn : f[p] \in TableReads(c, src[p])} :
       fec' = [fec EXCEPT ![at.row + 1] =
                 [p \in 1..GroupSize |->
                    IF p \notin turn THEN old[p]
                    ELSE IF at.blockNo = 0 THEN v[p] ELSE Plus[old[p]][v[p]]]]
  /\ overlapped' = (overlapped \/ init_row # Idle)
  /\ at' = IF next < GroupSize THEN [at EXCEPT !.pos = next]
           ELSE IF at.row + 1 < nfec THEN [at EXCEPT !.pos = 0, !.row = @ + 1]
           ELSE [blockNo |-> at.blockNo + 1, row |-> 0, pos |-> 0]
  /\ pc' = IF at'.blockNo = NBlocks THEN "air" ELSE "encode"
  /\ UNCHANGED <<program, tableVars, msgs, nfec, decodeVars, bufferVars>>

Start == [blockNo |-> 0, row |-> 0, pos |-> 0]

(* A group begins: FEC blocks are allocated and zeroed.                     *)
BeginGroup(ms, n) ==
  /\ msgs' = ms
  /\ nfec' = n
  /\ fec' = [r \in 1..n |-> [p \in 1..SizeOf(ms) |-> 0]]
  /\ at' = Start
  /\ overlapped' = FALSE
  /\ pc' = IF n = 0 THEN "air" ELSE "encode"

(* encode_blocks() of the bridge.                                           *)
EncodeGroup(g) ==
  /\ program = "bridge"
  /\ Initialized
  /\ pc = "idle"
  /\ BeginGroup(g.msgs, g.nfec)
  /\ UNCHANGED <<program, tableVars, decodeVars, bufferVars>>

(**************************** FECBufferEncoder *****************************)

CeilDiv(a, b) == (a + b - 1) \div b

NumBufferBlocks(b) == CeilDiv(Len(b.buf), b.max)

(* Mutant: the size is rounded down.                                        *)
BufferBlockSizeDown(b) ==
  IF Len(b.buf) <= b.max THEN Len(b.buf) ELSE Len(b.buf) \div NumBufferBlocks(b)

BufferBlockSize(b) ==
  IF Len(b.buf) <= b.max THEN Len(b.buf) ELSE CeilDiv(Len(b.buf), NumBufferBlocks(b))

(* The buffer cut into blocks of that size, the last one with what is left. *)
CutBuffer(b) ==
  LET size == BufferBlockSize(b)
  IN  [i \in 1..NumBufferBlocks(b) |->
         SubSeq(b.buf, (i - 1) * size + 1, Min({i * size, Len(b.buf)}))]

NumBufferFec(b) == CeilDiv(NumBufferBlocks(b) * b.fec_ratio[1], b.fec_ratio[2])

(* A block has room for its data and two bytes of length, and fec.c for the *)
(* blocks, unless encode_buffer() refuses them.                             *)
ASSUME BufferAssumption ==
  \A b \in Buffers :
    /\ BufferBlockSize(b) + 2 <= b.max
    /\ NumBufferBlocks(b) <= Half \/ NumBufferBlocks(b) > GF_SIZE
    /\ NumBufferFec(b) <= Half

(* m_seq_num++ in a byte, skipping zero.                                    *)
NextSeq(s) == IF s = SeqLimit - 1 THEN 1 ELSE s + 1

(* encode_buffer(): its encoder runs fec_init() in the same thread.  More   *)
(* than 255 blocks give nothing.                                            *)
EncodeBuffer(b) ==
  /\ program = "test"
  /\ init_row = Idle
  /\ pc = "idle"
  /\ inits <= MaxBuffers
  /\ NumBufferBlocks(b) <= GF_SIZE
  /\ init_row' = 0
  /\ inits' = inits + 1
  /\ BeginGroup(CutBuffer(b), NumBufferFec(b))
  /\ m_seq_num' = NextSeq(m_seq_num)
  /\ sent' = [buf |-> b.buf, seq |-> m_seq_num, prev |-> sent.seq]
  /\ UNCHANGED <<program, gf_mul_table, decodeVars>>

(****************************** fec_decode() *******************************)

(* The receiving side has run its fec_inits before it takes a packet: its   *)
(* table is MulTable.                                                       *)
Times(src, c) == [p \in DOMAIN src |-> MulTable[c][src[p]]]
PlusTimes(dst, src, c) == [p \in DOMAIN dst |-> Plus[dst[p]][MulTable[c][src[p]]]]

Received == (0..(NBlocks - 1)) \ Range(erased)

(* m_block_size: of the largest data block received.                        *)
DecodeSize == Max({Len(msgs[i + 1]) + 1 : i \in Received})

Increasing(s) == \A i, j \in 1..Len(s) : i < j => s[i] < s[j]

(* The radio loses data blocks, not all of them, and leaves as many FEC     *)
(* blocks: in order in the test program, in any order and perhaps one twice *)
(* where a relay repeats packets.                                           *)
Receive(lost, nos) ==
  /\ pc = "air"
  /\ erased' = SetToSortSeq(lost, <)
  /\ fec_block_nos' = nos
  /\ program = "test" => Increasing(nos)
  /\ pc' = IF lost = {} THEN "done" ELSE "decode"
  /\ UNCHANGED <<program, tableVars, groupVars, rows, matrix, pivots, rebuilt,
                 singular, bufferVars>>

ReceiveSome ==
  \E lost \in {s \in SUBSET (0..(NBlocks - 1)) : Cardinality(s) < NBlocks} :
    \E nos \in [1..Cardinality(lost) -> 0..(nfec - 1)] : Receive(lost, nos)

(* reduce(): subtract the data blocks received from FEC block j.            *)
Reduced(j) ==
  LET no == fec_block_nos[j]
      upTo[col \in 0..NBlocks] ==
        IF col = 0 THEN SubSeq(fec[no + 1], 1, DecodeSize)
        ELSE IF col - 1 \in Range(erased) THEN upTo[col - 1]
        ELSE PlusTimes(upTo[col - 1], Block(col),
                       inverse[Plus[Plus[no][col - 1]][Half]])
  IN  upTo[NBlocks]

(* Mutant: the indexes are or-ed.                                           *)
MatrixEntryOr(no, col) == inverse[Half + (no | col)]

(* The coefficient of lost block col in FEC block no.                       *)
MatrixEntry(no, col) == inverse[Plus[Half + no][col]]

(* reduce(), and the matrix resolve() sets up.                              *)
Reduce ==
  LET k == Len(erased) IN
  /\ pc = "decode"
  /\ rows' = [j \in 1..k |-> Reduced(j)]
  /\ matrix' = [r \in 1..k |-> [c \in 1..k |-> MatrixEntry(fec_block_nos[r], erased[c])]]
  /\ pivots' = <<>>
  /\ pc' = "invert"
  /\ UNCHANGED <<program, tableVars, groupVars, erased, fec_block_nos, rebuilt,
                 singular, bufferVars>>

(****************************** invert_mat() *******************************)

Size == Len(matrix)

(* ipiv: rows and columns used as pivots.                                   *)
Used == {pivots[i][2] : i \in 1..Len(pivots)}

(* Non-zero elements of rows and columns not used yet.                      *)
Candidates ==
  {rc \in ((1..Size) \ Used) \X ((1..Size) \ Used) : matrix[rc[1]][rc[2]] # 0}

(* The diagonal first, then row by row.                                     *)
Pivot ==
  LET col == Len(pivots) + 1
  IN  IF <<col, col>> \in Candidates THEN <<col, col>>
      ELSE CHOOSE rc \in Candidates : \A o \in Candidates :
             rc[1] < o[1] \/ (rc[1] = o[1] /\ rc[2] <= o[2])

SwapRows(m, r, s) == [m EXCEPT ![r] = m[s], ![s] = m[r]]
SwapColumns(m, c, d) == [r \in DOMAIN m |-> [m[r] EXCEPT ![c] = m[r][d], ![d] = m[r][c]]]

(* The pivot row divided by the pivot, which the inverse replaces.          *)
ScaledRow(row, col) == Times([row EXCEPT ![col] = 1], inverse[row[col]])

(* The other rows lose their multiple of the pivot row.                     *)
Cleared(row, pivotRow, col) == PlusTimes([row EXCEPT ![col] = 0], pivotRow, row[col])

InvertColumn ==
  LET irow     == Pivot[1]
      icol     == Pivot[2]
      swapped  == SwapRows(matrix, irow, icol)
      pivotRow == ScaledRow(swapped[icol], icol)
  IN
  /\ pc = "invert"
  /\ Len(pivots) < Size
  /\ Candidates # {}
  /\ matrix' = [r \in 1..Size |-> IF r = icol THEN pivotRow
                                  ELSE Cleared(swapped[r], pivotRow, icol)]
  /\ pivots' = Append(pivots, Pivot)
  /\ UNCHANGED <<program, tableVars, pc, groupVars, erased, fec_block_nos, rows,
                 rebuilt, singular, bufferVars>>

(* "pivot not found": with the assertion compiled out resolve() goes on     *)
(* with the matrix as it is.                                                *)
InvertFails ==
  /\ pc = "invert"
  /\ Len(pivots) < Size
  /\ Candidates = {}
  /\ singular' = TRUE
  /\ pc' = "multiply"
  /\ UNCHANGED <<program, tableVars, groupVars, erased, fec_block_nos, rows, matrix,
                 pivots, rebuilt, bufferVars>>

(* The columns are swapped back, last pivot first.                          *)
Unswapped ==
  LET from[col \in 1..(Size + 1)] ==
        IF col > Size THEN matrix
        ELSE SwapColumns(from[col + 1], pivots[col][1], pivots[col][2])
  IN  from[1]

InvertDone ==
  /\ pc = "invert"
  /\ Len(pivots) = Size
  /\ matrix' = Unswapped
  /\ pc' = "multiply"
  /\ UNCHANGED <<program, tableVars, groupVars, erased, fec_block_nos, rows, pivots,
                 rebuilt, singular, bufferVars>>

(* Lost block number `row': the reduced rows times a row of the inverse.    *)
Resolved(row) ==
  LET upTo[col \in 1..Size] ==
        IF col = 1 THEN Times(rows[1], matrix[row][1])
        ELSE PlusTimes(upTo[col - 1], rows[col], matrix[row][col])
  IN  upTo[Size]

Multiply ==
  /\ pc = "multiply"
  /\ rebuilt' = [i \in Range(erased) |->
                   Resolved(CHOOSE r \in 1..Size : erased[r] = i)]
  /\ pc' = "done"
  /\ UNCHANGED <<program, tableVars, groupVars, erased, fec_block_nos, rows, matrix,
                 pivots, singular, bufferVars>>

(* The group is through; the next may begin.                                *)
Done ==
  /\ pc = "done"
  /\ pc' = "idle"
  /\ msgs' = <<>> /\ nfec' = 0 /\ fec' = <<>> /\ at' = Start /\ overlapped' = FALSE
  /\ erased' = <<>> /\ fec_block_nos' = <<>> /\ rows' = <<>> /\ matrix' = <<>>
  /\ pivots' = <<>> /\ rebuilt' = <<>> /\ singular' = FALSE
  /\ UNCHANGED <<program, tableVars, bufferVars>>

Init ==
  /\ program \in {"bridge", "test"}
  /\ gf_mul_table = [i \in GF |-> [j \in GF |-> 0]]
  /\ init_row = 0
  /\ inits = 1
  /\ pc = "idle"
  /\ msgs = <<>> /\ nfec = 0 /\ fec = <<>> /\ at = Start /\ overlapped = FALSE
  /\ erased = <<>> /\ fec_block_nos = <<>> /\ rows = <<>> /\ matrix = <<>>
  /\ pivots = <<>> /\ rebuilt = <<>> /\ singular = FALSE
  /\ m_seq_num = 1
  /\ sent = [buf |-> <<>>, seq |-> 0, prev |-> 0]

Next ==
  \/ FecInit
  \/ InitMulRow
  \/ InitZero
  \/ \E g \in Groups : EncodeGroup(g)
  \/ \E b \in Buffers : EncodeBuffer(b)
  \/ EncodeTurn
  \/ ReceiveSome
  \/ Reduce
  \/ InvertColumn
  \/ InvertFails
  \/ InvertDone
  \/ Multiply
  \/ Done

Spec == Init /\ [][Next]_vars
-----------------------------------------------------------------------------
(* Between two runs of fec_init() the table is the multiplication of the    *)
(* field and inverse its inverse: logarithms that wrap (modnn), the special *)
(* logarithm of zero and the powers beyond the first cycle all come right.  *)
TablesRight ==
  init_row = Idle =>
    \A x, y \in GF : /\ gf_mul_table[x][y] = Product[x, y]
                     /\ x # 0 => Product[x, inverse[x]] = 1

(* fec_init() run again under the hands of the send thread disturbs nothing *)
(* but products with zero.                                                  *)
OnlyZerosDisturbed ==
  Initialized => \A x, y \in GF \ {0} : TableReads(x, y) = {Product[x, y]}

(* The symbols at position p of the group are all different from zero.      *)
NoZeroAt(p) == \A i \in 1..NBlocks : Block(i)[p] # 0

Repeated == \E i, j \in 1..Len(fec_block_nos) :
              i # j /\ fec_block_nos[i] = fec_block_nos[j]

(* The matrix of any lost columns and as many different rows can be         *)
(* inverted; rows that repeat cannot.                                       *)
SingularWhenRepeated == pc \in {"multiply", "done"} => (singular <=> Repeated)

(* Whichever blocks are lost and whichever rows arrive in whatever order,   *)
(* the symbols within the size decode() works with are those of the lost    *)
(* block; a fec_init() while the group was encoded can spoil only the       *)
(* positions where some block holds a zero.                                 *)
LostRebuilt ==
  pc = "done" /\ ~Repeated =>
    \A i \in Range(erased) : \A p \in 1..DecodeSize :
      ~overlapped \/ NoZeroAt(p) => rebuilt[i][p] = Block(i + 1)[p]

(* What run_test() of the test program compares: the data of the blocks     *)
(* received and rebuilt, put together, is the buffer, when the longest      *)
(* block is among those received; and the decoder takes the group for a new *)
(* one.                                                                     *)
DataOf(i) ==
  IF i \in Range(erased) THEN SubSeq(rebuilt[i], 2, rebuilt[i][1] + 1) ELSE msgs[i + 1]

BufferRestored ==
  program = "test" /\ pc = "done" /\ DecodeSize = GroupSize =>
    /\ sent.seq # sent.prev
    /\ FlattenSeq([k \in 1..NBlocks |-> DataOf(k - 1)]) = sent.buf

=============================================================================
