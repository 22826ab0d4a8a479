---------------------------- MODULE GaloisField ----------------------------
(***************************************************************************)
(* The arithmetic of src/fec.c: the field of 2^GF_BITS elements generated  *)
(* by a primitive polynomial, as the tables generate_gf() fills in.  The   *)
(* program has GF_BITS = 8; the tables are built the same way for every    *)
(* width the code lists a polynomial for.                                  *)
(***************************************************************************)
EXTENDS Integers, FiniteSets, FiniteSetsExt, Bitwise

CONSTANTS
  GF_BITS,   \* width of a symbol
  Pp         \* the powers below GF_BITS in the primitive polynomial

ASSUME FieldAssumption ==
  /\ GF_BITS \in 2..8
  /\ Pp \subseteq 0..(GF_BITS - 1)

GF_SIZE == 2^GF_BITS - 1

GF == 0..GF_SIZE

(* 128: the first number with the high bit set.                             *)
Half == 2^(GF_BITS - 1)

Plus == [a \in GF |-> [b \in GF |-> a ^^ b]]

(* \alpha ** GF_BITS, gathered bit by bit from the polynomial.              *)
AlphaTop == MapThenSumSet(LAMBDA i : 2^i, Pp)

(* A power of \alpha shifted left one bit.                                  *)
TimesAlpha(x) == IF x >= Half THEN Plus[AlphaTop][2 * (x - Half)] ELSE 2 * x

gf_exp[i \in 0..(2 * GF_SIZE - 1)] ==
  IF i >= GF_SIZE THEN gf_exp[i - GF_SIZE]
  ELSE IF i < GF_BITS THEN 2^i
  ELSE IF i = GF_BITS THEN AlphaTop
  ELSE TimesAlpha(gf_exp[i - 1])

(* log(0) is the special value GF_SIZE.                                     *)
gf_log ==
  [x \in GF |-> IF x = 0 THEN GF_SIZE
                ELSE CHOOSE i \in 0..(GF_SIZE - 1) : gf_exp[i] = x]

inverse == [x \in GF |-> IF x <= 1 THEN x ELSE gf_exp[GF_SIZE - gf_log[x]]]

(* x % GF_SIZE without a divide.                                            *)
modnn[x \in 0..(2 * GF_SIZE)] ==
  IF x < GF_SIZE THEN x
  ELSE modnn[((x - GF_SIZE) \div (GF_SIZE + 1)) + ((x - GF_SIZE) % (GF_SIZE + 1))]

(* Mutant: reduced by the number of elements instead.                       *)
LogProductByElements(x, y) == gf_exp[(gf_log[x] + gf_log[y]) % (GF_SIZE + 1)]

(* What init_mul_table() stores first: the sum of the logarithms, wrong as  *)
(* soon as a factor is zero.                                                *)
LogProduct(x, y) == gf_exp[modnn[gf_log[x] + gf_log[y]]]

(* What it leaves behind.                                                   *)
MulTable ==
  [x \in GF |-> [y \in GF |-> IF x = 0 \/ y = 0 THEN 0 ELSE LogProduct(x, y)]]
-----------------------------------------------------------------------------
(* The reference: multiplication of polynomials over two elements, reduced  *)
(* by the primitive one.                                                    *)
Product[x \in GF, y \in GF] ==
  IF y = 0 THEN 0
  ELSE Plus[IF y % 2 = 1 THEN x ELSE 0][Product[TimesAlpha(x), y \div 2]]

=============================================================================
