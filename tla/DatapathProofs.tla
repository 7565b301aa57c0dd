--------------------------- MODULE DatapathProofs ---------------------------
(***************************************************************************)
(* The widths of SysSpec.h suffice, for every number of rows up to 256 and *)
(* for all inputs, weights, biases and configurations; and the             *)
(* quantisation keeps the order of the sums.                               *)
(***************************************************************************)
EXTENDS Datapath, TLAPS

-----------------------------------------------------------------------------
(* Arithmetic *)

(* Products of naturals. *)
LEMMA ProductNat ==
    ASSUME NEW x \in Int, NEW y \in Int, 0 <= x, 0 <= y
    PROVE  x * y \in Int /\ 0 <= x * y
BY SMT

(* A factor up to u scales a natural by at most u. *)
LEMMA ProductMono ==
    ASSUME NEW x \in Int, NEW y \in Int, NEW u \in Int, 0 <= x, y <= u
    PROVE  x * y <= x * u
<1>1. 0 <= x * (u - y)
  BY ProductNat, SMT
<1>2. x * (u - y) = x * u - x * y /\ x * y \in Int /\ x * u \in Int
  BY SMT
<1> QED
  BY <1>1, <1>2, SMT

(* Division rounds down. *)
LEMMA DivBounds ==
    ASSUME NEW x \in Int, NEW p \in Int, 0 < p
    PROVE  x \div p \in Int /\ p * (x \div p) <= x /\ x < p * (x \div p) + p
BY SMT

(* Division keeps the order. *)
LEMMA DivMono ==
    ASSUME NEW x \in Int, NEW y \in Int, NEW p \in Int, 0 < p, x <= y
    PROVE  x \div p <= y \div p
BY DivBounds, SMT

(* The product of two bytes has at most 15 bits. *)
LEMMA ByteProduct ==
    ASSUME NEW a \in Byte, NEW w \in Byte
    PROVE  a * w \in Int /\ -16384 <= a * w /\ a * w <= 16384
<1>1. /\ 0 <= (128 - a) * (128 + w) /\ 0 <= (128 + a) * (128 - w)
      /\ 0 <= (128 - a) * (128 - w) /\ 0 <= (128 + a) * (128 + w)
  BY ProductNat, SMT DEF Byte
<1>2. /\ (128 - a) * (128 + w) = 16384 - 128*a + 128*w - a*w
      /\ (128 + a) * (128 - w) = 16384 + 128*a - 128*w - a*w
      /\ (128 - a) * (128 - w) = 16384 - 128*a - 128*w + a*w
      /\ (128 + a) * (128 + w) = 16384 + 128*a + 128*w + a*w
      /\ a * w \in Int /\ a \in Int /\ w \in Int
  BY SMT DEF Byte
<1> QED
  BY <1>1, <1>2, SMT

-----------------------------------------------------------------------------
(* The operators of the datapath *)

(* An NVINT24 keeps a value of 24 bits. *)
LEMMA FitsSigned24 ==
    ASSUME NEW x \in Int, -8388608 <= x, x < 8388608
    PROVE  Signed24(x) = x
BY SMT DEF Signed24

(* The factor of a 4-bit shift. *)
LEMMA Pow2Bound ==
    ASSUME NEW s \in Nibble
    PROVE  Pow2[s+1] \in Int /\ 1 <= Pow2[s+1] /\ Pow2[s+1] <= 32768
<1>1. \/ s = 0 \/ s = 1 \/ s = 2 \/ s = 3 \/ s = 4 \/ s = 5 \/ s = 6 \/ s = 7
      \/ s = 8 \/ s = 9 \/ s = 10 \/ s = 11 \/ s = 12 \/ s = 13 \/ s = 14 \/ s = 15
  BY SMT DEF Nibble
<1> QED
  BY <1>1, SMT DEF Pow2

(* A shifted bias has at most 23 bits. *)
LEMMA ShlBound ==
    ASSUME NEW b \in Byte, NEW s \in Nibble
    PROVE  Shl(b, s) \in Int /\ -4194304 <= Shl(b, s) /\ Shl(b, s) <= 4161536
<1>1. PICK p \in Int : p = Pow2[s+1] /\ 1 <= p /\ p <= 32768
  BY Pow2Bound
<1>2. b \in Int /\ 0 <= b + 128 /\ 0 <= 127 - b
  BY SMT DEF Byte
<1>3. /\ 0 <= (b + 128) * p /\ (127 - b) * p >= 0
      /\ (b + 128) * p <= (b + 128) * 32768 /\ (127 - b) * p <= (127 - b) * 32768
  BY <1>1, <1>2, ProductNat, ProductMono, SMT
<1>4. /\ (b + 128) * p = b * p + 128 * p /\ (127 - b) * p = 127 * p - b * p
      /\ b * p \in Int
  BY <1>1, <1>2, SMT
<1>5. -4194304 <= b * p /\ b * p <= 4161536
  BY <1>1, <1>2, <1>3, <1>4, SMT
<1> QED
  BY <1>1, <1>4, <1>5, SMT DEF Shl

(* One multiply-accumulate wraps nothing as long as the sum has 23 bits. *)
LEMMA MulAddExact ==
    ASSUME NEW a \in Byte, NEW w \in Byte, NEW s \in Int, -4194304 <= s, s <= 4194304
    PROVE  MulAdd(a, w, s) = s + a * w
<1>1. a * w + s \in Int /\ -8388608 <= a * w + s /\ a * w + s < 8388608
  BY ByteProduct, SMT
<1>2. MulAdd(a, w, s) = a * w + s
  BY <1>1, FitsSigned24, SMT DEF MulAdd
<1> QED
  BY <1>2, ByteProduct, SMT

(* A configuration, as SysConfig can hold it. *)
Register == [relu : BOOLEAN, left : Nibble, right : Nibble, mul : 0 .. 255]

(* The output of a sum of 23 bits is the output on paper, and its scaled    *)
(* sum fits in 32 bits.                                                     *)
LEMMA QuantiseExact ==
    ASSUME NEW s \in Int, -4194304 <= s, s <= 4194304,
           NEW b \in Byte, NEW cfg \in Register
    PROVE  Quantise(s, b, cfg) = Ideal(s, b, cfg) /\ Fits32(OnPaper(s, b, cfg))
<1>1. PICK k \in Int : k = Shl(b, cfg.left) /\ -4194304 <= k /\ k <= 4161536
  BY ShlBound, SMT DEF Register
<1>2. Signed24(k) = k
  BY <1>1, FitsSigned24, SMT
<1>3. Signed24(s + k) = s + k
  BY <1>1, FitsSigned24, SMT
<1>4. Biased(s, b, cfg) = Relu(cfg.relu, s + k)
  BY <1>1, <1>2, <1>3 DEF Biased
<1>5. PICK r \in Int : r = Relu(cfg.relu, s + k) /\ -8388608 <= r /\ r < 8388608
  BY <1>1, SMT DEF Relu
<1>6. PICK m \in Int : m = cfg.mul /\ 0 <= m /\ m <= 255
  BY SMT DEF Register
<1>7. /\ 0 <= m * (8388608 - r) /\ m * (8388608 + r) >= 0
      /\ m * (8388608 - r) = 8388608 * m - r * m
      /\ m * (8388608 + r) = 8388608 * m + r * m
      /\ r * m \in Int
  BY <1>5, <1>6, ProductNat, SMT
<1>8. -2147483648 <= r * m /\ r * m <= 2147483647
  BY <1>6, <1>7, SMT
<1>9. OnPaper(s, b, cfg) = r * m
  BY <1>1, <1>5, <1>6 DEF OnPaper
<1>10. Fits32(OnPaper(s, b, cfg))
  BY <1>7, <1>8, <1>9, SMT DEF Fits32
<1>11. Quantise(s, b, cfg) = Ideal(s, b, cfg)
  BY <1>1, <1>4 DEF Quantise, Ideal, OnPaper
<1> QED
  BY <1>10, <1>11

(* The larger sum has the larger output (or the same): quantised results    *)
(* compare as the sums they come from.                                      *)
THEOREM OrderKept ==
    ASSUME NEW s \in Int, NEW t \in Int, -4194304 <= s, s <= t, t <= 4194304,
           NEW b \in Byte, NEW cfg \in Register
    PROVE  Quantise(s, b, cfg) <= Quantise(t, b, cfg)
<1>1. PICK k \in Int : k = Shl(b, cfg.left)
  BY ShlBound, SMT DEF Register
<1>2. PICK p \in Int : p = Pow2[cfg.right + 1] /\ 1 <= p
  BY Pow2Bound, SMT DEF Register
<1>3. PICK m \in Int : m = cfg.mul /\ 0 <= m
  BY SMT DEF Register
<1>4. PICK x, y \in Int : x = Relu(cfg.relu, s + k) /\ y = Relu(cfg.relu, t + k) /\ x <= y
  BY <1>1, SMT DEF Relu
<1>5. m * x <= m * y
  BY <1>3, <1>4, ProductMono
<1>6. x * m \in Int /\ y * m \in Int /\ x * m <= y * m
  BY <1>3, <1>4, <1>5, SMT
<1>7. PICK u, v \in Int : u = (x * m) \div p /\ v = (y * m) \div p /\ u <= v
  BY <1>2, <1>6, DivMono, DivBounds, SMT
<1>8. Clamp(u) <= Clamp(v)
  BY <1>7, SMT DEF Clamp
<1>9. Ideal(s, b, cfg) = Clamp(u) /\ Ideal(t, b, cfg) = Clamp(v)
  BY <1>1, <1>2, <1>3, <1>4, <1>7 DEF Ideal, OnPaper, Shr
<1>10. Quantise(s, b, cfg) = Ideal(s, b, cfg) /\ Quantise(t, b, cfg) = Ideal(t, b, cfg)
  BY QuantiseExact, SMT
<1> QED
  BY <1>8, <1>9, <1>10

-----------------------------------------------------------------------------
(* The inductive invariant: after k rows the sum is exact and at most       *)
(* 16384 k either way.                                                      *)

SumBound ==
    /\ row \in 0 .. N
    /\ exact \in Int
    /\ -(16384 * row) <= exact /\ exact <= 16384 * row

(* The output comes after the last row. *)
OutputLast == row < N => act_out = None

DatapathInv == SumBound /\ SumExact /\ OutputLast /\ OutputExact

(* A sum within the bound has 23 bits. *)
LEMMA SumFits ==
    ASSUME SumBound
    PROVE  exact \in Int /\ -4194304 <= exact /\ exact <= 4194304
<1>1. row \in Int /\ row <= 256
  BY NAssumption, SMT DEF SumBound
<1> QED
  BY <1>1, SMT DEF SumBound

(* A row's product keeps the sum exact and within the bound. *)
LEMMA AccumulateStep ==
    ASSUME DatapathInv, Accumulate
    PROVE  DatapathInv'
<1>1. PICK a \in Acts, w \in Weights : /\ accum' = MulAdd(a, w, accum)
                                       /\ exact' = exact + a * w
  BY DEF Accumulate
<1>2. a \in Byte /\ w \in Byte
  BY ValuesAssumption
<1>3. accum \in Int /\ -4194304 <= accum /\ accum <= 4194304 /\ accum = exact
  BY SumFits DEF DatapathInv, SumExact
<1>4. SumExact'
  BY <1>1, <1>2, <1>3, MulAddExact DEF SumExact
<1>5. PICK z \in Int : z = a * w /\ -16384 <= z /\ z <= 16384
  BY <1>2, ByteProduct
<1>6. SumBound'
  BY <1>1, <1>5, NAssumption, SMT DEF Accumulate, DatapathInv, SumBound
<1>7. act_out = None /\ act_out' = None
  BY DEF Accumulate, DatapathInv, OutputLast
<1> QED
  BY <1>4, <1>6, <1>7 DEF DatapathInv, OutputLast, OutputExact

(* The output of an exact sum is exact. *)
LEMMA FinishStep ==
    ASSUME DatapathInv, Finish
    PROVE  DatapathInv'
<1>1. PICK b \in Biases, cfg \in Config :
        act_out' = [value |-> Quantise(accum, b, cfg), bias |-> b, cfg |-> cfg]
  BY DEF Finish
<1>2. b \in Byte /\ cfg \in Register
  BY ValuesAssumption, ConfigAssumption DEF Config, Register
<1>3. accum = exact /\ accum \in Int /\ -4194304 <= accum /\ accum <= 4194304
  BY SumFits DEF DatapathInv, SumExact
<1>4. /\ Quantise(accum, b, cfg) = Ideal(exact, b, cfg)
      /\ Fits32(OnPaper(exact, b, cfg))
  BY <1>2, <1>3, QuantiseExact
<1>5. row' = row /\ exact' = exact /\ accum' = accum /\ row = N
  BY DEF Finish
<1>6. OutputExact'
  BY <1>1, <1>4, <1>5 DEF OutputExact
<1>7. OutputLast'
  BY <1>5, NAssumption, SMT DEF OutputLast
<1>8. SumBound' /\ SumExact'
  BY <1>5 DEF DatapathInv, SumBound, SumExact
<1> QED
  BY <1>6, <1>7, <1>8 DEF DatapathInv

LEMMA DatapathInduction == Spec => []DatapathInv
<1>1. Init => DatapathInv
  BY NAssumption, SMT DEF Init, DatapathInv, SumBound, SumExact, OutputLast, OutputExact
<1>2. DatapathInv /\ [Next]_vars => DatapathInv'
  <2> SUFFICES ASSUME DatapathInv, [Next]_vars
               PROVE  DatapathInv'
    OBVIOUS
  <2>1. CASE Accumulate
    BY <2>1, AccumulateStep
  <2>2. CASE Finish
    BY <2>2, FinishStep
  <2>3. CASE UNCHANGED vars
    BY <2>3 DEF vars, DatapathInv, SumBound, SumExact, OutputLast, OutputExact
  <2> QED
    BY <2>1, <2>2, <2>3 DEF Next
<1> QED
  BY <1>1, <1>2, PTL DEF Spec

(* The 24-bit accumulator never wraps, for up to 256 rows. *)
THEOREM AccumulatorExact == Spec => []SumExact
BY DatapathInduction, PTL DEF DatapathInv

(* SysBias puts out the quantised sum on paper, bit for bit.                *)
THEOREM OutputCorrect == Spec => []OutputExact
BY DatapathInduction, PTL DEF DatapathInv
=============================================================================
