------------------------------ MODULE Datapath ------------------------------
(***************************************************************************)
(* The arithmetic of one output: a partial sum on its way down a column of *)
(* SysPEs, one product per row, and the quantisation in SysBias, in the    *)
(* widths of SysSpec.h (8-bit inputs, weights and biases, 24-bit sums, a   *)
(* 32-bit scaled sum).  The question is whether those widths suffice.      *)
(*                                                                         *)
(* SysArray tracks where an output comes from; this module, what its value *)
(* is.                                                                     *)
(***************************************************************************)
EXTENDS Integers, Sequences

CONSTANTS
    N,                          \* rows (8, 16 or 32 in SysSpec.h)
    Acts, Weights, Biases,      \* the values tried
    LeftShifts, RightShifts, Multipliers

Byte == -128 .. 127
Nibble == 0 .. 15

(* Everything the widths admit; the number of rows may go up to 256.       *)
ASSUME NAssumption == N \in 1 .. 256
ASSUME ValuesAssumption ==
    Acts \subseteq Byte /\ Weights \subseteq Byte /\ Biases \subseteq Byte
ASSUME ConfigAssumption ==
    LeftShifts \subseteq Nibble /\ RightShifts \subseteq Nibble /\ Multipliers \subseteq 0 .. 255

VARIABLES
    row,    \* the next row to add its product
    accum,  \* the 24-bit sum on its way down
    exact,  \* history: the sum of the products, as an integer
    act_out, ref    \* once done: the output of SysBias, with what the test
                    \* bench's reference makes of the same sum

vars == <<row, accum, exact, act_out, ref>>

-----------------------------------------------------------------------------
(* 2^s for a 4-bit s. *)
Pow2 == <<1, 2, 4, 8, 16, 32, 64, 128, 256, 512, 1024, 2048, 4096, 8192, 16384, 32768>>
Shl(x, s) == x * Pow2[s+1]
Shr(x, s) == x \div Pow2[s+1]       \* arithmetic: rounds down

(* Faulty variant: one bit less. *)
Signed23(x) == ((x + 4194304) % 8388608) - 4194304

(* What an NVINT24 keeps of a value. *)
Signed24(x) == ((x + 8388608) % 16777216) - 8388608

Relu(on, x) == IF on /\ x < 0 THEN 0 ELSE x
Clamp(x) == IF x > 127 THEN 127 ELSE IF x < -128 THEN -128 ELSE x

(* SysPE: one multiply-accumulate. *)
MulAdd(a, w, s) == Signed24(a * w + s)

(* SysBias: the bias, the activation function, the scaling.  The scaled sum *)
(* is an NVINT32; Fits32 says that it loses nothing there.  The reference   *)
(* of the test bench scales in 24 bits.                                     *)
Biased(s, b, cfg) == Relu(cfg.relu, Signed24(s + Signed24(Shl(b, cfg.left))))
Fits32(x) == x >= -2147483647 - 1 /\ x <= 2147483647
RefQuantise(s, b, cfg) == Clamp(Shr(Signed24(Biased(s, b, cfg) * cfg.mul), cfg.right))
Quantise(s, b, cfg) == Clamp(Shr(Biased(s, b, cfg) * cfg.mul, cfg.right))

Config == [relu : BOOLEAN, left : LeftShifts, right : RightShifts, mul : Multipliers]

-----------------------------------------------------------------------------
None == << >>

Init ==
    /\ row = 0
    /\ accum = 0
    /\ exact = 0
    /\ act_out = None /\ ref = None

(* The PE of row `row` adds its product. *)
Accumulate ==
    /\ row < N
    /\ \E a \in Acts, w \in Weights :
         /\ accum' = MulAdd(a, w, accum)
         /\ exact' = exact + a * w
    /\ row' = row + 1
    /\ UNCHANGED <<act_out, ref>>

(* SysBias makes the output of the finished sum. *)
Finish ==
    /\ row = N
    /\ act_out = None
    /\ \E b \in Biases, cfg \in Config :
         /\ act_out' = [value |-> Quantise(accum, b, cfg), bias |-> b, cfg |-> cfg]
         /\ ref' = RefQuantise(accum, b, cfg)
    /\ UNCHANGED <<row, accum, exact>>

Next == Accumulate \/ Finish

Spec == Init /\ [][Next]_vars

-----------------------------------------------------------------------------
(* Properties *)

(* What the output is on paper, with integers that never overflow. *)
OnPaper(s, b, cfg) == Relu(cfg.relu, s + Shl(b, cfg.left)) * cfg.mul
Ideal(s, b, cfg) == Clamp(Shr(OnPaper(s, b, cfg), cfg.right))

(* The 24-bit accumulator never wraps. *)
SumExact == accum = exact

(* No width on the way loses a bit: the output of SysBias is the quantised  *)
(* sum on paper, and the scaled sum fits in 32 bits.                        *)
OutputExact ==
    act_out # None =>
        /\ act_out.value = Ideal(exact, act_out.bias, act_out.cfg)
        /\ Fits32(OnPaper(exact, act_out.bias, act_out.cfg))

(* The test bench's reference is the output. *)
ReferenceAgrees == act_out # None => ref = act_out.value
=============================================================================
