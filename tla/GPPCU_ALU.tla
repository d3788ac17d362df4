----------------------------- MODULE GPPCU_ALU -----------------------------
(***************************************************************************)
(* The single-cycle unit (GPPCU_ALU.v) on words of Bits bits, natural      *)
(* numbers below 2^Bits.  {oC, oQ} is assigned as one number of Bits + 1   *)
(* bits, so the carry of a sum, and the borrow of a difference, is its top *)
(* bit; the rows that assign a Bits-bit pattern leave the carry zero.      *)
(***************************************************************************)
EXTENDS Integers
LOCAL INSTANCE Bitwise

CONSTANT Bits         \* BW, 32 in the code

ASSUME BitsAssumption == Bits \in Nat \ {0}

Sign(a)  == a \div 2^(Bits - 1)
Bit(b)   == IF b THEN 1 ELSE 0
Invert(a) == (2^Bits - 1) - a

\* {oC, oQ}
CarryQ(op, a, b, c) ==
    CASE op = "NOP" -> 0
      [] op = "MOV" -> b
      [] op = "MVN" -> 2^Bits + Invert(b)
      [] op = "ADC" -> a + b + Bit(c)
      [] op = "SBC" -> (a - b - Bit(c)) % 2^(Bits + 1)
      [] op = "AND" -> a & b
      [] op = "ORR" -> a | b
      [] op = "XOR" -> a ^^ b
      [] op = "ADI" -> a + b
      [] op = "SBI" -> (a - b) % 2^(Bits + 1)
      [] op = "LSL" -> (2 * a) % 2^Bits
      [] op = "LSR" -> a \div 2
      [] op = "ASR" -> a \div 2 + Sign(a) * 2^(Bits - 1)

oQ(op, a, b, c) == CarryQ(op, a, b, c) % 2^Bits
oC(op, a, b, c) == CarryQ(op, a, b, c) >= 2^Bits

\* The overflow flag looks at the signs as if every operation were a sum.
oV(op, a, b, c) ==
    /\ Sign(a) = Sign(b)
    /\ Sign(a) # Sign(oQ(op, a, b, c))

AluFlags(op, a, b, c) ==
    LET q == oQ(op, a, b, c)
    IN  [v |-> oV(op, a, b, c), c |-> oC(op, a, b, c), n |-> Sign(q) = 1, z |-> q = 0]
=============================================================================
