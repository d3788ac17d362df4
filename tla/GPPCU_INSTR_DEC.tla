-------------------------- MODULE GPPCU_INSTR_DEC --------------------------
(***************************************************************************)
(* The instruction decoder of the coprocessor: what the control word of    *)
(* each operation says to the pipeline (GPPCU_INSTR_DEC.v), one set of     *)
(* operations per control bit.  An instruction is a record with at least   *)
(* the fields op, rd, ra and rb; modules that need more of the word (the S *)
(* bit, the condition, an immediate) use records with more fields.         *)
(***************************************************************************)
EXTENDS Naturals

\* Operations in the order of their 5-bit codes.  Unassigned codes decode as NOP.
Opcode ==
    {"NOP", "MOV", "MVN", "ADC", "SBC", "AND", "ORR", "XOR", "ADI", "SBI", "MVI",
     "LSL", "LSR", "ASR", "ITOF", "FTOI", "FMUL", "FDIV", "FADD", "FSUB", "FNEG",
     "FSQRT", "LDL", "LDCI", "STL"}

\* CW_USEREGA / CW_USEREGB: the operations that the scoreboard checks field A / B for.
CW_USEREGA ==
    {"ADC", "SBC", "AND", "ORR", "XOR", "ADI", "SBI", "LSL", "LSR", "ASR", "ITOF",
     "FTOI", "FMUL", "FDIV", "FADD", "FSUB", "FSQRT", "STL"}
CW_USEREGB ==
    {"MOV", "MVN", "ADC", "SBC", "AND", "ORR", "XOR", "FMUL", "FDIV", "FADD",
     "FSUB", "LDL", "STL"}

\* CW_FPOP: executed by the multi-cycle floating point unit.
CW_FPOP == {"ITOF", "FTOI", "FMUL", "FDIV", "FADD", "FSUB", "FNEG", "FSQRT"}

\* CW_ALOP: executed by the single-cycle ALU.
CW_ALOP ==
    {"MOV", "MVN", "ADC", "SBC", "AND", "ORR", "XOR", "ADI", "SBI", "MVI", "LSL", "LSR",
     "ASR", "LDCI"}

\* CW_REGWR: writes register D in the writeback stage.
CW_REGWR == Opcode \ {"NOP", "FNEG", "STL"}

\* CW_LMEM_RD / CW_LMEM_WR: reads / writes the local memory of the thread.
CW_LMEM_RD == {"LDL"}
CW_LMEM_WR == {"STL"}

\* CW_BSEL: what operand B is: register B plus a 7-bit offset, the 12-bit or the
\* 17-bit immediate, or the word read from the constant memory.
CW_BSEL(op) ==
    CASE op \in {"ADI", "SBI"} -> "IMM1"
      [] op = "MVI"            -> "IMM2"
      [] op = "LDCI"           -> "GMEM"
      [] OTHER                 -> "REGB"

\* CW_ALOPC: the ALU function of an operation.  The moves of an immediate and of a
\* constant are the ALU's MOV.
CW_ALOPC(op) == IF op \in {"MVI", "LDCI"} THEN "MOV" ELSE op

\* CW_FPOPC, the function code given to the floating point unit.  The rows that
\* leave it as x get DontCare, whatever value the synthesis tool chose.
CW_FPOPC(op, DontCare) ==
    CASE op = "ITOF"  -> 2
      [] op = "FTOI"  -> 1
      [] op = "FMUL"  -> 4
      [] op = "FDIV"  -> 7
      [] op = "FADD"  -> 5
      [] op = "FSUB"  -> 6
      [] op = "FSQRT" -> 3
      [] op = "NOP"   -> 0
      [] OTHER        -> DontCare

-----------------------------------------------------------------------------
FpOp(i)    == i.op \in CW_FPOP
RegWr(i)   == i.op \in CW_REGWR

\* Mutant of Sources: the scoreboard is not asked for register B.
Sources_OnlyA(i) == {r \in {i.ra} : i.op \in CW_USEREGA}

\* The registers whose occupation holds instruction i in the decode stage.
Sources(i) ==
    {r \in {i.ra} : i.op \in CW_USEREGA} \cup {r \in {i.rb} : i.op \in CW_USEREGB}
=============================================================================
