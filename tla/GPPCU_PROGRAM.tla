---------------------------- MODULE GPPCU_PROGRAM ----------------------------
(***************************************************************************)
(* How the driver lays a program out for the device (gppcu.c): every       *)
(* instruction is pushed once per lane, each lane on a register bank of    *)
(* its own, with bubbles behind, after a prologue that gives the last      *)
(* register of each bank, its pivot, the offset of the lane's task.        *)
(***************************************************************************)
EXTENDS GPPCU_INSTR_DEC, Sequences
Seqs == INSTANCE SequencesExt

NUM_REG        == 32
PARALLEL_CNT   == 3
REG_PER_THREAD == NUM_REG \div PARALLEL_CNT
REGPIVOT       == REG_PER_THREAD - 1

\* The fields of a word.  Which immediate it is, of 7, 12 or 17 bits, is the operation's
\* matter.  The firmware's own programs are unconditional.
Word32(op, s, rd, ra, rb, imm) ==
    [cond |-> "ALWAYS", op |-> op, s |-> s, rd |-> rd, ra |-> ra, rb |-> rb, imm |-> imm]

nop == Word32("NOP", FALSE, 0, 0, 0, 0)

\* What the firmware may write as a program: words on the bank of one lane.
Bank == 0..REG_PER_THREAD-1
SourceWord ==
    [cond : {"ALWAYS"}, op : Opcode, s : BOOLEAN, rd : Bank, ra : Bank, rb : Bank, imm : Nat]

\* The driver's own tables of the fields an operation uses.
instr_useregd == Opcode \ {"NOP", "FNEG", "STL"}
instr_userega ==
    {"ADC", "SBC", "AND", "ORR", "XOR", "ADI", "SBI", "LSL", "LSR", "ASR", "ITOF",
     "FTOI", "FMUL", "FDIV", "FADD", "FSUB", "FNEG", "FSQRT", "LDL", "STL"}
instr_useregb ==
    {"MOV", "MVN", "ADC", "SBC", "AND", "ORR", "XOR", "FMUL", "FDIV", "FADD",
     "FSUB", "LDL", "STL"}

\* OPR_0_ITOF .. OPR_0_FSQRT
FpRange == {"ITOF", "FTOI", "FMUL", "FDIV", "FADD", "FSUB", "FNEG", "FSQRT"}

\* The first instruction gives the pivot of lane 0 the offset of the task cycle; the
\* additions after it are for the pivots of the lanes 1, 2 and 3.  There is no lane 3:
\* its register number, 39, does not fit the field and runs over into the S bit.
PivotOf(p, mtaskmem) ==
    LET field == REGPIVOT + REG_PER_THREAD * p
    IN  Word32("ADI", field >= NUM_REG, field % NUM_REG, REGPIVOT, 0, mtaskmem * p)

Prologue(mtaskmem) ==
    <<nop, nop, Word32("LDCI", FALSE, REGPIVOT, 0, 0, 0)>>
        \o Seqs!FlattenSeq([p \in 1..PARALLEL_CNT |-> <<nop, nop, PivotOf(p, mtaskmem)>>])
        \o <<nop, nop>>

\* Instruction i on the bank of lane p.
OnBank(i, p) ==
    LET toadd == p * REG_PER_THREAD
        moved(reg, ops) == IF i.op \in ops THEN reg + toadd ELSE reg
    IN  [i EXCEPT !.rd = moved(i.rd, instr_useregd), !.ra = moved(i.ra, instr_userega),
                  !.rb = moved(i.rb, instr_useregb)]

\* Mutants of Block: no second bubble behind a floating point operation; no bubble
\* behind an instruction.
Block_OneBubble(i) ==
    IF i.op = "NOP" THEN <<nop>>
    ELSE [k \in 1..PARALLEL_CNT |-> OnBank(i, k - 1)] \o <<nop>>

Block_Tight(i) ==
    IF i.op = "NOP" THEN <<nop>>
    ELSE [k \in 1..PARALLEL_CNT |-> OnBank(i, k - 1)]
             \o (IF i.op \in FpRange THEN <<nop>> ELSE <<>>)

Block(i) ==
    IF i.op = "NOP" THEN <<nop>>
    ELSE [k \in 1..PARALLEL_CNT |-> OnBank(i, k - 1)] \o <<nop>>
             \o (IF i.op \in FpRange THEN <<nop>> ELSE <<>>)

\* What gppcu_program_autofeed_device_parallel pushes for program prog on tasks of
\* mtaskmem words.
Layout(prog, mtaskmem) ==
    Prologue(mtaskmem) \o Seqs!FlattenSeq([k \in 1..Len(prog) |-> Block(prog[k])])
=============================================================================
