----------------------------- MODULE GPPCU_ISA -----------------------------
(***************************************************************************)
(* What the coprocessor promises a program: the instructions take effect   *)
(* one at a time, in the order in which they were given, on the registers, *)
(* the flags and the local memory of every thread (docs/note.kor.md, the   *)
(* control words of GPPCU_INSTR_DEC.v and the datapath of GPPCU_THREAD.v,  *)
(* without the pipeline).  GPPCU_THREAD implements it.                     *)
(***************************************************************************)
EXTENDS GPPCU_INSTR_DEC, GPPCU_COND_VERIFIER, Sequences

CONSTANTS
    Thread, Reg, Instr,
    DataSize,             \* the words are 0..DataSize-1 (2^32 of them)
    MemDepth,             \* words of local memory of a thread
    AluQ(_, _, _, _), AluSreg(_, _, _, _),   \* the arithmetic of the units
    FpuQ(_, _, _)

VARIABLES
    pending,   \* instructions given and not yet carried out
    regs, sreg, mem,
    gmem       \* the constant memory, as LDCI sees it; only the processor writes it

isaVars == <<pending, regs, sreg, mem, gmem>>

ISAInit ==
    /\ pending = <<>>
    /\ regs \in [Thread -> [Reg -> 0..DataSize-1]]
    /\ sreg = [t \in Thread |-> SregReset]
    /\ mem \in [Thread -> [0..MemDepth-1 -> 0..DataSize-1]]

-----------------------------------------------------------------------------
(* The meaning of instruction i for a thread: thr holds its registers, flags *)
(* and local memory, const is the constant memory.                         *)

A(thr, i) == thr.regs[i.ra]

B(thr, const, i) ==
    CASE CW_BSEL(i.op) = "REGB"             -> (thr.regs[i.rb] + i.imm) % DataSize
      [] CW_BSEL(i.op) \in {"IMM1", "IMM2"} -> i.imm
      [] CW_BSEL(i.op) = "GMEM"             -> const[i.imm]

Address(thr, const, i) == B(thr, const, i) % MemDepth

Result(thr, const, i) ==
    IF i.op \in CW_LMEM_RD THEN thr.mem[Address(thr, const, i)]
    ELSE IF FpOp(i) THEN FpuQ(i.op, A(thr, i), B(thr, const, i))
    ELSE AluQ(CW_ALOPC(i.op), A(thr, i), B(thr, const, i), thr.sreg.c)

Effect(thr, const, i) ==
    IF ~oVALID(i.cond, thr.sreg) THEN thr
    ELSE [regs |-> IF RegWr(i) THEN [thr.regs EXCEPT ![i.rd] = Result(thr, const, i)]
                   ELSE thr.regs,
          mem  |-> IF i.op \in CW_LMEM_WR
                   THEN [thr.mem EXCEPT ![Address(thr, const, i)] = A(thr, i)]
                   ELSE thr.mem,
          sreg |-> IF i.s THEN AluSreg(CW_ALOPC(i.op), A(thr, i), B(thr, const, i), thr.sreg.c)
                   ELSE thr.sreg]

Execute(i) ==
    LET after == [t \in Thread |->
                    Effect([regs |-> regs[t], mem |-> mem[t], sreg |-> sreg[t]], gmem, i)]
    IN  /\ regs' = [t \in Thread |-> after[t].regs]
        /\ mem'  = [t \in Thread |-> after[t].mem]
        /\ sreg' = [t \in Thread |-> after[t].sreg]

-----------------------------------------------------------------------------
\* An instruction may be given while the one at the head is carried out.
Give == {<<>>} \cup {<<i>> : i \in Instr}

GiveOnly ==
    /\ \E g \in Give : pending' = pending \o g
    /\ UNCHANGED <<regs, sreg, mem, gmem>>

CarryOut ==
    /\ pending # <<>>
    /\ Execute(Head(pending))
    /\ \E g \in Give : pending' = Tail(pending) \o g
    /\ UNCHANGED gmem

ISANext == GiveOnly \/ CarryOut

ISASpec == ISAInit /\ [][ISANext]_isaVars
=============================================================================
