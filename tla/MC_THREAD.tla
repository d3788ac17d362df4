------------------------------ MODULE MC_THREAD ------------------------------
(***************************************************************************)
(* GPPCU_THREAD on a small instance: one thread with two registers and two *)
(* words of memory, two-bit words on the ALU of the code, and a toy of the *)
(* floating point unit whose answer depends on every operand it reads.     *)
(***************************************************************************)
EXTENDS GPPCU_THREAD, GPPCU_ALU

MC_Thread == {"t0"}
MC_Reg    == {"r0", "r1"}
MC_GMem   == <<3>>

MC_FpuQ(op, a, b) == IF op \in CW_USEREGB THEN (a + 2 * b + 1) % DataSize ELSE (a + 1) % DataSize

I(cond, op, s, rd, ra, rb, imm) ==
    [cond |-> cond, op |-> op, s |-> s, rd |-> rd, ra |-> ra, rb |-> rb, imm |-> imm]

\* Two kinds of streams.  Results, flags, conditions and the local memory:
MC_DataInstr ==
    { I("ALWAYS", "SBC", TRUE,  "r0", "r0", "r1", 0),
      I("Z",      "ADI", FALSE, "r1", "r0", "r0", 1),
      I("NC",     "STL", FALSE, "r0", "r0", "r1", 0),
      I("ALWAYS", "LDL", FALSE, "r1", "r0", "r0", 1) }

\* and floating point operations right behind each other: two that wait for the other's
\* result, one of them conditional, and one that waits for nothing.
MC_FpInstr ==
    { I("ALWAYS", "LDCI", TRUE,  "r0", "r0", "r0", 1),
      I("NZ",     "FTOI", FALSE, "r1", "r0", "r0", 0),
      I("ALWAYS", "FADD", FALSE, "r0", "r1", "r1", 0),
      I("ALWAYS", "FNEG", FALSE, "r0", "r0", "r0", 0) }

MC_Instr == MC_DataInstr \cup MC_FpInstr

\* What is in the pipeline is of one kind.  The second kind leaves the local memory alone:
\* one content of it is enough.
OneKind ==
    LET within(kind) ==
          {instr_fetch, instr_decode, instr_exec, instr_writeback} \subseteq kind
    IN  \/ within(MC_DataInstr)
        \/ within(MC_FpInstr) /\ lmem = [t \in Thread |-> [a \in 0..MemDepth-1 |-> 0]]
=============================================================================
