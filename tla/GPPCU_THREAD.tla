---------------------------- MODULE GPPCU_THREAD ----------------------------
(***************************************************************************)
(* The datapath of the threads (GPPCU_THREAD.v, GPPCU_THREAD_REGBANK.v) on *)
(* top of the control of the core: register bank with preview, operand     *)
(* latches, status register, conditional execution, local memory, and the  *)
(* results on their way to writeback.  The arithmetic is a parameter.      *)
(*                                                                         *)
(* The stream of instructions is a scheduled one, there is no reset after  *)
(* power up, and the constant memory and the processor's port of the local *)
(* memory stand still.                                                     *)
(***************************************************************************)
EXTENDS GPPCU_CORE, GPPCU_COND_VERIFIER, Sequences

CONSTANTS
    DataSize,             \* words are 0..DataSize-1 (2^32)
    MemDepth,             \* words of a local memory (2^WORD_BITS)
    GMem,                 \* the constant memory, as LDCI sees it
    AluQ(_, _, _, _),     \* GPPCU_ALU: function, operands and carry to the result
    AluSreg(_, _, _, _),  \* the same to the flags
    FpuQ(_, _, _)         \* GPPCU_MC_FPU: operation and operands to the result

Data == 0..DataSize-1

ASSUME DataAssumption == DataSize \in Nat \ {0} /\ MemDepth \in Nat \ {0}

\* Only these set flags in the programs of this module: their flags do not depend on
\* an operand that the scoreboard does not check (MVN's V looks at register A, those
\* of the shifts at register B), and a floating point operation with the S bit would
\* clear the flags while it waits for itself (GPPCU_THREAD.v:132).
FlagOp == {"MOV", "MVI", "LDCI", "ADC", "SBC", "AND", "ORR", "XOR", "ADI", "SBI"}

ASSUME FlagAssumption ==
    \A i \in Instr : /\ i.s \in BOOLEAN /\ i.cond \in Condition /\ i.imm \in Data
                     /\ i.s => i.op \in FlagOp

\* Two pairs of operands that agree in what an operation reads.
SameOperands(op, a1, b1, a2, b2) ==
    /\ op \in CW_USEREGA => a1 = a2
    /\ op \in CW_USEREGB \/ CW_BSEL(op) # "REGB" => b1 = b2

\* The units answer with words and flags, and with the same ones whatever the operand that
\* the scoreboard does not check; the constants that are read are words.
ASSUME UnitAssumption ==
    \A i \in Instr :
        /\ CW_BSEL(i.op) = "GMEM" => GMem[i.imm] \in Data
        /\ \A a1, b1, a2, b2 \in Data, c \in BOOLEAN :
              LET f == CW_ALOPC(i.op)
                  same == SameOperands(i.op, a1, b1, a2, b2)
              IN  /\ i.op \in CW_ALOP => AluQ(f, a1, b1, c) \in Data
                  /\ i.op \in CW_ALOP /\ same => AluQ(f, a1, b1, c) = AluQ(f, a2, b2, c)
                  /\ i.s => AluSreg(f, a1, b1, c) \in Sreg
                  /\ i.s /\ same => AluSreg(f, a1, b1, c) = AluSreg(f, a2, b2, c)
                  /\ FpOp(i) => FpuQ(i.op, a1, b1) \in Data
                  /\ FpOp(i) /\ RegWr(i) /\ same => FpuQ(i.op, a1, b1) = FpuQ(i.op, a2, b2)

VARIABLES
    rg,                                          \* the register bank
    exec_oprand_a, exec_oprand_b, exec_sreg,
    wrbk_alu_q, wrbk_fpu_q, wrbk_locmem_dat, wrbk_cond_verified,
    fpu_da, fpu_db,                              \* the operands the unit sees
    lmem                                         \* the local memory

threadVars == <<rg, exec_oprand_a, exec_oprand_b, exec_sreg, wrbk_alu_q, wrbk_fpu_q,
                wrbk_locmem_dat, wrbk_cond_verified, fpu_da, fpu_db, lmem>>
threadsVars == <<coreVars, threadVars>>

ThreadType ==
    /\ rg \in [Thread -> [Reg -> Data]]
    /\ lmem \in [Thread -> [0..MemDepth-1 -> Data]]
    /\ \A v \in {exec_oprand_a, exec_oprand_b, wrbk_alu_q, wrbk_fpu_q, wrbk_locmem_dat,
                 fpu_da, fpu_db} : v \in [Thread -> Data]
    /\ exec_sreg \in [Thread -> Sreg]
    /\ wrbk_cond_verified \in [Thread -> BOOLEAN]

Zeros == [t \in Thread |-> 0]

\* Registers and memories hold anything at power up.
ThreadInit ==
    /\ rg \in [Thread -> [Reg -> Data]]
    /\ lmem \in [Thread -> [0..MemDepth-1 -> Data]]
    /\ exec_oprand_a = Zeros /\ exec_oprand_b = Zeros /\ fpu_da = Zeros /\ fpu_db = Zeros
    /\ wrbk_alu_q = Zeros /\ wrbk_fpu_q = Zeros /\ wrbk_locmem_dat = Zeros
    /\ exec_sreg = [t \in Thread |-> SregReset]
    /\ wrbk_cond_verified = [t \in Thread |-> FALSE]

-----------------------------------------------------------------------------
(* Wires of a thread.                                                      *)

wrbk_reg_d(t) ==
    CASE instr_writeback.op \in CW_LMEM_RD -> wrbk_locmem_dat[t]
      [] FpOp(instr_writeback)             -> wrbk_fpu_q[t]
      [] OTHER                             -> wrbk_alu_q[t]

iWR(t) == cw_valid_writeback /\ RegWr(instr_writeback) /\ wrbk_cond_verified[t]

\* A read port of the register bank, with its preview of the value being written.
oREG(t, r) == IF iWR(t) /\ r = instr_writeback.rd THEN wrbk_reg_d(t) ELSE rg[t][r]

\* Mutant of dec_opr_b_mux: the sum of register B and the offset is not cut to a word.
dec_opr_b_mux_Wide(t) ==
    IF CW_BSEL(instr_decode.op) = "REGB" THEN oREG(t, instr_decode.rb) + instr_decode.imm
    ELSE instr_decode.imm

dec_opr_b_mux(t) ==
    CASE CW_BSEL(instr_decode.op) = "REGB" -> (oREG(t, instr_decode.rb) + instr_decode.imm) % DataSize
      [] CW_BSEL(instr_decode.op) \in {"IMM1", "IMM2"} -> instr_decode.imm
      [] CW_BSEL(instr_decode.op) = "GMEM" -> GMem[instr_decode.imm]

exec_cond_verified(t) == oVALID(instr_exec.cond, exec_sreg[t])

\* The instruction in exec is carried out by thread t in this clock.
Effective(t) == cw_valid_exec /\ exec_cond_verified(t)

\* GPPCU_ALU: its result, and the flags it proposes.
alu_q(t) ==
    AluQ(CW_ALOPC(instr_exec.op), exec_oprand_a[t], exec_oprand_b[t], exec_sreg[t].c)
alu_sreg(t) ==
    AluSreg(CW_ALOPC(instr_exec.op), exec_oprand_a[t], exec_oprand_b[t], exec_sreg[t].c)

\* Port B of the local memory.
iPB_ADDR(t) == exec_oprand_b[t] % MemDepth
iPB_WR(t)   == Effective(t) /\ instr_exec.op \in CW_LMEM_WR

-----------------------------------------------------------------------------
(* One clock.                                                              *)

RegBankClock ==
    rg' = [t \in Thread |->
              IF iWR(t) THEN [rg[t] EXCEPT ![instr_writeback.rd] = wrbk_reg_d(t)] ELSE rg[t]]

\* The operands follow the decode stage on every clock, stalled or not.
OperandClock ==
    /\ exec_oprand_a' = [t \in Thread |-> oREG(t, instr_decode.ra)]
    /\ exec_oprand_b' = [t \in Thread |-> dec_opr_b_mux(t)]

\* wrbk_alu_q is only kept for the operations of the ALU: no other one reads it.
ExecClock ==
    /\ wrbk_alu_q' = [t \in Thread |->
          IF instr_exec.op \in CW_ALOP THEN alu_q(t) ELSE wrbk_alu_q[t]]
    /\ exec_sreg' = [t \in Thread |->
          IF Effective(t) /\ instr_exec.s THEN alu_sreg(t) ELSE exec_sreg[t]]
    /\ wrbk_cond_verified' = [t \in Thread |-> exec_cond_verified(t)]

\* Port B reads what it writes.
MemoryClock ==
    /\ lmem' = [t \in Thread |->
          IF iPB_WR(t) THEN [lmem[t] EXCEPT ![iPB_ADDR(t)] = exec_oprand_a[t]] ELSE lmem[t]]
    /\ wrbk_locmem_dat' = [t \in Thread |->
          IF iPB_WR(t) THEN exec_oprand_a[t] ELSE lmem[t][iPB_ADDR(t)]]

\* The machine takes the operands along when it is idle: the latches of exec are
\* overwritten while the operation runs.
FpDataClock ==
    /\ fpu_da' = [t \in Thread |-> IF fp_stage[t] = "IDLE" THEN exec_oprand_a[t] ELSE fpu_da[t]]
    /\ fpu_db' = [t \in Thread |-> IF fp_stage[t] = "IDLE" THEN exec_oprand_b[t] ELSE fpu_db[t]]
    /\ wrbk_fpu_q' = [t \in Thread |->
          IF fp_stage[t] = "BUSY" /\ fp_done(t, instr_exec)
          THEN FpuQ(instr_exec.op, fpu_da[t], fpu_db[t]) ELSE wrbk_fpu_q[t]]

ThreadClock ==
    RegBankClock /\ OperandClock /\ ExecClock /\ MemoryClock /\ FpDataClock

ThreadsInit == Init /\ ThreadInit

\* The word beside a low iINSTR_VALID is never used: the last one is as good as any.
ThreadsClock(i, v) == (~v => i = instr_fetch) /\ ScheduledClock(i, v) /\ ThreadClock

ThreadsNext == \E i \in Instr, v \in BOOLEAN : ThreadsClock(i, v)
ThreadsSpec == ThreadsInit /\ [][ThreadsNext]_threadsVars

-----------------------------------------------------------------------------
(* Refinement of the machine that carries out one instruction at a time.   *)

Held(valid, i) == IF valid THEN <<i>> ELSE <<>>

\* What has been given and has not left exec.
InPipe == Held(cw_valid_exec, instr_exec) \o Held(cw_valid_decode, instr_decode)
              \o Held(cw_valid_fetch, instr_fetch)

\* The registers as decode sees them, the value being written included.
ArchRegs == [t \in Thread |-> [r \in Reg |-> oREG(t, r)]]

ISA == INSTANCE GPPCU_ISA
         WITH pending <- InPipe, regs <- ArchRegs, sreg <- exec_sreg, mem <- lmem,
              gmem <- GMem

\* The pipeline loses nothing, repeats nothing and reorders nothing: with its stalls,
\* its preview and its multi-cycle operations it does to the registers, the flags and
\* the local memories what the instructions given do one after the other
\* (GPPCU_CORE.v:83-105, GPPCU_THREAD.v:63-133,223-229).
CarriesOutInOrder == ISA!ISASpec
=============================================================================
