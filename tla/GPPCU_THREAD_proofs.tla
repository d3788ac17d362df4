-------------------------- MODULE GPPCU_THREAD_proofs --------------------------
(***************************************************************************)
(* The pipeline of GPPCU_THREAD implements the machine of GPPCU_ISA, for   *)
(* every set of threads, registers and instructions, every size of words   *)
(* and memory, and every arithmetic that keeps to UnitAssumption.          *)
(***************************************************************************)
EXTENDS GPPCU_THREAD, GPPCU_CORE_proofs, SequenceTheorems

\* What instruction i reads when it takes effect now, and what it makes of it.
OpA(t, i) == oREG(t, i.ra)

OpB(t, i) ==
    CASE CW_BSEL(i.op) = "REGB"             -> (oREG(t, i.rb) + i.imm) % DataSize
      [] CW_BSEL(i.op) \in {"IMM1", "IMM2"} -> i.imm
      [] CW_BSEL(i.op) = "GMEM"             -> GMem[i.imm]

Value(t, i) ==
    IF i.op \in CW_LMEM_RD THEN lmem[t][OpB(t, i) % MemDepth]
    ELSE IF FpOp(i) THEN FpuQ(i.op, OpA(t, i), OpB(t, i))
    ELSE AluQ(CW_ALOPC(i.op), OpA(t, i), OpB(t, i), exec_sreg[t].c)

Arch(t) == [regs |-> ArchRegs[t], mem |-> lmem[t], sreg |-> exec_sreg[t]]

LEMMA Bsel ==
    ASSUME NEW op \in Opcode
    PROVE  CW_BSEL(op) \in {"REGB", "IMM1", "IMM2", "GMEM"}
BY DEF CW_BSEL

LEMMA IsaOperands ==
    ASSUME NEW t \in Thread, NEW i \in Instr
    PROVE  ISA!A(Arch(t), i) = OpA(t, i) /\ ISA!B(Arch(t), GMem, i) = OpB(t, i)
<1>1. i.op \in Opcode /\ i.ra \in Reg /\ i.rb \in Reg
  BY InstrAssumption
<1>2. ISA!CW_BSEL(i.op) = CW_BSEL(i.op)
  BY DEF ISA!CW_BSEL, CW_BSEL
<1>3. \A r \in Reg : Arch(t).regs[r] = oREG(t, r)
  BY DEF Arch, ArchRegs
<1> QED  BY <1>1, <1>2, <1>3, Bsel DEF ISA!A, ISA!B, OpA, OpB

LEMMA IsaEffect ==
    ASSUME NEW t \in Thread, NEW i \in Instr
    PROVE  ISA!Effect(Arch(t), GMem, i) =
             IF ~oVALID(i.cond, exec_sreg[t]) THEN Arch(t)
             ELSE [regs |-> IF RegWr(i) THEN [ArchRegs[t] EXCEPT ![i.rd] = Value(t, i)]
                            ELSE ArchRegs[t],
                   mem  |-> IF i.op \in CW_LMEM_WR
                            THEN [lmem[t] EXCEPT ![OpB(t, i) % MemDepth] = OpA(t, i)]
                            ELSE lmem[t],
                   sreg |-> IF i.s THEN AluSreg(CW_ALOPC(i.op), OpA(t, i), OpB(t, i),
                                                exec_sreg[t].c)
                            ELSE exec_sreg[t]]
<1>1. /\ Arch(t).regs = ArchRegs[t] /\ Arch(t).mem = lmem[t] /\ Arch(t).sreg = exec_sreg[t]
  BY DEF Arch
<1>2. ISA!oVALID(i.cond, exec_sreg[t]) = oVALID(i.cond, exec_sreg[t])
  BY DEF ISA!oVALID, oVALID, ISA!Negative, Negative, ISA!Positive, Positive
<1>3. /\ ISA!RegWr(i) = RegWr(i) /\ ISA!FpOp(i) = FpOp(i)
      /\ ISA!CW_LMEM_RD = CW_LMEM_RD /\ ISA!CW_LMEM_WR = CW_LMEM_WR
      /\ ISA!CW_ALOPC(i.op) = CW_ALOPC(i.op)
  BY DEF ISA!RegWr, RegWr, ISA!FpOp, FpOp, ISA!CW_LMEM_RD, CW_LMEM_RD, ISA!CW_LMEM_WR,
         CW_LMEM_WR, ISA!CW_ALOPC, CW_ALOPC, ISA!CW_REGWR, CW_REGWR, ISA!CW_FPOP, CW_FPOP,
         ISA!Opcode, Opcode
<1>4. ISA!Result(Arch(t), GMem, i) = Value(t, i)
  BY <1>1, <1>3, IsaOperands DEF ISA!Result, ISA!Address, Value
<1> QED
  BY <1>1, <1>2, <1>3, <1>4, IsaOperands DEF ISA!Effect, ISA!Address

-----------------------------------------------------------------------------
(* The stream is a scheduled one, without resets.                          *)

LEMMA ThreadsIsScheduled == ASSUME ThreadsNext PROVE ScheduledNext
BY DEF ThreadsNext, ThreadsClock, ScheduledNext

LEMMA ControlHolds ==
    ThreadsSpec => [](TypeOK /\ FpOwned /\ IssueIsSafe)
<1>1. [ThreadsNext]_threadsVars => [ScheduledNext]_coreVars /\ [Next]_coreVars
  BY ThreadsIsScheduled, ScheduledIsNext DEF threadsVars
<1>2. ThreadsSpec => Spec /\ ScheduledSpec
  BY <1>1, PTL DEF ThreadsSpec, ThreadsInit, Spec, ScheduledSpec
<1> QED  BY <1>2, TypeCorrect, MachinesOwned, NoDataHazard, PTL

-----------------------------------------------------------------------------
(* Type correctness.                                                       *)

\* UnitAssumption, one operation at a time.
LEMMA UnitAnswers ==
    ASSUME NEW i \in Instr, NEW a \in Data, NEW b \in Data, NEW c \in BOOLEAN
    PROVE  /\ i.op \in CW_ALOP => AluQ(CW_ALOPC(i.op), a, b, c) \in Data
           /\ i.s => AluSreg(CW_ALOPC(i.op), a, b, c) \in Sreg
           /\ FpOp(i) => FpuQ(i.op, a, b) \in Data
BY UnitAssumption

LEMMA UnitAgrees ==
    ASSUME NEW i \in Instr, NEW c \in BOOLEAN,
           NEW a1 \in Data, NEW b1 \in Data, NEW a2 \in Data, NEW b2 \in Data,
           SameOperands(i.op, a1, b1, a2, b2)
    PROVE  /\ i.op \in CW_ALOP => AluQ(CW_ALOPC(i.op), a1, b1, c)
                                    = AluQ(CW_ALOPC(i.op), a2, b2, c)
           /\ i.s => AluSreg(CW_ALOPC(i.op), a1, b1, c) = AluSreg(CW_ALOPC(i.op), a2, b2, c)
           /\ FpOp(i) /\ RegWr(i) => FpuQ(i.op, a1, b1) = FpuQ(i.op, a2, b2)
BY UnitAssumption

LEMMA WordMod == \A n \in Nat : n % DataSize \in Data /\ n % MemDepth \in 0..MemDepth-1
BY DataAssumption DEF Data

LEMMA PortType ==
    ASSUME ThreadType, NEW t \in Thread
    PROVE  wrbk_reg_d(t) \in Data /\ \A r \in Reg : oREG(t, r) \in Data
<1>1. /\ wrbk_locmem_dat[t] \in Data /\ wrbk_fpu_q[t] \in Data /\ wrbk_alu_q[t] \in Data
      /\ \A r \in Reg : rg[t][r] \in Data
  BY DEF ThreadType
<1> QED  BY <1>1 DEF wrbk_reg_d, oREG

LEMMA OperandType ==
    ASSUME ThreadType, NEW t \in Thread, NEW i \in Instr
    PROVE  OpA(t, i) \in Data /\ OpB(t, i) \in Data
<1>1. i.op \in Opcode /\ i.ra \in Reg /\ i.rb \in Reg /\ i.imm \in Data
  BY InstrAssumption, FlagAssumption
<1>2. oREG(t, i.ra) \in Data /\ oREG(t, i.rb) \in Data
  BY <1>1, PortType
<1>3. (oREG(t, i.rb) + i.imm) % DataSize \in Data
  <2>1. oREG(t, i.rb) + i.imm \in Nat
    BY <1>1, <1>2, DataAssumption DEF Data
  <2> QED  BY <2>1, WordMod
<1>4. CW_BSEL(i.op) = "GMEM" => GMem[i.imm] \in Data
  BY UnitAssumption
<1> QED  BY <1>1, <1>2, <1>3, <1>4, Bsel DEF OpA, OpB

\* The operands in the latches follow those of decode.
LEMMA LatchedOperands ==
    ASSUME OperandClock, NEW t \in Thread
    PROVE  exec_oprand_a'[t] = OpA(t, instr_decode) /\ exec_oprand_b'[t] = OpB(t, instr_decode)
BY DEF OperandClock, OpA, OpB, dec_opr_b_mux

LEMMA CondIsBoolean ==
    ASSUME NEW cond \in Condition, NEW s \in Sreg
    PROVE  oVALID(cond, s) \in BOOLEAN
BY DEF Condition, Sreg, oVALID, Negative, Positive

LEMMA MemoryWrite ==
    ASSUME NEW m \in [0..MemDepth-1 -> Data], NEW b \in Data, NEW d \in Data
    PROVE  /\ m[b % MemDepth] \in Data
           /\ [m EXCEPT ![b % MemDepth] = d] \in [0..MemDepth-1 -> Data]
<1>1. b % MemDepth \in 0..MemDepth-1
  <2>1. b \in Nat
    BY DataAssumption DEF Data
  <2> QED  BY <2>1, WordMod
<1> QED  BY <1>1

LEMMA ThreadTypeStep ==
    ASSUME TypeOK, FpOwned, ThreadType, NEW i \in Instr, NEW v \in BOOLEAN, ThreadsClock(i, v)
    PROVE  ThreadType'
<1>0. /\ RegBankClock /\ OperandClock /\ ExecClock /\ MemoryClock /\ FpDataClock
      /\ instr_exec \in Instr /\ instr_decode \in Instr
  BY DEF ThreadsClock, ThreadClock, TypeOK, PipeType
<1>1. rg' \in [Thread -> [Reg -> Data]]
  <2>1. ASSUME NEW t \in Thread
        PROVE  (IF iWR(t) THEN [rg[t] EXCEPT ![instr_writeback.rd] = wrbk_reg_d(t)] ELSE rg[t])
                 \in [Reg -> Data]
    BY PortType DEF ThreadType
  <2> QED  BY <1>0, <2>1 DEF RegBankClock
<1>2. exec_oprand_a' \in [Thread -> Data] /\ exec_oprand_b' \in [Thread -> Data]
  <2>1. ASSUME NEW t \in Thread
        PROVE  exec_oprand_a'[t] \in Data /\ exec_oprand_b'[t] \in Data
    BY <1>0, LatchedOperands, OperandType
  <2> QED  BY <1>0, <2>1 DEF OperandClock
<1>3. \A t \in Thread : /\ exec_oprand_a[t] \in Data /\ exec_oprand_b[t] \in Data
                        /\ exec_sreg[t].c \in BOOLEAN
  BY DEF ThreadType, Sreg
<1>4. wrbk_alu_q' \in [Thread -> Data]
  <2>1. ASSUME NEW t \in Thread
        PROVE  (IF instr_exec.op \in CW_ALOP THEN alu_q(t) ELSE wrbk_alu_q[t]) \in Data
    BY <1>0, <1>3, UnitAnswers DEF alu_q, ThreadType
  <2> QED  BY <1>0, <2>1 DEF ExecClock
<1>5. exec_sreg' \in [Thread -> Sreg]
  <2>1. ASSUME NEW t \in Thread
        PROVE  (IF Effective(t) /\ instr_exec.s THEN alu_sreg(t) ELSE exec_sreg[t]) \in Sreg
    BY <1>0, <1>3, UnitAnswers DEF alu_sreg, ThreadType
  <2> QED  BY <1>0, <2>1 DEF ExecClock
<1>6. wrbk_cond_verified' \in [Thread -> BOOLEAN]
  <2>1. ASSUME NEW t \in Thread PROVE exec_cond_verified(t) \in BOOLEAN
    BY <1>0, CondIsBoolean, FlagAssumption DEF exec_cond_verified, ThreadType
  <2> QED  BY <1>0, <2>1 DEF ExecClock
<1>7. /\ lmem' \in [Thread -> [0..MemDepth-1 -> Data]]
      /\ wrbk_locmem_dat' \in [Thread -> Data]
  <2>1. ASSUME NEW t \in Thread
        PROVE  /\ (IF iPB_WR(t) THEN [lmem[t] EXCEPT ![iPB_ADDR(t)] = exec_oprand_a[t]]
                   ELSE lmem[t]) \in [0..MemDepth-1 -> Data]
               /\ (IF iPB_WR(t) THEN exec_oprand_a[t] ELSE lmem[t][iPB_ADDR(t)]) \in Data
    BY <1>3, MemoryWrite DEF iPB_ADDR, ThreadType
  <2> QED  BY <1>0, <2>1 DEF MemoryClock
<1>8. fpu_da' \in [Thread -> Data] /\ fpu_db' \in [Thread -> Data]
  BY <1>0, <1>3 DEF FpDataClock, ThreadType
<1>9. wrbk_fpu_q' \in [Thread -> Data]
  <2>1. ASSUME NEW t \in Thread
        PROVE  (IF fp_stage[t] = "BUSY" /\ fp_done(t, instr_exec)
                THEN FpuQ(instr_exec.op, fpu_da[t], fpu_db[t]) ELSE wrbk_fpu_q[t]) \in Data
    <3>1. fp_stage[t] = "BUSY" => FpOp(instr_exec)
      BY DEF FpOwned
    <3>2. fpu_da[t] \in Data /\ fpu_db[t] \in Data /\ wrbk_fpu_q[t] \in Data
      BY DEF ThreadType
    <3> QED  BY <1>0, <3>1, <3>2, UnitAnswers
  <2> QED  BY <1>0, <2>1 DEF FpDataClock
<1> QED  BY <1>1, <1>2, <1>4, <1>5, <1>6, <1>7, <1>8, <1>9 DEF ThreadType

\* Every reachable state of the threads is well typed (GPPCU_THREAD.v, GPPCU_THREAD_REGBANK.v).
THEOREM ThreadsTypeCorrect == ThreadsSpec => []ThreadType
<1>1. ThreadsInit => ThreadType
  <2>1. 0 \in Data /\ SregReset \in Sreg
    BY DataAssumption DEF Data, SregReset, Sreg
  <2> QED  BY <2>1 DEF ThreadsInit, ThreadInit, ThreadType, Zeros
<1>2. TypeOK /\ FpOwned /\ ThreadType /\ [ThreadsNext]_threadsVars => ThreadType'
  <2>1. ASSUME ThreadType, UNCHANGED threadsVars PROVE ThreadType'
    BY <2>1 DEF ThreadType, threadsVars, threadVars
  <2> QED  BY <2>1, ThreadTypeStep DEF ThreadsNext
<1> QED  BY <1>1, <1>2, ControlHolds, PTL DEF ThreadsSpec

-----------------------------------------------------------------------------
(* The threads run in lockstep: their machines start together and, as all  *)
(* the units are equal, finish together.                                   *)

Lockstep ==
    \A t, u \in Thread : /\ fp_stage[t] = fp_stage[u] /\ fp_start[t] = fp_start[u]
                         /\ fpu_busy[t] = fpu_busy[u] /\ fpu_counter[t] = fpu_counter[u]

LEMMA LockstepStep ==
    ASSUME Lockstep, NEW i, NEW v, Clock(i, v)
    PROVE  Lockstep'
<1> SUFFICES ASSUME NEW t \in Thread, NEW u \in Thread
             PROVE  /\ fp_stage'[t] = fp_stage'[u] /\ fp_start'[t] = fp_start'[u]
                    /\ fpu_busy'[t] = fpu_busy'[u] /\ fpu_counter'[t] = fpu_counter'[u]
  BY DEF Lockstep
<1>1. /\ fp_stage[t] = fp_stage[u] /\ fp_start[t] = fp_start[u]
      /\ fpu_busy[t] = fpu_busy[u] /\ fpu_counter[t] = fpu_counter[u]
  BY DEF Lockstep
<1>2. fp_done(t, instr_exec) <=> fp_done(u, instr_exec)
  BY <1>1 DEF fp_done
<1>3. NextStage(t, cw_valid_exec, instr_exec) = NextStage(u, cw_valid_exec, instr_exec)
  BY <1>1, <1>2 DEF NextStage
<1> QED  BY <1>1, <1>3 DEF Clock, FpClock, FpuClock

\* While one machine holds exec, no machine has finished.
LEMMA NoneDone ==
    ASSUME Lockstep, on_calculation_delay, NEW t \in Thread
    PROVE  fp_stage[t] # "DONE" /\ cw_valid_exec /\ FpOp(instr_exec)
BY DEF Lockstep, on_calculation_delay, fp_busy

\* When none holds exec, all the machines go to rest.
LEMMA AllIdle ==
    ASSUME TypeOK, FpOwned, ~on_calculation_delay, NEW i, NEW v, Clock(i, v), NEW t \in Thread
    PROVE  /\ fp_stage'[t] = "IDLE"
           /\ fp_stage[t] \in {"IDLE", "DONE"}
           /\ cw_valid_exec /\ FpOp(instr_exec) => fp_stage[t] = "DONE"
<1>1. fp_stage[t] \in FpStage /\ fp_stage'[t] = NextStage(t, cw_valid_exec, instr_exec)
  BY DEF TypeOK, FpType, Clock, FpClock
<1>2. cw_valid_exec /\ FpOp(instr_exec) => fp_stage[t] = "DONE"
  BY DEF on_calculation_delay, fp_busy
<1>3. fp_stage[t] # "IDLE" => cw_valid_exec /\ FpOp(instr_exec)
  BY DEF FpOwned
<1> QED  BY <1>1, <1>2, <1>3 DEF NextStage, FpStage

-----------------------------------------------------------------------------
(* The operands on their way.  The instruction in exec has what it reads   *)
(* in the latches, then in the unit; a floating point result waits at the  *)
(* unit until the operation leaves exec.                                   *)

Carries(t, i, a, b) == SameOperands(i.op, a, b, OpA(t, i), OpB(t, i))

Ready(t, e) ==
    /\ fp_stage[t] = "IDLE" => Carries(t, e, exec_oprand_a[t], exec_oprand_b[t])
    /\ fp_stage[t] \in {"RUN", "BUSY"} => Carries(t, e, fpu_da[t], fpu_db[t])
    /\ fp_stage[t] = "DONE" /\ RegWr(e) => wrbk_fpu_q[t] = FpuQ(e.op, OpA(t, e), OpB(t, e))

DatapathInv ==
    \A t \in Thread, e \in Instr : cw_valid_exec /\ instr_exec = e => Ready(t, e)

\* The register bank takes over what its ports show.
LEMMA BankTakesOver ==
    ASSUME ThreadType, RegBankClock, NEW t \in Thread, NEW r \in Reg
    PROVE  rg'[t][r] = oREG(t, r)
BY DEF RegBankClock, oREG, ThreadType

\* A port shows the same again when nothing new that it reads reaches writeback.
LEMMA PortsHold ==
    ASSUME ThreadType, RegBankClock, ~cw_valid_writeback', NEW t \in Thread, NEW r \in Reg
    PROVE  oREG(t, r)' = oREG(t, r)
<1>1. rg'[t][r] = oREG(t, r)
  BY BankTakesOver
<1>2. ~iWR(t)'
  BY DEF iWR
<1> QED  BY <1>1, <1>2 DEF oREG

LEMMA OperandsHold ==
    ASSUME ThreadType, RegBankClock, ~cw_valid_writeback', NEW t \in Thread, NEW i \in Instr
    PROVE  OpA(t, i)' = OpA(t, i) /\ OpB(t, i)' = OpB(t, i)
<1>1. oREG(t, i.ra)' = oREG(t, i.ra) /\ oREG(t, i.rb)' = oREG(t, i.rb)
  BY PortsHold, InstrAssumption
<1> QED  BY <1>1 DEF OpA, OpB

\* What leaves decode reads none of the registers that exec is about to write.
LEMMA OperandsIssued ==
    ASSUME TypeOK, ThreadType, IssueIsSafe, RegBankClock, NEW j, NEW v, Clock(j, v),
           ~data_stall_decode, cw_valid_decode, NEW t \in Thread, NEW i \in Instr,
           i = instr_decode
    PROVE  SameOperands(i.op, OpA(t, i), OpB(t, i), OpA(t, i)', OpB(t, i)')
<1>1. \A r \in Sources(i) : r \notin exec_regd
  BY DEF IssueIsSafe, decode_rq
<1>2. ASSUME NEW r \in Reg, r \in Sources(i) PROVE oREG(t, r)' = oREG(t, r)
  <2>1. cw_valid_writeback' => cw_valid_exec
    BY DEF Clock, ShiftValid
  <2>2. instr_writeback' = instr_exec
    BY DEF Clock, ShiftInstr
  <2>3. iWR(t)' => r # instr_writeback'.rd
    BY <1>1, <1>2, <2>1, <2>2 DEF iWR, exec_regd, Writes, RegWr
  <2> QED  BY <2>3, BankTakesOver DEF oREG
<1>3. i.ra \in Reg /\ i.rb \in Reg /\ i.op \in Opcode
  BY InstrAssumption
<1>4. i.op \in CW_USEREGA => oREG(t, i.ra)' = oREG(t, i.ra)
  BY <1>2, <1>3 DEF Sources
<1>5. i.op \in CW_USEREGB => oREG(t, i.rb)' = oREG(t, i.rb)
  BY <1>2, <1>3 DEF Sources
<1>6. i.op \in CW_USEREGA => OpA(t, i)' = OpA(t, i)
  BY <1>4 DEF OpA
<1>7. i.op \in CW_USEREGB \/ CW_BSEL(i.op) # "REGB" => OpB(t, i)' = OpB(t, i)
  BY <1>3, <1>5, Bsel DEF OpB
<1> QED  BY <1>6, <1>7 DEF SameOperands

LEMMA DatapathStep ==
    ASSUME TypeOK, FpOwned, IssueIsSafe, ThreadType, Lockstep, DatapathInv,
           NEW i \in Instr, NEW v \in BOOLEAN, ThreadsClock(i, v)
    PROVE  DatapathInv'
<1> SUFFICES ASSUME NEW t \in Thread, NEW e \in Instr, cw_valid_exec', instr_exec' = e
             PROVE  Ready(t, e)'
  BY DEF DatapathInv
<1>0. /\ Clock(i, v) /\ RegBankClock /\ OperandClock /\ FpDataClock
  BY DEF ThreadsClock, ScheduledClock, ThreadClock
<1>1. CASE on_calculation_delay
  <2>1. cw_valid_exec /\ instr_exec = e /\ FpOp(e) /\ fp_stage[t] # "DONE"
    BY <1>0, <1>1, MoveDelayed, NoneDone
  <2>2. Ready(t, e)
    BY <2>1 DEF DatapathInv
  <2>3. OpA(t, e)' = OpA(t, e) /\ OpB(t, e)' = OpB(t, e)
    <3>1. ~cw_valid_writeback'
      BY <1>0, <1>1 DEF Clock, ShiftValid, data_stall_exec
    <3> QED  BY <1>0, <3>1, OperandsHold
  <2>4. /\ fp_stage[t] \in FpStage
        /\ fp_stage'[t] = NextStage(t, cw_valid_exec, instr_exec)
    BY <1>0 DEF TypeOK, FpType, Clock, FpClock
  <2>5. CASE fp_stage[t] = "IDLE"
    <3>1. fp_stage'[t] = "RUN"
      BY <2>1, <2>4, <2>5 DEF NextStage
    <3>2. fpu_da'[t] = exec_oprand_a[t] /\ fpu_db'[t] = exec_oprand_b[t]
      BY <1>0, <2>5 DEF FpDataClock
    <3> QED  BY <2>2, <2>3, <2>5, <3>1, <3>2 DEF Ready, Carries
  <2>6. CASE fp_stage[t] \in {"RUN", "BUSY"}
    <3>1. fpu_da'[t] = fpu_da[t] /\ fpu_db'[t] = fpu_db[t]
      BY <1>0, <2>6 DEF FpDataClock
    <3>2. Carries(t, e, fpu_da[t], fpu_db[t])
      BY <2>2, <2>6 DEF Ready
    <3>3. CASE fp_stage'[t] = "DONE"
      <4>1. wrbk_fpu_q'[t] = FpuQ(e.op, fpu_da[t], fpu_db[t])
        <5>1. fp_stage[t] = "BUSY" /\ fp_done(t, instr_exec)
          BY <2>4, <2>6, <3>3 DEF NextStage
        <5> QED  BY <1>0, <2>1, <5>1 DEF FpDataClock
      <4>2. /\ fpu_da[t] \in Data /\ fpu_db[t] \in Data
            /\ OpA(t, e) \in Data /\ OpB(t, e) \in Data
        BY OperandType DEF ThreadType
      <4>3. RegWr(e) => FpuQ(e.op, fpu_da[t], fpu_db[t]) = FpuQ(e.op, OpA(t, e), OpB(t, e))
        BY <2>1, <3>2, <4>2, UnitAgrees DEF Carries
      <4> QED  BY <2>3, <3>3, <4>1, <4>3 DEF Ready, RegWr
    <3>4. CASE fp_stage'[t] = "BUSY"
      BY <2>3, <3>1, <3>2, <3>4 DEF Ready, Carries
    <3> QED  BY <2>4, <2>6, <3>3, <3>4 DEF NextStage
  <2> QED  BY <2>1, <2>4, <2>5, <2>6 DEF FpStage
<1>2. CASE ~on_calculation_delay
  <2>1. ~data_stall_decode /\ cw_valid_decode /\ instr_decode = e
    BY <1>0, <1>2 DEF Clock, ShiftValid, ShiftInstr, data_stall_exec
  <2>2. fp_stage'[t] = "IDLE"
    BY <1>0, <1>2, AllIdle
  <2>3. exec_oprand_a'[t] = OpA(t, e) /\ exec_oprand_b'[t] = OpB(t, e)
    BY <1>0, <2>1, LatchedOperands
  <2>4. SameOperands(e.op, OpA(t, e), OpB(t, e), OpA(t, e)', OpB(t, e)')
    BY <1>0, <2>1, OperandsIssued
  <2> QED  BY <2>2, <2>3, <2>4 DEF Ready, Carries
<1> QED  BY <1>1, <1>2

-----------------------------------------------------------------------------
(* The invariant of the datapath.                                          *)

PipelineInv ==
    TypeOK /\ FpOwned /\ IssueIsSafe /\ ThreadType /\ Lockstep /\ DatapathInv

LEMMA PipelineHolds == ThreadsSpec => []PipelineInv
<1>1. ThreadsInit => Lockstep /\ DatapathInv
  BY DEF ThreadsInit, Init, FpInit, Lockstep, DatapathInv
<1>2. TypeOK /\ FpOwned /\ IssueIsSafe /\ ThreadType /\ Lockstep /\ DatapathInv
         /\ [ThreadsNext]_threadsVars => (Lockstep /\ DatapathInv)'
  <2>1. ASSUME Lockstep, DatapathInv, UNCHANGED threadsVars PROVE (Lockstep /\ DatapathInv)'
    <3>1. Lockstep'
      BY <2>1 DEF threadsVars, coreVars, fpuVars, Lockstep
    <3>2. ASSUME NEW t \in Thread, NEW e \in Instr PROVE Ready(t, e)' <=> Ready(t, e)
      <4>1. wrbk_reg_d(t)' = wrbk_reg_d(t) /\ (iWR(t)' <=> iWR(t))
        BY <2>1 DEF threadsVars, threadVars, coreVars, validVars, instrVars, wrbk_reg_d, iWR,
                    RegWr, FpOp
      <4>2. \A r : oREG(t, r)' = oREG(t, r)
        BY <2>1, <4>1 DEF threadsVars, threadVars, coreVars, instrVars, oREG
      <4>3. OpA(t, e)' = OpA(t, e) /\ OpB(t, e)' = OpB(t, e)
        BY <4>2 DEF OpA, OpB
      <4> QED
        BY <2>1, <4>3 DEF threadsVars, threadVars, coreVars, fpuVars, Ready, Carries, RegWr
    <3>3. DatapathInv'
      BY <2>1, <3>2 DEF threadsVars, coreVars, validVars, instrVars, DatapathInv
    <3> QED  BY <3>1, <3>3
  <2>2. ASSUME TypeOK, FpOwned, IssueIsSafe, ThreadType, Lockstep, DatapathInv, ThreadsNext
        PROVE  (Lockstep /\ DatapathInv)'
    BY <2>2, LockstepStep, DatapathStep DEF ThreadsNext, ThreadsClock, ScheduledClock
  <2> QED  BY <2>1, <2>2
<1> QED  BY <1>1, <1>2, ControlHolds, ThreadsTypeCorrect, PTL DEF ThreadsSpec, PipelineInv

-----------------------------------------------------------------------------
(* What a clock does to the state a program sees.                          *)

\* While an operation holds exec nothing changes.
LEMMA DelayChangesNothing ==
    ASSUME PipelineInv, NEW i \in Instr, NEW v \in BOOLEAN, ThreadsClock(i, v),
           on_calculation_delay
    PROVE  UNCHANGED <<InPipe, ArchRegs, exec_sreg, lmem>>
<1>0. Clock(i, v) /\ RegBankClock /\ ExecClock /\ MemoryClock
  BY DEF ThreadsClock, ScheduledClock, ThreadClock
<1>1. UNCHANGED InPipe
  BY <1>0, MoveDelayed DEF PipelineInv, InPipe
<1>2. UNCHANGED ArchRegs
  <2>1. ~cw_valid_writeback'
    BY <1>0 DEF Clock, ShiftValid, data_stall_exec
  <2> QED  BY <1>0, <2>1, PortsHold DEF PipelineInv, ArchRegs
<1>3. FpOp(instr_exec) /\ ~instr_exec.s /\ instr_exec.op \notin CW_LMEM_WR
  <2>1. FpOp(instr_exec) /\ instr_exec \in Instr
    BY NoneDone, ThreadAssumption DEF PipelineInv, TypeOK, PipeType
  <2> QED  BY <2>1, FlagAssumption DEF FpOp, CW_FPOP, FlagOp, CW_LMEM_WR
<1>4. UNCHANGED exec_sreg
  BY <1>0, <1>3 DEF ExecClock, PipelineInv, ThreadType
<1>5. UNCHANGED lmem
  BY <1>0, <1>3 DEF MemoryClock, iPB_WR, PipelineInv, ThreadType
<1> QED  BY <1>1, <1>2, <1>4, <1>5

\* A clock in which exec is empty.
LEMMA BubbleChangesNothing ==
    ASSUME PipelineInv, NEW i \in Instr, NEW v \in BOOLEAN, ThreadsClock(i, v),
           ~cw_valid_exec
    PROVE  UNCHANGED <<ArchRegs, exec_sreg, lmem>>
<1>0. Clock(i, v) /\ RegBankClock /\ ExecClock /\ MemoryClock
  BY DEF ThreadsClock, ScheduledClock, ThreadClock
<1>1. ~cw_valid_writeback'
  BY <1>0 DEF Clock, ShiftValid
<1>2. UNCHANGED ArchRegs
  BY <1>0, <1>1, PortsHold DEF PipelineInv, ArchRegs
<1>3. UNCHANGED exec_sreg /\ UNCHANGED lmem
  BY <1>0 DEF ExecClock, MemoryClock, Effective, iPB_WR, PipelineInv, ThreadType
<1> QED  BY <1>2, <1>3

\* The operands of the operation that leaves exec.
LEMMA LeavingOperands ==
    ASSUME PipelineInv, NEW i \in Instr, NEW v \in BOOLEAN, Clock(i, v),
           ~on_calculation_delay, cw_valid_exec, NEW t \in Thread, NEW e \in Instr,
           e = instr_exec
    PROVE  /\ ~FpOp(e) => Carries(t, e, exec_oprand_a[t], exec_oprand_b[t])
           /\ FpOp(e) /\ RegWr(e) => wrbk_fpu_q[t] = FpuQ(e.op, OpA(t, e), OpB(t, e))
<1>1. Ready(t, e)
  BY DEF PipelineInv, DatapathInv
<1>2. FpOp(e) => fp_stage[t] = "DONE"
  BY AllIdle DEF PipelineInv
<1>3. ~FpOp(e) => fp_stage[t] = "IDLE"
  BY DEF PipelineInv, FpOwned
<1> QED  BY <1>1, <1>2, <1>3 DEF Ready

\* What it hands to the register bank.
LEMMA LeavingResult ==
    ASSUME PipelineInv, NEW i \in Instr, NEW v \in BOOLEAN, ThreadsClock(i, v),
           ~on_calculation_delay, cw_valid_exec, NEW t \in Thread, NEW e \in Instr,
           e = instr_exec, RegWr(e)
    PROVE  wrbk_reg_d(t)' = Value(t, e)
<1>0. /\ Clock(i, v) /\ ExecClock /\ MemoryClock /\ FpDataClock
      /\ instr_writeback' = e
  BY DEF ThreadsClock, ScheduledClock, ThreadClock, Clock, ShiftInstr
<1>1. /\ exec_oprand_a[t] \in Data /\ exec_oprand_b[t] \in Data
      /\ OpA(t, e) \in Data /\ OpB(t, e) \in Data /\ exec_sreg[t].c \in BOOLEAN
  BY OperandType DEF PipelineInv, ThreadType, Sreg
<1>2. e.op \in Opcode
  BY InstrAssumption
<1>3. CASE e.op \in CW_LMEM_RD
  <2>1. ~FpOp(e) /\ e.op \notin CW_LMEM_WR /\ e.op \in CW_USEREGB
    BY <1>3 DEF FpOp, CW_FPOP, CW_LMEM_RD, CW_LMEM_WR, CW_USEREGB
  <2>2. exec_oprand_b[t] = OpB(t, e)
    BY <1>0, <2>1, LeavingOperands DEF Carries, SameOperands
  <2>3. wrbk_locmem_dat'[t] = lmem[t][OpB(t, e) % MemDepth]
    BY <1>0, <2>1, <2>2 DEF MemoryClock, iPB_WR, iPB_ADDR
  <2> QED  BY <1>0, <1>3, <2>1, <2>3 DEF wrbk_reg_d, Value, FpOp
<1>4. CASE e.op \notin CW_LMEM_RD /\ FpOp(e)
  <2>1. fp_stage[t] = "DONE"
    BY <1>0, <1>4, AllIdle DEF PipelineInv
  <2>2. wrbk_fpu_q'[t] = wrbk_fpu_q[t]
    BY <1>0, <2>1 DEF FpDataClock
  <2>3. wrbk_fpu_q[t] = FpuQ(e.op, OpA(t, e), OpB(t, e))
    BY <1>0, <1>4, LeavingOperands
  <2> QED  BY <1>0, <1>4, <2>2, <2>3 DEF wrbk_reg_d, Value, FpOp
<1>5. CASE e.op \notin CW_LMEM_RD /\ ~FpOp(e)
  <2>1. e.op \in CW_ALOP
    BY <1>2, <1>5 DEF RegWr, FpOp, CW_REGWR, CW_FPOP, CW_LMEM_RD, CW_ALOP, Opcode
  <2>2. SameOperands(e.op, exec_oprand_a[t], exec_oprand_b[t], OpA(t, e), OpB(t, e))
    BY <1>0, <1>5, LeavingOperands DEF Carries
  <2>3. wrbk_alu_q'[t] = AluQ(CW_ALOPC(e.op), OpA(t, e), OpB(t, e), exec_sreg[t].c)
    BY <1>0, <1>1, <2>1, <2>2, UnitAgrees DEF ExecClock, alu_q
  <2> QED  BY <1>0, <1>5, <2>3 DEF wrbk_reg_d, Value, FpOp
<1> QED  BY <1>3, <1>4, <1>5

\* A clock in which an instruction leaves exec: it takes effect on every thread.
LEMMA LeavingTakesEffect ==
    ASSUME PipelineInv, NEW i \in Instr, NEW v \in BOOLEAN, ThreadsClock(i, v),
           ~on_calculation_delay, cw_valid_exec, NEW t \in Thread, NEW e \in Instr,
           e = instr_exec
    PROVE  /\ ArchRegs'[t] = ISA!Effect(Arch(t), GMem, e).regs
           /\ lmem'[t] = ISA!Effect(Arch(t), GMem, e).mem
           /\ exec_sreg'[t] = ISA!Effect(Arch(t), GMem, e).sreg
<1> DEFINE ok == oVALID(e.cond, exec_sreg[t])
<1>0. /\ Clock(i, v) /\ RegBankClock /\ ExecClock /\ MemoryClock
      /\ instr_writeback' = e /\ cw_valid_writeback' /\ wrbk_cond_verified'[t] = ok
  BY DEF ThreadsClock, ScheduledClock, ThreadClock, Clock, ShiftInstr, ShiftValid,
         data_stall_exec, ExecClock, exec_cond_verified
<1>1. ok \in BOOLEAN
  BY CondIsBoolean, FlagAssumption DEF PipelineInv, ThreadType
<1>2. ArchRegs'[t] = IF ok /\ RegWr(e) THEN [ArchRegs[t] EXCEPT ![e.rd] = Value(t, e)]
                     ELSE ArchRegs[t]
  <2>1. iWR(t)' <=> ok /\ RegWr(e)
    BY <1>0 DEF iWR, RegWr
  <2>2. ASSUME NEW r \in Reg
        PROVE  oREG(t, r)' = IF ok /\ RegWr(e) /\ r = e.rd THEN Value(t, e) ELSE oREG(t, r)
    <3>1. rg'[t][r] = oREG(t, r)
      BY <1>0, BankTakesOver DEF PipelineInv
    <3>2. RegWr(e) => wrbk_reg_d(t)' = Value(t, e)
      BY LeavingResult
    <3> QED  BY <1>0, <2>1, <3>1, <3>2 DEF oREG
  <2>3. ArchRegs'[t] = [r \in Reg |-> IF ok /\ RegWr(e) /\ r = e.rd THEN Value(t, e)
                                     ELSE oREG(t, r)]
    BY <2>2 DEF ArchRegs
  <2>4. ArchRegs[t] = [r \in Reg |-> oREG(t, r)]
    BY DEF ArchRegs
  <2> HIDE DEF ok
  <2> QED  BY <2>3, <2>4
<1>3. lmem'[t] = IF ok /\ e.op \in CW_LMEM_WR
                 THEN [lmem[t] EXCEPT ![OpB(t, e) % MemDepth] = OpA(t, e)] ELSE lmem[t]
  <2>1. CASE e.op \in CW_LMEM_WR
    <3>1. ~FpOp(e) /\ e.op \in CW_USEREGA /\ e.op \in CW_USEREGB
      BY <2>1 DEF FpOp, CW_FPOP, CW_LMEM_WR, CW_USEREGA, CW_USEREGB
    <3>2. exec_oprand_a[t] = OpA(t, e) /\ exec_oprand_b[t] = OpB(t, e)
      BY <1>0, <3>1, LeavingOperands DEF Carries, SameOperands
    <3> QED
      BY <1>0, <2>1, <3>2 DEF MemoryClock, iPB_WR, iPB_ADDR, Effective, exec_cond_verified
  <2>2. CASE e.op \notin CW_LMEM_WR
    BY <1>0, <2>2 DEF MemoryClock, iPB_WR
  <2> QED  BY <2>1, <2>2
<1>4. exec_sreg'[t] = IF ok /\ e.s THEN AluSreg(CW_ALOPC(e.op), OpA(t, e), OpB(t, e),
                                                exec_sreg[t].c)
                      ELSE exec_sreg[t]
  <2>1. CASE e.s
    <3>1. ~FpOp(e)
      BY <2>1, FlagAssumption DEF FpOp, CW_FPOP, FlagOp
    <3>2. SameOperands(e.op, exec_oprand_a[t], exec_oprand_b[t], OpA(t, e), OpB(t, e))
      BY <1>0, <3>1, LeavingOperands DEF Carries
    <3>3. /\ exec_oprand_a[t] \in Data /\ exec_oprand_b[t] \in Data
          /\ OpA(t, e) \in Data /\ OpB(t, e) \in Data /\ exec_sreg[t].c \in BOOLEAN
      BY OperandType DEF PipelineInv, ThreadType, Sreg
    <3>4. alu_sreg(t) = AluSreg(CW_ALOPC(e.op), OpA(t, e), OpB(t, e), exec_sreg[t].c)
      BY <2>1, <3>2, <3>3, UnitAgrees DEF alu_sreg
    <3> QED  BY <1>0, <2>1, <3>4 DEF ExecClock, Effective, exec_cond_verified
  <2>2. CASE ~e.s
    BY <1>0, <2>2 DEF ExecClock
  <2> QED  BY <2>1, <2>2
<1>5. Arch(t).regs = ArchRegs[t] /\ Arch(t).mem = lmem[t] /\ Arch(t).sreg = exec_sreg[t]
  BY DEF Arch
<1> HIDE DEF ok
<1>6. CASE ok
  <2>1. ISA!Effect(Arch(t), GMem, e) =
          [regs |-> IF RegWr(e) THEN [ArchRegs[t] EXCEPT ![e.rd] = Value(t, e)]
                    ELSE ArchRegs[t],
           mem  |-> IF e.op \in CW_LMEM_WR
                    THEN [lmem[t] EXCEPT ![OpB(t, e) % MemDepth] = OpA(t, e)] ELSE lmem[t],
           sreg |-> IF e.s THEN AluSreg(CW_ALOPC(e.op), OpA(t, e), OpB(t, e), exec_sreg[t].c)
                    ELSE exec_sreg[t]]
    BY <1>6, IsaEffect DEF ok
  <2> QED  BY <1>2, <1>3, <1>4, <1>6, <2>1
<1>7. CASE ~ok
  <2>1. ISA!Effect(Arch(t), GMem, e) = Arch(t)
    BY <1>7, IsaEffect DEF ok
  <2> QED  BY <1>2, <1>3, <1>4, <1>5, <1>7, <2>1
<1> QED  BY <1>6, <1>7

-----------------------------------------------------------------------------
(* The instructions on their way.                                          *)

LEMMA HeldIsSeq == \A valid \in BOOLEAN, i \in Instr : Held(valid, i) \in Seq(Instr)
BY DEF Held

LEMMA TakeFirst ==
    ASSUME NEW S, NEW x \in S, NEW s \in Seq(S)
    PROVE  <<x>> \o s # <<>> /\ Head(<<x>> \o s) = x /\ Tail(<<x>> \o s) = s
<1> DEFINE c == <<x>> \o s
<1>1. /\ c \in Seq(S) /\ Len(c) = Len(s) + 1 /\ Len(s) \in Nat
      /\ c[1] = x /\ \A n \in 1..Len(s) : c[n + 1] = s[n]
  OBVIOUS
<1>2. c # <<>> /\ Head(c) = c[1]
  BY <1>1
<1>3. Tail(c) \in Seq(S) /\ Len(Tail(c)) = Len(s)
  BY <1>1, <1>2, HeadTailProperties
<1>4. \A n \in 1..Len(s) : Tail(c)[n] = s[n]
  BY <1>1, <1>2, <1>3, HeadTailProperties
<1>5. Tail(c) = s
  BY <1>3, <1>4, SeqEqual
<1> QED  BY <1>1, <1>2, <1>5

\* Every stage moves up: the first leaves when exec holds one, and one may enter.
LEMMA PipeMoves ==
    ASSUME PipelineInv, NEW i \in Instr, NEW v \in BOOLEAN, Clock(i, v), ~on_calculation_delay
    PROVE  \E g \in ISA!Give :
             IF cw_valid_exec
             THEN /\ InPipe # <<>> /\ Head(InPipe) = instr_exec
                  /\ InPipe' = Tail(InPipe) \o g
             ELSE InPipe' = InPipe \o g
<1> DEFINE d == Held(cw_valid_decode, instr_decode)
           f == Held(cw_valid_fetch, instr_fetch)
           n == Held(v, i)
<1>1. /\ d \in Seq(Instr) /\ f \in Seq(Instr) /\ n \in Seq(Instr) /\ d \o f \in Seq(Instr)
      /\ instr_exec \in Instr /\ <<instr_exec>> \in Seq(Instr)
      /\ <<>> \in ISA!Give /\ n \in ISA!Give
  <2>1. /\ d \in Seq(Instr) /\ f \in Seq(Instr) /\ n \in Seq(Instr) /\ instr_exec \in Instr
    BY HeldIsSeq DEF PipelineInv, TypeOK, PipeType
  <2>2. n \in ISA!Give /\ <<>> \in ISA!Give
    BY DEF Held, ISA!Give
  <2> QED  BY <2>1, <2>2, ConcatProperties
<1>2. InPipe' = (d \o f) \o (IF can_fetch THEN n ELSE <<>>)
  <2>1. CASE can_fetch
    <3>1. InPipe' = (d \o f) \o n
      BY <2>1, MoveFree DEF PipelineInv, InPipe
    <3> QED  BY <2>1, <3>1
  <2>2. CASE ~can_fetch
    <3>1. ~can_use_reg
      BY <2>2 DEF can_fetch, data_stall_decode
    <3>2. InPipe' = (<<>> \o d) \o f
      BY <3>1, MoveStalled DEF PipelineInv, InPipe, Held
    <3> QED  BY <1>1, <2>2, <3>2, ConcatEmptySeq
  <2> QED  BY <2>1, <2>2
<1>3. CASE cw_valid_exec
  <2>1. InPipe = <<instr_exec>> \o (d \o f)
    BY <1>1, <1>3, ConcatAssociative DEF InPipe, Held
  <2>2. InPipe # <<>> /\ Head(InPipe) = instr_exec /\ Tail(InPipe) = d \o f
    BY <1>1, <2>1, TakeFirst
  <2> QED  BY <1>1, <1>2, <1>3, <2>2
<1>4. CASE ~cw_valid_exec
  <2>1. InPipe = d \o f
    BY <1>1, <1>4, ConcatEmptySeq DEF InPipe, Held
  <2> QED  BY <1>1, <1>2, <1>4, <2>1
<1> QED  BY <1>3, <1>4

-----------------------------------------------------------------------------
(* The refinement.                                                         *)

LEMMA InitImplements == ASSUME ThreadsInit PROVE ISA!ISAInit
<1>1. InPipe = <<>>
  BY DEF ThreadsInit, Init, InPipe, Held
<1>2. ArchRegs = rg
  BY DEF ThreadsInit, Init, ThreadInit, ArchRegs, oREG, iWR
<1> QED
  BY <1>1, <1>2 DEF ThreadsInit, ThreadInit, ISA!ISAInit, Data, SregReset, ISA!SregReset

LEMMA StepImplements ==
    ASSUME PipelineInv, ThreadsNext
    PROVE  ISA!ISANext \/ UNCHANGED ISA!isaVars
<1>1. PICK i \in Instr, v \in BOOLEAN : ThreadsClock(i, v)
  BY DEF ThreadsNext
<1>2. Clock(i, v)
  BY <1>1 DEF ThreadsClock, ScheduledClock
<1>3. CASE on_calculation_delay
  BY <1>1, <1>3, DelayChangesNothing DEF ISA!isaVars
<1>4. CASE ~on_calculation_delay /\ ~cw_valid_exec
  <2>1. UNCHANGED <<ArchRegs, exec_sreg, lmem>>
    BY <1>1, <1>4, BubbleChangesNothing
  <2>2. \E g \in ISA!Give : InPipe' = InPipe \o g
    BY <1>2, <1>4, PipeMoves
  <2> QED  BY <2>1, <2>2 DEF ISA!ISANext, ISA!GiveOnly
<1>5. CASE ~on_calculation_delay /\ cw_valid_exec
  <2>1. PICK e \in Instr : e = instr_exec
    BY DEF PipelineInv, TypeOK, PipeType
  <2>2. PICK g \in ISA!Give : /\ InPipe # <<>> /\ Head(InPipe) = e
                             /\ InPipe' = Tail(InPipe) \o g
    BY <1>2, <1>5, <2>1, PipeMoves
  <2>3. ISA!Execute(e)
    <3>1. /\ ArchRegs' = [t \in Thread |-> ArchRegs'[t]]
          /\ lmem' = [t \in Thread |-> lmem'[t]]
          /\ exec_sreg' = [t \in Thread |-> exec_sreg'[t]]
      BY <1>1 DEF ThreadsClock, ThreadClock, MemoryClock, ExecClock, ArchRegs
    <3>2. \A t \in Thread : /\ ArchRegs'[t] = ISA!Effect(Arch(t), GMem, e).regs
                            /\ lmem'[t] = ISA!Effect(Arch(t), GMem, e).mem
                            /\ exec_sreg'[t] = ISA!Effect(Arch(t), GMem, e).sreg
      BY <1>1, <1>5, <2>1, LeavingTakesEffect
    <3> QED  BY <3>1, <3>2 DEF ISA!Execute, Arch
  <2> QED  BY <2>2, <2>3 DEF ISA!ISANext, ISA!CarryOut
<1> QED  BY <1>3, <1>4, <1>5

\* The pipeline with its stalls, its preview and its floating point units does to the
\* registers, the flags and the local memories of every thread what the instructions given
\* do one after the other (GPPCU_CORE.v:83-105, GPPCU_THREAD.v:63-133,223-229).
THEOREM PipelineImplementsISA == ThreadsSpec => CarriesOutInOrder
<1>1. PipelineInv /\ [ThreadsNext]_threadsVars => [ISA!ISANext]_ISA!isaVars
  <2>1. ASSUME UNCHANGED threadsVars PROVE UNCHANGED ISA!isaVars
    <3>1. InPipe' = InPipe
      BY <2>1 DEF threadsVars, coreVars, validVars, instrVars, InPipe, Held
    <3>2. \A t : wrbk_reg_d(t)' = wrbk_reg_d(t) /\ (iWR(t)' <=> iWR(t))
      BY <2>1 DEF threadsVars, threadVars, coreVars, validVars, instrVars, wrbk_reg_d, iWR,
                  RegWr, FpOp
    <3>3. \A t, r : oREG(t, r)' = oREG(t, r)
      BY <2>1, <3>2 DEF threadsVars, threadVars, coreVars, instrVars, oREG
    <3>4. ArchRegs' = ArchRegs
      BY <3>3 DEF ArchRegs
    <3> QED  BY <2>1, <3>1, <3>4 DEF threadsVars, threadVars, ISA!isaVars
  <2> QED  BY <2>1, StepImplements
<1> QED
  BY <1>1, InitImplements, PipelineHolds, PTL DEF ThreadsSpec, CarriesOutInOrder, ISA!ISASpec
=============================================================================
