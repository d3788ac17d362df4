-------------------------- MODULE GPPCU_CORE_proofs --------------------------
(***************************************************************************)
(* Theorems about GPPCU_CORE, for every set of threads, registers and      *)
(* instructions.  Type correctness and the ownership of the floating point *)
(* machines hold for every stream; the two facts about the scoreboard hold *)
(* for scheduled streams, by the inductive invariant ScoreboardInv.        *)
(***************************************************************************)
EXTENDS GPPCU_CORE, TLAPS

\* The registers a stage writes, spelled out.
LEMMA WritesMember ==
    ASSUME NEW valid \in BOOLEAN, NEW i \in Instr, NEW r
    PROVE  r \in Writes(valid, i) <=> valid /\ RegWr(i) /\ r = i.rd
BY DEF Writes

\* What a scheduled step is allowed to be, any step is.
LEMMA ScheduledIsNext == ASSUME ScheduledNext PROVE Next
BY DEF ScheduledNext, Next, ScheduledClock

LEMMA RunIsNext == ASSUME RunNext PROVE Next
BY DEF RunNext, Next

-----------------------------------------------------------------------------
(* Type correctness.                                                       *)

\* The latencies fit the 4-bit counter.
LEMMA LoadRange == ASSUME NEW n PROVE load_data(n) \in 0..15
BY DEF load_data

\* One clock of a unit leaves its counter and its flag well typed.
LEMMA FpuClockType ==
    ASSUME FpType, NEW e, FpuClock(e)
    PROVE  /\ fpu_busy' \in [Thread -> BOOLEAN]
           /\ fpu_counter' \in [Thread -> 0..15]
<1>1. fpu_busy' \in [Thread -> BOOLEAN]
  BY DEF FpType, FpuClock
<1>2. ASSUME NEW t \in Thread
      PROVE  (IF fp_start[t] THEN load_data(CW_FPOPC(e.op, DontCare))
              ELSE IF fpu_busy[t] /\ fpu_counter[t] # 0 THEN fpu_counter[t] - 1
              ELSE 0) \in 0..15
  <2>1. load_data(CW_FPOPC(e.op, DontCare)) \in 0..15
    BY LoadRange
  <2>2. fpu_counter[t] \in 0..15
    BY DEF FpType
  <2> QED  BY <2>1, <2>2
<1> QED  BY <1>1, <1>2 DEF FpuClock

\* The machines stay in their four states.
LEMMA FpClockType ==
    ASSUME FpType, NEW valid \in BOOLEAN, NEW e, FpClock(valid, e)
    PROVE  FpType'
<1>1. fp_stage' \in [Thread -> FpStage]
  <2>1. ASSUME NEW t \in Thread PROVE NextStage(t, valid, e) \in FpStage
    BY DEF NextStage, FpType, FpStage
  <2> QED  BY <2>1 DEF FpClock
<1>2. fp_start' \in [Thread -> BOOLEAN]
  BY DEF FpClock, FpType
<1>3. FpuClock(e)
  BY DEF FpClock
<1> QED  BY <1>1, <1>2, <1>3, FpuClockType DEF FpType

LEMMA FpResetType ==
    ASSUME FpType, NEW e, FpReset(e)
    PROVE  FpType'
<1>1. fp_stage' \in [Thread -> FpStage]
  BY DEF FpReset, FpStage
<1>2. fp_start' \in [Thread -> BOOLEAN]
  BY DEF FpReset, FpType
<1>3. FpuClock(e)
  BY DEF FpReset
<1> QED  BY <1>1, <1>2, <1>3, FpuClockType DEF FpType

LEMMA InitType == ASSUME Init PROVE TypeOK
<1>1. StallGenType
  BY DEF Init, StallGenInit, StallGenType
<1>2. FpType
  BY DEF Init, FpInit, FpType, FpStage
<1>3. PipeType
  BY DEF Init, PipeType
<1> QED  BY <1>1, <1>2, <1>3 DEF TypeOK

LEMMA ShiftInstrType ==
    ASSUME TypeOK, NEW i \in Instr, ShiftInstr(i)
    PROVE  /\ instr_fetch' \in Instr /\ instr_decode' \in Instr
           /\ instr_exec' \in Instr /\ instr_writeback' \in Instr
BY DEF TypeOK, PipeType, ShiftInstr

LEMMA NextType == ASSUME TypeOK, Next PROVE TypeOK'
<1>1. ASSUME NEW i \in Instr, Reset(i) PROVE TypeOK'
  <2>1. PipeType'
    BY <1>1, ShiftInstrType DEF Reset, PipeType
  <2>2. FpType'
    BY <1>1, FpResetType DEF Reset, TypeOK
  <2>3. StallGenType'
    BY <1>1 DEF Reset, StallGenReset, StallGenType
  <2> QED  BY <2>1, <2>2, <2>3 DEF TypeOK
<1>2. ASSUME NEW i \in Instr, NEW v \in BOOLEAN, Clock(i, v) PROVE TypeOK'
  <2>1. PipeType'
    <3>1. /\ instr_fetch' \in Instr /\ instr_decode' \in Instr
          /\ instr_exec' \in Instr /\ instr_writeback' \in Instr
      BY <1>2, ShiftInstrType DEF Clock
    <3>2. /\ cw_valid_fetch' \in BOOLEAN /\ cw_valid_decode' \in BOOLEAN
          /\ cw_valid_exec' \in BOOLEAN /\ cw_valid_writeback' \in BOOLEAN
      BY <1>2 DEF Clock, ShiftValid, TypeOK, PipeType
    <3> QED  BY <3>1, <3>2 DEF PipeType
  <2>2. FpType'
    BY <1>2, FpClockType DEF Clock, TypeOK, PipeType
  <2>3. StallGenType'
    <3>1. decode_regd \subseteq Reg
      BY InstrAssumption DEF decode_regd, Writes, TypeOK, PipeType
    <3> QED  BY <1>2, <3>1 DEF Clock, StallGenClock, pending_occupy, StallGenType, TypeOK
  <2> QED  BY <2>1, <2>2, <2>3 DEF TypeOK
<1> QED  BY <1>1, <1>2 DEF Next

\* Every reachable state of the core, under any stream of instructions and with
\* resets at any time, is well typed.
THEOREM TypeCorrect == Spec => []TypeOK
<1>1. TypeOK /\ [Next]_coreVars => TypeOK'
  <2>1. ASSUME TypeOK, UNCHANGED coreVars PROVE TypeOK'
    BY <2>1 DEF TypeOK, StallGenType, FpType, PipeType, coreVars, fpuVars, validVars, instrVars
  <2> QED  BY <2>1, NextType
<1> QED  BY InitType, <1>1, PTL DEF Spec

-----------------------------------------------------------------------------
(* The floating point machines belong to the operation in exec.            *)

LEMMA FpOwnedStep ==
    ASSUME TypeOK, FpOwned, NEW i \in Instr, NEW v \in BOOLEAN, Clock(i, v)
    PROVE  FpOwned'
<1> SUFFICES ASSUME NEW t \in Thread, fp_stage'[t] # "IDLE"
             PROVE  cw_valid_exec' /\ FpOp(instr_exec')
  BY DEF FpOwned, FpOp
<1>1. fp_stage'[t] = NextStage(t, cw_valid_exec, instr_exec)
  BY DEF Clock, FpClock
<1>2. fp_stage[t] \in FpStage
  BY DEF TypeOK, FpType
<1>3. cw_valid_exec /\ FpOp(instr_exec) /\ fp_stage[t] # "DONE"
  BY <1>1, <1>2 DEF NextStage, FpStage, FpOwned
<1>4. on_calculation_delay
  BY <1>3 DEF on_calculation_delay, fp_busy
<1>5. cw_valid_exec' = cw_valid_exec /\ instr_exec' = instr_exec
  BY <1>4 DEF Clock, ShiftValid, ShiftInstr, data_stall_exec, data_stall_decode
<1> QED  BY <1>3, <1>5

LEMMA FpOwnedNext == ASSUME TypeOK, FpOwned, Next PROVE FpOwned'
<1>1. ASSUME NEW i \in Instr, Reset(i) PROVE FpOwned'
  BY <1>1 DEF Reset, FpReset, FpOwned
<1> QED  BY <1>1, FpOwnedStep DEF Next

\* A machine that has left IDLE works for the floating point operation in exec,
\* under any stream and with resets at any time (GPPCU_THREAD.v:174-200).
THEOREM MachinesOwned == Spec => []FpOwned
<1>1. Init => FpOwned
  BY DEF Init, FpInit, FpOwned
<1>2. TypeOK /\ FpOwned /\ [Next]_coreVars => FpOwned'
  <2>1. ASSUME FpOwned, UNCHANGED coreVars PROVE FpOwned'
    BY <2>1 DEF FpOwned, FpOp, coreVars, fpuVars, validVars, instrVars
  <2> QED  BY <2>1, FpOwnedNext
<1> QED  BY <1>1, <1>2, TypeCorrect, PTL DEF Spec

\* A floating point operation leaves exec only when every thread has its answer
\* (GPPCU_CORE.v:91, GPPCU_THREAD.v:192-193).
THEOREM AnswersComplete == Spec => FpFinishes
<1>1. ASSUME TypeOK, [Next]_coreVars
      PROVE  [cw_valid_writeback' /\ FpOp(instr_writeback')
                => \A t \in Thread : fp_stage[t] = "DONE"]_coreVars
  <2> SUFFICES ASSUME Next, cw_valid_writeback', FpOp(instr_writeback'), NEW t \in Thread
               PROVE  fp_stage[t] = "DONE"
    BY <1>1
  <2>1. PICK i \in Instr, v \in BOOLEAN : Clock(i, v)
    BY DEF Next, Reset
  <2>2. ~on_calculation_delay /\ cw_valid_exec
    BY <2>1 DEF Clock, ShiftValid, data_stall_exec
  <2>3. instr_writeback' = instr_exec
    BY <2>1 DEF Clock, ShiftInstr
  <2> QED  BY <2>2, <2>3 DEF on_calculation_delay, fp_busy
<1> QED  BY <1>1, TypeCorrect, PTL DEF Spec, FpFinishes

-----------------------------------------------------------------------------
(* The units answer the operation they were given.                         *)

LEMMA UnitInvStep ==
    ASSUME TypeOK, UnitInv, NEW i \in Instr, NEW v \in BOOLEAN, Clock(i, v)
    PROVE  UnitInv'
<1> SUFFICES ASSUME NEW t \in Thread
             PROVE  /\ fp_start'[t] => fp_stage'[t] = "BUSY" /\ ~fpu_busy'[t]
                    /\ fpu_busy'[t] => CASE fp_stage'[t] = "DONE" -> fpu_counter'[t] <= 2
                                        [] fp_stage'[t] = "IDLE" -> fpu_counter'[t] <= 1
                                        [] fp_stage'[t] = "RUN"  -> fpu_counter'[t] = 0
                                        [] OTHER                 -> TRUE
  BY DEF UnitInv
<1> DEFINE n == CW_FPOPC(instr_exec.op, DontCare)
<1>1. /\ fp_stage'[t] = NextStage(t, cw_valid_exec, instr_exec)
      /\ fp_start'[t] = (fp_stage[t] = "RUN" \/ (fp_stage[t] = "IDLE" /\ fp_start[t]))
      /\ fpu_busy'[t] = (fp_start[t] \/ (fpu_busy[t] /\ fpu_counter[t] # 0))
      /\ fpu_counter'[t] = IF fp_start[t] THEN load_data(n)
                           ELSE IF fpu_busy[t] /\ fpu_counter[t] # 0 THEN fpu_counter[t] - 1
                           ELSE 0
  BY DEF Clock, FpClock, FpuClock
<1>2. /\ fp_stage[t] \in FpStage /\ fp_start[t] \in BOOLEAN /\ fpu_busy[t] \in BOOLEAN
      /\ fpu_counter[t] \in 0..15
  BY DEF TypeOK, FpType
<1>3. /\ fp_start[t] => fp_stage[t] = "BUSY" /\ ~fpu_busy[t]
      /\ fpu_busy[t] /\ fp_stage[t] = "DONE" => fpu_counter[t] <= 2
      /\ fpu_busy[t] /\ fp_stage[t] = "IDLE" => fpu_counter[t] <= 1
      /\ fpu_busy[t] /\ fp_stage[t] = "RUN"  => fpu_counter[t] = 0
  BY <1>2 DEF UnitInv, FpStage
<1>4. CASE fp_stage[t] = "IDLE"
  <2>1. fp_stage'[t] \in {"IDLE", "RUN"} /\ ~fp_start'[t]
    BY <1>1, <1>3, <1>4 DEF NextStage
  <2>2. ~fp_start[t]
    BY <1>3, <1>4
  <2>3. fpu_busy'[t] => fpu_counter'[t] = 0
    BY <1>1, <1>2, <1>3, <1>4, <2>2
  <2> QED  BY <2>1, <2>3
<1>5. CASE fp_stage[t] = "RUN"
  <2>1. fp_stage'[t] = "BUSY"
    BY <1>1, <1>5 DEF NextStage
  <2>2. ~fp_start[t]
    BY <1>3, <1>5
  <2>3. ~fpu_busy'[t]
    BY <1>1, <1>2, <1>3, <1>5, <2>2
  <2> QED  BY <2>1, <2>3
<1>6. CASE fp_stage[t] = "BUSY"
  <2>1. fp_stage'[t] = (IF fp_done(t, instr_exec) THEN "DONE" ELSE "BUSY") /\ ~fp_start'[t]
    BY <1>1, <1>6 DEF NextStage
  <2>2. ASSUME fp_done(t, instr_exec), fpu_busy'[t] PROVE fpu_counter'[t] <= 2
    <3>1. fp_start[t] /\ Combinational(n)
      BY <1>1, <1>2, <1>3, <2>2 DEF fp_done
    <3>2. load_data(n) = 2
      BY <3>1 DEF Combinational, load_data
    <3> QED  BY <1>1, <3>1, <3>2
  <2> QED  BY <2>1, <2>2
<1>7. CASE fp_stage[t] = "DONE"
  <2>1. fp_stage'[t] = "IDLE" /\ ~fp_start'[t]
    BY <1>1, <1>7 DEF NextStage
  <2>2. ~fp_start[t]
    BY <1>3, <1>7
  <2>3. fpu_busy'[t] => fpu_counter'[t] <= 1
    BY <1>1, <1>2, <1>3, <1>7, <2>2
  <2> QED  BY <2>1, <2>3
<1> QED  BY <1>2, <1>4, <1>5, <1>6, <1>7 DEF FpStage

\* Without a reset a unit that still counts for an operation already answered is done before
\* the next one listens to it (GPPCU_THREAD.v:176-218, fpoint2_multi.vhd:74-109).
THEOREM CountsAreShort == RunSpec => []UnitInv
<1>1. Init => TypeOK /\ UnitInv
  <2> SUFFICES ASSUME Init PROVE UnitInv
    BY InitType
  <2> QED  BY DEF Init, FpInit, UnitInv
<1>2. TypeOK /\ UnitInv /\ [RunNext]_coreVars => (TypeOK /\ UnitInv)'
  <2>1. ASSUME TypeOK, UnitInv, UNCHANGED coreVars PROVE (TypeOK /\ UnitInv)'
    BY <2>1 DEF TypeOK, StallGenType, FpType, PipeType, UnitInv, coreVars, fpuVars,
                validVars, instrVars
  <2>2. ASSUME TypeOK, UnitInv, RunNext PROVE (TypeOK /\ UnitInv)'
    <3>1. Next
      BY <2>2, RunIsNext
    <3> QED  BY <2>2, <3>1, NextType, UnitInvStep DEF RunNext
  <2> QED  BY <2>1, <2>2
<1> QED  BY <1>1, <1>2, PTL DEF RunSpec

\* Without a reset no machine takes the answer of another operation, whatever the
\* operations that follow each other (GPPCU_THREAD.v:176, fpoint2_multi.vhd:113).
THEOREM AnswersOwn == RunSpec => []FpDoneIsOwn
<1>1. TypeOK /\ UnitInv => FpDoneIsOwn
  BY DEF UnitInv, FpDoneIsOwn, fp_done, TypeOK, FpType
<1>2. RunSpec => Spec
  <2>1. [RunNext]_coreVars => [Next]_coreVars
    BY RunIsNext
  <2> QED  BY <2>1, PTL DEF RunSpec, Spec
<1> QED  BY <1>1, <1>2, TypeCorrect, CountsAreShort, PTL

-----------------------------------------------------------------------------
(* The scoreboard.  The three ways a clock moves the writers.              *)

\* A floating point operation holds exec: only writeback moves, and empties.
LEMMA MoveDelayed ==
    ASSUME TypeOK, NEW i \in Instr, NEW v \in BOOLEAN, Clock(i, v), on_calculation_delay
    PROVE  /\ writeback_regd' = {} /\ exec_regd' = exec_regd
           /\ decode_regd' = decode_regd /\ fetch_regd' = fetch_regd
           /\ decode_rq' = decode_rq
           /\ cw_valid_exec' = cw_valid_exec /\ instr_exec' = instr_exec
           /\ cw_valid_decode' = cw_valid_decode /\ instr_decode' = instr_decode
           /\ cw_valid_fetch' = cw_valid_fetch /\ instr_fetch' = instr_fetch
<1>1. data_stall_exec /\ data_stall_decode
  BY DEF data_stall_exec, data_stall_decode
<1>2. /\ cw_valid_exec' = cw_valid_exec /\ instr_exec' = instr_exec
      /\ cw_valid_decode' = cw_valid_decode /\ instr_decode' = instr_decode
      /\ cw_valid_fetch' = cw_valid_fetch /\ instr_fetch' = instr_fetch
      /\ ~cw_valid_writeback'
  BY <1>1 DEF Clock, ShiftValid, ShiftInstr
<1> QED
  BY <1>2 DEF writeback_regd, exec_regd, decode_regd, fetch_regd, decode_rq, Writes,
              Sources, RegWr

\* The scoreboard holds decode: exec moves on and leaves a bubble.
LEMMA MoveStalled ==
    ASSUME TypeOK, NEW i \in Instr, NEW v \in BOOLEAN, Clock(i, v),
           ~on_calculation_delay, ~can_use_reg
    PROVE  /\ writeback_regd' = exec_regd /\ exec_regd' = {}
           /\ decode_regd' = decode_regd /\ fetch_regd' = fetch_regd
           /\ decode_rq' = decode_rq /\ ~cw_valid_exec'
           /\ cw_valid_decode' = cw_valid_decode /\ instr_decode' = instr_decode
           /\ cw_valid_fetch' = cw_valid_fetch /\ instr_fetch' = instr_fetch
<1>1. ~data_stall_exec /\ data_stall_decode
  BY DEF data_stall_exec, data_stall_decode
<1>2. /\ cw_valid_writeback' = cw_valid_exec /\ instr_writeback' = instr_exec
      /\ cw_valid_decode' = cw_valid_decode /\ instr_decode' = instr_decode
      /\ cw_valid_fetch' = cw_valid_fetch /\ instr_fetch' = instr_fetch
      /\ ~cw_valid_exec'
  BY <1>1 DEF Clock, ShiftValid, ShiftInstr, TypeOK, PipeType
<1> QED
  BY <1>2 DEF writeback_regd, exec_regd, decode_regd, fetch_regd, decode_rq, Writes,
              Sources, RegWr

\* Nothing is held: every stage takes the instruction of the stage before it.
LEMMA MoveFree ==
    ASSUME TypeOK, NEW i \in Instr, NEW v \in BOOLEAN, Clock(i, v), can_fetch
    PROVE  /\ writeback_regd' = exec_regd /\ exec_regd' = decode_regd
           /\ decode_regd' = fetch_regd /\ fetch_regd' = Writes(v, i)
           /\ cw_valid_exec' = cw_valid_decode /\ instr_exec' = instr_decode
           /\ cw_valid_decode' = cw_valid_fetch /\ instr_decode' = instr_fetch
           /\ cw_valid_fetch' = v /\ instr_fetch' = i
<1>1. ~data_stall_exec /\ ~data_stall_decode
  BY DEF data_stall_exec, data_stall_decode, can_fetch
<1>2. /\ cw_valid_writeback' = cw_valid_exec /\ instr_writeback' = instr_exec
      /\ cw_valid_exec' = cw_valid_decode /\ instr_exec' = instr_decode
      /\ cw_valid_decode' = cw_valid_fetch /\ instr_decode' = instr_fetch
      /\ cw_valid_fetch' = v /\ instr_fetch' = i
  BY <1>1 DEF Clock, ShiftValid, ShiftInstr, TypeOK, PipeType
<1> QED
  BY <1>2 DEF writeback_regd, exec_regd, decode_regd, fetch_regd, Writes, RegWr

\* The two ways the marks move.
LEMMA Marks ==
    ASSUME NEW i, NEW v, Clock(i, v)
    PROVE  occupied' = (occupied \cup (IF can_use_reg THEN decode_regd ELSE {}))
                           \ writeback_regd
BY DEF Clock, StallGenClock, pending_occupy, can_use_reg

\* An instruction that does not read what it writes keeps its own mark out of its way.
LEMMA NotSelf ==
    ASSUME TypeOK, ~(cw_valid_decode /\ SelfDependent(instr_decode))
    PROVE  decode_regd \cap decode_rq = {}
BY DEF SelfDependent, decode_regd, decode_rq, Writes

-----------------------------------------------------------------------------
LEMMA DistinctWritersStep ==
    ASSUME TypeOK, DistinctWriters, NEW i \in Instr, NEW v \in BOOLEAN,
           ScheduledClock(i, v)
    PROVE  DistinctWriters'
<1>0. Clock(i, v)
  BY DEF ScheduledClock
<1>1. CASE on_calculation_delay
  BY <1>0, <1>1, MoveDelayed DEF DistinctWriters
<1>2. CASE ~on_calculation_delay /\ ~can_use_reg
  BY <1>0, <1>2, MoveStalled DEF DistinctWriters
<1>3. CASE can_fetch
  <2>1. Writes(v, i) \cap fetch_regd = {} /\ Writes(v, i) \cap decode_regd = {}
    BY <1>3 DEF ScheduledClock, Scheduled, NoCloseWriter, Writes, fetch_regd, decode_regd
  <2> QED  BY <1>0, <1>3, <2>1, MoveFree DEF DistinctWriters
<1> QED  BY <1>1, <1>2, <1>3 DEF can_fetch, data_stall_decode

LEMMA WritersMarkedStep ==
    ASSUME TypeOK, DistinctWriters, WritersMarked, NEW i \in Instr, NEW v \in BOOLEAN,
           Clock(i, v)
    PROVE  WritersMarked'
<1>1. CASE on_calculation_delay
  BY <1>1, MoveDelayed, Marks DEF DistinctWriters, WritersMarked
<1>2. CASE ~on_calculation_delay /\ ~can_use_reg
  BY <1>2, MoveStalled, Marks DEF DistinctWriters, WritersMarked
<1>3. CASE can_fetch
  <2>1. can_use_reg
    BY <1>3 DEF can_fetch, data_stall_decode
  <2> QED  BY <1>3, <2>1, MoveFree, Marks DEF DistinctWriters, WritersMarked
<1> QED  BY <1>1, <1>2, <1>3 DEF can_fetch, data_stall_decode

LEMMA NoSelfBehindFpStep ==
    ASSUME TypeOK, NoSelfBehindFp, NEW i \in Instr, NEW v \in BOOLEAN,
           ScheduledClock(i, v)
    PROVE  NoSelfBehindFp'
<1>0. Clock(i, v)
  BY DEF ScheduledClock
<1>1. CASE on_calculation_delay
  BY <1>0, <1>1, MoveDelayed DEF NoSelfBehindFp, SelfDependent, RegWr, Sources, FpOp
<1>2. CASE ~on_calculation_delay /\ ~can_use_reg
  BY <1>0, <1>2, MoveStalled DEF NoSelfBehindFp, SelfDependent, RegWr, Sources, FpOp
<1>3. CASE can_fetch
  <2>1. v /\ SelfDependent(i) => ~(cw_valid_fetch /\ FpOp(instr_fetch))
    BY <1>3 DEF ScheduledClock, Scheduled, NotBehindFp
  <2> QED
    BY <1>0, <1>3, <2>1, MoveFree DEF NoSelfBehindFp, SelfDependent, RegWr, Sources, FpOp
<1> QED  BY <1>1, <1>2, <1>3 DEF can_fetch, data_stall_decode

LEMMA NoStrayMarkStep ==
    ASSUME TypeOK, NoSelfBehindFp, NoStrayMark, NEW i \in Instr, NEW v \in BOOLEAN,
           Clock(i, v)
    PROVE  NoStrayMark'
<1> DEFINE exec_fp == cw_valid_exec /\ FpOp(instr_exec)
<1>1. CASE on_calculation_delay
  \* Decode may mark its own register now; it does not read it, so it stays cleared.
  <2>1. exec_fp /\ exec_fp'
    BY <1>1, MoveDelayed DEF on_calculation_delay, fp_busy, FpOp
  <2>2. decode_regd \cap decode_rq = {}
    BY <2>1, NotSelf DEF NoSelfBehindFp
  <2>3. can_use_reg => can_use_reg'
    <3>1. decode_rq' = decode_rq
      BY <1>1, MoveDelayed
    <3> QED  BY <2>2, <3>1, Marks DEF can_use_reg, oENABLED
  <2>4. /\ exec_regd' = exec_regd /\ decode_regd' = decode_regd /\ writeback_regd' = {}
    BY <1>1, MoveDelayed
  <2> QED  BY <2>1, <2>3, <2>4, Marks DEF NoStrayMark
<1>2. CASE ~on_calculation_delay /\ ~can_use_reg
  BY <1>2, MoveStalled, Marks DEF NoStrayMark
<1>3. CASE can_fetch
  <2>1. can_use_reg
    BY <1>3 DEF can_fetch, data_stall_decode
  <2> QED  BY <1>3, <2>1, MoveFree, Marks DEF NoStrayMark
<1> QED  BY <1>1, <1>2, <1>3 DEF can_fetch, data_stall_decode

LEMMA ScoreboardNext == ASSUME TypeOK, ScoreboardInv, ScheduledNext PROVE ScoreboardInv'
<1>1. ASSUME NEW i \in Instr, Reset(i) PROVE ScoreboardInv'
  BY <1>1 DEF Reset, StallGenReset, ScoreboardInv, DistinctWriters, WritersMarked,
              NoSelfBehindFp, NoStrayMark, Writes, fetch_regd, decode_regd, exec_regd,
              writeback_regd
<1>2. ASSUME NEW i \in Instr, NEW v \in BOOLEAN, ScheduledClock(i, v)
      PROVE  ScoreboardInv'
  <2>1. Clock(i, v)
    BY <1>2 DEF ScheduledClock
  <2>2. DistinctWriters'
    BY <1>2, DistinctWritersStep DEF ScoreboardInv
  <2>3. WritersMarked'
    BY <2>1, WritersMarkedStep DEF ScoreboardInv
  <2>4. NoSelfBehindFp'
    BY <1>2, NoSelfBehindFpStep DEF ScoreboardInv
  <2>5. NoStrayMark'
    BY <2>1, NoStrayMarkStep DEF ScoreboardInv
  <2> QED  BY <2>2, <2>3, <2>4, <2>5 DEF ScoreboardInv
<1> QED  BY <1>1, <1>2 DEF ScheduledNext

\* The inductive invariant of the scoreboard.
THEOREM ScoreboardHolds == ScheduledSpec => []ScoreboardInv
<1>1. Init => TypeOK /\ ScoreboardInv
  <2> SUFFICES ASSUME Init PROVE ScoreboardInv
    BY InitType
  <2> QED
    BY DEF Init, StallGenInit, ScoreboardInv, DistinctWriters, WritersMarked,
           NoSelfBehindFp, NoStrayMark, Writes, fetch_regd, decode_regd, exec_regd,
           writeback_regd
<1>2. TypeOK /\ ScoreboardInv /\ [ScheduledNext]_coreVars => (TypeOK /\ ScoreboardInv)'
  <2>1. ASSUME TypeOK, ScoreboardInv, UNCHANGED coreVars PROVE (TypeOK /\ ScoreboardInv)'
    <3>1. TypeOK'
      BY <2>1 DEF TypeOK, StallGenType, FpType, PipeType, coreVars, fpuVars, validVars,
                  instrVars
    <3>2. ScoreboardInv'
      BY <2>1 DEF coreVars, fpuVars, validVars, instrVars, ScoreboardInv, DistinctWriters,
                  WritersMarked, NoSelfBehindFp, NoStrayMark, Writes, fetch_regd,
                  decode_regd, exec_regd, writeback_regd, SelfDependent, RegWr, Sources,
                  FpOp, can_use_reg, oENABLED, decode_rq
    <3> QED  BY <3>1, <3>2
  <2> QED  BY <2>1, ScoreboardNext, NextType, ScheduledIsNext
<1> QED  BY <1>1, <1>2, PTL DEF ScheduledSpec

\* With a scheduled stream no instruction leaves decode before its operands are final,
\* whatever the registers, the threads and the instructions (GPPCU_CORE.v:71).
THEOREM NoDataHazard == ScheduledSpec => []IssueIsSafe
<1>1. WritersMarked => IssueIsSafe
  BY DEF WritersMarked, IssueIsSafe, data_stall_decode, can_use_reg, oENABLED
<1> QED  BY <1>1, ScoreboardHolds, PTL DEF ScoreboardInv

\* With a scheduled stream the scoreboard never holds decode without a writer on its
\* way out (GPPCU_STALL_GEN.v:48).
THEOREM StallsAreCaused == ScheduledSpec => []StallHasCause
<1>1. NoStrayMark => StallHasCause
  BY DEF NoStrayMark, StallHasCause, can_use_reg, oENABLED
<1> QED  BY <1>1, ScoreboardHolds, PTL DEF ScoreboardInv

\* With a scheduled stream a mark outlives its writer nowhere (GPPCU_STALL_GEN.v:54-56).
THEOREM MarksAreOwned == ScheduledSpec => []NoStrayMark
BY ScoreboardHolds, PTL DEF ScoreboardInv
=============================================================================
