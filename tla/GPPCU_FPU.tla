----------------------------- MODULE GPPCU_FPU -----------------------------
(***************************************************************************)
(* The floating point side of the threads: the state machine with which    *)
(* each GPPCU_THREAD drives its unit (GPPCU_THREAD.v, "FPU Drive logic")   *)
(* and the start/done protocol of the unit (fpoint2_multi.vhd).  All the   *)
(* threads see the same instruction in the execute stage: valid and e are  *)
(* cw_valid_exec and instr_exec of the core.                               *)
(***************************************************************************)
EXTENDS GPPCU_INSTR_DEC

CONSTANTS
    Thread,       \* the threads (NUM_THREAD of them)
    DontCare      \* the function code synthesised for the rows that leave it open

ASSUME DontCareAssumption == DontCare \in 0..7

VARIABLES
    fp_stage,     \* state of the driving machine, per thread
    fp_start,     \* the start line of the unit
    fpu_busy,     \* the unit is counting
    fpu_counter   \* clocks left; only kept while fpu_busy (it is not read otherwise)

fpuVars == <<fp_stage, fp_start, fpu_busy, fpu_counter>>

FpStage == {"IDLE", "RUN", "BUSY", "DONE"}

FpType ==
    /\ fp_stage    \in [Thread -> FpStage]
    /\ fp_start    \in [Thread -> BOOLEAN]
    /\ fpu_busy    \in [Thread -> BOOLEAN]
    /\ fpu_counter \in [Thread -> 0..15]

FpInit ==
    /\ fp_stage    = [t \in Thread |-> "IDLE"]
    /\ fp_start    = [t \in Thread |-> FALSE]
    /\ fpu_busy    = [t \in Thread |-> FALSE]
    /\ fpu_counter = [t \in Thread |-> 0]

-----------------------------------------------------------------------------
(* The unit.                                                               *)

\* Mutant of load_data: FADDS_LAT is one clock longer.
load_data_SlowAdd(n) ==
    CASE n = 2 -> 1 [] n = 3 -> 5 [] n = 4 -> 1 [] n = 6 -> 2 [] n = 7 -> 13 [] OTHER -> 3

\* load_data: the latency of an operation less the clock that loads the counter.
load_data(n) ==
    CASE n = 2 -> 1       \* FLOATIS_LAT
      [] n = 3 -> 5       \* FSQRTS_LAT
      [] n = 4 -> 1       \* FMULS_LAT
      [] n = 6 -> 2       \* FSUBS_LAT
      [] n = 7 -> 13      \* FDIVS_LAT
      [] OTHER -> 2       \* FADDS_LAT

\* Operations that answer in the clock they are started in (fixsi, round).
Combinational(n) == n \in {0, 1}

fp_done(t, e) ==
    \/ fpu_busy[t] /\ fpu_counter[t] = 0
    \/ fp_start[t] /\ Combinational(CW_FPOPC(e.op, DontCare))

\* Mutant of FpuClock: the counter is taken below zero.
FpuClock_Underflow(e) ==
    /\ fpu_busy' = [t \in Thread |->
          fp_start[t] \/ (fpu_busy[t] /\ fpu_counter[t] # 0)]
    /\ fpu_counter' = [t \in Thread |->
          IF fp_start[t] THEN load_data(CW_FPOPC(e.op, DontCare))
          ELSE IF fpu_busy[t] THEN fpu_counter[t] - 1
          ELSE 0]

\* One clock of the unit.  Its reset is tied to 0: nothing ever clears it.
FpuClock(e) ==
    /\ fpu_busy' = [t \in Thread |->
          fp_start[t] \/ (fpu_busy[t] /\ fpu_counter[t] # 0)]
    /\ fpu_counter' = [t \in Thread |->
          IF fp_start[t] THEN load_data(CW_FPOPC(e.op, DontCare))
          ELSE IF fpu_busy[t] /\ fpu_counter[t] # 0 THEN fpu_counter[t] - 1
          ELSE 0]

-----------------------------------------------------------------------------
(* The machine that drives it.                                             *)

\* Mutants of fp_busy: the stall ends a state too early; it does not end at DONE.
fp_busy_Early(t, valid, e) == valid /\ fp_stage[t] \notin {"BUSY", "DONE"} /\ FpOp(e)
fp_busy_Forever(t, valid, e) == valid /\ FpOp(e)

fp_busy(t, valid, e) == valid /\ fp_stage[t] # "DONE" /\ FpOp(e)

NextStage(t, valid, e) ==
    CASE fp_stage[t] = "IDLE" -> IF valid /\ FpOp(e) THEN "RUN" ELSE "IDLE"
      [] fp_stage[t] = "RUN"  -> "BUSY"
      [] fp_stage[t] = "BUSY" -> IF fp_done(t, e) THEN "DONE" ELSE "BUSY"
      [] fp_stage[t] = "DONE" -> "IDLE"

FpClock(valid, e) ==
    /\ fp_stage' = [t \in Thread |-> NextStage(t, valid, e)]
    /\ fp_start' = [t \in Thread |->
          fp_stage[t] = "RUN" \/ (fp_stage[t] = "IDLE" /\ fp_start[t])]
    /\ FpuClock(e)

\* Mutant of FpReset: the machine is not reset.
FpReset_KeepsStage(e) ==
    /\ UNCHANGED <<fp_stage, fp_start>>
    /\ FpuClock(e)

\* A clock with inRST low: only fp_stage is cleared, the unit counts on.
FpReset(e) ==
    /\ fp_stage' = [t \in Thread |-> "IDLE"]
    /\ UNCHANGED fp_start
    /\ FpuClock(e)
=============================================================================
