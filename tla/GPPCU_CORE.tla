----------------------------- MODULE GPPCU_CORE -----------------------------
(***************************************************************************)
(* The control of the coprocessor core (GPPCU_CORE.v): a four stage        *)
(* in-order pipeline fetch, decode, exec, writeback, held by the           *)
(* scoreboard (GPPCU_STALL_GEN) and by the floating point machines of the  *)
(* threads (GPPCU_FPU).  One step of the specification is one rising edge  *)
(* of iACLK.  Register values are left out: GPPCU_THREAD adds them.        *)
(***************************************************************************)
EXTENDS GPPCU_STALL_GEN, GPPCU_FPU

CONSTANT Instr        \* the instruction words the program may hold

ASSUME InstrAssumption ==
    \A i \in Instr : i.op \in Opcode /\ i.rd \in Reg /\ i.ra \in Reg /\ i.rb \in Reg

ASSUME ThreadAssumption == Thread # {}

VARIABLES
    cw_valid_fetch, cw_valid_decode, cw_valid_exec, cw_valid_writeback,
    instr_fetch, instr_decode, instr_exec, instr_writeback

validVars == <<cw_valid_fetch, cw_valid_decode, cw_valid_exec, cw_valid_writeback>>
instrVars == <<instr_fetch, instr_decode, instr_exec, instr_writeback>>
coreVars  == <<occupied, fpuVars, validVars, instrVars>>

PipeType ==
    /\ cw_valid_fetch \in BOOLEAN /\ cw_valid_decode \in BOOLEAN
    /\ cw_valid_exec \in BOOLEAN  /\ cw_valid_writeback \in BOOLEAN
    /\ instr_fetch \in Instr /\ instr_decode \in Instr
    /\ instr_exec \in Instr  /\ instr_writeback \in Instr

TypeOK == StallGenType /\ FpType /\ PipeType

-----------------------------------------------------------------------------
(* Wires.                                                                  *)

\* CW_REGWR of a stage, with its valid bit: the registers the stage will write.
Writes(valid, i) == {r \in {i.rd} : valid /\ RegWr(i)}

decode_regd    == Writes(cw_valid_decode, instr_decode)
exec_regd      == Writes(cw_valid_exec, instr_exec)
writeback_regd == Writes(cw_valid_writeback, instr_writeback)
decode_rq      == IF cw_valid_decode THEN Sources(instr_decode) ELSE {}

on_calculation_delay == \E t \in Thread : fp_busy(t, cw_valid_exec, instr_exec)
can_use_reg          == oENABLED(decode_rq)

data_stall_exec   == on_calculation_delay
data_stall_decode == ~can_use_reg \/ on_calculation_delay
can_fetch         == ~data_stall_decode

-----------------------------------------------------------------------------
(* Steps.                                                                  *)

Init ==
    /\ StallGenInit
    /\ FpInit
    /\ cw_valid_fetch = FALSE /\ cw_valid_decode = FALSE
    /\ cw_valid_exec = FALSE  /\ cw_valid_writeback = FALSE
    /\ \E i \in Instr :       \* the registers power up equal, and are not reset
          /\ instr_fetch = i /\ instr_decode = i
          /\ instr_exec = i  /\ instr_writeback = i

\* The instruction registers move with the stalls, in reset too.
ShiftInstr(i) ==
    /\ instr_writeback' = instr_exec
    /\ instr_exec'      = IF data_stall_decode THEN instr_exec   ELSE instr_decode
    /\ instr_decode'    = IF data_stall_decode THEN instr_decode ELSE instr_fetch
    /\ instr_fetch'     = IF data_stall_decode THEN instr_fetch  ELSE i

ShiftValid(v) ==
    /\ cw_valid_writeback' = (~data_stall_exec /\ cw_valid_exec)
    /\ cw_valid_exec'      = IF data_stall_exec THEN cw_valid_exec
                             ELSE ~data_stall_decode /\ cw_valid_decode
    /\ cw_valid_decode'    = IF data_stall_decode THEN cw_valid_decode ELSE cw_valid_fetch
    /\ cw_valid_fetch'     = IF data_stall_decode THEN cw_valid_fetch  ELSE v

\* Mutant of Clock: the scoreboard is released by the exec stage.
Clock_ReleasesInExec(i, v) ==
    /\ ShiftInstr(i)
    /\ ShiftValid(v)
    /\ StallGenClock(decode_rq, decode_regd, exec_regd)
    /\ FpClock(cw_valid_exec, instr_exec)

\* A clock with iINSTR = i and iINSTR_VALID = v.
Clock(i, v) ==
    /\ ShiftInstr(i)
    /\ ShiftValid(v)
    /\ StallGenClock(decode_rq, decode_regd, writeback_regd)
    /\ FpClock(cw_valid_exec, instr_exec)

\* A clock with inRST low.
Reset(i) ==
    /\ ShiftInstr(i)
    /\ cw_valid_writeback' = FALSE /\ cw_valid_exec' = FALSE
    /\ cw_valid_decode' = FALSE    /\ cw_valid_fetch' = FALSE
    /\ StallGenReset
    /\ FpReset(instr_exec)

-----------------------------------------------------------------------------
(* The code leaves part of the hazards to the program.  An instruction is  *)
(* scheduled when it can be taken without meeting a hazard the scoreboard  *)
(* does not see:                                                           *)
(*   - none of the two instructions before it writes its own register: the *)
(*     driver's two nops in front of every instruction (gppcu.c:260-262)   *)
(*     and its triples on disjoint register banks (gppcu.c:361-385);       *)
(*   - if it reads the register it writes, the one just before it is not a *)
(*     floating point operation.                                           *)

NoCloseWriter(i) ==
    RegWr(i) => /\ i.rd \notin Writes(cw_valid_fetch, instr_fetch)
                /\ i.rd \notin Writes(cw_valid_decode, instr_decode)

SelfDependent(i) == RegWr(i) /\ i.rd \in Sources(i)

NotBehindFp(i) == SelfDependent(i) => ~(cw_valid_fetch /\ FpOp(instr_fetch))

Scheduled(i) == NoCloseWriter(i) /\ NotBehindFp(i)

ScheduledClock(i, v) ==
    /\ v /\ can_fetch => Scheduled(i)
    /\ Clock(i, v)

\* Any stream of instructions, and resets at any time.
Next == \E i \in Instr : Reset(i) \/ \E v \in BOOLEAN : Clock(i, v)

\* The same with a stream that is scheduled.
ScheduledNext == \E i \in Instr : Reset(i) \/ \E v \in BOOLEAN : ScheduledClock(i, v)

\* Any stream and no reset after power up.
RunNext == \E i \in Instr, v \in BOOLEAN : Clock(i, v)

Spec          == Init /\ [][Next]_coreVars
ScheduledSpec == Init /\ [][ScheduledNext]_coreVars
RunSpec       == Init /\ [][RunNext]_coreVars

\* iACLK is a free running oscillator: edges keep coming, and nothing obliges anyone
\* to pull inRST low.
FairSpec          == Spec /\ WF_coreVars(RunNext)
FairScheduledSpec ==
    ScheduledSpec /\ WF_coreVars(\E i \in Instr, v \in BOOLEAN : ScheduledClock(i, v))

-----------------------------------------------------------------------------
(* Safety.                                                                 *)

\* An instruction leaves decode only when the operands it takes along are final: no
\* older instruction that still has to pass exec writes one of its sources (one in
\* writeback is forwarded by the register bank).  This is what data_stall_decode,
\* "prevents data hazard" (GPPCU_CORE.v:71), is for.
IssueIsSafe ==
    cw_valid_decode /\ ~data_stall_decode => exec_regd \cap decode_rq = {}

\* When the scoreboard holds decode, an older instruction that will free one of the
\* registers it waits for is in exec or in writeback: decode never waits for itself
\* or for nobody (GPPCU_STALL_GEN.v:48).
StallHasCause ==
    ~can_use_reg => (exec_regd \cup writeback_regd) \cap decode_rq # {}

\* A register stays marked only while its writer is in flight: no mark is left
\* behind when claims and releases of a register meet (GPPCU_STALL_GEN.v:54-56).
\* The writer is in exec or in writeback, or it is the instruction in decode,
\* cleared to issue, behind a floating point operation that still occupies exec.
NoStrayMark ==
    occupied \subseteq exec_regd \cup writeback_regd
        \cup (IF cw_valid_exec /\ FpOp(instr_exec) /\ can_use_reg THEN decode_regd ELSE {})

\* A machine that has left IDLE works for the floating point operation that is in
\* exec now: it is never found running by another instruction, in particular not by
\* the operation that enters exec in the clock its predecessor leaves
\* (GPPCU_THREAD.v:174-200).
FpOwned ==
    \A t \in Thread :
        fp_stage[t] # "IDLE" => cw_valid_exec /\ FpOp(instr_exec)

\* The answer a machine takes from its unit is the answer to its own operation: a
\* unit that counts says done only after the start of that operation has been seen,
\* never in the clock in which it is given ("Always wait for calculation done",
\* GPPCU_THREAD.v:176).
FpDoneIsOwn ==
    \A t \in Thread :
        fp_stage[t] = "BUSY" /\ fp_start[t] /\ fp_done(t, instr_exec)
            => Combinational(CW_FPOPC(instr_exec.op, DontCare))

\* A floating point operation reaches writeback only with the answers of all the
\* threads (GPPCU_CORE.v:91, GPPCU_THREAD.v:192-193).
FpFinishes ==
    [][cw_valid_writeback' /\ FpOp(instr_writeback')
           => \A t \in Thread : fp_stage[t] = "DONE"]_coreVars

\* What makes FpDoneIsOwn inductive.  A combinational operation starts the counter of
\* the unit too (with FADDS_LAT = 2) and leaves it counting behind its back; the count
\* runs out just before the next operation is given.
UnitInv ==
    \A t \in Thread :
        /\ fp_start[t] => fp_stage[t] = "BUSY" /\ ~fpu_busy[t]
        /\ fpu_busy[t] => CASE fp_stage[t] = "DONE" -> fpu_counter[t] <= 2
                            [] fp_stage[t] = "IDLE" -> fpu_counter[t] <= 1
                            [] fp_stage[t] = "RUN"  -> fpu_counter[t] = 0
                            [] OTHER                -> TRUE

-----------------------------------------------------------------------------
(* What makes IssueIsSafe, StallHasCause and NoStrayMark inductive under a *)
(* scheduled stream.                                                       *)

fetch_regd == Writes(cw_valid_fetch, instr_fetch)

\* No two instructions close to each other write the same register.
DistinctWriters ==
    /\ fetch_regd \cap decode_regd = {}
    /\ fetch_regd \cap exec_regd = {}
    /\ decode_regd \cap exec_regd = {}
    /\ decode_regd \cap writeback_regd = {}
    /\ exec_regd \cap writeback_regd = {}

\* Every writer that has left decode is marked.
WritersMarked == exec_regd \cup writeback_regd \subseteq occupied

\* An instruction that reads the register it writes is not right behind a floating
\* point operation.
NoSelfBehindFp ==
    /\ cw_valid_decode /\ SelfDependent(instr_decode) => ~(cw_valid_exec /\ FpOp(instr_exec))
    /\ cw_valid_fetch /\ SelfDependent(instr_fetch) => ~(cw_valid_decode /\ FpOp(instr_decode))

ScoreboardInv == DistinctWriters /\ WritersMarked /\ NoSelfBehindFp /\ NoStrayMark

-----------------------------------------------------------------------------
(* Liveness.                                                               *)

\* A stall ends ("Stall signal resolves automatically when the stage arrives DONE",
\* GPPCU_THREAD.v:173): the core asks for an instruction again and again.
StallResolves == []<>can_fetch
=============================================================================
