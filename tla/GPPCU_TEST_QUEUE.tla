-------------------------- MODULE GPPCU_TEST_QUEUE --------------------------
(***************************************************************************)
(* The instruction queue in front of the core (GPPCU_TEST_QUEUE.v): the    *)
(* program memory, the command port with which the processor fills and     *)
(* starts it, and the counters that feed the program to the core once per  *)
(* task cycle.  The command port is clocked by the processor (opclk), the  *)
(* supply logic by iACLK: their edges interleave freely.                   *)
(***************************************************************************)
EXTENDS Naturals

CONSTANTS
    Word,         \* the words of the program memory
    Blank,        \* what the memory holds at power up
    QDepth,       \* its depth, 2^QBW
    CycleLimit,   \* 2^12: num_cycles and cur_cycle_idx wrap here
    OfstLimit     \* 2^32: cur_task_ofst wraps here

ASSUME QueueAssumption ==
    /\ Blank \in Word
    /\ QDepth \in Nat \ {0} /\ CycleLimit \in Nat \ {0} /\ OfstLimit \in Nat \ {0}

VARIABLES
    pmem,             \* the program memory
    pmem_end,         \* where the next instruction is pushed
    pmem_running,
    num_cycles, sz_per_task,
    pmem_head,        \* the address being read
    program,          \* the output register of the memory
    program_addr,     \* the address that word was read from (not in the code)
    program_done, cur_task_ofst, cur_cycle_idx

portVars  == <<pmem, pmem_end, pmem_running, num_cycles, sz_per_task>>
supplyVars == <<pmem_head, program, program_addr, program_done, cur_task_ofst, cur_cycle_idx>>
queueVars == <<portVars, supplyVars>>

QueueType ==
    /\ pmem \in [0..QDepth-1 -> Word]
    /\ pmem_end \in 0..QDepth-1 /\ pmem_head \in 0..QDepth-1 /\ program_addr \in 0..QDepth-1
    /\ pmem_running \in BOOLEAN /\ program_done \in BOOLEAN
    /\ num_cycles \in 0..CycleLimit-1 /\ cur_cycle_idx \in 0..CycleLimit-1
    /\ sz_per_task \in 0..OfstLimit-1 /\ cur_task_ofst \in 0..OfstLimit-1
    /\ program \in Word

\* The registers power up as zero; num_cycles and sz_per_task are never reset.
QueueInit ==
    /\ pmem = [a \in 0..QDepth-1 |-> Blank] /\ pmem_end = 0 /\ pmem_running = FALSE
    /\ num_cycles = 0 /\ sz_per_task = 0
    /\ pmem_head = 0 /\ program = Blank /\ program_addr = 0
    /\ program_done = FALSE /\ cur_task_ofst = 0 /\ cur_cycle_idx = 0

-----------------------------------------------------------------------------
(* The command port, one action per command.                               *)

\* OPR_INSTR: the word is written at pmem_end even while the program runs.
PushInstr(w) ==
    /\ pmem' = [pmem EXCEPT ![pmem_end] = w]
    /\ pmem_end' = IF pmem_running THEN pmem_end ELSE (pmem_end + 1) % QDepth
    /\ UNCHANGED <<pmem_running, num_cycles, sz_per_task, supplyVars>>

\* LPM_RUNSTOP
RunStop(run) ==
    /\ pmem_running' = run
    /\ UNCHANGED <<pmem, pmem_end, num_cycles, sz_per_task, supplyVars>>

\* LPM_RESETPRG, and inRST low, which clears the same registers.
ResetPrg ==
    /\ pmem_end' = 0 /\ pmem_running' = FALSE
    /\ UNCHANGED <<pmem, num_cycles, sz_per_task, supplyVars>>

\* LPM_NUMCYCLE
NumCycle(n) ==
    /\ num_cycles' = n % CycleLimit
    /\ UNCHANGED <<pmem, pmem_end, pmem_running, sz_per_task, supplyVars>>

\* LPM_SZPERCYCLE
SzPerCycle(sz) ==
    /\ sz_per_task' = sz
    /\ UNCHANGED <<pmem, pmem_end, pmem_running, num_cycles, supplyVars>>

-----------------------------------------------------------------------------
(* The supply logic.                                                       *)

instr_valid == pmem_running /\ ~program_done /\ pmem_head # pmem_end

\* The output register of the memory follows pmem_head one clock behind.
ReadProgram == program' = pmem[pmem_head] /\ program_addr' = pmem_head

\* All the task cycles are through.
Finish ==
    /\ cur_cycle_idx = num_cycles
    /\ program_done' = TRUE
    /\ UNCHANGED <<pmem_head, cur_task_ofst, cur_cycle_idx>>

\* Mutant of Advance: the last address is passed.
Advance_PastEnd(instr_ready) ==
    /\ cur_cycle_idx # num_cycles /\ pmem_head <= pmem_end
    /\ pmem_head' = IF instr_ready THEN pmem_head + 1 ELSE pmem_head
    /\ UNCHANGED <<program_done, cur_task_ofst, cur_cycle_idx>>

\* Within a task cycle: on to the next word when the core is ready.
Advance(instr_ready) ==
    /\ cur_cycle_idx # num_cycles /\ pmem_head < pmem_end
    /\ pmem_head' = IF instr_ready THEN pmem_head + 1 ELSE pmem_head
    /\ UNCHANGED <<program_done, cur_task_ofst, cur_cycle_idx>>

\* Mutants of Wrap: the first word is skipped; the task cycle is not counted.
Wrap_SkipsFirst ==
    /\ cur_cycle_idx # num_cycles /\ pmem_head >= pmem_end
    /\ pmem_head' = 1
    /\ cur_task_ofst' = (cur_task_ofst + sz_per_task) % OfstLimit
    /\ cur_cycle_idx' = (cur_cycle_idx + 1) % CycleLimit
    /\ UNCHANGED program_done
Wrap_NotCounted ==
    /\ cur_cycle_idx # num_cycles /\ pmem_head >= pmem_end
    /\ pmem_head' = 0
    /\ cur_task_ofst' = (cur_task_ofst + sz_per_task) % OfstLimit
    /\ UNCHANGED <<program_done, cur_cycle_idx>>

\* The end of a task cycle.
Wrap ==
    /\ cur_cycle_idx # num_cycles /\ pmem_head >= pmem_end
    /\ pmem_head' = 0
    /\ cur_task_ofst' = (cur_task_ofst + sz_per_task) % OfstLimit
    /\ cur_cycle_idx' = (cur_cycle_idx + 1) % CycleLimit
    /\ UNCHANGED program_done

\* Mutants of Stopped: the task cycle, or the offset, survives a stop.
Stopped_KeepsCycle ==
    /\ program_done' = FALSE /\ pmem_head' = 0 /\ cur_task_ofst' = 0
    /\ UNCHANGED cur_cycle_idx
Stopped_KeepsOfst ==
    /\ program_done' = FALSE /\ pmem_head' = 0 /\ cur_cycle_idx' = 0
    /\ UNCHANGED cur_task_ofst

Stopped ==
    /\ program_done' = FALSE /\ pmem_head' = 0 /\ cur_task_ofst' = 0 /\ cur_cycle_idx' = 0

\* A rising edge of iACLK; instr_ready comes from the core.
QueueClk(instr_ready) ==
    /\ ReadProgram
    /\ IF pmem_running THEN Finish \/ Advance(instr_ready) \/ Wrap ELSE Stopped
    /\ UNCHANGED portVars
=============================================================================
