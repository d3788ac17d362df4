---------------------------- MODULE GPPCU_TASKS ----------------------------
(***************************************************************************)
(* The data of the tasks: how the driver spreads them over the threads'    *)
(* local memories, what the uploaded program does to them when the device  *)
(* runs it lane by lane, and how the results come back (gppcu.c, the order *)
(* of the calls from main.c and app.c).                                    *)
(*                                                                         *)
(* The device is the one GPPCU_ISA promises: it carries out the words of a *)
(* task cycle one at a time and in order.  What stands between that and    *)
(* the hardware are GPPCU_THREAD (the pipeline) and GPPCU_DEVICE (the      *)
(* queue).  Every command of a loop of gppcu_write and gppcu_read is given *)
(* while the device stands still, so a step is what happens to one task.   *)
(***************************************************************************)
EXTENDS GPPCU_ISA, GPPCU_PROGRAM, Integers, FiniteSets

CONSTANTS
    ro_max_word_per_thread,  \* what gppcu_init is told, 512
    ClearedWords,            \* what mem_clr is told, 120
    Garbage,                 \* what a register or a word may hold at power up
    Job                      \* what the application does: records, see JobAssumption

mnumthr == Cardinality(Thread)
NumConst == 32           \* words of constant memory the applications use

Word == 0..DataSize-1

\* A program with the space of its task in words, one element per task to put at word
\* ofst_in of the space, the words to fetch from ofst_out on, the capacity of the array
\* they are fetched into, and the constants written before each frame, as functions from
\* addresses.
ASSUME JobAssumption ==
    /\ mnumthr \in Nat \ {0} /\ Thread = 0..mnumthr-1 /\ Reg = 0..NUM_REG-1
    /\ MemDepth = ro_max_word_per_thread /\ MemDepth \in Nat \ {0} /\ ClearedWords \in Nat
    /\ DataSize \in Nat /\ MemDepth < DataSize /\ NumConst <= DataSize
    /\ Garbage \subseteq Word
    /\ \A j \in Job :
          /\ j.mtaskmem \in Nat /\ j.ofst_in \in Nat
          /\ j.out \in Nat /\ j.ofst_out \in Nat /\ j.capacity \in Nat
          /\ Len(j.elements) \in Nat \ {0}
          /\ Len(j.constants) \in Nat \ {0}
          /\ \A f \in 1..Len(j.constants) :
                \A a \in DOMAIN j.constants[f] : j.constants[f][a] \in Word
          /\ \A k \in 1..Len(j.elements) :
                /\ j.elements[k] \in Seq(Word)
                /\ Len(j.elements[k]) + j.ofst_in <= j.mtaskmem
          /\ j.out + j.ofst_out <= j.mtaskmem

VARIABLES
    job, frame, at,           \* what the application does, and how far it is
    mtaskmem, ro_numtask,     \* fields of swk_gppcu
    sz_per_task, num_cycles, uploaded, cur_task_ofst, cur_cycle_idx,   \* the device's
    idx_task, idx_thread, cycle_based_offset,   \* the loops of gppcu_write, gppcu_read
    dst,                      \* the elements fetched
    given                     \* history: the local memories when the run started

driverVars == <<mtaskmem, ro_numtask>>
deviceVars == <<sz_per_task, num_cycles, uploaded>>
runVars    == <<pending, cur_task_ofst, cur_cycle_idx>>
loopVars   == <<idx_task, idx_thread, cycle_based_offset>>
tasksVars  == <<isaVars, job, frame, at, driverVars, deviceVars, cur_task_ofst,
                cur_cycle_idx, loopVars, dst, given>>

TasksType ==
    /\ at \in {"clear", "init", "write", "program", "const", "start", "run", "done",
               "read", "drawn"}
    /\ frame \in 1..Len(job.constants)
    /\ mem \in [Thread -> [0..MemDepth-1 -> Word]]
    /\ regs \in [Thread -> [Reg -> Word]]
    /\ idx_thread \in Thread /\ idx_task \in 0..ro_numtask
    /\ cur_cycle_idx \in 0..num_cycles
    /\ job.out * Len(dst) <= job.capacity

Loop0 == idx_task = 0 /\ idx_thread = 0 /\ cycle_based_offset = 0

TasksInit ==
    /\ \E g \in Garbage :
          /\ regs = [t \in Thread |-> [r \in Reg |-> g]]
          /\ mem = [t \in Thread |-> [a \in 0..MemDepth-1 |-> g]]
          /\ gmem = [a \in 0..NumConst-1 |-> g]
    /\ sreg = [t \in Thread |-> SregReset] /\ pending = <<>>
    /\ job \in Job /\ frame = 1 /\ at = "clear"
    /\ mtaskmem = 0 /\ ro_numtask = 0
    /\ sz_per_task = 0 /\ num_cycles = 0 /\ uploaded = <<>>
    /\ cur_task_ofst = 0 /\ cur_cycle_idx = 0
    /\ Loop0 /\ dst = <<>> /\ given = mem

-----------------------------------------------------------------------------
(* The application and the driver.                                         *)

CeilDiv(a, b) == (a + b - 1) \div b

\* mem_clr: it writes every word of the first so many of each thread.
MemClr ==
    /\ at = "clear" /\ at' = "init"
    /\ mem' = [t \in Thread |-> [a \in 0..MemDepth-1 |->
                 IF a < ClearedWords THEN 0 ELSE mem[t][a]]]
    /\ UNCHANGED <<regs, sreg, gmem, job, frame, driverVars, deviceVars, runVars, loopVars,
                   dst, given>>

\* What the driver's assertion accepts; it only prints a message when it does not.
Accepted ==
    ro_numtask < (ro_max_word_per_thread \div mtaskmem) * mnumthr

\* Mutant of InitTask: the step from one task cycle to the next is a single lane's.
InitTask_OneLane ==
    /\ at = "init" /\ at' = "write"
    /\ mtaskmem' = job.mtaskmem /\ ro_numtask' = Len(job.elements)
    /\ sz_per_task' = job.mtaskmem
    /\ num_cycles' = CeilDiv(CeilDiv(ro_numtask', mnumthr), PARALLEL_CNT)
    /\ UNCHANGED <<regs, sreg, mem, gmem, job, frame, uploaded, runVars, loopVars, dst, given>>

\* gppcu_init_task_parallel, with its two commands.
InitTask ==
    /\ at = "init" /\ at' = "write"
    /\ mtaskmem' = job.mtaskmem /\ ro_numtask' = Len(job.elements)
    /\ sz_per_task' = job.mtaskmem * PARALLEL_CNT
    /\ num_cycles' = CeilDiv(CeilDiv(ro_numtask', mnumthr), PARALLEL_CNT)
    /\ UNCHANGED <<regs, sreg, mem, gmem, job, frame, uploaded, runVars, loopVars, dst, given>>

\* Mutant of NextTask: the offset moves on with every task.
NextTask_EveryTask ==
    /\ idx_task' = idx_task + 1
    /\ idx_thread' = (idx_thread + 1) % mnumthr
    /\ cycle_based_offset' = cycle_based_offset + mtaskmem

\* The end of the body of both loops.
NextTask ==
    /\ idx_task' = idx_task + 1
    /\ idx_thread' = (idx_thread + 1) % mnumthr
    /\ cycle_based_offset' =
          IF idx_thread + 1 = mnumthr THEN cycle_based_offset + mtaskmem
          ELSE cycle_based_offset

\* gppcu_write: the element of the next task.
WriteTask ==
    /\ at = "write" /\ idx_task < ro_numtask
    /\ LET first == cycle_based_offset + job.ofst_in
           element == job.elements[idx_task + 1]
       IN  mem' = [mem EXCEPT ![idx_thread] = [a \in 0..MemDepth-1 |->
                     LET k == (a - first) % MemDepth
                     IN  IF k < Len(element) THEN element[k + 1] ELSE @[a]]]
    /\ NextTask
    /\ UNCHANGED <<regs, sreg, gmem, job, frame, at, driverVars, deviceVars, runVars, dst, given>>

WriteEnds ==
    /\ at = "write" /\ idx_task = ro_numtask /\ at' = "program"
    /\ idx_task' = 0 /\ idx_thread' = 0 /\ cycle_based_offset' = 0
    /\ UNCHANGED <<isaVars, job, frame, driverVars, deviceVars, cur_task_ofst, cur_cycle_idx,
                   dst, given>>

\* gppcu_program_autofeed_device_parallel repeats the two commands of InitTask.
UploadProgram ==
    /\ at = "program" /\ at' = "const"
    /\ uploaded' = Layout(job.program, mtaskmem)
    /\ UNCHANGED <<isaVars, job, frame, driverVars, sz_per_task, num_cycles, cur_task_ofst,
                   cur_cycle_idx, loopVars, dst, given>>

\* gppcu_write_const, for all the constants of a frame.
WriteConst ==
    /\ at = "const" /\ at' = "start"
    /\ gmem' = [a \in DOMAIN gmem |->
          IF a \in DOMAIN job.constants[frame] THEN job.constants[frame][a] ELSE gmem[a]]
    /\ UNCHANGED <<regs, sreg, mem, job, frame, driverVars, deviceVars, runVars, loopVars,
                   dst, given>>

-----------------------------------------------------------------------------
(* The run.                                                                *)

\* Address 0 of the constant memory answers with the offset of the task cycle.
Offered(ofst) == gmem' = [gmem EXCEPT ![0] = ofst]

Run ==
    /\ at = "start" /\ at' = "run"
    /\ cur_cycle_idx' = 0 /\ cur_task_ofst' = 0 /\ Offered(0)
    /\ pending' = uploaded
    /\ given' = mem
    /\ UNCHANGED <<regs, sreg, mem, job, frame, driverVars, deviceVars, loopVars, dst>>

CarryOutWord ==
    /\ at = "run" /\ pending # <<>>
    /\ Execute(Head(pending)) /\ pending' = Tail(pending)
    /\ UNCHANGED <<gmem, job, frame, at, driverVars, deviceVars, cur_task_ofst, cur_cycle_idx,
                   loopVars, dst, given>>

\* The program's end: the next task cycle, or the end of the run.
NextCycle ==
    /\ at = "run" /\ pending = <<>>
    /\ cur_cycle_idx' = cur_cycle_idx + 1
    /\ IF cur_cycle_idx' = num_cycles
       THEN at' = "done" /\ UNCHANGED <<gmem, cur_task_ofst, pending>>
       ELSE /\ cur_task_ofst' = (cur_task_ofst + sz_per_task) % DataSize
            /\ Offered(cur_task_ofst')
            /\ pending' = uploaded /\ UNCHANGED at
    /\ UNCHANGED <<regs, sreg, mem, job, frame, driverVars, deviceVars, loopVars, dst, given>>

-----------------------------------------------------------------------------
(* Results.                                                                *)

\* gppcu_is_done has said so; gppcu_read starts on the array from the beginning.
Download ==
    /\ at = "done" /\ at' = "read" /\ dst' = <<>>
    /\ UNCHANGED <<isaVars, job, frame, driverVars, deviceVars, cur_task_ofst, cur_cycle_idx,
                   loopVars, given>>

\* Mutant of Room: the array is taken for one element larger.
Room_OneMore == job.out * Len(dst) < job.capacity + job.out

\* gppcu_read stops before an element that would fill the array to its end.
Room == job.out * (Len(dst) + 1) < job.capacity

ReadTask ==
    /\ at = "read" /\ idx_task < ro_numtask /\ Room
    /\ dst' = Append(dst, [k \in 1..job.out |->
                 mem[idx_thread][(cycle_based_offset + job.ofst_out + k - 1) % MemDepth]])
    /\ NextTask
    /\ UNCHANGED <<isaVars, job, frame, at, driverVars, deviceVars, cur_task_ofst,
                   cur_cycle_idx, given>>

ReadEnds ==
    /\ at = "read" /\ (idx_task = ro_numtask \/ ~Room) /\ at' = "drawn"
    /\ idx_task' = 0 /\ idx_thread' = 0 /\ cycle_based_offset' = 0
    /\ UNCHANGED <<isaVars, job, frame, driverVars, deviceVars, cur_task_ofst, cur_cycle_idx,
                   dst, given>>

\* The next round of main's loop: the vertices and the program stay, the constants do not.
NextRound ==
    /\ at = "drawn" /\ frame < Len(job.constants)
    /\ frame' = frame + 1 /\ at' = "const"
    /\ UNCHANGED <<isaVars, job, driverVars, deviceVars, cur_task_ofst, cur_cycle_idx,
                   loopVars, dst, given>>

TasksNext ==
    \/ MemClr \/ InitTask \/ WriteTask \/ WriteEnds \/ UploadProgram \/ WriteConst
    \/ Run \/ CarryOutWord \/ NextCycle
    \/ Download \/ ReadTask \/ ReadEnds \/ NextRound

TasksSpec == TasksInit /\ [][TasksNext]_tasksVars

-----------------------------------------------------------------------------
(* Where a task lives, and what should become of it.                       *)

ThreadOf(idx) == idx % mnumthr
BaseOf(idx)   == (idx \div mnumthr) * mtaskmem

\* The rounded number of task cycles fits the local memory.
Fits == num_cycles * sz_per_task <= ro_max_word_per_thread

\* A thread after each word of a program, carried out with nothing else in between.
Steps(thr, const, prog) ==
    LET after[n \in 0..Len(prog)] == IF n = 0 THEN thr ELSE Effect(after[n - 1], const, prog[n])
    IN  after

\* A thread whose local memory holds these words, with the pivot of a task at base.
StartOf(base, words) ==
    [regs |-> [r \in Reg |-> IF r = REGPIVOT THEN base ELSE 0], mem |-> words,
     sreg |-> SregReset]

\* What the program, as it was written, does to the memory that task idx was given when
\* nothing else runs: no lanes, no banks, no bubbles.
Alone(idx) ==
    Steps(StartOf(BaseOf(idx), given[ThreadOf(idx)]), gmem, job.program)[Len(job.program)].mem

RanAlone(idx) ==
    LET alone == Alone(idx)
    IN  \A a \in BaseOf(idx)..BaseOf(idx)+mtaskmem-1 : mem[ThreadOf(idx)][a] = alone[a]

\* After a run that fits, the space of every task holds what the program leaves there when
\* it runs for that task alone: the lanes do not touch each other's registers or words, the
\* bubbles and the prologue do nothing else, and each lane finds its task by its pivot
\* (gppcu.c:296-392, 394-404, 421-454; GPPCU_TEST_QUEUE.v:154-178).
TasksRunAlone == (at = "done" /\ Fits) => \A idx \in 0..ro_numtask-1 : RanAlone(idx)

\* The same for every task that the driver accepts (gppcu.c:400, "Task number has set too
\* many."): the rounding up to whole triples of cycles comes after that check.
AcceptedTasksRunAlone ==
    (at = "done" /\ Accepted) => \A idx \in 0..ro_numtask-1 : RanAlone(idx)

\* The array gets the results of this frame, in the order of the tasks: all of them when it
\* is larger than they are, and otherwise as many as leave room behind them
\* (gppcu.c:456-497, app.c:377-386).
ResultsInOrder ==
    (at = "drawn" /\ Fits) =>
       /\ Len(dst) = ro_numtask \/ ~Room
       /\ \A n \in 1..Len(dst) :
             LET alone == Alone(n - 1)
             IN  dst[n] = [k \in 1..job.out |-> alone[BaseOf(n - 1) + job.ofst_out + k - 1]]

-----------------------------------------------------------------------------
(* What the firmware's programs are like.                                  *)

\* The registers that hold something of the program's own before its word k + 1.
Known(prog, k) == {REGPIVOT} \cup {prog[n].rd : n \in {l \in 1..k : RegWr(prog[l])}}

\* A program for tasks of m words that keeps to itself: it reads what it has written, leaves
\* its pivot and the flags alone, addresses the words of its space from the pivot, and
\* takes constants from behind the word that holds the offset.  The immediate of the last
\* pivot of the prologue fits a word.
Confined(prog, m) ==
    /\ prog \in Seq(SourceWord) /\ PARALLEL_CNT * m < DataSize
    /\ \A k \in 1..Len(prog) :
          LET i == prog[k]
          IN  /\ ~i.s /\ i.imm < DataSize
              /\ Sources(i) \subseteq Known(prog, k - 1)
              /\ RegWr(i) => i.rd # REGPIVOT
              /\ i.op \in CW_LMEM_RD \cup CW_LMEM_WR => i.rb = REGPIVOT /\ i.imm < m
              /\ i.op = "LDCI" => i.imm \in 1..NumConst-1

AllConfined == \A j \in Job : Confined(j.program, j.mtaskmem)

\* What the units do with operands, as far as the layout relies on it: words give words, a
\* move gives its operand, an operation of one operand looks at that one, and the sums that
\* set the pivots are sums as long as they fit a word.
UnitsCompute ==
    /\ \A a, b \in Word, c \in BOOLEAN :
          /\ \A op \in CW_ALOP : AluQ(CW_ALOPC(op), a, b, c) \in Word
          /\ AluQ("MOV", a, b, c) = b
          /\ AluQ("MVN", a, b, c) = AluQ("MVN", 0, b, c)
          /\ \A op \in {"LSL", "LSR", "ASR"} : AluQ(op, a, b, c) = AluQ(op, a, 0, c)
          /\ AluSreg("ADI", a, b, c).c \in BOOLEAN
    /\ \A a, b \in Word :
          /\ \A op \in CW_FPOP : FpuQ(op, a, b) \in Word
          /\ \A op \in {"ITOF", "FTOI", "FSQRT"} : FpuQ(op, a, b) = FpuQ(op, a, 0)
          /\ a + b < DataSize => /\ AluQ("ADI", a, b, FALSE) = a + b
                                 /\ ~AluSreg("ADI", a, b, FALSE).c
=============================================================================
