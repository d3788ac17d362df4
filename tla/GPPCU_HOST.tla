----------------------------- MODULE GPPCU_HOST -----------------------------
(***************************************************************************)
(* The processor's side of the command port: the commands of the driver    *)
(* (gppcu.c) in the order the firmware gives them (app.c, main.c).  A job  *)
(* is laid out, its program is uploaded, and then frame after frame the    *)
(* device is stopped, started, and polled until it is done.                *)
(***************************************************************************)
EXTENDS GPPCU_TEST_QUEUE, Sequences

CONSTANTS
    Job,      \* what the firmware may run: records [program, sz, cycles]
    Edges     \* edges of iACLK between two commands

\* A program is shorter than the program memory (gppcu_put_instr only compares it
\* with the capacity of the driver's own array), and the offsets fit the 32 bits.
ASSUME JobAssumption ==
    \A j \in Job : /\ j.program \in Seq(Word) /\ Len(j.program) < QDepth
                   /\ j.sz \in 0..OfstLimit-1 /\ j.cycles \in 0..CycleLimit-1

\* A command is three writes to registers that iACLK clocks itself (the word, the
\* word with its CLK bit, the word without), so edges of iACLK lie in between.
ASSUME EdgesAssumption == Edges \in Nat \ {0}

VARIABLES
    host_pc,   \* what the firmware does next
    job,       \* what it runs
    pushed,    \* words of the program already pushed
    edges,     \* edges of iACLK to come before the next command
    taken      \* words the core has taken since the device was started (not in the code)

hostVars == <<host_pc, job, pushed, edges, taken>>

HostPc == {"task_sz", "task_cycles", "reset", "sz", "cycles", "push",
           "stop", "start", "poll", "read"}

HostType ==
    /\ host_pc \in HostPc /\ job \in Job
    /\ pushed \in 0..Len(job.program) /\ edges \in 0..Edges /\ taken \in Nat

HostInit ==
    /\ host_pc = "task_sz" /\ job \in Job
    /\ pushed = 0 /\ edges = 0 /\ taken = 0

-----------------------------------------------------------------------------
\* The frame of a command: it is given when the last one has gone through.
Command(at, next) ==
    /\ edges = 0 /\ edges' = Edges
    /\ host_pc = at /\ host_pc' = next

\* gppcu_init_task_parallel: the layout of the job.
TaskSize ==
    /\ Command("task_sz", "task_cycles") /\ SzPerCycle(job.sz)
    /\ UNCHANGED <<job, pushed, taken>>
TaskCycles ==
    /\ Command("task_cycles", "reset") /\ NumCycle(job.cycles)
    /\ UNCHANGED <<job, pushed, taken>>

\* gppcu_program_autofeed_device_parallel: reset, the layout again, the words.
ResetProgram ==
    /\ Command("reset", "sz") /\ ResetPrg
    /\ pushed' = 0 /\ UNCHANGED <<job, taken>>
ProgramSize ==
    /\ Command("sz", "cycles") /\ SzPerCycle(job.sz)
    /\ UNCHANGED <<job, pushed, taken>>
ProgramCycles ==
    /\ Command("cycles", "push") /\ NumCycle(job.cycles)
    /\ UNCHANGED <<job, pushed, taken>>
Push ==
    /\ pushed < Len(job.program)
    /\ Command("push", "push") /\ PushInstr(job.program[pushed + 1])
    /\ pushed' = pushed + 1 /\ UNCHANGED <<job, taken>>
Uploaded ==
    /\ host_pc = "push" /\ pushed = Len(job.program) /\ host_pc' = "stop"
    /\ UNCHANGED <<job, pushed, edges, taken, queueVars>>

\* gppcu_run_autofeed_device: stop, so that the counters clear, and start.
Stop ==
    /\ Command("stop", "start") /\ RunStop(FALSE)
    /\ UNCHANGED <<job, pushed, taken>>
Start ==
    /\ Command("start", "poll") /\ RunStop(TRUE)
    /\ taken' = 0 /\ UNCHANGED <<job, pushed>>

\* gppcu_is_done in the loop of main: the status is read without a command edge.
Poll ==
    /\ edges = 0
    /\ host_pc = "poll" /\ program_done /\ host_pc' = "read"
    /\ UNCHANGED <<job, pushed, edges, taken, queueVars>>

\* The results are fetched and the next frame runs the same program.  main uploads a
\* single job; the same calls of the driver may lay out and upload another.
NextFrame ==
    /\ host_pc = "read" /\ host_pc' = "stop"
    /\ UNCHANGED <<job, pushed, edges, taken, queueVars>>
NextJob ==
    /\ host_pc = "read" /\ host_pc' = "task_sz" /\ job' \in Job /\ pushed' = 0
    /\ UNCHANGED <<edges, taken, queueVars>>

HostStep ==
    \/ TaskSize \/ TaskCycles
    \/ ResetProgram \/ ProgramSize \/ ProgramCycles \/ Push \/ Uploaded
    \/ Stop \/ Start \/ Poll \/ NextFrame \/ NextJob

\* An edge of iACLK seen from here.
HostClk(instr_ready) ==
    /\ QueueClk(instr_ready)
    /\ edges' = IF edges = 0 THEN 0 ELSE edges - 1
    /\ taken' = IF instr_valid /\ instr_ready THEN taken + 1 ELSE taken
    /\ UNCHANGED <<host_pc, job, pushed>>

-----------------------------------------------------------------------------
(* The queue and its driver, before any core that takes words now and      *)
(* then.  The firmware proceeds, iACLK ticks, and the core is ready again  *)
(* and again (its stalls end: StallResolves of GPPCU_CORE).                *)

queueHostVars == <<queueVars, hostVars>>

QueueHostInit == QueueInit /\ HostInit
QueueHostNext == HostStep \/ \E r \in BOOLEAN : HostClk(r)
QueueHostSpec ==
    /\ QueueHostInit /\ [][QueueHostNext]_queueHostVars
    /\ WF_queueHostVars(HostStep) /\ WF_queueHostVars(HostClk(TRUE))

QueueHostType == QueueType /\ HostType

Running == host_pc \in {"poll", "read"}

\* Whatever the job before left behind, a run supplies the core with as many words
\* as its program has, once per task cycle, before the processor sees it done, and
\* with at most one word more: the one that instr_valid still offers while
\* program_done is being set (GPPCU_TEST_QUEUE.v:157-160,199; main.c:143-147).
RunComplete ==
    host_pc = "read" =>
        taken \in {Len(job.program) * job.cycles, Len(job.program) * job.cycles + 1}

\* While a job runs, the offset that LDCI 0 hands to the tasks is the one of the task
\* cycle, from the start of every run on (GPPCU_TEST_QUEUE.v:167-169,198).
OffsetFollowsCycle ==
    Running => cur_task_ofst = (cur_cycle_idx * job.sz) % OfstLimit

\* The word on the bus is the one at pmem_head or the one before it; at the start of
\* a task cycle it is the one after the end of the program.  More than that the queue
\* does not say about the word it offers as valid (GPPCU_TEST_QUEUE.v:106-121,163).
BusSkew ==
    instr_valid =>
        \/ program_addr = pmem_head \/ program_addr + 1 = pmem_head
        \/ pmem_head = 0 /\ program_addr = pmem_end

\* A run the processor has started is seen done (main.c:143).
RunEnds == (host_pc = "poll") ~> (host_pc = "read")
=============================================================================
