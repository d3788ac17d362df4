------------------------- MODULE GPPCU_DEVICE_proofs -------------------------
(***************************************************************************)
(* The device for every set of jobs, every depth of the program memory,    *)
(* every width of the counters, every number of threads and at least one   *)
(* edge of iACLK per command.  First the driver and the queue, then the    *)
(* words in the core, and last what the layout of a program makes of them. *)
(***************************************************************************)
EXTENDS GPPCU_DEVICE, GPPCU_CORE_proofs, GPPCU_PROGRAM_proofs, FiniteSetTheorems

-----------------------------------------------------------------------------
(* A run supplies what its job says, however often jobs are uploaded and   *)
(* run.  The invariant says, for each position of the firmware, what it    *)
(* has configured and what the supply logic has done with the edges so     *)
(* far.  It needs the done bit where the properties do not: between two    *)
(* jobs the device still runs, and a new number of task cycles sets it     *)
(* going again on the old program until the reset, with nothing but the    *)
(* done bit to keep its words from the core.                               *)

Cleared == /\ pmem_head = 0 /\ cur_task_ofst = 0 /\ cur_cycle_idx = 0
           /\ ~program_done
Idle == pmem_head = 0 /\ program_addr = 0
Configured == sz_per_task = job.sz /\ num_cycles = job.cycles
Loaded == pushed = Len(job.program) /\ pmem_end = pushed
Words == Len(job.program)

(* A run, from its start to the fetching of its results.                   *)
RunKept ==
    /\ cur_task_ofst = (cur_cycle_idx * job.sz) % OfstLimit
    /\ cur_cycle_idx <= num_cycles /\ pmem_head <= pmem_end
    /\ cur_cycle_idx = num_cycles => pmem_head = 0
    /\ ~program_done => taken = cur_cycle_idx * Words + pmem_head
    /\ ~program_done => \/ program_addr = pmem_head \/ program_addr + 1 = pmem_head
                        \/ pmem_head = 0 /\ program_addr = pmem_end
    /\ program_done => /\ cur_cycle_idx = num_cycles /\ program_addr = 0
                       /\ taken = job.cycles * Words \/ taken = job.cycles * Words + 1

Phases ==
    /\ host_pc \in {"task_sz", "task_cycles", "reset"} => (pmem_running => program_done)
    /\ host_pc \in {"sz", "cycles"} => ~pmem_running /\ pmem_end = 0 /\ pushed = 0
    /\ host_pc = "sz" => (edges < Edges => pmem_head = 0)
    /\ host_pc = "cycles" => /\ pmem_head = 0 /\ sz_per_task = job.sz
                             /\ edges < Edges => program_addr = 0
    /\ host_pc = "push" => Idle /\ Configured /\ ~pmem_running /\ pmem_end = pushed
    /\ host_pc = "stop" => /\ Idle /\ Configured /\ Loaded
                           /\ pmem_running => program_done /\ cur_cycle_idx = num_cycles
    /\ host_pc = "start" => /\ Idle /\ Configured /\ Loaded /\ ~pmem_running
                            /\ edges < Edges => Cleared
    /\ host_pc \in {"poll", "read"} => Configured /\ Loaded /\ pmem_running /\ RunKept
    /\ host_pc = "read" => program_done

QueueHostInv == QueueType /\ HostType /\ Phases

LEMMA Jobs ==
    ASSUME HostType
    PROVE  /\ job.program \in Seq(Word) /\ Words \in Nat /\ Words < QDepth
           /\ job.sz \in Nat /\ job.sz < OfstLimit /\ job.cycles \in Nat /\ job.cycles < CycleLimit
           /\ QDepth \in Nat /\ QDepth > 0 /\ OfstLimit \in Nat /\ OfstLimit > 0
           /\ CycleLimit \in Nat /\ CycleLimit > 0 /\ Edges \in Nat /\ Edges > 0
  <1>1. /\ job.program \in Seq(Word) /\ Words < QDepth
        /\ job.sz \in 0..OfstLimit-1 /\ job.cycles \in 0..CycleLimit-1
    BY JobAssumption DEF HostType, Words
  <1>2. Words \in Nat
    BY <1>1 DEF Words
  <1>. QED  BY <1>1, <1>2, QueueAssumption, EdgesAssumption, SMT

LEMMA ModInside == ASSUME NEW n \in Nat, n > 0, NEW x \in Nat
                   PROVE  x % n \in 0..n-1 /\ (x < n => x % n = x)
  BY SMT

LEMMA DivMod == ASSUME NEW n \in Nat, n > 0, NEW x \in Nat
                PROVE  x \div n \in Nat /\ x = n * (x \div n) + (x % n)
  BY SMT

LEMMA ModUnique ==
    ASSUME NEW n \in Nat, n > 0, NEW c \in Nat, NEW s \in 0..n-1
    PROVE  (n * c + s) % n = s
  <1>. DEFINE a == n * c + s
             d == a \div n
             t == a % n
  <1>1. n * c \in Nat /\ a \in Nat
    BY SMT
  <1>2. d \in Nat /\ t \in 0..n-1 /\ n * c + s = n * d + t
    BY <1>1, DivMod, ModInside
  <1>. HIDE DEF d, t
  <1>3. CASE c = d
    BY <1>1, <1>2, <1>3, SMT DEF t
  <1>4. CASE c < d
    <2>1. PICK k \in Nat : d = c + 1 + k
      <3>1. d - c - 1 \in Nat /\ d = c + 1 + (d - c - 1)
        BY <1>2, <1>4, SMT
      <3>. QED  BY <3>1
    <2>2. n * d = n * c + n + n * k /\ n * k \in Nat
      BY <2>1, SMT
    <2>. QED  BY <1>1, <1>2, <2>2, SMT
  <1>5. CASE c > d
    <2>1. PICK k \in Nat : c = d + 1 + k
      <3>1. c - d - 1 \in Nat /\ c = d + 1 + (c - d - 1)
        BY <1>2, <1>5, SMT
      <3>. QED  BY <3>1
    <2>2. n * c = n * d + n + n * k /\ n * k \in Nat /\ n * d \in Nat
      BY <1>2, <2>1, SMT
    <2>. QED  BY <1>1, <1>2, <2>2, SMT
  <1>. QED  BY <1>2, <1>3, <1>4, <1>5, SMT

(* The remainder of a sum does not care when the remainder is taken.       *)
LEMMA ModOfSum == ASSUME NEW n \in Nat, n > 0, NEW x \in Nat, NEW y \in Nat
                  PROVE  ((x % n) + y) % n = (x + y) % n
  <1>. DEFINE r == x % n
             q == x \div n
             s == (r + y) % n
             p == (r + y) \div n
  <1>1. r \in 0..n-1 /\ q \in Nat /\ x = n * q + r
    BY DivMod, ModInside
  <1>2. r + y \in Nat
    BY <1>1, SMT
  <1>3. s \in 0..n-1 /\ p \in Nat /\ r + y = n * p + s
    BY <1>2, DivMod, ModInside
  <1>. HIDE DEF r, q, s, p
  <1>4. x + y = n * (q + p) + s
    <2>1. n * (q + p) = n * q + n * p /\ n * q \in Nat /\ n * p \in Nat
      BY <1>1, <1>3, SMT
    <2>. QED  BY <1>1, <1>3, <2>1, SMT
  <1>5. q + p \in Nat
    BY <1>1, <1>3, SMT
  <1>6. (n * (q + p) + s) % n = s
    BY <1>3, <1>5, ModUnique
  <1>. QED  BY <1>4, <1>6 DEF r, s
-----------------------------------------------------------------------------
LEMMA QueueHostInitInv == QueueHostInit => QueueHostInv
  <1>. SUFFICES ASSUME QueueHostInit PROVE QueueHostInv
    OBVIOUS
  <1>1. HostType
    <2>1. Len(job.program) \in Nat
      BY JobAssumption DEF QueueHostInit, HostInit
    <2>. QED  BY <2>1, EdgesAssumption, SMT DEF QueueHostInit, HostInit, HostType, HostPc
  <1>2. QueueType
    <2>. USE QueueAssumption DEF QueueHostInit, QueueInit
    <2>1. 0 \in 0..QDepth-1 /\ 0 \in 0..CycleLimit-1 /\ 0 \in 0..OfstLimit-1
      BY SMT
    <2>2. pmem \in [0..QDepth-1 -> Word]
      OBVIOUS
    <2>. QED  BY <2>1, <2>2 DEF QueueType
  <1>3. Phases
    BY DEF QueueHostInit, QueueInit, HostInit, Phases
  <1>. QED  BY <1>1, <1>2, <1>3 DEF QueueHostInv

(* The firmware's steps, phase by phase.                                   *)
LEMMA HostStepInv ==
    ASSUME QueueHostInv, HostStep
    PROVE  QueueHostInv'
  <1>0. QueueType /\ HostType /\ Phases
    BY DEF QueueHostInv
  <1>. DEFINE J == /\ job.program \in Seq(Word) /\ Words \in Nat /\ Words < QDepth
                  /\ job.sz \in Nat /\ job.sz < OfstLimit
                  /\ job.cycles \in Nat /\ job.cycles < CycleLimit
                  /\ QDepth \in Nat /\ QDepth > 0 /\ OfstLimit \in Nat /\ OfstLimit > 0
                  /\ CycleLimit \in Nat /\ CycleLimit > 0 /\ Edges \in Nat /\ Edges > 0
  <1>j. J
    BY <1>0, Jobs
  <1>e. Edges \in 0..Edges /\ ~(Edges < Edges)
    BY <1>j, SMT
  <1>. USE <1>0, <1>j, <1>e DEF Command
  <1>1. CASE TaskSize
    <2>1. job.sz \in 0..OfstLimit-1
      BY SMT
    <2>2. QueueType' /\ HostType'
      BY <1>1, <2>1 DEF TaskSize, SzPerCycle, QueueType, HostType, HostPc, supplyVars
    <2>3. Phases'
      BY <1>1 DEF TaskSize, SzPerCycle, Phases, supplyVars
    <2>. QED  BY <2>2, <2>3 DEF QueueHostInv
  <1>2. CASE TaskCycles
    <2>1. job.cycles % CycleLimit \in 0..CycleLimit-1
      BY ModInside
    <2>2. QueueType' /\ HostType'
      BY <1>2, <2>1 DEF TaskCycles, NumCycle, QueueType, HostType, HostPc, supplyVars
    <2>3. Phases'
      BY <1>2 DEF TaskCycles, NumCycle, Phases, supplyVars
    <2>. QED  BY <2>2, <2>3 DEF QueueHostInv
  <1>3. CASE ResetProgram
    <2>1. 0 \in 0..QDepth-1 /\ 0 \in 0..Words
      BY SMT
    <2>2. QueueType' /\ HostType'
      BY <1>3, <2>1 DEF ResetProgram, ResetPrg, QueueType, HostType, HostPc, supplyVars, Words
    <2>3. Phases'
      BY <1>3 DEF ResetProgram, ResetPrg, Phases, supplyVars
    <2>. QED  BY <2>2, <2>3 DEF QueueHostInv
  <1>4. CASE ProgramSize
    <2>1. job.sz \in 0..OfstLimit-1
      BY SMT
    <2>2. QueueType' /\ HostType'
      BY <1>4, <2>1 DEF ProgramSize, SzPerCycle, QueueType, HostType, HostPc, supplyVars
    <2>3. pmem_head = 0
      BY <1>4, SMT DEF ProgramSize, Phases
    <2>4. Phases'
      BY <1>4, <2>3 DEF ProgramSize, SzPerCycle, Phases, supplyVars
    <2>. QED  BY <2>2, <2>4 DEF QueueHostInv
  <1>5. CASE ProgramCycles
    <2>1. job.cycles % CycleLimit = job.cycles /\ job.cycles \in 0..CycleLimit-1
      BY ModInside, SMT
    <2>2. QueueType' /\ HostType'
      BY <1>5, <2>1 DEF ProgramCycles, NumCycle, QueueType, HostType, HostPc, supplyVars
    <2>3. program_addr = 0
      BY <1>5, SMT DEF ProgramCycles, Phases
    <2>4. Phases'
      BY <1>5, <2>1, <2>3 DEF ProgramCycles, NumCycle, Phases, supplyVars, Idle, Configured
    <2>. QED  BY <2>2, <2>4 DEF QueueHostInv
  <1>6. CASE Push
    <2>1. /\ pmem_end = pushed /\ ~pmem_running /\ Idle /\ Configured
          /\ pushed \in 0..Words /\ pushed < Words
      BY <1>6 DEF Push, Phases, HostType, Words
    <2>2. /\ (pmem_end + 1) % QDepth = pushed + 1 /\ pushed + 1 \in 0..QDepth-1
          /\ pushed + 1 \in 0..Words /\ pushed + 1 \in 1..Words
      <3>1. pushed + 1 \in Nat /\ pushed + 1 < QDepth /\ pushed + 1 <= Words
        BY <2>1, SMT
      <3>2. (pushed + 1) % QDepth = pushed + 1
        BY <3>1, ModInside
      <3>. QED  BY <2>1, <3>1, <3>2, SMT
    <2>3. job.program[pushed + 1] \in Word
      BY <2>2 DEF Words
    <2>4. QueueType'
      BY <1>6, <2>1, <2>2, <2>3 DEF Push, PushInstr, QueueType, supplyVars
    <2>5. HostType'
      BY <1>6, <2>2 DEF Push, HostType, HostPc, Words
    <2>6. Phases'
      BY <1>6, <2>1, <2>2 DEF Push, PushInstr, Phases, supplyVars, Idle, Configured
    <2>. QED  BY <2>4, <2>5, <2>6 DEF QueueHostInv
  <1>7. CASE Uploaded
    <2>1. QueueType' /\ HostType'
      BY <1>7 DEF Uploaded, QueueType, HostType, HostPc, queueVars, portVars, supplyVars
    <2>2. Phases'
      BY <1>7 DEF Uploaded, Phases, Idle, Configured, Loaded, queueVars, portVars, supplyVars
    <2>. QED  BY <2>1, <2>2 DEF QueueHostInv
  <1>8. CASE Stop
    <2>1. QueueType' /\ HostType'
      BY <1>8 DEF Stop, RunStop, QueueType, HostType, HostPc, supplyVars
    <2>2. Phases'
      BY <1>8 DEF Stop, RunStop, Phases, Idle, Configured, Loaded, supplyVars
    <2>. QED  BY <2>1, <2>2 DEF QueueHostInv
  <1>9. CASE Start
    <2>1. QueueType' /\ HostType'
      BY <1>9 DEF Start, RunStop, QueueType, HostType, HostPc, supplyVars
    <2>2. Cleared /\ Idle /\ Configured /\ Loaded
      BY <1>9, SMT DEF Start, Phases
    <2>3. RunKept'
      <3>1. /\ pmem_head' = 0 /\ program_addr' = 0 /\ cur_task_ofst' = 0 /\ cur_cycle_idx' = 0
            /\ ~program_done' /\ taken' = 0 /\ job' = job /\ num_cycles' = num_cycles
            /\ pmem_end' = pmem_end /\ num_cycles \in Nat /\ pmem_end \in Nat
        BY <1>9, <2>2, SMT DEF Start, RunStop, Cleared, Idle, supplyVars, QueueType
      <3>2. (0 * job.sz) % OfstLimit = 0 /\ 0 * Words + 0 = 0
        <4>1. 0 * job.sz = 0 /\ 0 * Words + 0 = 0
          BY SMT
        <4>. QED  BY <4>1, ModInside
      <3>3. Words' = Words
        BY <3>1 DEF Words
      <3>. QED  BY <3>1, <3>2, <3>3, SMT DEF RunKept
    <2>4. Phases'
      BY <1>9, <2>2, <2>3 DEF Start, RunStop, Phases, Configured, Loaded, supplyVars
    <2>. QED  BY <2>1, <2>4 DEF QueueHostInv
  <1>10. CASE Poll
    <2>1. QueueType' /\ HostType'
      BY <1>10 DEF Poll, QueueType, HostType, HostPc, queueVars, portVars, supplyVars
    <2>2. Phases'
      BY <1>10 DEF Poll, Phases, Configured, Loaded, RunKept, Words, queueVars, portVars, supplyVars
    <2>. QED  BY <2>1, <2>2 DEF QueueHostInv
  <1>11. CASE NextFrame
    <2>1. QueueType' /\ HostType'
      BY <1>11 DEF NextFrame, QueueType, HostType, HostPc, queueVars, portVars, supplyVars
    <2>2. Phases'
      BY <1>11 DEF NextFrame, Phases, Idle, Configured, Loaded, RunKept,
                   queueVars, portVars, supplyVars
    <2>. QED  BY <2>1, <2>2 DEF QueueHostInv
  <1>12. CASE NextJob
    <2>1. QueueType'
      BY <1>12 DEF NextJob, QueueType, queueVars, portVars, supplyVars
    <2>2. HostType'
      <3>1. Len(job'.program) \in Nat
        BY <1>12, JobAssumption DEF NextJob
      <3>2. 0 \in 0..Len(job'.program)
        BY <3>1, SMT
      <3>. QED  BY <1>12, <3>2 DEF NextJob, HostType, HostPc
    <2>3. Phases'
      BY <1>12 DEF NextJob, Phases, queueVars, portVars, supplyVars
    <2>. QED  BY <2>1, <2>2, <2>3 DEF QueueHostInv
  <1>. QED  BY <1>1, <1>2, <1>3, <1>4, <1>5, <1>6, <1>7, <1>8, <1>9, <1>10, <1>11, <1>12 DEF HostStep
-----------------------------------------------------------------------------
(* An edge of iACLK.                                                       *)
LEMMA ClkType ==
    ASSUME QueueType, HostType, NEW r \in BOOLEAN, HostClk(r)
    PROVE  QueueType' /\ HostType'
  <1>. USE QueueAssumption
  <1>0. /\ edges' = IF edges = 0 THEN 0 ELSE edges - 1
        /\ taken' = IF instr_valid /\ r THEN taken + 1 ELSE taken
        /\ UNCHANGED <<host_pc, job, pushed, pmem, pmem_end, pmem_running, num_cycles, sz_per_task>>
        /\ program' = pmem[pmem_head] /\ program_addr' = pmem_head
        /\ IF pmem_running THEN Finish \/ Advance(r) \/ Wrap ELSE Stopped
    BY DEF HostClk, QueueClk, ReadProgram, portVars
  <1>1. HostType'
    <2>1. edges' \in 0..Edges /\ taken' \in Nat
      BY <1>0, EdgesAssumption, SMT DEF HostType
    <2>. QED  BY <1>0, <2>1 DEF HostType
  <1>2. program' \in Word /\ program_addr' \in 0..QDepth-1
    BY <1>0 DEF QueueType
  <1>3. /\ pmem_head' \in 0..QDepth-1 /\ cur_cycle_idx' \in 0..CycleLimit-1
        /\ cur_task_ofst' \in 0..OfstLimit-1 /\ program_done' \in BOOLEAN
    <2>1. 0 \in 0..QDepth-1 /\ 0 \in 0..CycleLimit-1 /\ 0 \in 0..OfstLimit-1
      BY SMT
    <2>2. CASE Finish /\ pmem_running
      BY <2>2 DEF Finish, QueueType
    <2>3. CASE Advance(r) /\ pmem_running
      <3>1. pmem_head' \in 0..QDepth-1
        BY <2>3, SMT DEF Advance, QueueType
      <3>. QED  BY <2>3, <3>1 DEF Advance, QueueType
    <2>4. CASE Wrap /\ pmem_running
      <3>1. cur_task_ofst + sz_per_task \in Nat /\ cur_cycle_idx + 1 \in Nat
            /\ OfstLimit \in Nat /\ OfstLimit > 0 /\ CycleLimit \in Nat /\ CycleLimit > 0
        BY SMT DEF QueueType
      <3>2. /\ (cur_task_ofst + sz_per_task) % OfstLimit \in 0..OfstLimit-1
            /\ (cur_cycle_idx + 1) % CycleLimit \in 0..CycleLimit-1
        BY <3>1, ModInside
      <3>. QED  BY <2>1, <2>4, <3>2 DEF Wrap, QueueType
    <2>5. CASE Stopped /\ ~pmem_running
      BY <2>1, <2>5 DEF Stopped
    <2>. QED  BY <1>0, <2>2, <2>3, <2>4, <2>5
  <1>. QED  BY <1>0, <1>1, <1>2, <1>3 DEF QueueType

LEMMA ClkRun ==
    ASSUME QueueType, HostType, Configured, Loaded, pmem_running, RunKept,
           NEW r \in BOOLEAN, HostClk(r)
    PROVE  RunKept'
  <1>. DEFINE w == Words
  <1>0. /\ taken' = IF ~program_done /\ pmem_head # pmem_end /\ r THEN taken + 1 ELSE taken
        /\ UNCHANGED <<job, pmem_end, num_cycles, sz_per_task>> /\ Words' = Words
        /\ program_addr' = pmem_head
        /\ Finish \/ Advance(r) \/ Wrap
    BY DEF HostClk, QueueClk, ReadProgram, portVars, instr_valid, Words
  <1>1. /\ w \in Nat /\ pmem_end = w /\ pmem_head \in Nat /\ cur_cycle_idx \in Nat
        /\ num_cycles = job.cycles /\ sz_per_task = job.sz /\ taken \in Nat
        /\ job.cycles \in Nat /\ job.cycles < CycleLimit /\ CycleLimit \in Nat
        /\ job.sz \in Nat /\ OfstLimit \in Nat /\ OfstLimit > 0
        /\ program_addr \in Nat
    BY Jobs, SMT DEF QueueType, HostType, Configured, Loaded, Words
  <1>. DEFINE p == cur_cycle_idx * w
             c == job.cycles * w
  <1>2. p \in Nat /\ c \in Nat /\ (cur_cycle_idx + 1) * w = p + w
        /\ (cur_cycle_idx = num_cycles => p = c)
    BY <1>1, SMT
  <1>3. /\ cur_task_ofst = (cur_cycle_idx * job.sz) % OfstLimit
        /\ cur_cycle_idx <= num_cycles /\ pmem_head <= pmem_end
        /\ cur_cycle_idx = num_cycles => pmem_head = 0
        /\ ~program_done => taken = p + pmem_head
        /\ ~program_done => \/ program_addr = pmem_head \/ program_addr + 1 = pmem_head
                            \/ pmem_head = 0 /\ program_addr = pmem_end
        /\ program_done => /\ cur_cycle_idx = num_cycles /\ program_addr = 0
                           /\ taken = c \/ taken = c + 1
    BY DEF RunKept
  <1>. HIDE DEF p, c, w
  <1>4. CASE Finish
    <2>1. /\ cur_cycle_idx = num_cycles /\ program_done' /\ pmem_head' = pmem_head
          /\ cur_task_ofst' = cur_task_ofst /\ cur_cycle_idx' = cur_cycle_idx
      BY <1>4 DEF Finish
    <2>2. taken' = c \/ taken' = c + 1
      BY <1>0, <1>1, <1>2, <1>3, <2>1, SMT
    <2>. QED  BY <1>0, <1>3, <2>1, <2>2 DEF RunKept, c, w
  <1>5. CASE Advance(r)
    <2>1. /\ cur_cycle_idx # num_cycles /\ pmem_head < pmem_end /\ program_done' = program_done
          /\ pmem_head' = IF r THEN pmem_head + 1 ELSE pmem_head
          /\ cur_task_ofst' = cur_task_ofst /\ cur_cycle_idx' = cur_cycle_idx
      BY <1>5 DEF Advance
    <2>2. /\ ~program_done /\ taken' = p + pmem_head' /\ pmem_head' <= pmem_end
          /\ program_addr' = pmem_head' \/ program_addr' + 1 = pmem_head'
      BY <1>0, <1>1, <1>2, <1>3, <2>1, SMT
    <2>. QED  BY <1>0, <1>3, <2>1, <2>2 DEF RunKept, p, w
  <1>6. CASE Wrap
    <2>1. /\ cur_cycle_idx # num_cycles /\ pmem_head >= pmem_end /\ program_done' = program_done
          /\ pmem_head' = 0
          /\ cur_task_ofst' = (cur_task_ofst + sz_per_task) % OfstLimit
          /\ cur_cycle_idx' = (cur_cycle_idx + 1) % CycleLimit
      BY <1>6 DEF Wrap
    <2>2. cur_cycle_idx + 1 <= num_cycles /\ pmem_head = pmem_end /\ ~program_done
      <3>1. /\ cur_cycle_idx # num_cycles /\ pmem_head >= pmem_end
            /\ cur_cycle_idx <= num_cycles /\ pmem_head <= pmem_end
        BY <1>3, <2>1
      <3>2. ~program_done
        BY <1>3, <3>1, Zenon
      <3>. QED  BY <1>1, <3>1, <3>2, SMT
    <2>3. cur_cycle_idx' = cur_cycle_idx + 1
      <3>1. /\ cur_cycle_idx + 1 \in Nat /\ cur_cycle_idx + 1 < CycleLimit
            /\ CycleLimit > 0
        BY <1>1, <2>2, SMT
      <3>. QED  BY <1>1, <2>1, <3>1, ModInside
    <2>4. cur_task_ofst' = ((cur_cycle_idx + 1) * job.sz) % OfstLimit
      <3>1. cur_cycle_idx * job.sz \in Nat
            /\ (cur_cycle_idx + 1) * job.sz = cur_cycle_idx * job.sz + job.sz
        BY <1>1, SMT
      <3>. DEFINE x == cur_cycle_idx * job.sz
      <3>2. x \in Nat /\ (cur_cycle_idx + 1) * job.sz = x + job.sz
        BY <3>1
      <3>3. cur_task_ofst' = ((x % OfstLimit) + job.sz) % OfstLimit
        BY <1>1, <1>3, <2>1, Zenon
      <3>. HIDE DEF x
      <3>4. ((x % OfstLimit) + job.sz) % OfstLimit = (x + job.sz) % OfstLimit
        BY <1>1, <3>2, ModOfSum
      <3>. QED  BY <3>2, <3>3, <3>4, Zenon
    <2>5. taken' = (cur_cycle_idx + 1) * w + pmem_head'
      BY <1>0, <1>1, <1>2, <1>3, <2>1, <2>2, SMT
    <2>6. pmem_head' <= pmem_end
      BY <1>1, <2>1, SMT
    <2>. QED  BY <1>0, <1>3, <2>1, <2>2, <2>3, <2>4, <2>5, <2>6 DEF RunKept, w
  <1>. QED  BY <1>0, <1>4, <1>5, <1>6

LEMMA ClkInv ==
    ASSUME QueueHostInv, NEW r \in BOOLEAN, HostClk(r)
    PROVE  QueueHostInv'
  <1>0. QueueType /\ HostType /\ Phases
    BY DEF QueueHostInv
  <1>1. QueueType' /\ HostType'
    BY <1>0, ClkType
  <1>2. /\ UNCHANGED <<host_pc, job, pushed, pmem_end, pmem_running, num_cycles, sz_per_task>>
        /\ program_addr' = pmem_head
        /\ IF pmem_running THEN Finish \/ Advance(r) \/ Wrap ELSE Stopped
    BY DEF HostClk, QueueClk, ReadProgram, portVars
  <1>3. edges' < Edges => edges < Edges \/ edges = Edges
    BY <1>0, EdgesAssumption, SMT DEF HostType
  <1>4. pmem_running /\ program_done => program_done'
    BY <1>2, Zenon DEF Finish, Advance, Wrap
  <1>5. ~pmem_running => Cleared'
    BY <1>2 DEF Stopped, Cleared
  <1>6. CASE host_pc \in {"task_sz", "task_cycles", "reset"}
    BY <1>0, <1>1, <1>2, <1>4, <1>6 DEF Phases, QueueHostInv
  <1>7. CASE host_pc = "sz"
    <2>1. pmem_head' = 0
      BY <1>0, <1>5, <1>7 DEF Phases, Cleared
    <2>. QED  BY <1>0, <1>1, <1>2, <1>7, <2>1 DEF Phases, QueueHostInv
  <1>8. CASE host_pc \in {"cycles", "push", "start"}
    <2>1. ~pmem_running /\ pmem_head = 0
      BY <1>0, <1>8 DEF Phases, Idle
    <2>2. Cleared' /\ Idle'
      BY <1>2, <1>5, <2>1 DEF Cleared, Idle
    <2>. QED  BY <1>0, <1>1, <1>2, <1>8, <2>1, <2>2 DEF QueueHostInv, Phases, Configured,
                 Loaded, Cleared, Idle
  <1>9. CASE host_pc = "stop"
    <2>0. Idle /\ Configured /\ Loaded /\ (pmem_running => program_done /\ cur_cycle_idx = num_cycles)
      BY <1>0, <1>9 DEF Phases
    <2>1. Idle' /\ (pmem_running' => program_done' /\ cur_cycle_idx' = num_cycles')
      <3>1. CASE pmem_running
        BY <1>2, <2>0, <3>1 DEF Finish, Advance, Wrap, Idle
      <3>2. CASE ~pmem_running
        BY <1>2, <2>0, <3>2 DEF Stopped, Idle
      <3>. QED  BY <3>1, <3>2
    <2>. QED  BY <1>1, <1>2, <1>9, <2>0, <2>1 DEF QueueHostInv, Phases, Configured, Loaded
  <1>10. CASE host_pc \in {"poll", "read"}
    <2>1. Configured /\ Loaded /\ pmem_running /\ RunKept
      BY <1>0, <1>10 DEF Phases
    <2>2. RunKept'
      BY <1>0, <2>1, ClkRun
    <2>3. host_pc = "read" => program_done'
      BY <1>0, <1>4, <2>1 DEF Phases
    <2>. QED  BY <1>1, <1>2, <1>10, <2>1, <2>2, <2>3 DEF QueueHostInv, Phases, Configured, Loaded
  <1>. QED  BY <1>0, <1>1, <1>6, <1>7, <1>8, <1>9, <1>10 DEF QueueHostInv, HostType, HostPc

LEMMA QueueHostStepInv == QueueHostInv /\ [QueueHostNext]_queueHostVars => QueueHostInv'
  <1>. SUFFICES ASSUME QueueHostInv, [QueueHostNext]_queueHostVars PROVE QueueHostInv'
    OBVIOUS
  <1>1. CASE HostStep
    BY <1>1, HostStepInv
  <1>2. CASE \E r \in BOOLEAN : HostClk(r)
    BY <1>2, ClkInv
  <1>3. CASE UNCHANGED queueHostVars
    BY <1>3 DEF queueHostVars, queueVars, hostVars, portVars, supplyVars, QueueHostInv, QueueType,
                HostType, Phases, Idle, Configured, Loaded, Cleared, RunKept, Words
  <1>. QED  BY <1>1, <1>2, <1>3 DEF QueueHostNext

LEMMA AlwaysQueueHostInv == QueueHostSpec => []QueueHostInv
  BY QueueHostInitInv, QueueHostStepInv, PTL DEF QueueHostSpec
-----------------------------------------------------------------------------
(* Every register of the queue and every variable of the firmware keeps    *)
(* its range (GPPCU_TEST_QUEUE.v:72-95).                                   *)
THEOREM QueueHostTypeCorrect == QueueHostSpec => []QueueHostType
  <1>1. QueueHostInv => QueueHostType
    BY DEF QueueHostInv, QueueHostType
  <1>. QED  BY <1>1, AlwaysQueueHostInv, PTL

(* A run that is seen done has supplied its program once per task cycle,   *)
(* and at most one word more (GPPCU_TEST_QUEUE.v:157-170,199).             *)
THEOREM RunsAreComplete == QueueHostSpec => []RunComplete
  <1>1. QueueHostInv => RunComplete
    <2>. SUFFICES ASSUME QueueHostInv, host_pc = "read"
                  PROVE  taken \in {Len(job.program) * job.cycles,
                                   Len(job.program) * job.cycles + 1}
      BY DEF RunComplete
    <2>1. RunKept /\ program_done /\ HostType
      BY DEF QueueHostInv, Phases
    <2>2. Words \in Nat /\ job.cycles \in Nat
      BY <2>1, Jobs
    <2>3. job.cycles * Words = Words * job.cycles
      BY <2>2, SMT
    <2>. QED  BY <2>1, <2>3 DEF RunKept, Words
  <1>. QED  BY <1>1, AlwaysQueueHostInv, PTL

(* While a job runs the offset is that of the task cycle                   *)
(* (GPPCU_TEST_QUEUE.v:166-177,198).                                       *)
THEOREM OffsetsFollowCycles == QueueHostSpec => []OffsetFollowsCycle
  <1>1. QueueHostInv => OffsetFollowsCycle
    BY DEF QueueHostInv, Phases, RunKept, OffsetFollowsCycle, Running
  <1>. QED  BY <1>1, AlwaysQueueHostInv, PTL

(* The word offered as valid is at most one word away from the head        *)
(* (GPPCU_TEST_QUEUE.v:106-121,163).                                       *)
THEOREM BusIsAWordAway == QueueHostSpec => []BusSkew
  <1>1. QueueHostInv => BusSkew
    <2>. SUFFICES ASSUME QueueHostInv, pmem_running, ~program_done
                  PROVE  \/ program_addr = pmem_head \/ program_addr + 1 = pmem_head
                         \/ pmem_head = 0 /\ program_addr = pmem_end
      BY DEF BusSkew, instr_valid
    <2>1. host_pc \in {"poll", "read"}
      BY DEF QueueHostInv, HostType, HostPc, Phases
    <2>. QED  BY <2>1 DEF QueueHostInv, Phases, RunKept
  <1>. QED  BY <1>1, AlwaysQueueHostInv, PTL
-----------------------------------------------------------------------------
(* The words in the queue and the core.  For every paced program the queue *)
(* loses and repeats words at every stall, and none of it reaches the      *)
(* program.  The invariant says, for the words in fetch, decode and exec,  *)
(* how far the head of the queue has gone on since they were read.         *)


AllPaced == \A j \in Job : Paced(j.program)

\* The word at address a of the program, and what it is.
W(a)  == WordAt(job.program, a)
Ef(a) == Effective(W(a))
Fp(a) == FpOp(W(a))
Sd(a) == SelfDependent(W(a))

Effectives == {a \in 0..Words-1 : Ef(a)}

Feeding == host_pc \in {"poll", "read"} /\ ~program_done

-----------------------------------------------------------------------------
(* The invariant.                                                          *)

\* The memory holds the program, as far as it has been pushed, and zeros behind.
MemoryKept ==
    /\ \A a \in 0..QDepth-1 : a >= Words => pmem[a] = Blank
    /\ host_pc = "push" => \A a \in 0..pushed-1 : pmem[a] = W(a)
    /\ host_pc \in {"stop", "start", "poll", "read"} => \A a \in 0..Words-1 : pmem[a] = W(a)

\* The word on the bus is the one at its address.
BusKept ==
    /\ host_pc \in {"start", "poll", "read"} => program = pmem[program_addr]
    /\ host_pc \in {"push", "stop"} /\ edges < Edges => program = pmem[program_addr]

fetch_rq == IF cw_valid_fetch THEN Sources(instr_fetch) ELSE {}
fetch_fp  == cw_valid_fetch /\ FpOp(instr_fetch)
decode_fp == cw_valid_decode /\ FpOp(instr_decode)
exec_fp   == cw_valid_exec /\ FpOp(instr_exec)

\* No instruction reads what one of the two before it writes, or an operation before it
\* and itself; and every mark has a writer.
OperandsKept ==
    /\ fetch_rq \cap decode_regd = {} /\ fetch_rq \cap exec_regd = {}
    /\ decode_rq \cap exec_regd = {} /\ decode_rq \cap writeback_regd = {}
    /\ NoSelfBehindFp
    /\ occupied \subseteq exec_regd \cup writeback_regd \cup (IF exec_fp THEN decode_regd ELSE {})

\* An operation in exec holds the pipeline until the bus has come up to the head.
MachinesKept ==
    exec_fp => /\ program_addr # pmem_head => \A t \in Thread : fp_stage[t] \in {"IDLE", "RUN"}
               /\ pmem_head = Words => \A t \in Thread : fp_stage[t] = "IDLE"

\* A stage holds the word at address a, or nothing of effect.
Carries(valid, i, a) == valid /\ Effective(i) => i = W(a)
Holds(valid, i, a)   == Carries(valid, i, a) /\ (Ef(a) => valid /\ i = W(a))

\* The last word was taken when it was the one before the head ...
Follows ==
    /\ Holds(cw_valid_fetch, instr_fetch, pmem_head - 2)
    /\ last # pmem_head - 1
    /\ exec_fp => ~Fp(pmem_head - 5)
\* ... or when it was the one at the head, after a stall, and it will come again.
Repeats ==
    /\ Carries(cw_valid_fetch, instr_fetch, pmem_head - 1)
    /\ ~fetch_fp /\ ~Fp(pmem_head - 1)
    /\ Ef(pmem_head - 1) => last = pmem_head - 1
    /\ exec_fp \/ ~Sd(pmem_head - 1)

Distances ==
    /\ fetch_fp => /\ instr_fetch = W(pmem_head - 2)
                   /\ Fp(pmem_head - 3) => decode_fp
    /\ decode_fp => /\ instr_decode = W(pmem_head - 3)
                    /\ Fp(pmem_head - 4) => exec_fp
                    /\ Fp(pmem_head - 2) => fetch_fp
    /\ exec_fp => /\ instr_exec = W(pmem_head - 4)
                  /\ Fp(pmem_head - 3) => decode_fp
    /\ \/ Carries(cw_valid_decode, instr_decode, pmem_head - 2)
       \/ Carries(cw_valid_decode, instr_decode, pmem_head - 3)
    /\ program_addr = pmem_head => exec_fp
    /\ Follows \/ Repeats

StagesKept ==
    /\ ~Feeding \/ pmem_head = 0 => ~fetch_fp
    /\ Feeding /\ pmem_head = 1 =>
          ~decode_fp /\ (cw_valid_fetch => ~Effective(instr_fetch))
    /\ Feeding /\ pmem_head >= 2 => Distances

\* What has been taken: in this round up to last, or nothing yet in this round.
ThisRound ==
    /\ last \in Effectives /\ last < pmem_head /\ last <= program_addr
    /\ \A a \in Effectives : a <= last \/ a >= program_addr
    /\ steps = cur_cycle_idx * Cardinality(Effectives)
                 + Cardinality({a \in Effectives : a <= last})
RoundBegins ==
    /\ pmem_head # 0 => \A a \in Effectives : a >= program_addr
    /\ last = QDepth \/ (last \in Effectives /\ \A a \in Effectives : a <= last)
    /\ steps = cur_cycle_idx * Cardinality(Effectives)

CountKept == host_pc \in {"poll", "read"} => ThisRound \/ RoundBegins

DeviceInv ==
    /\ QueueHostInv /\ TypeOK /\ FpOwned
    /\ MemoryKept /\ BusKept
    /\ OperandsKept /\ StagesKept /\ CountKept
    /\ Feeding => MachinesKept

-----------------------------------------------------------------------------
(* What a paced program offers.                                            *)

\* A word of no effect takes part in nothing.
LEMMA Quiet ==
    ASSUME NEW w, ~Effective(w)
    PROVE  /\ ~FpOp(w) /\ ~RegWr(w) /\ ~SelfDependent(w) /\ Sources(w) = {}
           /\ \A v : Writes(v, w) = {}
BY DEF Effective, FpOp, RegWr, SelfDependent, Sources, Writes, CW_FPOP, CW_REGWR, CW_USEREGA,
       CW_USEREGB, Opcode

\* Every word of the program is an instruction.
LEMMA WordIsInstr ==
    ASSUME HostType, NEW a \in Int
    PROVE  W(a) \in Word /\ W(a) \in Instr
<1>1. job.program \in Seq(Word) /\ Words \in Nat
  BY Jobs
<1>2. W(a) \in Word
  BY <1>1, QueueAssumption DEF W, WordAt, Words
<1> QED  BY <1>2, DeviceAssumption

LEMMA Outside ==
    ASSUME HostType, NEW a \in Int, a < 0 \/ a >= Words
    PROVE  W(a) = Blank /\ ~Ef(a)
<1>1. Words \in Nat
  BY Jobs
<1> QED  BY <1>1, DeviceAssumption DEF W, WordAt, Ef, Words

LEMMA FpIsEffective == ASSUME NEW a, Fp(a) PROVE Ef(a)
BY Quiet DEF Fp, Ef

\* The bounds of the program.
LEMMA PacedEnds ==
    ASSUME AllPaced, HostType
    PROVE  /\ Words \in Nat /\ Words >= 4
           /\ ~Ef(0) /\ ~Ef(1) /\ ~Ef(Words - 1)
           /\ \A a \in Int : Ef(a) => a \in 2..Words-2
           /\ \E a, b \in Effectives : a # b
<1>1. Words \in Nat /\ Words = Len(job.program) /\ Paced(job.program)
  BY Jobs DEF AllPaced, HostType, Words
<1>2. ~Ef(0) /\ ~Ef(1) /\ ~Ef(Words - 1)
  BY <1>1 DEF Paced, Ef, W
<1>3. \E a, b \in 0..Words-1 : a # b /\ Ef(a) /\ Ef(b)
  BY <1>1 DEF Paced, Ef, W
<1>4. \A a \in Int : Ef(a) => a \in 2..Words-2
  <2> SUFFICES ASSUME NEW a \in Int, Ef(a) PROVE a \in 2..Words-2
    OBVIOUS
  <2>1. a >= 0 /\ a < Words
    BY Outside, <1>1
  <2>2. a # 0 /\ a # 1 /\ a # Words - 1
    BY <1>2
  <2> QED  BY <1>1, <2>1, <2>2
<1>5. Words >= 4
  <2>1. PICK a \in 0..Words-1 : Ef(a)
    BY <1>3
  <2> QED  BY <1>1, <1>4, <2>1
<1> QED  BY <1>1, <1>2, <1>3, <1>4, <1>5 DEF Effectives

\* The conditions on the words, at every address, also beyond the program.
LEMMA PacedWords ==
    ASSUME AllPaced, HostType
    PROVE  \A a \in Int :
              /\ Free(W(a), W(a - 1)) /\ Free(W(a), W(a - 2))
              /\ Fp(a) => /\ ~Fp(a - 1) => ~Ef(a + 3)
                          /\ ~Fp(a + 1) => ~Sd(a + 4)
                          /\ ~Fp(a + 4) /\ Free(W(a + 4), W(a + 1))
                          /\ ~Sd(a + 1)
                          /\ Fp(a + 2) => ~Sd(a + 4)
                          /\ a + 2 < Words
<1> SUFFICES ASSUME NEW a \in Int
             PROVE  /\ Free(W(a), W(a - 1)) /\ Free(W(a), W(a - 2))
                    /\ Fp(a) => /\ ~Fp(a - 1) => ~Ef(a + 3)
                                /\ ~Fp(a + 1) => ~Sd(a + 4)
                                /\ ~Fp(a + 4) /\ Free(W(a + 4), W(a + 1))
                                /\ ~Sd(a + 1)
                                /\ Fp(a + 2) => ~Sd(a + 4)
                                /\ a + 2 < Words
  OBVIOUS
<1>1. Words \in Nat /\ Words = Len(job.program) /\ Paced(job.program)
  BY Jobs DEF AllPaced, HostType, Words
<1>2. CASE a \in 0..Words-1
  BY <1>1, <1>2 DEF Paced, Ef, Fp, Sd, W
<1>3. CASE a \notin 0..Words-1
  <2>1. ~Effective(W(a))
    BY <1>1, <1>3, Outside DEF Ef
  <2>2. Sources(W(a)) = {} /\ ~Fp(a)
    BY <2>1, Quiet DEF Fp
  <2> QED  BY <2>2 DEF Free
<1> QED  BY <1>2, <1>3

-----------------------------------------------------------------------------
(* What a step of the device is to the core and to the queue.              *)

LEMMA ClkIsClock ==
    ASSUME DeviceInv, DeviceClk
    PROVE  /\ Clock(program, instr_valid) /\ HostClk(can_fetch)
           /\ program \in Instr /\ instr_valid \in BOOLEAN /\ can_fetch \in BOOLEAN
<1>1. program \in Instr
  BY DeviceAssumption DEF DeviceInv, QueueHostInv, QueueType
<1> QED  BY <1>1 DEF DeviceClk, instr_valid, can_fetch, data_stall_decode

\* The bubbles of the layout keep the scoreboard out of play.
LEMMA NeverHeld == ASSUME DeviceInv PROVE can_use_reg
<1>1. TypeOK /\ OperandsKept
  BY DEF DeviceInv
<1>2. decode_rq \cap exec_regd = {} /\ decode_rq \cap writeback_regd = {}
  BY <1>1 DEF OperandsKept
<1>3. exec_fp => decode_regd \cap decode_rq = {}
  BY <1>1, NotSelf DEF OperandsKept, NoSelfBehindFp, exec_fp
<1>4. occupied \subseteq exec_regd \cup writeback_regd \cup (IF exec_fp THEN decode_regd ELSE {})
  BY <1>1 DEF OperandsKept
<1> QED  BY <1>2, <1>3, <1>4 DEF can_use_reg, oENABLED

LEMMA FetchUnlessDelayed == ASSUME DeviceInv PROVE can_fetch <=> ~on_calculation_delay
BY NeverHeld DEF can_fetch, data_stall_decode

LEMMA DelayIsFp == ASSUME on_calculation_delay PROVE exec_fp
BY DEF on_calculation_delay, fp_busy, exec_fp, FpOp

\* The registers of a run, and the word on the bus.
LEMMA InRun ==
    ASSUME DeviceInv, Feeding
    PROVE  /\ pmem_running /\ pmem_end = Words /\ Words \in Nat
           /\ pmem_head \in Nat /\ pmem_head <= Words /\ program_addr \in Nat
           /\ \/ program_addr = pmem_head \/ program_addr + 1 = pmem_head
              \/ pmem_head = 0 /\ program_addr = Words
           /\ program = W(program_addr)
           /\ cur_cycle_idx = num_cycles => pmem_head = 0
           /\ instr_valid <=> pmem_head # Words
<1>1. QueueType /\ HostType /\ Configured /\ Loaded /\ pmem_running /\ RunKept
  BY DEF DeviceInv, QueueHostInv, Phases, Feeding
<1>2. Words \in Nat /\ pmem_end = Words
  BY <1>1, Jobs DEF Loaded, Words
<1>3. /\ pmem_head \in Nat /\ pmem_head <= Words /\ program_addr \in Nat
      /\ \/ program_addr = pmem_head \/ program_addr + 1 = pmem_head
         \/ pmem_head = 0 /\ program_addr = Words
      /\ cur_cycle_idx = num_cycles => pmem_head = 0
  BY <1>1, <1>2 DEF RunKept, Feeding, QueueType
<1>4. program = W(program_addr)
  <2>1. program = pmem[program_addr] /\ program_addr \in 0..QDepth-1
    BY <1>1 DEF DeviceInv, BusKept, Feeding, QueueType
  <2>2. /\ \A a \in 0..QDepth-1 : a >= Words => pmem[a] = Blank
        /\ \A a \in 0..Words-1 : pmem[a] = W(a)
    BY DEF DeviceInv, MemoryKept, Feeding
  <2>3. CASE program_addr < Words
    BY <1>2, <1>3, <2>1, <2>2, <2>3
  <2>4. CASE program_addr >= Words
    BY <1>1, <1>2, <1>3, <2>1, <2>2, <2>4, Outside
  <2> QED  BY <1>2, <1>3, <2>3, <2>4
<1> QED  BY <1>1, <1>2, <1>3, <1>4 DEF instr_valid, Feeding

LEMMA ValidIsFeeding == ASSUME DeviceInv, instr_valid PROVE Feeding
BY DEF DeviceInv, QueueHostInv, HostType, HostPc, Phases, instr_valid, Feeding

\* Whatever is taken while the head is at the first two words is of no effect.
LEMMA EarlyWords ==
    ASSUME AllPaced, DeviceInv, Feeding, pmem_head <= 1
    PROVE  ~Effective(program)
<1>1. HostType
  BY DEF DeviceInv, QueueHostInv
<1>2. ~Ef(0) /\ ~Ef(1) /\ ~Ef(Words)
  BY <1>1, PacedEnds
<1>3. program_addr \in {0, 1, Words}
  BY InRun
<1> QED  BY <1>2, <1>3, InRun DEF Ef

\* The word that is taken next.
LEMMA NextWord ==
    ASSUME DeviceInv, Feeding, pmem_head >= 2, can_fetch
    PROVE  /\ exec_fp => program_addr = pmem_head
           /\ ~exec_fp => program_addr = pmem_head - 1
<1>1. Distances /\ MachinesKept /\ TypeOK
  BY DEF DeviceInv, StagesKept
<1>2. program_addr = pmem_head \/ program_addr = pmem_head - 1
  BY InRun
<1>3. ASSUME exec_fp PROVE program_addr = pmem_head
  <2> SUFFICES ASSUME program_addr # pmem_head PROVE FALSE
    OBVIOUS
  <2>1. PICK t \in Thread : fp_stage[t] \in {"IDLE", "RUN"}
    BY <1>1, <1>3, ThreadAssumption DEF MachinesKept
  <2>2. on_calculation_delay
    BY <1>3, <2>1 DEF on_calculation_delay, fp_busy, exec_fp, FpOp
  <2> QED  BY <2>2, FetchUnlessDelayed
<1> QED  BY <1>1, <1>2, <1>3 DEF Distances

\* What is taken reads nothing that fetch or decode will write, and is not behind an
\* operation if it reads what it writes itself.
TakesApart ==
    /\ Sources(program) \cap fetch_regd = {} /\ Sources(program) \cap decode_regd = {}
    /\ SelfDependent(program) => ~fetch_fp

LEMMA CarriedWrites ==
    ASSUME NEW v \in BOOLEAN, NEW i, NEW a, Carries(v, i, a), NEW w, Free(w, W(a))
    PROVE  Sources(w) \cap Writes(v, i) = {}
<1>1. CASE v /\ Effective(i)
  BY <1>1 DEF Carries, Free, Writes
<1>2. CASE ~v
  BY <1>2 DEF Writes
<1>3. CASE ~Effective(i)
  BY <1>3, Quiet
<1> QED  BY <1>1, <1>2, <1>3

LEMMA NextWordApart ==
    ASSUME AllPaced, DeviceInv, instr_valid, can_fetch
    PROVE  TakesApart
<1>1. /\ Feeding /\ HostType /\ StagesKept
      /\ cw_valid_fetch \in BOOLEAN /\ cw_valid_decode \in BOOLEAN
  BY ValidIsFeeding DEF DeviceInv, QueueHostInv, TypeOK, PipeType
<1>2. CASE pmem_head <= 1
  <2>1. Sources(program) = {} /\ ~SelfDependent(program)
    BY <1>1, <1>2, EarlyWords, Quiet
  <2> QED  BY <2>1 DEF TakesApart
<1>3. CASE pmem_head >= 2
  <2>1. pmem_head \in Nat /\ program = W(program_addr)
    BY <1>1, InRun
  <2>2. Distances
    BY <1>1, <1>3 DEF StagesKept
  <2>. DEFINE h == pmem_head
  <2>3. CASE exec_fp
    <3>1. program = W(h) /\ Fp(h - 4) /\ h - 4 \in Int /\ h - 2 \in Int
      BY <1>1, <1>3, <2>1, <2>2, <2>3, NextWord DEF Distances, Fp, exec_fp
    <3>2. /\ Free(W(h), W(h - 1)) /\ Free(W(h), W(h - 2)) /\ Free(W(h), W(h - 3))
          /\ Fp(h - 2) => ~Sd(h)
      <4>1. /\ h - 4 + 4 = h /\ h - 4 + 1 = h - 3 /\ h - 4 + 2 = h - 2 /\ h \in Int
        BY <2>1
      <4> HIDE DEF h
      <4>2. /\ Free(W(h), W(h - 1)) /\ Free(W(h), W(h - 2))
        BY <1>1, <4>1, PacedWords
      <4>3. Free(W(h - 4 + 4), W(h - 4 + 1)) /\ (Fp(h - 4 + 2) => ~Sd(h - 4 + 4))
        BY <1>1, <3>1, PacedWords
      <4> QED  BY <4>1, <4>2, <4>3
    <3>3. /\ Sources(program) \cap decode_regd = {}
      BY <1>1, <2>2, <3>1, <3>2, CarriedWrites DEF Distances, decode_regd
    <3>4. Sources(program) \cap fetch_regd = {}
      BY <1>1, <2>2, <3>1, <3>2, CarriedWrites DEF Distances, Follows, Repeats, Holds, fetch_regd
    <3>5. SelfDependent(program) => ~fetch_fp
      BY <2>2, <3>1, <3>2 DEF Distances, Fp, Sd, fetch_fp
    <3> QED  BY <3>3, <3>4, <3>5 DEF TakesApart
  <2>4. CASE ~exec_fp
    <3>1. program = W(h - 1) /\ h - 1 \in Int /\ h - 2 \in Int
      BY <1>1, <1>3, <2>1, <2>4, NextWord
    <3>2. /\ Free(W(h - 1), W(h - 2)) /\ Free(W(h - 1), W(h - 3))
          /\ Fp(h - 2) => ~Sd(h - 1)
      <4>1. h - 1 - 1 = h - 2 /\ h - 1 - 2 = h - 3 /\ h - 2 + 1 = h - 1
        BY <2>1
      <4>2. /\ Free(W(h - 1), W(h - 1 - 1)) /\ Free(W(h - 1), W(h - 1 - 2))
            /\ Fp(h - 2) => ~Sd(h - 2 + 1)
        BY <1>1, <3>1, PacedWords
      <4> QED  BY <4>1, <4>2
    <3>3. Sources(program) \cap decode_regd = {}
      BY <1>1, <2>2, <3>1, <3>2, CarriedWrites DEF Distances, decode_regd
    <3>4. CASE Follows
      <4>1. Sources(program) \cap fetch_regd = {}
        BY <1>1, <3>1, <3>2, <3>4, CarriedWrites DEF Follows, Holds, fetch_regd
      <4>2. SelfDependent(program) => ~fetch_fp
        BY <2>2, <3>1, <3>2 DEF Distances, Fp, Sd, fetch_fp
      <4> QED  BY <3>3, <4>1, <4>2 DEF TakesApart
    <3>5. CASE Repeats
      <4>1. ~Sd(h - 1) /\ ~fetch_fp /\ Carries(cw_valid_fetch, instr_fetch, h - 1)
        BY <2>4, <3>5 DEF Repeats
      <4>2. Free(W(h - 1), W(h - 1))
        BY <4>1 DEF Sd, SelfDependent, Free, Writes
      <4>3. Sources(program) \cap fetch_regd = {}
        BY <1>1, <3>1, <4>1, <4>2, CarriedWrites DEF fetch_regd
      <4> QED  BY <3>3, <4>1, <4>3 DEF TakesApart
    <3> QED  BY <2>2, <3>4, <3>5 DEF Distances
  <2> QED  BY <2>3, <2>4
<1> QED  BY <1>1, <1>2, <1>3, InRun

-----------------------------------------------------------------------------
(* A clock of the core.                                                    *)

LEMMA OperandsStep ==
    ASSUME DeviceInv, DeviceClk, instr_valid /\ can_fetch => TakesApart
    PROVE  OperandsKept'
<1>1. /\ Clock(program, instr_valid) /\ program \in Instr /\ instr_valid \in BOOLEAN
      /\ TypeOK /\ OperandsKept /\ can_use_reg
  BY ClkIsClock, NeverHeld DEF DeviceInv
<1>2. occupied' = (occupied \cup decode_regd) \ writeback_regd
  BY <1>1, Marks
<1>3. CASE on_calculation_delay
  <2>1. exec_fp
    BY <1>3, DelayIsFp
  <2>2. /\ writeback_regd' = {} /\ exec_regd' = exec_regd
        /\ decode_regd' = decode_regd /\ decode_rq' = decode_rq
        /\ cw_valid_exec' = cw_valid_exec /\ instr_exec' = instr_exec
        /\ cw_valid_decode' = cw_valid_decode /\ instr_decode' = instr_decode
        /\ cw_valid_fetch' = cw_valid_fetch /\ instr_fetch' = instr_fetch
    BY <1>1, <1>3, MoveDelayed
  <2>3. exec_fp' /\ fetch_rq' = fetch_rq
    BY <2>1, <2>2 DEF exec_fp, fetch_rq, FpOp, Sources
  <2>4. NoSelfBehindFp'
    BY <1>1, <2>2 DEF OperandsKept, NoSelfBehindFp, SelfDependent, RegWr, Sources, FpOp
  <2> QED  BY <1>1, <1>2, <2>1, <2>2, <2>3, <2>4 DEF OperandsKept
<1>4. CASE ~on_calculation_delay
  <2>1. can_fetch
    BY <1>4, FetchUnlessDelayed
  <2>2. /\ writeback_regd' = exec_regd /\ exec_regd' = decode_regd
        /\ decode_regd' = fetch_regd /\ fetch_regd' = Writes(instr_valid, program)
        /\ cw_valid_exec' = cw_valid_decode /\ instr_exec' = instr_decode
        /\ cw_valid_decode' = cw_valid_fetch /\ instr_decode' = instr_fetch
        /\ cw_valid_fetch' = instr_valid /\ instr_fetch' = program
    BY <1>1, <2>1, MoveFree
  <2>3. /\ decode_rq' = fetch_rq
        /\ fetch_rq' = IF instr_valid THEN Sources(program) ELSE {}
    BY <2>2 DEF decode_rq, fetch_rq, Sources
  <2>4. /\ fetch_rq' \cap decode_regd' = {} /\ fetch_rq' \cap exec_regd' = {}
        /\ decode_rq' \cap exec_regd' = {} /\ decode_rq' \cap writeback_regd' = {}
    BY <1>1, <2>1, <2>2, <2>3 DEF OperandsKept, TakesApart
  <2>5. NoSelfBehindFp'
    <3>1. instr_valid /\ SelfDependent(program) => ~(cw_valid_fetch /\ FpOp(instr_fetch))
      BY <2>1 DEF TakesApart, fetch_fp
    <3> QED
      BY <1>1, <2>2, <3>1 DEF OperandsKept, NoSelfBehindFp, SelfDependent, RegWr, Sources, FpOp
  <2>6. occupied' \subseteq exec_regd' \cup writeback_regd'
    BY <1>1, <1>2, <2>2 DEF OperandsKept
  <2> QED  BY <2>4, <2>5, <2>6 DEF OperandsKept
<1> QED  BY <1>3, <1>4

-----------------------------------------------------------------------------
(* What a clock does to the queue while it feeds the core.                 *)

Advanced == /\ pmem_head < Words /\ Feeding' /\ cur_cycle_idx' = cur_cycle_idx
            /\ pmem_head' = IF can_fetch THEN pmem_head + 1 ELSE pmem_head
Wrapped  == /\ pmem_head = Words /\ Feeding' /\ cur_cycle_idx' = cur_cycle_idx + 1
            /\ pmem_head' = 0
Finished == pmem_head = 0 /\ pmem_head' = 0 /\ ~Feeding' /\ cur_cycle_idx' = cur_cycle_idx

LEMMA FeedStep ==
    ASSUME DeviceInv, DeviceClk, Feeding
    PROVE  /\ program_addr' = pmem_head /\ job' = job /\ host_pc' = host_pc
           /\ Advanced \/ Wrapped \/ Finished
<1>1. /\ QueueType /\ HostType /\ Configured /\ RunKept
      /\ pmem_running /\ pmem_end = Words /\ pmem_head <= Words
      /\ Words \in Nat /\ pmem_head \in Nat
  BY InRun DEF DeviceInv, QueueHostInv, Phases, Feeding
<1>2. /\ program_addr' = pmem_head /\ job' = job /\ host_pc' = host_pc
      /\ Finish \/ Advance(can_fetch) \/ Wrap
  BY <1>1 DEF DeviceClk, HostClk, QueueClk, ReadProgram
<1>3. CASE Finish
  <2>1. pmem_head = 0
    BY <1>3, InRun DEF Finish
  <2> QED  BY <1>2, <1>3, <2>1 DEF Finish, Finished, Feeding
<1>4. CASE Advance(can_fetch)
  BY <1>1, <1>2, <1>4 DEF Advance, Advanced, Feeding
<1>5. CASE Wrap
  <2>1. cur_cycle_idx \in Nat /\ cur_cycle_idx + 1 < CycleLimit /\ CycleLimit \in Nat /\ CycleLimit > 0
    <3>1. cur_cycle_idx # num_cycles /\ cur_cycle_idx <= num_cycles /\ num_cycles = job.cycles
      BY <1>1, <1>5 DEF Wrap, RunKept, Configured
    <3>2. cur_cycle_idx \in Nat /\ job.cycles \in Nat /\ job.cycles < CycleLimit /\ CycleLimit \in Nat
      BY <1>1, Jobs DEF QueueType
    <3> QED  BY <3>1, <3>2
  <2>2. (cur_cycle_idx + 1) % CycleLimit = cur_cycle_idx + 1
    BY <2>1, ModInside
  <2>3. pmem_head = Words
    BY <1>1, <1>5 DEF Wrap
  <2> QED  BY <1>1, <1>2, <1>5, <2>2, <2>3 DEF Wrap, Wrapped, Feeding
<1> QED  BY <1>2, <1>3, <1>4, <1>5

\* Without a run the core gets nothing valid.
LEMMA NotFeeding ==
    ASSUME DeviceInv, DeviceClk, ~Feeding
    PROVE  ~instr_valid /\ ~Feeding' /\ job' = job /\ host_pc' = host_pc
<1>1. ~instr_valid
  BY ValidIsFeeding
<1>2. job' = job /\ host_pc' = host_pc
  BY DEF DeviceClk, HostClk
<1>3. host_pc \in {"poll", "read"} => pmem_running /\ program_done
  BY DEF DeviceInv, QueueHostInv, Phases, Feeding
<1>4. host_pc \in {"poll", "read"} => program_done'
  BY <1>3 DEF DeviceClk, HostClk, QueueClk, Finish, Advance, Wrap
<1> QED  BY <1>1, <1>2, <1>4 DEF Feeding

-----------------------------------------------------------------------------
(* The floating point machines under a clock.                              *)

\* A clock that is not delayed ends the operation in exec everywhere.
LEMMA AllIdle ==
    ASSUME DeviceInv, DeviceClk, ~on_calculation_delay
    PROVE  \A t \in Thread : fp_stage'[t] = "IDLE"
<1> SUFFICES ASSUME NEW t \in Thread PROVE fp_stage'[t] = "IDLE"
  OBVIOUS
<1>1. fp_stage'[t] = NextStage(t, cw_valid_exec, instr_exec)
  BY ClkIsClock DEF Clock, FpClock
<1>2. fp_stage[t] \in FpStage /\ (fp_stage[t] # "IDLE" => exec_fp)
  BY DEF DeviceInv, TypeOK, FpType, FpOwned, exec_fp
<1>3. exec_fp => fp_stage[t] = "DONE"
  BY DEF on_calculation_delay, fp_busy, exec_fp, FpOp
<1> QED  BY <1>1, <1>2, <1>3 DEF NextStage, FpStage, exec_fp, FpOp

LEMMA MachinesStep ==
    ASSUME AllPaced, DeviceInv, DeviceClk, Feeding, Feeding'
    PROVE  MachinesKept'
<1>1. /\ TypeOK /\ MachinesKept /\ HostType
      /\ pmem_head \in Nat /\ Words \in Nat /\ Words >= 4
      /\ Words' = Words /\ program_addr' = pmem_head
  <2>1. Words' = Words /\ program_addr' = pmem_head
    BY FeedStep DEF Words
  <2> QED  BY <2>1, InRun, PacedEnds DEF DeviceInv, QueueHostInv
<1>2. CASE ~on_calculation_delay
  BY <1>2, AllIdle DEF MachinesKept
<1>3. CASE on_calculation_delay
  <2>1. exec_fp /\ ~can_fetch
    BY <1>3, DelayIsFp, FetchUnlessDelayed
  <2>2. CASE Advanced
    <3>1. program_addr' = pmem_head' /\ pmem_head' # Words'
      BY <1>1, <2>1, <2>2 DEF Advanced
    <3> QED  BY <3>1 DEF MachinesKept
  <2>3. CASE Wrapped
    <3>1. \A t \in Thread : fp_stage[t] = "IDLE"
      BY <1>1, <2>1, <2>3 DEF Wrapped, MachinesKept
    <3>2. \A t \in Thread : fp_stage'[t] = NextStage(t, cw_valid_exec, instr_exec)
      BY ClkIsClock DEF Clock, FpClock
    <3>3. \A t \in Thread : fp_stage'[t] = "RUN"
      BY <2>1, <3>1, <3>2 DEF NextStage, exec_fp, FpOp
    <3>4. pmem_head' # Words'
      BY <1>1, <2>3 DEF Wrapped
    <3> QED  BY <3>3, <3>4 DEF MachinesKept
  <2> QED  BY <2>2, <2>3, FeedStep DEF Finished
<1> QED  BY <1>2, <1>3

-----------------------------------------------------------------------------
(* The stages under a clock of a run.                                      *)

\* A clock that is delayed: nothing moves but the bus.
LEMMA DelayedStages ==
    ASSUME AllPaced, DeviceInv, DeviceClk, Feeding, on_calculation_delay, Feeding'
    PROVE  StagesKept'
<1>1. /\ cw_valid_exec' = cw_valid_exec /\ instr_exec' = instr_exec
      /\ cw_valid_decode' = cw_valid_decode /\ instr_decode' = instr_decode
      /\ cw_valid_fetch' = cw_valid_fetch /\ instr_fetch' = instr_fetch
  BY ClkIsClock, MoveDelayed DEF DeviceInv
<1>2. /\ exec_fp /\ ~can_fetch /\ StagesKept /\ pmem_head \in Nat /\ Words \in Nat
      /\ job' = job /\ last' = last /\ program_addr' = pmem_head
  <2>1. ~can_fetch
    BY FetchUnlessDelayed
  <2>2. last' = last
    BY <2>1 DEF DeviceClk, Takes
  <2> QED  BY <2>1, <2>2, DelayIsFp, InRun, FeedStep DEF DeviceInv
<1>3. /\ fetch_fp' = fetch_fp /\ decode_fp' = decode_fp /\ exec_fp' = exec_fp
  BY <1>1 DEF fetch_fp, decode_fp, exec_fp, FpOp
<1>4. CASE Advanced
  <2>1. pmem_head' = pmem_head
    BY <1>2, <1>4 DEF Advanced
  <2>2. Feeding /\ pmem_head >= 2 => Distances'
    BY <1>1, <1>2, <1>3, <2>1 DEF StagesKept, Distances, Follows, Repeats, Holds, Carries,
       W, Ef, Fp, Sd
  <2> QED  BY <1>1, <1>2, <1>3, <2>1, <2>2 DEF StagesKept, Effective
<1>5. CASE Wrapped
  <2>1. ~fetch_fp
    <3>1. HostType /\ Words >= 2 /\ pmem_head = Words
      BY <1>2, <1>5, PacedEnds DEF DeviceInv, QueueHostInv, Wrapped
    <3>2. fetch_fp => Fp(Words - 2)
      BY <1>2, <3>1 DEF StagesKept, Distances, Fp, fetch_fp
    <3>3. Words - 2 + 2 = Words /\ ~(Words < Words) /\ Words - 2 \in Int
      BY <1>2
    <3> QED  BY <3>1, <3>2, <3>3, PacedWords
  <2>2. pmem_head' = 0
    BY <1>5 DEF Wrapped
  <2> QED  BY <1>3, <2>1, <2>2 DEF StagesKept
<1> QED  BY <1>4, <1>5, FeedStep DEF Finished

\* The word at the head has not been taken when the one before it is on the bus.
LEMMA LastBehind ==
    ASSUME AllPaced, DeviceInv, DeviceClk, Feeding, can_fetch,
           program_addr + 1 = pmem_head, pmem_head < Words
    PROVE  last' # pmem_head
<1>1. /\ HostType /\ (ThisRound \/ RoundBegins)
      /\ pmem_head \in Nat /\ Words \in Nat /\ program_addr \in Nat
      /\ QDepth \in Nat /\ QDepth > Words /\ instr_valid /\ program = W(program_addr)
  BY InRun, Jobs DEF DeviceInv, QueueHostInv, CountKept, Feeding
<1>2. last' = IF Takes /\ program_addr # last THEN program_addr ELSE last
  BY DEF DeviceClk
<1> SUFFICES ASSUME last' = pmem_head PROVE FALSE
  OBVIOUS
<1>3. last = pmem_head /\ ~(Takes /\ program_addr # last) /\ program_addr # last
  <2>1. program_addr # pmem_head
    BY <1>1
  <2> QED  BY <1>2, <2>1
<1>4. ~Ef(program_addr)
  BY <1>1, <1>3 DEF Takes, Ef
<1>5. CASE ThisRound
  BY <1>1, <1>3, <1>5 DEF ThisRound
<1>6. CASE RoundBegins
  <2>1. /\ \A a \in Effectives : a <= last /\ a >= program_addr
    BY <1>1, <1>3, <1>6 DEF RoundBegins
  <2>2. PICK a \in Effectives, b \in Effectives : a # b
    BY <1>1, PacedEnds
  <2>3. a \in Nat /\ b \in Nat /\ a # program_addr /\ b # program_addr
    BY <1>4, <2>2 DEF Effectives
  <2> QED  BY <1>1, <1>3, <2>1, <2>2, <2>3
<1> QED  BY <1>1, <1>5, <1>6

\* The word at the head is taken, behind the bubble that an operation leaves: the word
\* before it is lost, and it comes again.
LEMMA TakesHead ==
    ASSUME AllPaced, DeviceInv, DeviceClk, Feeding, can_fetch, exec_fp,
           pmem_head >= 2, Advanced
    PROVE  Distances' /\ pmem_head' = pmem_head + 1
<1>. DEFINE h == pmem_head
<1>1. /\ HostType /\ TypeOK /\ Distances /\ h \in Nat /\ h < Words /\ pmem_head' = h + 1
      /\ program_addr' = h /\ job' = job /\ instr_valid /\ program_addr = h /\ program = W(h)
  BY InRun, FeedStep, NextWord DEF DeviceInv, QueueHostInv, StagesKept, Advanced
<1>2. /\ cw_valid_exec' = cw_valid_decode /\ instr_exec' = instr_decode
      /\ cw_valid_decode' = cw_valid_fetch /\ instr_decode' = instr_fetch
      /\ cw_valid_fetch' = TRUE /\ instr_fetch' = W(h)
  BY <1>1, ClkIsClock, MoveFree
<1>3. /\ exec_fp' = decode_fp /\ decode_fp' = fetch_fp /\ fetch_fp' = Fp(h)
  BY <1>2 DEF exec_fp, decode_fp, fetch_fp, FpOp, Fp
<1>4. /\ ~Fp(h) /\ (~Fp(h - 3) => ~Sd(h)) /\ (~Fp(h - 5) => ~Ef(h - 1))
  <2>1. Fp(h - 4)
    BY <1>1 DEF Distances, exec_fp, Fp
  <2>2. h - 4 \in Int /\ h - 4 - 1 = h - 5 /\ h - 4 + 1 = h - 3 /\ h - 4 + 3 = h - 1 /\ h - 4 + 4 = h
    BY <1>1
  <2>. HIDE DEF h
  <2>3. /\ ~Fp(h - 4 - 1) => ~Ef(h - 4 + 3)
        /\ ~Fp(h - 4 + 1) => ~Sd(h - 4 + 4)
        /\ ~Fp(h - 4 + 4)
    BY <1>1, <2>1, <2>2, PacedWords
  <2> QED  BY <2>2, <2>3
<1>5. fetch_fp => ~Fp(h - 1)
  BY <1>1, <1>4, FpIsEffective DEF Distances, Follows, Repeats
<1>6. Ef(h) => last' = h
  BY <1>1 DEF DeviceClk, Takes, Ef
<1>7. /\ h + 1 - 1 = h /\ h + 1 - 2 = h - 1 /\ h + 1 - 3 = h - 2 /\ h + 1 - 4 = h - 3 /\ h # h + 1
  BY <1>1
<1>8. (decode_fp => /\ instr_decode = W(pmem_head - 3)
                    /\ Fp(pmem_head - 4) => exec_fp
                    /\ Fp(pmem_head - 2) => fetch_fp)'
  BY <1>1, <1>2, <1>3, <1>5, <1>7 DEF Distances, Follows, Repeats, W, Fp
<1>9. (exec_fp => /\ instr_exec = W(pmem_head - 4)
                  /\ Fp(pmem_head - 3) => decode_fp)'
  BY <1>1, <1>2, <1>3, <1>7 DEF Distances, W, Fp
<1>10. (\/ Carries(cw_valid_decode, instr_decode, pmem_head - 2)
        \/ Carries(cw_valid_decode, instr_decode, pmem_head - 3))'
  BY <1>1, <1>2, <1>7 DEF Distances, Follows, Repeats, Carries, Holds, W
<1>11. Repeats'
  <2>1. decode_fp \/ ~Sd(h)
    BY <1>1, <1>4 DEF Distances
  <2> QED
    BY <1>1, <1>2, <1>3, <1>4, <1>6, <1>7, <2>1 DEF Repeats, Carries, W, Fp, Sd, Ef
<1>12. ~fetch_fp' /\ program_addr' # pmem_head'
  BY <1>1, <1>3, <1>4
<1> QED  BY <1>1, <1>8, <1>9, <1>10, <1>11, <1>12 DEF Distances

\* The word before the head is taken.
LEMMA TakesBehind ==
    ASSUME AllPaced, DeviceInv, DeviceClk, Feeding, can_fetch, ~exec_fp,
           pmem_head >= 2, Advanced
    PROVE  Distances' /\ pmem_head' = pmem_head + 1
<1>. DEFINE h == pmem_head
<1>1. /\ HostType /\ TypeOK /\ Distances /\ h \in Nat /\ h < Words /\ pmem_head' = h + 1
      /\ program_addr' = h /\ job' = job /\ instr_valid /\ program_addr = h - 1
      /\ program = W(h - 1) /\ cw_valid_fetch \in BOOLEAN
  BY InRun, FeedStep, NextWord DEF DeviceInv, QueueHostInv, StagesKept, Advanced, TypeOK, PipeType
<1>2. /\ cw_valid_exec' = cw_valid_decode /\ instr_exec' = instr_decode
      /\ cw_valid_decode' = cw_valid_fetch /\ instr_decode' = instr_fetch
      /\ cw_valid_fetch' = TRUE /\ instr_fetch' = W(h - 1)
  BY <1>1, ClkIsClock, MoveFree
<1>3. /\ exec_fp' = decode_fp /\ decode_fp' = fetch_fp /\ fetch_fp' = Fp(h - 1)
  BY <1>2 DEF exec_fp, decode_fp, fetch_fp, FpOp, Fp
<1>4. Fp(h - 1) /\ Fp(h - 2) => fetch_fp
  BY <1>1, FpIsEffective DEF Distances, Follows, Repeats, Holds, Fp, fetch_fp
<1>5. last' # h
  BY <1>1, LastBehind
<1>7. /\ h + 1 - 1 = h /\ h + 1 - 2 = h - 1 /\ h + 1 - 3 = h - 2 /\ h + 1 - 4 = h - 3
      /\ h + 1 - 5 = h - 4 /\ h # h + 1
  BY <1>1
<1>8. (fetch_fp => /\ instr_fetch = W(pmem_head - 2)
                   /\ Fp(pmem_head - 3) => decode_fp)'
  BY <1>1, <1>2, <1>3, <1>4, <1>7 DEF W, Fp
<1>9. (decode_fp => /\ instr_decode = W(pmem_head - 3)
                    /\ Fp(pmem_head - 4) => exec_fp
                    /\ Fp(pmem_head - 2) => fetch_fp)'
  BY <1>1, <1>2, <1>3, <1>7 DEF Distances, W, Fp
<1>10. (exec_fp => /\ instr_exec = W(pmem_head - 4)
                   /\ Fp(pmem_head - 3) => decode_fp)'
  BY <1>1, <1>2, <1>3, <1>7 DEF Distances, W, Fp
<1>11. (\/ Carries(cw_valid_decode, instr_decode, pmem_head - 2)
        \/ Carries(cw_valid_decode, instr_decode, pmem_head - 3))'
  BY <1>1, <1>2, <1>7 DEF Distances, Follows, Repeats, Carries, Holds, W
<1>12. Follows'
  BY <1>1, <1>2, <1>3, <1>5, <1>7 DEF Distances, Follows, Holds, Carries, W, Fp, Ef
<1>13. program_addr' # pmem_head'
  BY <1>1
<1> QED  BY <1>1, <1>8, <1>9, <1>10, <1>11, <1>12, <1>13 DEF Distances

\* The first words are taken.
LEMMA TakesFirst ==
    ASSUME AllPaced, DeviceInv, DeviceClk, Feeding, can_fetch, pmem_head <= 1, Advanced
    PROVE  StagesKept'
<1>1. /\ HostType /\ TypeOK /\ StagesKept /\ pmem_head \in Nat /\ pmem_head < Words
      /\ pmem_head' = pmem_head + 1 /\ program_addr' = pmem_head /\ job' = job
      /\ instr_valid /\ ~Effective(program) /\ ~Ef(0)
  BY InRun, FeedStep, EarlyWords, PacedEnds DEF DeviceInv, QueueHostInv, Advanced
<1>2. /\ cw_valid_exec' = cw_valid_decode /\ instr_exec' = instr_decode
      /\ cw_valid_decode' = cw_valid_fetch /\ instr_decode' = instr_fetch
      /\ cw_valid_fetch' = TRUE /\ instr_fetch' = program
  BY <1>1, ClkIsClock, MoveFree
<1>3. /\ exec_fp' = decode_fp /\ decode_fp' = fetch_fp /\ ~fetch_fp'
  BY <1>1, <1>2, Quiet DEF exec_fp, decode_fp, fetch_fp, FpOp
<1>4. CASE pmem_head = 0
  <2>1. ~decode_fp' /\ pmem_head' = 1 /\ ~Effective(instr_fetch)'
    BY <1>1, <1>2, <1>3, <1>4 DEF StagesKept, Effective
  <2> QED  BY <1>3, <2>1 DEF StagesKept
<1>5. CASE pmem_head = 1
  <2>1. ~fetch_fp /\ ~decode_fp /\ (cw_valid_fetch => ~Effective(instr_fetch))
    BY <1>1, <1>5, Quiet DEF StagesKept, fetch_fp
  <2>2. last' # 1
    <3>1. last = QDepth \/ last \in Effectives
      BY <1>1 DEF DeviceInv, CountKept, Feeding, ThisRound, RoundBegins
    <3>2. last' = last
      BY <1>1 DEF DeviceClk, Takes
    <3>3. QDepth # 1 /\ 1 \notin Effectives
      BY <1>1, PacedEnds, Jobs DEF Effectives
    <3> QED  BY <3>1, <3>2, <3>3
  <2>3. pmem_head' = 2 /\ program_addr' = 1
    BY <1>1, <1>5
  <2>4. ~fetch_fp' /\ ~decode_fp' /\ ~exec_fp'
    BY <1>3, <2>1
  <2>5. Carries(cw_valid_decode, instr_decode, pmem_head - 2)'
    BY <1>2, <2>1 DEF Carries, Effective
  <2>6. Follows'
    <3>1. Carries(cw_valid_fetch, instr_fetch, pmem_head - 2)'
      BY <1>1, <1>2 DEF Carries, Effective
    <3>2. ~Ef(pmem_head - 2)'
      BY <1>1, <2>3 DEF Ef, W
    <3> QED  BY <2>2, <2>3, <2>4, <3>1, <3>2 DEF Follows, Holds
  <2> QED  BY <2>3, <2>4, <2>5, <2>6 DEF StagesKept, Distances
<1> QED  BY <1>1, <1>4, <1>5

LEMMA StagesStep == ASSUME AllPaced, DeviceInv, DeviceClk PROVE StagesKept'
<1>1. TypeOK /\ StagesKept
  BY DEF DeviceInv
<1>2. CASE ~Feeding
  <2>1. ~fetch_fp /\ ~instr_valid /\ ~Feeding'
    BY <1>1, <1>2, NotFeeding DEF StagesKept
  <2>2. ~fetch_fp'
    <3>1. CASE on_calculation_delay
      BY <2>1, <3>1, ClkIsClock, MoveDelayed, <1>1 DEF fetch_fp, FpOp
    <3>2. CASE ~on_calculation_delay
      BY <2>1, <3>2, ClkIsClock, MoveFree, FetchUnlessDelayed, <1>1 DEF fetch_fp
    <3> QED  BY <3>1, <3>2
  <2> QED  BY <2>1, <2>2 DEF StagesKept
<1>3. CASE Feeding /\ ~Feeding'
  <2>1. Finished /\ pmem_head = 0 /\ ~fetch_fp
    BY <1>1, <1>3, FeedStep DEF Advanced, Wrapped, Finished, StagesKept
  <2>2. ~fetch_fp'
    <3>1. CASE on_calculation_delay
      BY <2>1, <3>1, ClkIsClock, MoveDelayed, <1>1 DEF fetch_fp, FpOp
    <3>2. CASE ~on_calculation_delay
      <4>1. ~Effective(program)
        BY <1>3, <2>1, EarlyWords
      <4> QED  BY <3>2, <4>1, Quiet, ClkIsClock, MoveFree, FetchUnlessDelayed, <1>1 DEF fetch_fp, FpOp
    <3> QED  BY <3>1, <3>2
  <2> QED  BY <1>3, <2>2 DEF StagesKept
<1>4. CASE Feeding /\ Feeding' /\ on_calculation_delay
  BY <1>4, DelayedStages
<1>5. CASE Feeding /\ Feeding' /\ ~on_calculation_delay
  <2>1. can_fetch /\ pmem_head \in Nat
    BY <1>5, FetchUnlessDelayed, InRun
  <2>2. CASE Advanced /\ pmem_head <= 1
    BY <1>5, <2>1, <2>2, TakesFirst
  <2>3. CASE Advanced /\ pmem_head >= 2
    <3>1. Distances' /\ pmem_head' = pmem_head + 1
      BY <1>5, <2>1, <2>3, TakesHead, TakesBehind
    <3> QED  BY <1>5, <2>1, <2>3, <3>1 DEF StagesKept
  <2>4. CASE Wrapped
    <3>1. ~instr_valid /\ pmem_head' = 0
      BY <1>5, <2>4, InRun DEF Wrapped
    <3>2. ~fetch_fp'
      BY <1>1, <2>1, <3>1, ClkIsClock, MoveFree DEF fetch_fp
    <3> QED  BY <3>1, <3>2 DEF StagesKept
  <2> QED  BY <1>5, <2>1, <2>2, <2>3, <2>4, FeedStep DEF Finished
<1> QED  BY <1>2, <1>3, <1>4, <1>5

-----------------------------------------------------------------------------
(* The count of what has been taken.                                       *)

UpTo(x) == {a \in Effectives : a <= x}

LEMMA EffectivesFinite ==
    ASSUME HostType, NEW x
    PROVE  /\ IsFiniteSet(Effectives) /\ Cardinality(Effectives) \in Nat
           /\ IsFiniteSet(UpTo(x)) /\ Cardinality(UpTo(x)) \in Nat
           /\ Effectives \subseteq Nat
<1>1. Words \in Nat
  BY Jobs
<1>2. IsFiniteSet(0..Words-1)
  <2>1. 0 \in Int /\ Words - 1 \in Int
    BY <1>1
  <2> QED  BY <2>1, FS_Interval, Zenon
<1>3. Effectives \in SUBSET (0..Words-1)
  BY DEF Effectives
<1>4. UpTo(x) \in SUBSET (0..Words-1)
  BY <1>3 DEF UpTo
<1>5. IsFiniteSet(Effectives)
  BY <1>2, <1>3, FS_Subset, Zenon
<1>6. IsFiniteSet(UpTo(x))
  BY <1>2, <1>4, FS_Subset, Zenon
<1>7. Effectives \subseteq Nat
  BY <1>1, <1>3
<1> QED  BY <1>5, <1>6, <1>7, FS_CardinalityType, Zenon

\* The values the counts depend on, and that a step of a run leaves them the words.
LEMMA CountTypes ==
    ASSUME AllPaced, DeviceInv, Feeding
    PROVE  /\ pmem_head \in Nat /\ Words \in Nat /\ program_addr \in Nat /\ cur_cycle_idx \in Nat
           /\ Words < QDepth /\ QDepth \in Nat
           /\ ThisRound \/ RoundBegins
           /\ Effectives \subseteq 2..Words-2 /\ \E a, b \in Effectives : a # b
           /\ \/ program_addr = pmem_head \/ program_addr + 1 = pmem_head
              \/ pmem_head = 0 /\ program_addr = Words
<1>1. HostType /\ QueueType
  BY DEF DeviceInv, QueueHostInv
<1>2. Effectives \subseteq 2..Words-2 /\ \E a, b \in Effectives : a # b
  BY <1>1, PacedEnds DEF Effectives
<1>3. cur_cycle_idx \in Nat /\ (ThisRound \/ RoundBegins)
  BY <1>1, Jobs DEF QueueType, DeviceInv, CountKept, Feeding
<1> QED  BY <1>1, <1>2, <1>3, Jobs, InRun

LEMMA SameEffectives == ASSUME job' = job PROVE Effectives' = Effectives
BY DEF Effectives, Ef, W, Words

\* The bus moves on and nothing new is taken.
LEMMA NothingNew ==
    ASSUME AllPaced, DeviceInv, Feeding, pmem_head < Words,
           job' = job, cur_cycle_idx' = cur_cycle_idx, program_addr' = pmem_head,
           last' = last, steps' = steps,
           pmem_head' = pmem_head \/ pmem_head' = pmem_head + 1,
           program_addr + 1 = pmem_head /\ program_addr \in Effectives => program_addr = last
    PROVE  (ThisRound \/ RoundBegins)'
<1>1. Effectives' = Effectives
  BY SameEffectives
<1>2. /\ pmem_head \in Nat /\ Words \in Nat /\ program_addr \in Nat
      /\ Words < QDepth /\ QDepth \in Nat /\ (ThisRound \/ RoundBegins)
      /\ Effectives \subseteq 2..Words-2
      /\ \/ program_addr = pmem_head \/ program_addr + 1 = pmem_head
         \/ pmem_head = 0 /\ program_addr = Words
  BY CountTypes
<1>3. CASE ThisRound
  <2>1. last' \in Effectives' /\ last' < pmem_head' /\ last' <= program_addr'
    BY <1>1, <1>2, <1>3 DEF ThisRound
  <2>2. \A a \in Effectives : a <= last \/ a >= pmem_head
    BY <1>2, <1>3 DEF ThisRound
  <2> QED  BY <1>1, <1>3, <2>1, <2>2 DEF ThisRound
<1>4. CASE RoundBegins
  <2>1. ASSUME pmem_head # 0, NEW a \in Effectives PROVE a >= pmem_head
    <3>1. \A c \in Effectives : c >= program_addr
      BY <1>4, <2>1 DEF RoundBegins
    <3>2. ASSUME program_addr + 1 = pmem_head, program_addr \in Effectives PROVE FALSE
      <4>1. \A c \in Effectives : c <= program_addr
        <5>1. program_addr = last /\ last # QDepth
          BY <1>2, <3>2
        <5> QED  BY <1>4, <5>1 DEF RoundBegins
      <4>2. PICK c \in Effectives, d \in Effectives : c # d
        BY CountTypes
      <4>3. c = program_addr /\ d = program_addr
        BY <1>2, <3>1, <4>1, <4>2
      <4> QED  BY <4>2, <4>3
    <3> QED  BY <1>2, <2>1, <3>1, <3>2
  <2>2. \A a \in Effectives : a >= pmem_head
    BY <1>2, <2>1
  <2> QED  BY <1>1, <1>4, <2>2 DEF RoundBegins
<1> QED  BY <1>2, <1>3, <1>4

\* The word on the bus is taken for the first time in this round.
LEMMA SomethingNew ==
    ASSUME AllPaced, DeviceInv, Feeding, pmem_head < Words, pmem_head >= 2,
           job' = job, cur_cycle_idx' = cur_cycle_idx, program_addr' = pmem_head,
           last' = program_addr, steps' = steps + 1, pmem_head' = pmem_head + 1,
           program_addr \in Effectives, program_addr # last
    PROVE  ThisRound'
<1>1. Effectives' = Effectives
  BY SameEffectives
<1>2. /\ pmem_head \in Nat /\ Words \in Nat /\ program_addr \in Nat /\ cur_cycle_idx \in Nat
      /\ ThisRound \/ RoundBegins
      /\ Effectives \subseteq 2..Words-2
      /\ program_addr = pmem_head \/ program_addr + 1 = pmem_head
  BY CountTypes
<1>3. HostType
  BY DEF DeviceInv, QueueHostInv
<1>4. \A a \in Effectives : a <= program_addr \/ a >= pmem_head
  BY <1>2 DEF ThisRound, RoundBegins
<1>5. steps + 1 = cur_cycle_idx * Cardinality(Effectives) + Cardinality(UpTo(program_addr))
  <2>. DEFINE m == cur_cycle_idx * Cardinality(Effectives)
  <2>0. m \in Nat
    BY <1>2, <1>3, EffectivesFinite
  <2>1. CASE ThisRound
    <3>1. steps = m + Cardinality(UpTo(last)) /\ last \in Nat /\ last < program_addr
      <4>1. steps = m + Cardinality(UpTo(last))
        BY <2>1 DEF ThisRound, UpTo
      <4>2. last \in Nat /\ last <= program_addr
        BY <1>2, <2>1 DEF ThisRound
      <4> QED  BY <1>2, <4>1, <4>2
    <3>2. UpTo(program_addr) = UpTo(last) \cup {program_addr} /\ program_addr \notin UpTo(last)
      <4>1. \A a \in Effectives : a <= program_addr <=> a <= last \/ a = program_addr
        BY <1>2, <2>1, <3>1 DEF ThisRound
      <4>2. ~(program_addr <= last) /\ program_addr \in Effectives
        BY <1>2, <3>1
      <4> QED  BY <4>1, <4>2 DEF UpTo
    <3>3. IsFiniteSet(UpTo(last)) /\ Cardinality(UpTo(last)) \in Nat
      BY <1>3, EffectivesFinite
    <3>4. Cardinality(UpTo(program_addr)) = Cardinality(UpTo(last)) + 1
      BY <3>2, <3>3, FS_AddElement
    <3>. HIDE DEF m
    <3> QED  BY <2>0, <3>1, <3>3, <3>4 DEF m
  <2>2. CASE RoundBegins
    <3>1. steps = m /\ \A a \in Effectives : a >= program_addr
      BY <2>2 DEF RoundBegins
    <3>2. UpTo(program_addr) = {program_addr}
      <4>1. \A a \in Effectives : a <= program_addr <=> a = program_addr
        BY <1>2, <3>1
      <4> QED  BY <4>1 DEF UpTo
    <3>3. Cardinality(UpTo(program_addr)) = 1
      BY <3>2, FS_Singleton
    <3>. HIDE DEF m
    <3> QED  BY <2>0, <3>1, <3>3 DEF m
  <2> QED  BY <1>2, <2>1, <2>2
<1>6. UpTo(program_addr) = {a \in Effectives : a <= program_addr}
  BY DEF UpTo
<1>7. last' \in Effectives' /\ last' < pmem_head' /\ last' <= program_addr'
  BY <1>1, <1>2
<1>8. \A a \in Effectives' : a <= last' \/ a >= program_addr'
  BY <1>1, <1>4
<1>9. steps' = cur_cycle_idx' * Cardinality(Effectives')
                 + Cardinality({a \in Effectives' : a <= last'})
  BY <1>1, <1>5, <1>6
<1> QED  BY <1>7, <1>8, <1>9 DEF ThisRound

\* The round is over: every word of effect has been taken in it.
LEMMA RoundOver ==
    ASSUME AllPaced, DeviceInv, Feeding, pmem_head = Words,
           job' = job, cur_cycle_idx' = cur_cycle_idx + 1, pmem_head' = 0,
           last' = last, steps' = steps
    PROVE  RoundBegins'
<1>1. Effectives' = Effectives
  BY SameEffectives
<1>2. /\ Words \in Nat /\ program_addr \in Nat /\ cur_cycle_idx \in Nat
      /\ ThisRound \/ RoundBegins
      /\ Effectives \subseteq 2..Words-2
      /\ program_addr >= Words - 1 /\ Words > 0
  <2>1. HostType
    BY DEF DeviceInv, QueueHostInv
  <2> QED  BY <2>1, CountTypes, PacedEnds
<1>3. ThisRound
  <2>1. PICK a \in Effectives : TRUE
    BY CountTypes
  <2> QED  BY <1>2, <2>1 DEF RoundBegins
<1>4. \A a \in Effectives : a <= last
  BY <1>2, <1>3 DEF ThisRound
<1>5. {a \in Effectives : a <= last} = Effectives
  BY <1>4
<1>6. steps = (cur_cycle_idx + 1) * Cardinality(Effectives)
  <2>. DEFINE n == Cardinality(Effectives)
  <2>1. steps = cur_cycle_idx * n + n
    BY <1>3, <1>5 DEF ThisRound
  <2>2. n \in Nat
    BY EffectivesFinite DEF DeviceInv, QueueHostInv
  <2>. HIDE DEF n
  <2>3. (cur_cycle_idx + 1) * n = cur_cycle_idx * n + n
    BY <1>2, <2>2
  <2> QED  BY <2>1, <2>3 DEF n
<1> QED  BY <1>1, <1>3, <1>4, <1>6 DEF ThisRound, RoundBegins

LEMMA CountStep == ASSUME AllPaced, DeviceInv, DeviceClk PROVE CountKept'
<1> SUFFICES ASSUME host_pc' \in {"poll", "read"} PROVE (ThisRound \/ RoundBegins)'
  BY DEF CountKept
<1>1. /\ host_pc' = host_pc /\ job' = job
      /\ IF Takes /\ program_addr # last THEN last' = program_addr /\ steps' = steps + 1
         ELSE last' = last /\ steps' = steps
  BY DEF DeviceClk, HostClk
<1>2. CASE ~Feeding
  <2>1. ~Takes
    BY <1>2, NotFeeding DEF Takes
  <2>2. program_done /\ RunKept /\ pmem_running /\ QueueType
    BY <1>1, <1>2 DEF Feeding, DeviceInv, QueueHostInv, Phases
  <2>3. cur_cycle_idx' = cur_cycle_idx /\ pmem_head = 0 /\ pmem_head' = 0
    BY <2>2 DEF RunKept, DeviceClk, HostClk, QueueClk, Finish, Advance, Wrap
  <2>4. RoundBegins
    <3>1. ThisRound \/ RoundBegins
      BY <1>1 DEF DeviceInv, CountKept
    <3> QED  BY <2>3, <3>1 DEF ThisRound, Effectives
  <2>5. Effectives' = Effectives
    BY <1>1, SameEffectives
  <2> QED  BY <1>1, <2>1, <2>3, <2>4, <2>5 DEF RoundBegins
<1>3. CASE Feeding /\ Finished
  <2>1. ~Takes /\ pmem_head = 0 /\ pmem_head' = 0 /\ cur_cycle_idx' = cur_cycle_idx
    BY <1>3, EarlyWords DEF Takes, Finished
  <2>2. RoundBegins
    BY <1>3, <2>1, CountTypes DEF ThisRound
  <2>3. Effectives' = Effectives
    BY <1>1, SameEffectives
  <2> QED  BY <1>1, <2>1, <2>2, <2>3 DEF RoundBegins
<1>4. CASE Feeding /\ Wrapped
  <2>1. ~Takes
    BY <1>4, InRun DEF Takes, Wrapped
  <2> QED  BY <1>1, <1>4, <2>1, RoundOver DEF Wrapped
<1>5. CASE Feeding /\ Advanced
  <2>1. /\ pmem_head \in Nat /\ pmem_head < Words /\ program_addr' = pmem_head
        /\ cur_cycle_idx' = cur_cycle_idx
        /\ pmem_head' = (IF can_fetch THEN pmem_head + 1 ELSE pmem_head)
        /\ instr_valid /\ program = W(program_addr) /\ Words \in Nat
    BY <1>5, FeedStep, InRun DEF Advanced
  <2>2. CASE Takes /\ program_addr # last
    <3>1. program_addr \in Effectives
      <4>1. Ef(program_addr)
        BY <2>1, <2>2 DEF Takes, Ef
      <4>2. program_addr \in Nat /\ HostType
        BY <1>5, InRun DEF DeviceInv, QueueHostInv
      <4> QED  BY <2>1, <4>1, <4>2, PacedEnds DEF Effectives
    <3>2. pmem_head >= 2
      BY <1>5, <2>1, <2>2, EarlyWords DEF Takes
    <3>3. pmem_head' = pmem_head + 1
      BY <2>1, <2>2 DEF Takes
    <3> QED  BY <1>1, <1>5, <2>1, <2>2, <3>1, <3>2, <3>3, SomethingNew
  <2>3. CASE ~(Takes /\ program_addr # last)
    <3>1. ASSUME program_addr + 1 = pmem_head, program_addr \in Effectives
          PROVE  program_addr = last
      <4>0. program_addr \in Nat /\ Ef(program_addr) /\ pmem_head >= 2
        BY <1>5, <2>1, <3>1, InRun, CountTypes DEF Effectives
      <4>1. CASE can_fetch
        BY <2>1, <2>3, <4>0, <4>1 DEF Takes, Ef
      <4>2. CASE ~can_fetch
        <5>1. exec_fp /\ Distances /\ HostType
          BY <1>5, <4>0, <4>2, FetchUnlessDelayed, DelayIsFp DEF DeviceInv, StagesKept, QueueHostInv
        <5>2. program_addr = pmem_head - 1
          BY <2>1, <3>1, <4>0
        <5>3. CASE Follows
          <6>1. Fp(pmem_head - 4) /\ ~Fp(pmem_head - 5)
            BY <5>1, <5>3 DEF Distances, Follows, Fp, exec_fp
          <6>2. pmem_head - 4 \in Int /\ pmem_head - 4 - 1 = pmem_head - 5
                /\ pmem_head - 4 + 3 = pmem_head - 1
            BY <2>1
          <6>3. ~Ef(pmem_head - 4 + 3)
            BY <5>1, <6>1, <6>2, PacedWords
          <6> QED  BY <4>0, <5>2, <6>2, <6>3
        <5>4. CASE Repeats
          BY <4>0, <5>2, <5>4 DEF Repeats
        <5> QED  BY <5>1, <5>3, <5>4 DEF Distances
      <4> QED  BY <4>1, <4>2
    <3>2. last' = last /\ steps' = steps /\ (pmem_head' = pmem_head \/ pmem_head' = pmem_head + 1)
      BY <1>1, <2>1, <2>3
    <3> QED  BY <1>1, <1>5, <2>1, <3>1, <3>2, NothingNew
  <2> QED  BY <2>2, <2>3
<1> QED  BY <1>2, <1>3, <1>4, <1>5, FeedStep

-----------------------------------------------------------------------------
(* The invariant under every step.                                         *)

LEMMA ClkDeviceInv == ASSUME AllPaced, DeviceInv, DeviceClk PROVE DeviceInv'
<1>1. /\ Clock(program, instr_valid) /\ HostClk(can_fetch)
      /\ program \in Instr /\ instr_valid \in BOOLEAN /\ can_fetch \in BOOLEAN
  BY ClkIsClock
<1>2. QueueHostInv'
  BY <1>1, ClkInv DEF DeviceInv
<1>3. TypeOK' /\ FpOwned'
  BY <1>1, NextType, FpOwnedStep DEF DeviceInv, Next
<1>4. /\ program' = pmem[pmem_head] /\ program_addr' = pmem_head
      /\ UNCHANGED <<pmem, host_pc, job, pushed>>
  BY <1>1 DEF HostClk, QueueClk, ReadProgram, portVars
<1>5. MemoryKept' /\ BusKept'
  BY <1>4 DEF DeviceInv, MemoryKept, BusKept, W, Words
<1>6. OperandsKept'
  BY OperandsStep, NextWordApart
<1>7. Feeding' => MachinesKept'
  BY MachinesStep, NotFeeding
<1> QED  BY <1>2, <1>3, <1>5, <1>6, <1>7, StagesStep, CountStep DEF DeviceInv

\* The firmware does not touch the core.
LEMMA CoreUntouched ==
    ASSUME TypeOK, FpOwned, OperandsKept, UNCHANGED coreVars
    PROVE  /\ TypeOK' /\ FpOwned' /\ OperandsKept'
           /\ fetch_fp' = fetch_fp /\ decode_fp' = decode_fp /\ exec_fp' = exec_fp
<1>1. TypeOK'
  BY DEF TypeOK, StallGenType, FpType, PipeType, coreVars, fpuVars, validVars, instrVars
<1>2. FpOwned'
  BY DEF FpOwned, FpOp, coreVars, fpuVars, validVars, instrVars
<1>3. fetch_fp' = fetch_fp /\ decode_fp' = decode_fp /\ exec_fp' = exec_fp
  BY DEF fetch_fp, decode_fp, exec_fp, FpOp, coreVars, validVars, instrVars
<1>4. /\ fetch_rq' = fetch_rq /\ decode_rq' = decode_rq /\ decode_regd' = decode_regd
      /\ exec_regd' = exec_regd /\ writeback_regd' = writeback_regd /\ occupied' = occupied
  BY DEF fetch_rq, decode_rq, decode_regd, exec_regd, writeback_regd, Writes, RegWr, Sources,
         coreVars, validVars, instrVars
<1>5. NoSelfBehindFp'
  BY DEF OperandsKept, NoSelfBehindFp, SelfDependent, RegWr, Sources, FpOp,
         coreVars, validVars, instrVars
<1> QED  BY <1>1, <1>2, <1>3, <1>4, <1>5 DEF OperandsKept

\* Nothing is left to do for the firmware while the core is fed; only a start feeds it.
LEMMA HostNotFeeding ==
    ASSUME DeviceInv, HostStep
    PROVE  ~Feeding /\ (Feeding' => Start)
<1>1. host_pc = "read" => program_done
  BY DEF DeviceInv, QueueHostInv, Phases
<1>2. ~Feeding
  BY <1>1 DEF Feeding, HostStep, Command, TaskSize, TaskCycles, ResetProgram, ProgramSize,
     ProgramCycles, Push, Uploaded, Stop, Start, Poll, NextFrame, NextJob
<1>3. Feeding' => Start
  <2>1. host_pc' \in {"poll", "read"} => Start \/ Poll
    BY DEF HostStep, Command, TaskSize, TaskCycles, ResetProgram, ProgramSize,
       ProgramCycles, Push, Uploaded, Stop, NextFrame, NextJob
  <2>2. Poll => program_done'
    BY DEF Poll, queueVars, supplyVars
  <2> QED  BY <2>1, <2>2 DEF Feeding
<1> QED  BY <1>2, <1>3

LEMMA HostMemory == ASSUME DeviceInv, HostStep, job' = job PROVE MemoryKept' /\ BusKept'
<1>0. /\ MemoryKept /\ BusKept /\ QueueType /\ HostType /\ Phases
      /\ \A a : W(a)' = W(a)
      /\ Words \in Nat /\ Words' = Words /\ Edges \in Nat /\ Edges > 0
      /\ QDepth \in Nat /\ Words < QDepth
  BY Jobs DEF DeviceInv, QueueHostInv, W, Words
<1>1. CASE Push
  <2>1. /\ pushed < Words /\ pmem_end = pushed /\ pushed \in Nat
        /\ host_pc = "push" /\ host_pc' = "push" /\ edges' = Edges /\ pushed' = pushed + 1
        /\ pmem' = [pmem EXCEPT ![pushed] = job.program[pushed + 1]]
    BY <1>0, <1>1 DEF Push, PushInstr, Command, Phases, HostType, Words
  <2>2. job.program[pushed + 1] = W(pushed)
    BY <1>0, <2>1 DEF W, WordAt, Words
  <2>3. \A a \in 0..QDepth-1 : pmem'[a] = IF a = pushed THEN W(a) ELSE pmem[a]
    BY <1>0, <2>1, <2>2 DEF QueueType
  <2>4. \A a \in 0..QDepth-1 : a >= Words => pmem'[a] = Blank
    BY <1>0, <2>1, <2>3 DEF MemoryKept
  <2>5. \A a \in 0..pushed' - 1 : pmem'[a] = W(a)
    <3>1. \A a \in 0..pushed' - 1 : a \in 0..QDepth-1 /\ (a = pushed \/ a \in 0..pushed-1)
      BY <1>0, <2>1
    <3>2. \A a \in 0..pushed - 1 : pmem[a] = W(a)
      BY <1>0, <2>1 DEF MemoryKept
    <3> QED  BY <2>3, <3>1, <3>2
  <2>6. MemoryKept'
    BY <1>0, <2>1, <2>4, <2>5 DEF MemoryKept
  <2>7. BusKept'
    BY <1>0, <2>1 DEF BusKept
  <2> QED  BY <2>6, <2>7
<1>2. CASE HostStep /\ ~Push
  <2>1. pmem' = pmem /\ program' = program /\ program_addr' = program_addr
    BY <1>2 DEF HostStep, TaskSize, TaskCycles, ResetProgram, ProgramSize,
       ProgramCycles, Uploaded, Stop, Start, Poll, NextFrame, NextJob, SzPerCycle, NumCycle,
       ResetPrg, RunStop, queueVars, portVars, supplyVars
  <2>2. \/ host_pc' \in {"task_sz", "task_cycles", "reset", "sz", "cycles"}
        \/ host_pc' = "push" /\ pushed' = 0 /\ edges' = Edges
        \/ host_pc = "push" /\ pushed = Words /\ host_pc' = "stop" /\ edges' = edges
        \/ host_pc = "stop" /\ host_pc' = "start" /\ edges = 0
        \/ host_pc \in {"start", "poll", "read"} /\ host_pc' \in {"stop", "poll", "read"}
    BY <1>0, <1>2 DEF HostStep, Command, TaskSize, TaskCycles, ResetProgram, ProgramSize,
       ProgramCycles, Uploaded, Stop, Start, Poll, NextFrame, NextJob, Words, Phases
  <2>3. BusKept'
    BY <1>0, <2>1, <2>2 DEF BusKept
  <2>4. MemoryKept'
    BY <1>0, <2>1, <2>2 DEF MemoryKept
  <2> QED  BY <2>3, <2>4
<1> QED  BY <1>1, <1>2

LEMMA HostDeviceInv == ASSUME AllPaced, DeviceInv, DeviceHost PROVE DeviceInv'
<1>1. HostStep /\ job' = job /\ UNCHANGED coreVars
  BY DEF DeviceHost
<1>2. QueueHostInv'
  BY <1>1, HostStepInv DEF DeviceInv
<1>3. /\ TypeOK' /\ FpOwned' /\ OperandsKept'
      /\ fetch_fp' = fetch_fp /\ decode_fp' = decode_fp /\ exec_fp' = exec_fp
  BY <1>1, CoreUntouched DEF DeviceInv
<1>4. MemoryKept' /\ BusKept'
  BY <1>1, HostMemory
<1>5. ~Feeding /\ (Feeding' => Start)
  BY <1>1, HostNotFeeding
<1>6. Start => pmem_head' = 0 /\ program_addr' = 0 /\ cur_cycle_idx' = 0 /\ last' = QDepth /\ steps' = 0
  <2> SUFFICES ASSUME Start
               PROVE  pmem_head' = 0 /\ program_addr' = 0 /\ cur_cycle_idx' = 0 /\ last' = QDepth /\ steps' = 0
    OBVIOUS
  <2>1. host_pc = "start" /\ edges = 0 /\ supplyVars' = supplyVars
    BY DEF Start, Command, RunStop
  <2>2. Cleared /\ Idle
    BY <2>1, EdgesAssumption DEF DeviceInv, QueueHostInv, Phases
  <2> QED  BY <2>1, <2>2 DEF Cleared, Idle, supplyVars, DeviceHost
<1>7. StagesKept'
  <2>1. ~fetch_fp
    BY <1>5 DEF DeviceInv, StagesKept
  <2> QED  BY <1>3, <1>5, <1>6, <2>1 DEF StagesKept
<1>8. Feeding' => MachinesKept'
  <2>1. HostType /\ Words >= 4 /\ Words' = Words
    BY <1>1, PacedEnds DEF DeviceInv, QueueHostInv, Words
  <2> QED  BY <1>5, <1>6, <2>1 DEF MachinesKept
<1>9. CountKept'
  <2>1. Effectives' = Effectives /\ Cardinality(Effectives) \in Nat
    BY <1>1, SameEffectives, EffectivesFinite DEF DeviceInv, QueueHostInv
  <2>2. CASE Start
    <3>1. 0 * Cardinality(Effectives) = 0
      BY <2>1
    <3>2. RoundBegins'
      BY <1>6, <2>1, <2>2, <3>1 DEF RoundBegins
    <3> QED  BY <3>2 DEF CountKept
  <2>3. CASE ~Start /\ host_pc' \in {"poll", "read"}
    <3>1. Poll
      BY <1>1, <2>3 DEF HostStep, Command, TaskSize, TaskCycles, ResetProgram, ProgramSize,
         ProgramCycles, Push, Uploaded, Stop, NextFrame, NextJob
    <3>2. /\ host_pc = "poll" /\ last' = last /\ steps' = steps /\ pmem_head' = pmem_head
          /\ program_addr' = program_addr /\ cur_cycle_idx' = cur_cycle_idx
      BY <3>1 DEF Poll, DeviceHost, queueVars, supplyVars
    <3>3. ThisRound \/ RoundBegins
      BY <3>2 DEF DeviceInv, CountKept
    <3>4. (ThisRound \/ RoundBegins)'
      BY <2>1, <3>2, <3>3 DEF ThisRound, RoundBegins
    <3> QED  BY <3>4 DEF CountKept
  <2> QED  BY <2>2, <2>3 DEF CountKept
<1> QED  BY <1>2, <1>3, <1>4, <1>7, <1>8, <1>9 DEF DeviceInv

LEMMA DeviceInitInv == ASSUME DeviceInit PROVE DeviceInv
<1>1. QueueHostInv /\ TypeOK
  BY QueueHostInitInv, InitType DEF DeviceInit
<1>2. FpOwned
  BY DEF DeviceInit, Init, FpInit, FpOwned
<1>3. host_pc = "task_sz" /\ \A a \in 0..QDepth-1 : pmem[a] = Blank
  BY DEF DeviceInit, QueueHostInit, QueueInit, HostInit
<1>4. MemoryKept /\ BusKept /\ ~Feeding /\ CountKept
  BY <1>3 DEF MemoryKept, BusKept, Feeding, CountKept
<1>5. OperandsKept /\ ~fetch_fp
  BY DEF DeviceInit, Init, StallGenInit, OperandsKept, fetch_rq, decode_rq, decode_regd, exec_regd,
     writeback_regd, Writes, NoSelfBehindFp, fetch_fp, exec_fp
<1>6. StagesKept
  BY <1>4, <1>5 DEF StagesKept
<1> QED  BY <1>1, <1>2, <1>4, <1>5, <1>6 DEF DeviceInv

LEMMA DeviceStepInv == ASSUME AllPaced, DeviceInv, [DeviceNext]_deviceVars PROVE DeviceInv'
<1>1. CASE DeviceHost
  BY <1>1, HostDeviceInv
<1>2. CASE DeviceClk
  BY <1>2, ClkDeviceInv
<1>3. CASE UNCHANGED deviceVars
  <2>. USE <1>3 DEF deviceVars, queueHostVars, queueVars, hostVars, portVars, supplyVars
  <2>1. QueueHostInv'
    BY QueueHostStepInv DEF DeviceInv
  <2>2. /\ TypeOK' /\ FpOwned' /\ OperandsKept'
        /\ fetch_fp' = fetch_fp /\ decode_fp' = decode_fp /\ exec_fp' = exec_fp
    BY CoreUntouched DEF DeviceInv
  <2>3. \A a : W(a)' = W(a) /\ Ef(a)' = Ef(a) /\ Fp(a)' = Fp(a) /\ Sd(a)' = Sd(a)
    BY DEF W, Ef, Fp, Sd
  <2>4. MemoryKept' /\ BusKept'
    BY DEF DeviceInv, MemoryKept, BusKept, W, Words
  <2>5. Feeding' = Feeding /\ Words' = Words /\ Effectives' = Effectives
    BY SameEffectives DEF Feeding, Words
  <2>6. CountKept'
    BY <2>5 DEF DeviceInv, CountKept, ThisRound, RoundBegins
  <2>7. Feeding' => MachinesKept'
    BY <2>2, <2>5 DEF DeviceInv, MachinesKept, coreVars, fpuVars
  <2>8. StagesKept'
    BY <2>2, <2>5 DEF DeviceInv, StagesKept, Distances, Follows, Repeats, Holds, Carries,
       W, Ef, Fp, Sd, coreVars, validVars, instrVars
  <2> QED  BY <2>1, <2>2, <2>4, <2>6, <2>7, <2>8 DEF DeviceInv
<1> QED  BY <1>1, <1>2, <1>3 DEF DeviceNext

\* The invariant of the device, for every set of paced jobs.
LEMMA DeviceKept == ASSUME AllPaced PROVE DeviceSpec => []DeviceInv
<1>1. DeviceInit => DeviceInv
  BY DeviceInitInv
<1>2. DeviceInv /\ [DeviceNext]_deviceVars => DeviceInv'
  BY DeviceStepInv
<1> QED  BY <1>1, <1>2, PTL DEF DeviceSpec

-----------------------------------------------------------------------------
(* What the program is owed.                                               *)

\* A word of effect is taken in a run, behind its first two words.
LEMMA TakesInRun ==
    ASSUME AllPaced, DeviceInv, Takes
    PROVE  /\ Feeding /\ pmem_head >= 2 /\ pmem_head \in Nat /\ Distances
           /\ program_addr \in Effectives /\ program = W(program_addr)
           /\ ThisRound \/ RoundBegins
           /\ Words \in Nat /\ QDepth \in Nat /\ Words < QDepth
           /\ Effectives \subseteq 0..Words-1
           /\ exec_fp => program_addr = pmem_head
           /\ ~exec_fp => program_addr = pmem_head - 1
<1>1. Feeding /\ can_fetch /\ Effective(program)
  BY ValidIsFeeding DEF Takes
<1>2. /\ pmem_head \in Nat /\ program = W(program_addr) /\ program_addr \in Nat
      /\ Words \in Nat /\ QDepth \in Nat /\ Words < QDepth
      /\ ThisRound \/ RoundBegins
  BY <1>1, InRun, CountTypes
<1>3. pmem_head >= 2
  BY <1>1, <1>2, EarlyWords
<1>4. Distances
  BY <1>1, <1>3 DEF DeviceInv, StagesKept
<1>5. program_addr \in Effectives
  <2>1. Ef(program_addr) /\ HostType
    BY <1>1, <1>2 DEF Ef, DeviceInv, QueueHostInv
  <2>2. program_addr \in 2..Words-2
    BY <1>2, <2>1, PacedEnds
  <2> QED  BY <1>2, <2>1, <2>2 DEF Effectives
<1>6. Effectives \subseteq 0..Words-1
  BY DEF Effectives
<1> QED  BY <1>1, <1>2, <1>3, <1>4, <1>5, <1>6, NextWord

\* The memory holds the program while it runs.
LEMMA InMemory == ASSUME DeviceInv, Feeding PROVE EffectiveAddr = Effectives
<1>1. pmem_end = Words /\ \A a \in 0..Words-1 : pmem[a] = W(a)
  BY InRun DEF DeviceInv, MemoryKept, Feeding
<1> QED  BY <1>1 DEF EffectiveAddr, Effectives, Ef

\* The core is given the instructions of a paced program in their order, none left out and
\* none early, in every task cycle of every run (docs/note.kor.md:73,
\* GPPCU_TEST_QUEUE.v:157-170).
THEOREM WordsInOrder == ASSUME AllPaced PROVE DeviceSpec => []InProgramOrder
<1>1. DeviceInv => InProgramOrder
  <2> SUFFICES ASSUME DeviceInv, Takes, program_addr # last
               PROVE  program_addr = NextEffective(last)
    BY DEF InProgramOrder
  <2>. DEFINE after == {b \in Effectives : last < b /\ last < QDepth}
              from  == IF after = {} THEN Effectives ELSE after
  <2>1. /\ Feeding /\ program_addr \in Effectives /\ pmem_head # 0
        /\ ThisRound \/ RoundBegins
        /\ Words \in Nat /\ QDepth \in Nat /\ Words < QDepth /\ Effectives \subseteq 0..Words-1
    BY TakesInRun
  <2>2. program_addr \in from /\ \A c \in from : program_addr <= c
    <3>1. CASE ThisRound
      <4>1. /\ last \in Nat /\ last < QDepth /\ last < program_addr
            /\ \A a \in Effectives : a <= last \/ a >= program_addr
        BY <2>1, <3>1 DEF ThisRound
      <4>2. program_addr \in after
        BY <2>1, <4>1
      <4>3. \A c \in after : program_addr <= c
        BY <2>1, <4>1
      <4> QED  BY <4>2, <4>3
    <3>2. CASE RoundBegins
      <4>1. \A c \in Effectives : program_addr <= c
        BY <2>1, <3>2 DEF RoundBegins
      <4>2. last = QDepth \/ \A a \in Effectives : a <= last
        BY <3>2 DEF RoundBegins
      <4>3. after = {}
        <5>1. CASE last = QDepth
          BY <2>1, <5>1
        <5>2. CASE last # QDepth
          <6>1. last \in Effectives /\ \A a \in Effectives : a <= last
            BY <3>2, <5>2 DEF RoundBegins
          <6>2. \A a \in Effectives : ~(last < a)
            <7>1. \A a \in Effectives : a \in Nat
              BY <2>1
            <7> QED  BY <6>1, <7>1
          <6> QED  BY <6>2
        <5> QED  BY <5>1, <5>2
      <4> QED  BY <2>1, <4>1, <4>3
    <3> QED  BY <2>1, <3>1, <3>2
  <2>3. from \subseteq Nat
    <3>1. Effectives \subseteq Nat
      BY <2>1
    <3> QED  BY <3>1
  <2>. DEFINE least == CHOOSE b \in from : \A c \in from : b <= c
  <2>4. least \in from /\ \A c \in from : least <= c
    BY <2>2
  <2>5. least = program_addr
    <3>. HIDE DEF from, least
    <3>1. least <= program_addr /\ program_addr <= least /\ least \in Nat /\ program_addr \in Nat
      BY <2>2, <2>3, <2>4
    <3> QED  BY <3>1
  <2>6. NextEffective(last) = least
    BY <2>1, InMemory DEF NextEffective
  <2> QED  BY <2>5, <2>6
<1> QED  BY <1>1, DeviceKept, PTL

\* The word that the queue hands out twice after a stall never reads what it writes
\* (GPPCU_TEST_QUEUE.v:106-121,162-163).
THEOREM RepeatsGiveTheSame == ASSUME AllPaced PROVE DeviceSpec => []RepeatsAreHarmless
<1>1. DeviceInv => RepeatsAreHarmless
  <2> SUFFICES ASSUME DeviceInv, Takes, program_addr = last PROVE ~SelfDependent(program)
    BY DEF RepeatsAreHarmless
  <2>1. /\ Feeding /\ pmem_head \in Nat /\ pmem_head >= 2 /\ Distances /\ program = W(program_addr)
        /\ ThisRound \/ RoundBegins
        /\ program_addr \in Effectives /\ Effectives \subseteq 0..Words-1
        /\ Words \in Nat /\ QDepth \in Nat /\ Words < QDepth
        /\ exec_fp => program_addr = pmem_head
        /\ ~exec_fp => program_addr = pmem_head - 1
    BY TakesInRun
  <2>2. CASE exec_fp
    <3>1. RoundBegins /\ pmem_head # 0
      BY <2>1, <2>2 DEF ThisRound
    <3>2. \A a \in Effectives : a >= last /\ a <= last
      BY <2>1, <3>1 DEF RoundBegins
    <3>3. PICK a \in Effectives, b \in Effectives : a # b
      BY <2>1, CountTypes
    <3> QED  BY <2>1, <3>2, <3>3
  <2>3. CASE ~exec_fp
    <3>1. Repeats
      BY <2>1, <2>3 DEF Distances, Follows
    <3> QED  BY <2>1, <2>3, <3>1 DEF Repeats, Sd
  <2> QED  BY <2>2, <2>3
<1> QED  BY <1>1, DeviceKept, PTL

\* The bubbles of the layout replace the scoreboard: with a paced program nothing is ever
\* held in decode for a register (gppcu.c:338-339).
THEOREM StallsAreSoftware == ASSUME AllPaced PROVE DeviceSpec => []SoftwareStalls
<1>1. DeviceInv => SoftwareStalls
  BY NeverHeld DEF SoftwareStalls
<1> QED  BY <1>1, DeviceKept, PTL

\* With a paced program every instruction leaves decode with final operands, also those
\* that the queue hands out again or early (GPPCU_CORE.v:71).
THEOREM OperandsFinal == ASSUME AllPaced PROVE DeviceSpec => [](IssueIsSafe /\ NoStrayMark)
<1>1. DeviceInv => IssueIsSafe /\ NoStrayMark
  <2> SUFFICES ASSUME DeviceInv PROVE IssueIsSafe /\ NoStrayMark
    OBVIOUS
  <2>1. OperandsKept /\ can_use_reg
    BY NeverHeld DEF DeviceInv
  <2> QED  BY <2>1 DEF OperandsKept, IssueIsSafe, NoStrayMark, exec_fp
<1> QED  BY <1>1, DeviceKept, PTL

\* When the processor sees the run done, every word of effect has been taken once per task
\* cycle (main.c:143-147, GPPCU_TEST_QUEUE.v:157-170).
THEOREM RunsTakeAll == ASSUME AllPaced PROVE DeviceSpec => []AllTaken
<1>1. DeviceInv => AllTaken
  <2> SUFFICES ASSUME DeviceInv, host_pc = "read"
               PROVE  steps = Cardinality({a \in 0..Len(job.program)-1 :
                                             Effective(job.program[a + 1])}) * job.cycles
    BY DEF AllTaken
  <2>1. RunKept /\ program_done /\ Configured /\ HostType
    BY DEF DeviceInv, QueueHostInv, Phases
  <2>2. cur_cycle_idx = job.cycles /\ pmem_head = 0 /\ job.cycles \in Nat
    BY <2>1, Jobs DEF RunKept, Configured
  <2>3. RoundBegins
    BY <2>2 DEF DeviceInv, CountKept, ThisRound, Effectives
  <2>4. \A a \in 0..Words-1 : W(a) = job.program[a + 1]
    BY DEF W, WordAt, Words
  <2>5. {a \in 0..Len(job.program)-1 : Effective(job.program[a + 1])} = Effectives
    BY <2>4 DEF Effectives, Ef, Words
  <2>6. Cardinality(Effectives) \in Nat
    BY <2>1, EffectivesFinite
  <2>7. steps = job.cycles * Cardinality(Effectives)
    BY <2>2, <2>3 DEF RoundBegins
  <2>8. job.cycles * Cardinality(Effectives) = Cardinality(Effectives) * job.cycles
    BY <2>2, <2>6
  <2> QED  BY <2>5, <2>7, <2>8
<1> QED  BY <1>1, DeviceKept, PTL

-----------------------------------------------------------------------------
(* What its parts promise by themselves, they promise in the device.       *)

\* The queue and the firmware keep their invariant in the device, whatever the programs and
\* whatever the core takes.
LEMMA QueueInDevice == DeviceSpec => []QueueHostInv
<1>1. DeviceInit => QueueHostInv
  BY QueueHostInitInv DEF DeviceInit
<1>2. QueueHostInv /\ [DeviceNext]_deviceVars => QueueHostInv'
  <2> SUFFICES ASSUME QueueHostInv, [DeviceNext]_deviceVars PROVE QueueHostInv'
    OBVIOUS
  <2>1. CASE DeviceHost
    BY <2>1, HostStepInv DEF DeviceHost
  <2>2. CASE DeviceClk
    <3>1. can_fetch \in BOOLEAN
      BY DEF can_fetch, data_stall_decode
    <3> QED  BY <2>2, <3>1, ClkInv DEF DeviceClk
  <2>3. CASE UNCHANGED deviceVars
    BY <2>3, QueueHostStepInv DEF deviceVars
  <2> QED  BY <2>1, <2>2, <2>3 DEF DeviceNext
<1> QED  BY <1>1, <1>2, PTL DEF DeviceSpec

\* A behaviour of the device is one of the core under a stream without resets
\* (GPPCU_TEST_QUEUE.v:106-121,199), so what holds of the core there holds of it here.
THEOREM DeviceRunsCore == DeviceSpec => RunSpec
<1>1. DeviceInit => Init
  BY DEF DeviceInit
<1>2. QueueHostInv /\ [DeviceNext]_deviceVars => [RunNext]_coreVars
  <2> SUFFICES ASSUME QueueHostInv, [DeviceNext]_deviceVars PROVE [RunNext]_coreVars
    OBVIOUS
  <2>1. CASE DeviceHost
    BY <2>1 DEF DeviceHost
  <2>2. CASE DeviceClk
    <3>1. program \in Instr /\ instr_valid \in BOOLEAN
      BY DeviceAssumption DEF QueueHostInv, QueueType, instr_valid
    <3> QED  BY <2>2, <3>1 DEF DeviceClk, RunNext
  <2>3. CASE UNCHANGED deviceVars
    BY <2>3 DEF deviceVars
  <2> QED  BY <2>1, <2>2, <2>3 DEF DeviceNext
<1> QED  BY <1>1, <1>2, QueueInDevice, PTL DEF DeviceSpec, RunSpec

\* In the device, too, a floating point machine takes the answer of its own operation only
\* (GPPCU_THREAD.v:174-200).
COROLLARY DeviceAnswersOwn == DeviceSpec => []FpDoneIsOwn
BY DeviceRunsCore, AnswersOwn, PTL

\* In the device, too, a run supplies its program once per task cycle, whatever the stalls
\* of the core and whatever the program (GPPCU_TEST_QUEUE.v:157-170,199).
THEOREM DeviceRunsComplete == DeviceSpec => [](RunComplete /\ OffsetFollowsCycle /\ BusSkew)
<1>1. QueueHostInv => RunComplete
  <2> SUFFICES ASSUME QueueHostInv, host_pc = "read"
               PROVE  taken \in {Len(job.program) * job.cycles,
                                 Len(job.program) * job.cycles + 1}
    BY DEF RunComplete
  <2>1. RunKept /\ program_done /\ HostType
    BY DEF QueueHostInv, Phases
  <2>2. Words \in Nat /\ job.cycles \in Nat
    BY <2>1, Jobs
  <2>3. job.cycles * Words = Words * job.cycles
    BY <2>2
  <2> QED  BY <2>1, <2>3 DEF RunKept, Words
<1>2. QueueHostInv => OffsetFollowsCycle /\ BusSkew
  BY DEF QueueHostInv, Phases, RunKept, OffsetFollowsCycle, Running, BusSkew, instr_valid,
     HostType, HostPc
<1> QED  BY <1>1, <1>2, QueueInDevice, PTL

-----------------------------------------------------------------------------
(* The layout of a program, as the queue holds it.                         *)

\* Where a block begins and what it brings.
LEMMA BlockAt ==
    ASSUME NEW prog \in Seq(SourceWord), NEW m \in Nat, NEW g, Laid(g, prog, m),
           NEW k \in 1..Len(prog)
    PROVE  /\ Len(g[k - 1]) \in Nat
           /\ Len(Block(prog[k])) \in Nat
           /\ Len(g[k]) = Len(g[k - 1]) + Len(Block(prog[k]))
           /\ Len(g[k]) <= Len(Layout(prog, m))
           /\ \A j \in 0..Len(Block(prog[k]))-1 :
                 WordAt(Layout(prog, m), Len(g[k - 1]) + j) = Block(prog[k])[j + 1]
<1>. DEFINE lay == Layout(prog, m)
            s == Len(g[k - 1])
            t == Block(prog[k])
<1>1. Placed(lay, s, t) /\ Len(g[k]) = s + Len(t)
  BY BlockPlaced
<1>. HIDE DEF s, t, lay
<1>2. /\ lay \in Seq(LaidWord) /\ s \in Nat /\ Len(t) \in Nat /\ s + Len(t) <= Len(lay)
      /\ \A j \in 1..Len(t) : lay[s + j] = t[j]
  BY <1>1 DEF Placed
<1>3. \A j \in 0..Len(t)-1 : WordAt(lay, s + j) = t[j + 1]
  <2> SUFFICES ASSUME NEW j \in 0..Len(t)-1 PROVE WordAt(lay, s + j) = t[j + 1]
    OBVIOUS
  <2>0. Len(lay) \in Nat /\ s \in Nat /\ Len(t) \in Nat /\ s + Len(t) <= Len(lay)
    BY <1>2
  <2>1. j + 1 \in 1..Len(t) /\ s + j + 1 = s + (j + 1) /\ s + j \in 0..Len(lay)-1
    BY <2>0
  <2>2. lay[s + (j + 1)] = t[j + 1]
    BY <1>2, <2>1
  <2>3. WordAt(lay, s + j) = lay[s + j + 1]
    BY <2>1 DEF WordAt
  <2> QED  BY <2>1, <2>2, <2>3
<1>4. Len(g[k]) <= Len(lay)
  BY <1>1, <1>2
<1> QED  BY <1>1, <1>2, <1>3, <1>4 DEF s, t, lay

\* The prologue is at the front.
LEMMA PrologueAt ==
    ASSUME NEW prog \in Seq(SourceWord), NEW m \in Nat, NEW g, Laid(g, prog, m)
    PROVE  /\ Len(g[0]) = 14 /\ Len(Layout(prog, m)) \in Nat /\ Len(Layout(prog, m)) >= 14
           /\ Len(Layout(prog, m)) = Len(g[Len(prog)])
           /\ \A a \in {0, 1, 3, 4, 6, 7, 9, 10, 12, 13} : WordAt(Layout(prog, m), a) = nop
           /\ \A a \in {2, 5, 8, 11} : WordAt(Layout(prog, m), a).op \in {"LDCI", "ADI"}
<1>. DEFINE lay == Layout(prog, m)
            pr == Prologue(m)
<1>0. Placed(lay, 0, pr) /\ Len(g[0]) = 14 /\ lay = g[Len(prog)]
  BY ProloguePlaced
<1>p. Len(pr) = 14
  BY PrologueIs
<1>. HIDE DEF lay, pr
<1>1. /\ Len(g[0]) = 14 /\ Len(lay) \in Nat /\ Len(lay) >= 14 /\ lay = g[Len(prog)]
      /\ \A i \in 1..14 : lay[i] = pr[i]
  <2>1. /\ lay \in Seq(LaidWord) /\ 0 + 14 <= Len(lay)
        /\ \A i \in 1..14 : lay[0 + i] = pr[i]
    BY <1>0, <1>p DEF Placed
  <2>2. \A i \in 1..14 : 0 + i = i
    OBVIOUS
  <2>3. \A i \in 1..14 : lay[i] = pr[i]
    BY <2>1, <2>2
  <2> QED  BY <1>0, <2>1, <2>3
<1>2. \A a \in 0..13 : WordAt(lay, a) = pr[a + 1]
  <2> SUFFICES ASSUME NEW a \in 0..13 PROVE WordAt(lay, a) = pr[a + 1]
    OBVIOUS
  <2>1. Len(lay) \in Nat /\ Len(lay) >= 14
    BY <1>1
  <2>2. a \in 0..Len(lay)-1 /\ a + 1 \in 1..14
    BY <2>1
  <2> QED  BY <1>1, <2>2 DEF WordAt
<1>3. \A a \in {0, 1, 3, 4, 6, 7, 9, 10, 12, 13} :
         a \in 0..13 /\ a + 1 \in {1, 2, 4, 5, 7, 8, 10, 11, 13, 14}
  OBVIOUS
<1>4. \A a \in {2, 5, 8, 11} : a \in 0..13 /\ a + 1 \in {3, 6, 9, 12}
  OBVIOUS
<1>5. \A a \in {0, 1, 3, 4, 6, 7, 9, 10, 12, 13} : WordAt(lay, a) = nop
  <2>1. \A k \in {1, 2, 4, 5, 7, 8, 10, 11, 13, 14} : pr[k] = nop
    BY PrologueIs DEF pr
  <2> QED  BY <1>2, <1>3, <2>1
<1>6. \A a \in {2, 5, 8, 11} : WordAt(lay, a).op \in {"LDCI", "ADI"}
  <2>1. \A k \in {3, 6, 9, 12} : pr[k].op \in {"LDCI", "ADI"}
    BY PrologueIs DEF pr
  <2> QED  BY <1>2, <1>4, <2>1
<1> QED  BY <1>1, <1>5, <1>6 DEF lay

\* Every other word is in a block.
LEMMA Covered ==
    ASSUME NEW prog \in Seq(SourceWord), NEW m \in Nat, NEW g, Laid(g, prog, m),
           NEW a \in Nat, a >= 14, a < Len(Layout(prog, m))
    PROVE  \E k \in 1..Len(prog) : \E j \in 0..Len(Block(prog[k]))-1 : a = Len(g[k - 1]) + j
<1>. DEFINE n == Len(prog)
            T == {k \in 0..n : a < Len(g[k])}
<1>1. n \in Nat
  OBVIOUS
<1>2. n \in T
  BY <1>1, PrologueAt
<1>3. PICK k \in T : \A l \in T : k <= l
  <2>1. T \subseteq Nat
    BY <1>1
  <2>. HIDE DEF T
  <2> QED  BY <1>2, <2>1, Least
<1>4. k # 0
  <2> SUFFICES ASSUME k = 0 PROVE FALSE
    OBVIOUS
  <2>1. a < Len(g[0])
    BY <1>3
  <2>2. Len(g[0]) = 14
    BY PrologueAt
  <2>3. a < 14
    BY <2>1, <2>2
  <2> QED  BY <2>3
<1>. HIDE DEF n
<1>5. k \in 1..n /\ k - 1 \in 0..n /\ ~(k <= k - 1)
  BY <1>1, <1>3, <1>4
<1>6. ~(a < Len(g[k - 1])) /\ a < Len(g[k])
  BY <1>3, <1>5
<1>7. /\ Len(g[k - 1]) \in Nat /\ Len(Block(prog[k])) \in Nat
      /\ Len(g[k]) = Len(g[k - 1]) + Len(Block(prog[k]))
  BY <1>5, BlockAt DEF n
<1>. DEFINE s == Len(g[k - 1])
            t == Len(Block(prog[k]))
<1>8. \E j \in 0..t-1 : a = s + j
  <2>1. s \in Nat /\ t \in Nat /\ ~(a < s) /\ a < s + t
    BY <1>6, <1>7
  <2>. HIDE DEF s, t
  <2>2. a - s \in 0..t-1 /\ a = s + (a - s)
    BY <2>1
  <2> QED  BY <2>2
<1> QED  BY <1>5, <1>8 DEF n

-----------------------------------------------------------------------------
(* A laid out program is paced.                                            *)

\* The bank of lane p.
Lane(p) == p * 10 .. p * 10 + 9

LEMMA OnBankStays ==
    ASSUME NEW i \in SourceWord, NEW p \in 0..2
    PROVE  /\ Sources(OnBank(i, p)) \subseteq Lane(p)
           /\ Writes(TRUE, OnBank(i, p)) \subseteq Lane(p)
           /\ FpOp(OnBank(i, p)) <=> FpOp(i)
           /\ SelfDependent(OnBank(i, p)) <=> SelfDependent(i)
<1>. DEFINE w == OnBank(i, p)
<1>1. /\ w.op = i.op
      /\ w.rd = IF i.op \in instr_useregd THEN i.rd + p * 10 ELSE i.rd
      /\ w.ra = IF i.op \in instr_userega THEN i.ra + p * 10 ELSE i.ra
      /\ w.rb = IF i.op \in instr_useregb THEN i.rb + p * 10 ELSE i.rb
  BY OnBankIs
<1>2. i.rd \in 0..9 /\ i.ra \in 0..9 /\ i.rb \in 0..9 /\ i.op \in Opcode
  <2>1. Bank = 0..9
    BY Numbers DEF Bank
  <2> QED  BY <2>1 DEF SourceWord
<1>3. CW_USEREGA \subseteq instr_userega /\ CW_USEREGB = instr_useregb /\ CW_REGWR = instr_useregd
  BY DEF CW_USEREGA, CW_USEREGB, CW_REGWR, instr_useregd, instr_userega, instr_useregb
<1>. HIDE DEF w
<1>4. /\ i.op \in CW_USEREGA => w.ra = i.ra + p * 10
      /\ i.op \in CW_USEREGB => w.rb = i.rb + p * 10
      /\ i.op \in CW_REGWR => w.rd = i.rd + p * 10
  BY <1>1, <1>3
<1>. DEFINE d == i.rd + p * 10
            a == i.ra + p * 10
            b == i.rb + p * 10
<1>5. d \in Lane(p) /\ a \in Lane(p) /\ b \in Lane(p)
  BY <1>2 DEF Lane
<1>6. (d = a <=> i.rd = i.ra) /\ (d = b <=> i.rd = i.rb)
  <2>1. i.rd \in Int /\ i.ra \in Int /\ i.rb \in Int /\ p * 10 \in Int
    BY <1>2
  <2> QED  BY <2>1
<1>. HIDE DEF d, a, b
<1>7. /\ i.op \in CW_USEREGA => w.ra = a
      /\ i.op \in CW_USEREGB => w.rb = b
      /\ i.op \in CW_REGWR => w.rd = d
  BY <1>4 DEF a, b, d
<1>8. Sources(w) = {r \in {a} : i.op \in CW_USEREGA} \cup {r \in {b} : i.op \in CW_USEREGB}
  BY <1>1, <1>7 DEF Sources
<1>9. Writes(TRUE, w) = {r \in {d} : i.op \in CW_REGWR}
  BY <1>1, <1>7 DEF Writes, RegWr
<1>10. SelfDependent(w) <=> SelfDependent(i)
  <2>1. SelfDependent(w) <=> i.op \in CW_REGWR /\ d \in Sources(w)
    BY <1>1, <1>7 DEF SelfDependent, RegWr
  <2>2. d \in Sources(w) <=> (d = a /\ i.op \in CW_USEREGA) \/ (d = b /\ i.op \in CW_USEREGB)
    BY <1>8
  <2>3. SelfDependent(i) <=> i.op \in CW_REGWR /\ i.rd \in Sources(i)
    BY DEF SelfDependent, RegWr
  <2>4. i.rd \in Sources(i) <=> \/ i.rd = i.ra /\ i.op \in CW_USEREGA
                                \/ i.rd = i.rb /\ i.op \in CW_USEREGB
    BY DEF Sources
  <2> QED  BY <1>6, <2>1, <2>2, <2>3, <2>4
<1>11. FpOp(w) <=> FpOp(i)
  BY <1>1 DEF FpOp
<1> QED  BY <1>5, <1>8, <1>9, <1>10, <1>11 DEF w

\* Two lanes share no register.
LEMMA LanesFree ==
    ASSUME NEW i \in SourceWord, NEW p \in 0..2, NEW u \in SourceWord, NEW q \in 0..2, p # q
    PROVE  Free(OnBank(i, p), OnBank(u, q))
<1>1. Lane(p) \cap Lane(q) = {}
  <2> SUFFICES ASSUME NEW r \in Lane(p), r \in Lane(q) PROVE FALSE
    OBVIOUS
  <2> QED  BY DEF Lane
<1> QED  BY <1>1, OnBankStays DEF Free

\* What a word without effect takes and gives.
LEMMA NopFree ==
    ASSUME NEW w, ~Effective(w)
    PROVE  ~FpOp(w) /\ ~SelfDependent(w) /\ \A u : Free(w, u) /\ Free(u, w)
BY Quiet DEF Free

\* The words from s to e are the block of instruction i.
IsBlock(lay, i, s, e) ==
    /\ i.op = "NOP" => e = s + 1 /\ WordAt(lay, s) = nop
    /\ i.op # "NOP" =>
          /\ WordAt(lay, s) = OnBank(i, 0)
          /\ WordAt(lay, s + 1) = OnBank(i, 1)
          /\ WordAt(lay, s + 2) = OnBank(i, 2)
          /\ WordAt(lay, s + 3) = nop
          /\ ~FpOp(i) => e = s + 4
          /\ FpOp(i) => e = s + 5 /\ WordAt(lay, s + 4) = nop

LEMMA BlockWords ==
    ASSUME NEW prog \in Seq(SourceWord), NEW m \in Nat, NEW g, Laid(g, prog, m),
           NEW k \in 1..Len(prog)
    PROVE  /\ Len(g[k - 1]) \in Nat /\ Len(g[k]) <= Len(Layout(prog, m))
           /\ IsBlock(Layout(prog, m), prog[k], Len(g[k - 1]), Len(g[k]))
<1>. DEFINE s == Len(g[k - 1])
            t == Block(prog[k])
            lay == Layout(prog, m)
<1>1. /\ s \in Nat /\ Len(g[k]) = s + Len(t) /\ Len(g[k]) <= Len(lay)
      /\ \A j \in 0..Len(t)-1 : WordAt(lay, s + j) = t[j + 1]
  BY BlockAt
<1>2. prog[k] \in SourceWord
  OBVIOUS
<1>3. /\ prog[k].op = "NOP" => Len(t) = 1 /\ t[1] = nop
      /\ prog[k].op # "NOP" => /\ Len(t) = IF FpOp(prog[k]) THEN 5 ELSE 4
                               /\ \A i \in 1..3 : t[i] = OnBank(prog[k], i - 1)
                               /\ t[4] = nop
                               /\ FpOp(prog[k]) => t[5] = nop
  BY <1>2, BlockIs
<1>. HIDE DEF s, t, lay
<1>4. CASE prog[k].op = "NOP"
  <2>0. Len(t) = 1 /\ t[1] = nop
    BY <1>3, <1>4
  <2>1. 0 \in 0..Len(t)-1 /\ s + 0 = s /\ 0 + 1 = 1
    BY <1>1, <2>0
  <2>2. WordAt(lay, s) = nop /\ Len(g[k]) = s + 1
    <3>1. WordAt(lay, s + 0) = t[0 + 1]
      BY <1>1, <2>1
    <3> QED  BY <1>1, <2>0, <2>1, <3>1
  <2> QED  BY <1>1, <1>4, <2>2 DEF s, lay, IsBlock
<1>5. CASE prog[k].op # "NOP"
  <2>1. Len(t) = IF FpOp(prog[k]) THEN 5 ELSE 4
    BY <1>3, <1>5
  <2>2. t[1] = OnBank(prog[k], 0) /\ t[2] = OnBank(prog[k], 1) /\ t[3] = OnBank(prog[k], 2)
    <3>1. \A i \in 1..3 : t[i] = OnBank(prog[k], i - 1)
      BY <1>3, <1>5
    <3>2. 1 - 1 = 0 /\ 2 - 1 = 1 /\ 3 - 1 = 2
      OBVIOUS
    <3>3. t[1] = OnBank(prog[k], 1 - 1) /\ t[2] = OnBank(prog[k], 2 - 1) /\ t[3] = OnBank(prog[k], 3 - 1)
      BY <3>1
    <3> QED  BY <3>2, <3>3
  <2>3. t[4] = nop /\ (FpOp(prog[k]) => t[5] = nop)
    BY <1>3, <1>5
  <2>4. /\ 0 \in 0..Len(t)-1 /\ 1 \in 0..Len(t)-1 /\ 2 \in 0..Len(t)-1 /\ 3 \in 0..Len(t)-1
        /\ FpOp(prog[k]) => 4 \in 0..Len(t)-1
    BY <2>1
  <2>5. /\ WordAt(lay, s + 0) = t[0 + 1] /\ WordAt(lay, s + 1) = t[1 + 1]
        /\ WordAt(lay, s + 2) = t[2 + 1] /\ WordAt(lay, s + 3) = t[3 + 1]
        /\ FpOp(prog[k]) => WordAt(lay, s + 4) = t[4 + 1]
    BY <1>1, <2>4
  <2>6. s + 0 = s /\ 0 + 1 = 1 /\ 1 + 1 = 2 /\ 2 + 1 = 3 /\ 3 + 1 = 4 /\ 4 + 1 = 5
    BY <1>1
  <2>7. /\ WordAt(lay, s) = OnBank(prog[k], 0) /\ WordAt(lay, s + 1) = OnBank(prog[k], 1)
        /\ WordAt(lay, s + 2) = OnBank(prog[k], 2) /\ WordAt(lay, s + 3) = nop
        /\ FpOp(prog[k]) => WordAt(lay, s + 4) = nop
    BY <2>2, <2>3, <2>5, <2>6
  <2>8. /\ ~FpOp(prog[k]) => Len(g[k]) = s + 4
        /\ FpOp(prog[k]) => Len(g[k]) = s + 5
    BY <1>1, <2>1
  <2> QED  BY <1>1, <1>5, <2>7, <2>8 DEF s, lay, IsBlock
<1> QED  BY <1>4, <1>5

\* Before the end of a block: a NOP, and before it none of the words of lane 0.
LEMMA BeforeEnd ==
    ASSUME NEW prog \in Seq(SourceWord), NEW m \in Nat, NEW g, Laid(g, prog, m)
    PROVE  \A k \in 0..Len(prog) :
              /\ Len(g[k]) \in Nat /\ Len(g[k]) >= 14
              /\ WordAt(Layout(prog, m), Len(g[k]) - 1) = nop
              /\ \/ WordAt(Layout(prog, m), Len(g[k]) - 2) = nop
                 \/ \E u \in SourceWord : WordAt(Layout(prog, m), Len(g[k]) - 2) = OnBank(u, 2)
<1>. DEFINE n == Len(prog)
            lay == Layout(prog, m)
            Ok(k) == /\ Len(g[k]) \in Nat /\ Len(g[k]) >= 14
                     /\ WordAt(lay, Len(g[k]) - 1) = nop
                     /\ \/ WordAt(lay, Len(g[k]) - 2) = nop
                        \/ \E u \in SourceWord : WordAt(lay, Len(g[k]) - 2) = OnBank(u, 2)
            Bad == {k \in 0..n : ~Ok(k)}
<1>1. n \in Nat
  OBVIOUS
<1>2. Ok(0)
  <2>1. Len(g[0]) = 14 /\ WordAt(lay, 13) = nop /\ WordAt(lay, 12) = nop
    BY PrologueAt
  <2>2. 14 - 1 = 13 /\ 14 - 2 = 12 /\ 14 \in Nat /\ 14 >= 14
    OBVIOUS
  <2> QED  BY <2>1, <2>2
<1>3. ASSUME NEW k \in 1..n, Ok(k - 1) PROVE Ok(k)
  <2>. DEFINE e == Len(g[k])
              s == Len(g[k - 1])
  <2>1. s \in Nat /\ IsBlock(lay, prog[k], s, e)
    BY BlockWords
  <2>2. s >= 14 /\ WordAt(lay, s - 1) = nop
    BY <1>3
  <2>3. prog[k] \in SourceWord
    OBVIOUS
  <2>. HIDE DEF n, lay, e, s
  <2>4. e \in Nat /\ e >= 14
    BY <2>1, <2>2 DEF IsBlock
  <2>5. CASE prog[k].op = "NOP"
    <3>1. e - 1 = s /\ e - 2 = s - 1
      BY <2>1, <2>5 DEF IsBlock
    <3> QED  BY <2>1, <2>2, <2>4, <2>5, <3>1 DEF e, IsBlock
  <2>6. CASE prog[k].op # "NOP" /\ ~FpOp(prog[k])
    <3>1. e - 1 = s + 3 /\ e - 2 = s + 2
      BY <2>1, <2>6 DEF IsBlock
    <3> QED  BY <2>1, <2>3, <2>4, <2>6, <3>1 DEF e, IsBlock
  <2>7. CASE prog[k].op # "NOP" /\ FpOp(prog[k])
    <3>1. e - 1 = s + 4 /\ e - 2 = s + 3
      BY <2>1, <2>7 DEF IsBlock
    <3> QED  BY <2>1, <2>4, <2>7, <3>1 DEF e, IsBlock
  <2> QED  BY <2>5, <2>6, <2>7
<1>4. Bad = {}
  <2> SUFFICES ASSUME Bad # {} PROVE FALSE
    OBVIOUS
  <2>1. PICK k \in Bad : \A l \in Bad : k <= l
    <3>1. Bad \subseteq Nat
      BY <1>1
    <3>. HIDE DEF Bad
    <3> QED  BY <3>1, Least
  <2>. HIDE DEF Ok, n
  <2>2. k \in 0..n /\ ~Ok(k) /\ k # 0
    BY <1>2, <2>1
  <2>3. k \in 1..n /\ k - 1 \in 0..n /\ ~(k <= k - 1)
    BY <1>1, <2>2
  <2> QED  BY <1>3, <2>1, <2>2, <2>3
<1> QED  BY <1>4

\* Behind the block of a floating point operation.
LEMMA BehindFp ==
    ASSUME NEW prog \in Seq(SourceWord), NEW m \in Nat, NEW g, Laid(g, prog, m), Fit(prog),
           NEW k \in 1..Len(prog), FpOp(prog[k])
    PROVE  /\ ~FpOp(WordAt(Layout(prog, m), Len(g[k])))
           /\ ~FpOp(WordAt(Layout(prog, m), Len(g[k]) + 1))
           /\ ~SelfDependent(WordAt(Layout(prog, m), Len(g[k]) + 1))
           /\ Free(WordAt(Layout(prog, m), Len(g[k])), OnBank(prog[k], 2))
<1>. DEFINE n == Len(prog)
            lay == Layout(prog, m)
            e == Len(g[k])
            plain(i) == i <= n => ~FpOp(prog[i]) /\ ~SelfDependent(prog[i])
<1>1. n \in Nat /\ k \in 1..n /\ \A i \in 1..n : prog[i] \in SourceWord
  OBVIOUS
<1>2. plain(k + 1) /\ (k < n /\ prog[k + 1].op = "NOP" => plain(k + 2))
  BY DEF Fit
<1>3. e \in Nat /\ Len(lay) = Len(g[n]) /\ Len(lay) \in Nat
  <2>1. k \in 0..n
    OBVIOUS
  <2> QED  BY <2>1, BeforeEnd, PrologueAt
<1>4. \A i \in 1..n-1 : /\ Len(g[i]) \in Nat
                        /\ IsBlock(lay, prog[i + 1], Len(g[i]), Len(g[i + 1]))
  <2> SUFFICES ASSUME NEW i \in 1..n-1
               PROVE  Len(g[i]) \in Nat /\ IsBlock(lay, prog[i + 1], Len(g[i]), Len(g[i + 1]))
    OBVIOUS
  <2>1. i + 1 \in 1..n /\ i + 1 - 1 = i
    OBVIOUS
  <2>2. /\ Len(g[i + 1 - 1]) \in Nat
        /\ IsBlock(lay, prog[i + 1], Len(g[i + 1 - 1]), Len(g[i + 1]))
    <3>1. \A q \in 1..n : Len(g[q - 1]) \in Nat /\ IsBlock(lay, prog[q], Len(g[q - 1]), Len(g[q]))
      BY BlockWords
    <3>. HIDE DEF n, lay
    <3> QED  BY <2>1, <3>1
  <2>. HIDE DEF n, lay
  <2> QED  BY <2>1, <2>2
<1>5. \A a \in Nat : a >= Len(lay) => ~Effective(WordAt(lay, a))
  <2> SUFFICES ASSUME NEW a \in Nat, a >= Len(lay) PROVE ~Effective(WordAt(lay, a))
    OBVIOUS
  <2>. HIDE DEF lay
  <2>1. a \notin 0..Len(lay)-1
    BY <1>3
  <2> QED  BY <2>1, DeviceAssumption DEF WordAt
<1>6. ~Effective(nop)
  BY NopLaid DEF Effective
<1>7. \A i \in SourceWord : Free(OnBank(i, 0), OnBank(prog[k], 2))
  <2>1. 0 \in 0..2 /\ 2 \in 0..2 /\ 0 # 2 /\ prog[k] \in SourceWord
    BY <1>1
  <2> QED  BY <2>1, LanesFree
<1>8. \A i \in SourceWord, p \in 0..2 : /\ FpOp(OnBank(i, p)) <=> FpOp(i)
                                        /\ SelfDependent(OnBank(i, p)) <=> SelfDependent(i)
  BY OnBankStays
<1>. HIDE DEF n, lay
<1>9. CASE k = n
  <2>1. e = Len(lay) /\ e + 1 \in Nat /\ e + 1 >= Len(lay) /\ e >= Len(lay)
    BY <1>3, <1>9
  <2>2. ~Effective(WordAt(lay, e)) /\ ~Effective(WordAt(lay, e + 1))
    BY <1>3, <1>5, <2>1
  <2> QED  BY <2>2, NopFree DEF lay
<1>10. CASE k < n
  <2>1. k \in 1..n-1 /\ k + 1 \in 1..n /\ k + 1 <= n
    BY <1>1, <1>10
  <2>2. IsBlock(lay, prog[k + 1], e, Len(g[k + 1]))
    BY <1>4, <2>1
  <2>3. ~FpOp(prog[k + 1]) /\ ~SelfDependent(prog[k + 1]) /\ prog[k + 1] \in SourceWord
    BY <1>1, <1>2, <2>1
  <2>4. CASE prog[k + 1].op = "NOP"
    <3>1. WordAt(lay, e) = nop /\ Len(g[k + 1]) = e + 1
      BY <2>2, <2>4 DEF IsBlock
    <3>2. ~FpOp(WordAt(lay, e)) /\ Free(WordAt(lay, e), OnBank(prog[k], 2))
      BY <1>6, <3>1, NopFree
    <3>3. plain(k + 2)
      BY <1>2, <1>10, <2>4
    <3>4. ~FpOp(WordAt(lay, e + 1)) /\ ~SelfDependent(WordAt(lay, e + 1))
      <4>1. CASE k + 1 = n
        <5>1. e + 1 = Len(lay) /\ e + 1 \in Nat /\ e + 1 >= Len(lay)
          BY <1>3, <3>1, <4>1
        <5>2. ~Effective(WordAt(lay, e + 1))
          BY <1>5, <5>1
        <5> QED  BY <5>2, NopFree
      <4>2. CASE k + 1 # n
        <5>1. k + 1 \in 1..n-1 /\ k + 2 \in 1..n /\ k + 2 <= n /\ k + 1 + 1 = k + 2
          BY <1>1, <2>1, <4>2
        <5>2. IsBlock(lay, prog[k + 2], Len(g[k + 1]), Len(g[k + 2]))
          <6>1. IsBlock(lay, prog[k + 1 + 1], Len(g[k + 1]), Len(g[k + 1 + 1]))
            BY <1>4, <5>1
          <6> QED  BY <5>1, <6>1
        <5>3. WordAt(lay, e + 1) = nop \/ WordAt(lay, e + 1) = OnBank(prog[k + 2], 0)
          BY <3>1, <5>2 DEF IsBlock
        <5>4. ~FpOp(prog[k + 2]) /\ ~SelfDependent(prog[k + 2]) /\ prog[k + 2] \in SourceWord
          BY <1>1, <3>3, <5>1
        <5>5. CASE WordAt(lay, e + 1) = nop
          BY <1>6, <5>5, NopFree
        <5>6. CASE WordAt(lay, e + 1) = OnBank(prog[k + 2], 0)
          <6>1. 0 \in 0..2
            OBVIOUS
          <6> QED  BY <1>8, <5>4, <5>6, <6>1
        <5> QED  BY <5>3, <5>5, <5>6
      <4> QED  BY <4>1, <4>2
    <3> QED  BY <3>2, <3>4 DEF lay
  <2>5. CASE prog[k + 1].op # "NOP"
    <3>1. WordAt(lay, e) = OnBank(prog[k + 1], 0) /\ WordAt(lay, e + 1) = OnBank(prog[k + 1], 1)
      BY <2>2, <2>5 DEF IsBlock
    <3>2. 0 \in 0..2 /\ 1 \in 0..2
      OBVIOUS
    <3>3. /\ ~FpOp(OnBank(prog[k + 1], 0)) /\ ~FpOp(OnBank(prog[k + 1], 1))
          /\ ~SelfDependent(OnBank(prog[k + 1], 1))
      BY <1>8, <2>3, <3>2
    <3>4. Free(OnBank(prog[k + 1], 0), OnBank(prog[k], 2))
      BY <1>7, <2>3
    <3> QED  BY <3>1, <3>3, <3>4 DEF lay
  <2> QED  BY <2>4, <2>5
<1> QED  BY <1>1, <1>9, <1>10

\* What Paced asks of the word at address a.
PacedAt(p, a) ==
    /\ Free(WordAt(p, a), WordAt(p, a - 1)) /\ Free(WordAt(p, a), WordAt(p, a - 2))
    /\ FpOp(WordAt(p, a)) =>
          /\ ~FpOp(WordAt(p, a - 1)) => ~Effective(WordAt(p, a + 3))
          /\ ~FpOp(WordAt(p, a + 1)) => ~SelfDependent(WordAt(p, a + 4))
          /\ ~FpOp(WordAt(p, a + 4)) /\ Free(WordAt(p, a + 4), WordAt(p, a + 1))
          /\ ~SelfDependent(WordAt(p, a + 1))
          /\ FpOp(WordAt(p, a + 2)) => ~SelfDependent(WordAt(p, a + 4))
          /\ a + 2 < Len(p)

LEMMA PacedBy ==
    ASSUME NEW p,
           ~Effective(WordAt(p, 0)), ~Effective(WordAt(p, 1)), ~Effective(WordAt(p, Len(p) - 1)),
           \E a, b \in 0..Len(p)-1 :
              a # b /\ Effective(WordAt(p, a)) /\ Effective(WordAt(p, b)),
           \A a \in 0..Len(p)-1 : PacedAt(p, a)
    PROVE  Paced(p)
BY Zenon DEF Paced, PacedAt

LEMMA PacedInBlock ==
    ASSUME NEW prog \in Seq(SourceWord), NEW m \in Nat, NEW g, Laid(g, prog, m), Fit(prog),
           NEW k \in 1..Len(prog), NEW j \in 0..Len(Block(prog[k]))-1
    PROVE  PacedAt(Layout(prog, m), Len(g[k - 1]) + j)
<1>. DEFINE lay == Layout(prog, m)
            s == Len(g[k - 1])
            e == Len(g[k])
            i == prog[k]
            len == Len(Block(prog[k]))
<1>1. i \in SourceWord
  OBVIOUS
<1>2. /\ s \in Nat /\ e <= Len(lay) /\ IsBlock(lay, i, s, e) /\ e = s + len /\ len \in Nat
      /\ Len(lay) \in Nat
  <2>1. s \in Nat /\ e <= Len(lay) /\ IsBlock(lay, i, s, e)
    BY BlockWords
  <2>2. e = s + len /\ len \in Nat
    BY BlockAt
  <2>3. Len(lay) \in Nat
    BY PrologueAt
  <2> QED  BY <2>1, <2>2, <2>3
<1>3. /\ WordAt(lay, s - 1) = nop
      /\ WordAt(lay, s - 2) = nop \/ \E u \in SourceWord : WordAt(lay, s - 2) = OnBank(u, 2)
  <2>1. k - 1 \in 0..Len(prog)
    OBVIOUS
  <2> QED  BY <2>1, BeforeEnd
<1>4. FpOp(i) => /\ ~FpOp(WordAt(lay, e)) /\ ~FpOp(WordAt(lay, e + 1))
                 /\ ~SelfDependent(WordAt(lay, e + 1))
                 /\ Free(WordAt(lay, e), OnBank(i, 2))
                 /\ ~SelfDependent(i)
  <2> SUFFICES ASSUME FpOp(i)
               PROVE  /\ ~FpOp(WordAt(lay, e)) /\ ~FpOp(WordAt(lay, e + 1))
                      /\ ~SelfDependent(WordAt(lay, e + 1))
                      /\ Free(WordAt(lay, e), OnBank(i, 2))
                      /\ ~SelfDependent(i)
    OBVIOUS
  <2>1. ~SelfDependent(i)
    BY DEF Fit
  <2> QED  BY <2>1, BehindFp
<1>5. ~Effective(nop)
  BY NopLaid DEF Effective
<1>6. FpOp(i) => i.op # "NOP"
  BY DEF FpOp, CW_FPOP
<1>7. /\ FpOp(OnBank(i, 0)) <=> FpOp(i)
      /\ FpOp(OnBank(i, 1)) <=> FpOp(i)
      /\ FpOp(OnBank(i, 2)) <=> FpOp(i)
      /\ SelfDependent(OnBank(i, 1)) <=> SelfDependent(i)
      /\ SelfDependent(OnBank(i, 2)) <=> SelfDependent(i)
  <2>1. 0 \in 0..2 /\ 1 \in 0..2 /\ 2 \in 0..2
    OBVIOUS
  <2>2. \A p \in 0..2 : /\ FpOp(OnBank(i, p)) <=> FpOp(i)
                        /\ SelfDependent(OnBank(i, p)) <=> SelfDependent(i)
    BY <1>1, OnBankStays
  <2>. HIDE DEF i
  <2> QED  BY <2>1, <2>2
<1>8. /\ \A u \in SourceWord : Free(OnBank(i, 0), OnBank(u, 2))
      /\ Free(OnBank(i, 1), OnBank(i, 0)) /\ Free(OnBank(i, 2), OnBank(i, 1))
      /\ Free(OnBank(i, 2), OnBank(i, 0))
  <2>1. 0 \in 0..2 /\ 1 \in 0..2 /\ 2 \in 0..2 /\ 0 # 2 /\ 1 # 0 /\ 2 # 1 /\ 2 # 0
    OBVIOUS
  <2>. HIDE DEF i
  <2> QED  BY <1>1, <2>1, LanesFree
<1>. HIDE DEF lay, s, e, i, len
<1>9. \A a \in Int : WordAt(lay, a) = nop => PacedAt(lay, a)
  BY <1>5, NopFree DEF PacedAt
<1>10. CASE i.op = "NOP"
  <2>1. s + j = s /\ WordAt(lay, s) = nop
    BY <1>2, <1>10 DEF IsBlock, len
  <2> QED  BY <1>2, <1>9, <2>1 DEF lay, s
<1>11. CASE i.op # "NOP"
  <2>1. /\ WordAt(lay, s) = OnBank(i, 0) /\ WordAt(lay, s + 1) = OnBank(i, 1)
        /\ WordAt(lay, s + 2) = OnBank(i, 2) /\ WordAt(lay, s + 3) = nop
        /\ FpOp(i) => WordAt(lay, s + 4) = nop /\ e = s + 5
        /\ ~FpOp(i) => e = s + 4
    BY <1>2, <1>11 DEF IsBlock
  <2>2. j \in 0..4 /\ (~FpOp(i) => j # 4)
    <3>1. j \in 0..len-1
      BY DEF len
    <3>2. len = IF FpOp(i) THEN 5 ELSE 4
      BY <1>2, <2>1
    <3> QED  BY <3>1, <3>2
  <2>3. FpOp(i) => /\ e + 1 = s + 6 /\ s + 4 < Len(lay)
    BY <1>2, <2>1
  <2>4. PacedAt(lay, s)
    <3>1. Free(WordAt(lay, s), WordAt(lay, s - 1))
      BY <1>3, <1>5, NopFree
    <3>2. Free(WordAt(lay, s), WordAt(lay, s - 2))
      BY <1>3, <1>5, <1>8, <2>1, NopFree
    <3>3. FpOp(i) => /\ ~Effective(WordAt(lay, s + 3)) /\ ~Effective(WordAt(lay, s + 4))
                     /\ FpOp(WordAt(lay, s + 1)) /\ ~SelfDependent(WordAt(lay, s + 1))
                     /\ s + 2 < Len(lay)
      BY <1>2, <1>4, <1>5, <1>7, <2>1, <2>3
    <3>4. FpOp(WordAt(lay, s)) <=> FpOp(i)
      BY <1>7, <2>1
    <3> QED  BY <3>1, <3>2, <3>3, <3>4, NopFree DEF PacedAt
  <2>5. PacedAt(lay, s + 1)
    <3>. DEFINE a == s + 1
    <3>0. /\ a - 1 = s /\ a - 2 = s - 1 /\ a = s + 1 /\ a + 1 = s + 2 /\ a + 2 = s + 3
          /\ a + 4 = s + 5
      BY <1>2
    <3>. HIDE DEF a
    <3>1. Free(WordAt(lay, s + 1), WordAt(lay, s)) /\ Free(WordAt(lay, s + 1), WordAt(lay, s - 1))
      BY <1>3, <1>5, <1>8, <2>1, NopFree
    <3>2. FpOp(i) => /\ FpOp(WordAt(lay, s)) /\ FpOp(WordAt(lay, s + 2))
                     /\ ~SelfDependent(WordAt(lay, s + 2)) /\ ~FpOp(WordAt(lay, s + 3))
                     /\ ~FpOp(WordAt(lay, s + 5))
                     /\ Free(WordAt(lay, s + 5), WordAt(lay, s + 2))
                     /\ s + 3 < Len(lay)
      <4>1. ~FpOp(nop)
        BY <1>5, NopFree
      <4>2. FpOp(i) => s + 3 < Len(lay)
        BY <1>2, <2>3
      <4> QED  BY <1>4, <1>7, <2>1, <4>1, <4>2
    <3>3. FpOp(WordAt(lay, s + 1)) <=> FpOp(i)
      BY <1>7, <2>1
    <3>4. Free(WordAt(lay, a), WordAt(lay, a - 1)) /\ Free(WordAt(lay, a), WordAt(lay, a - 2))
      BY <3>0, <3>1
    <3>5. FpOp(i) => /\ FpOp(WordAt(lay, a - 1)) /\ FpOp(WordAt(lay, a + 1))
                     /\ ~SelfDependent(WordAt(lay, a + 1)) /\ ~FpOp(WordAt(lay, a + 2))
                     /\ ~FpOp(WordAt(lay, a + 4))
                     /\ Free(WordAt(lay, a + 4), WordAt(lay, a + 1))
                     /\ a + 2 < Len(lay)
      BY <3>0, <3>2
    <3>6. FpOp(WordAt(lay, a)) <=> FpOp(i)
      BY <3>0, <3>3
    <3>7. PacedAt(lay, a)
      BY <3>4, <3>5, <3>6 DEF PacedAt
    <3> QED  BY <3>7 DEF a
  <2>6. PacedAt(lay, s + 2)
    <3>. DEFINE a == s + 2
    <3>0. /\ a - 1 = s + 1 /\ a - 2 = s /\ a = s + 2 /\ a + 1 = s + 3 /\ a + 2 = s + 4
          /\ a + 4 = s + 6
      BY <1>2
    <3>. HIDE DEF a
    <3>1. Free(WordAt(lay, s + 2), WordAt(lay, s + 1)) /\ Free(WordAt(lay, s + 2), WordAt(lay, s))
      BY <1>8, <2>1
    <3>2. FpOp(i) => /\ FpOp(WordAt(lay, s + 1))
                     /\ ~SelfDependent(WordAt(lay, s + 3))
                     /\ ~FpOp(WordAt(lay, s + 6)) /\ ~SelfDependent(WordAt(lay, s + 6))
                     /\ Free(WordAt(lay, s + 6), WordAt(lay, s + 3))
                     /\ s + 4 < Len(lay)
      <4>1. ~SelfDependent(nop) /\ \A u : Free(u, nop)
        BY <1>5, NopFree
      <4> QED  BY <1>4, <1>7, <2>1, <2>3, <4>1
    <3>3. FpOp(WordAt(lay, s + 2)) <=> FpOp(i)
      BY <1>7, <2>1
    <3>4. Free(WordAt(lay, a), WordAt(lay, a - 1)) /\ Free(WordAt(lay, a), WordAt(lay, a - 2))
      BY <3>0, <3>1
    <3>5. FpOp(i) => /\ FpOp(WordAt(lay, a - 1))
                     /\ ~SelfDependent(WordAt(lay, a + 1))
                     /\ ~FpOp(WordAt(lay, a + 4)) /\ ~SelfDependent(WordAt(lay, a + 4))
                     /\ Free(WordAt(lay, a + 4), WordAt(lay, a + 1))
                     /\ a + 2 < Len(lay)
      BY <3>0, <3>2
    <3>6. FpOp(WordAt(lay, a)) <=> FpOp(i)
      BY <3>0, <3>3
    <3>7. PacedAt(lay, a)
      BY <3>4, <3>5, <3>6 DEF PacedAt
    <3> QED  BY <3>7 DEF a
  <2>7. PacedAt(lay, s + 3) /\ (FpOp(i) => PacedAt(lay, s + 4))
    <3>1. s + 3 \in Int /\ s + 4 \in Int
      BY <1>2
    <3> QED  BY <1>9, <2>1, <3>1
  <2>8. j = 0 \/ j = 1 \/ j = 2 \/ j = 3 \/ j = 4
    BY <2>2
  <2>9. s + 0 = s
    BY <1>2
  <2>10. PacedAt(lay, s + j)
    BY <2>2, <2>4, <2>5, <2>6, <2>7, <2>8, <2>9
  <2> QED  BY <2>10 DEF lay, s
<1> QED  BY <1>10, <1>11

LEMMA PacedInPrologue ==
    ASSUME NEW prog \in Seq(SourceWord), NEW m \in Nat, NEW g, Laid(g, prog, m), NEW a \in 0..13
    PROVE  PacedAt(Layout(prog, m), a)
<1>. DEFINE lay == Layout(prog, m)
<1>1. ~Effective(nop)
  BY NopLaid DEF Effective
<1>2. /\ \A b \in {0, 1, 3, 4, 6, 7, 9, 10, 12, 13} : WordAt(lay, b) = nop
      /\ \A b \in {2, 5, 8, 11} : WordAt(lay, b).op \in {"LDCI", "ADI"}
  BY PrologueAt
<1>. HIDE DEF lay
<1>3. CASE a \in {0, 1, 3, 4, 6, 7, 9, 10, 12, 13}
  <2>1. WordAt(lay, a) = nop
    BY <1>2, <1>3
  <2> QED  BY <1>1, <2>1, NopFree DEF PacedAt, lay
<1>4. CASE a \in {2, 5, 8, 11}
  <2>1. ~FpOp(WordAt(lay, a))
    BY <1>2, <1>4 DEF FpOp, CW_FPOP
  <2>2. a - 1 \in {1, 4, 7, 10} /\ a - 2 \in {0, 3, 6, 9}
    BY <1>4
  <2>3. WordAt(lay, a - 1) = nop /\ WordAt(lay, a - 2) = nop
    BY <1>2, <2>2
  <2> QED  BY <1>1, <2>1, <2>3, NopFree DEF PacedAt, lay
<1> QED  BY <1>3, <1>4

\* Whatever program the firmware writes, of any length, as long as it is fit, what the driver
\* makes of it is paced (gppcu.c:261-342).
THEOREM LayoutIsPaced ==
    ASSUME NEW prog \in Seq(SourceWord), NEW m \in Nat, Fit(prog)
    PROVE  Paced(Layout(prog, m))
<1>. DEFINE lay == Layout(prog, m)
<1>1. PICK g : Laid(g, prog, m)
  BY LaidOut
<1>2. Len(lay) \in Nat /\ Len(lay) >= 14 /\ Len(lay) = Len(g[Len(prog)])
  BY <1>1, PrologueAt
<1>3. ~Effective(nop)
  BY NopLaid DEF Effective
<1>4. ~Effective(WordAt(lay, 0)) /\ ~Effective(WordAt(lay, 1))
  <2>1. WordAt(lay, 0) = nop /\ WordAt(lay, 1) = nop
    <3>1. \A a \in {0, 1, 3, 4, 6, 7, 9, 10, 12, 13} : WordAt(lay, a) = nop
      BY <1>1, PrologueAt
    <3>. HIDE DEF lay
    <3> QED  BY <3>1
  <2> QED  BY <1>3, <2>1
<1>5. ~Effective(WordAt(lay, Len(lay) - 1))
  <2>1. Len(prog) \in 0..Len(prog)
    OBVIOUS
  <2>2. WordAt(lay, Len(g[Len(prog)]) - 1) = nop
    BY <1>1, <2>1, BeforeEnd
  <2> QED  BY <1>2, <1>3, <2>2
<1>6. \E a, b \in 0..Len(lay)-1 : a # b /\ Effective(WordAt(lay, a)) /\ Effective(WordAt(lay, b))
  <2>1. \A a \in {2, 5, 8, 11} : WordAt(lay, a).op \in {"LDCI", "ADI"}
    BY <1>1, PrologueAt
  <2>. HIDE DEF lay
  <2>2. Effective(WordAt(lay, 2)) /\ Effective(WordAt(lay, 5))
    BY <2>1 DEF Effective
  <2>3. 2 \in 0..Len(lay)-1 /\ 5 \in 0..Len(lay)-1 /\ 2 # 5
    BY <1>2
  <2> QED  BY <2>2, <2>3
<1>7. \A a \in 0..Len(lay)-1 : PacedAt(lay, a)
  <2> SUFFICES ASSUME NEW a \in 0..Len(lay)-1 PROVE PacedAt(lay, a)
    OBVIOUS
  <2>1. CASE a \in 0..13
    BY <1>1, <2>1, PacedInPrologue
  <2>2. CASE a \notin 0..13
    <3>1. a \in Nat /\ a >= 14 /\ a < Len(lay)
      <4>. HIDE DEF lay
      <4> QED  BY <1>2, <2>2
    <3>2. PICK k \in 1..Len(prog) :
             \E j \in 0..Len(Block(prog[k]))-1 : a = Len(g[k - 1]) + j
      BY <1>1, <3>1, Covered
    <3>3. PICK j \in 0..Len(Block(prog[k]))-1 : a = Len(g[k - 1]) + j
      BY <3>2
    <3>4. PacedAt(lay, Len(g[k - 1]) + j)
      BY <1>1, PacedInBlock
    <3> QED  BY <3>3, <3>4
  <2> QED  BY <2>1, <2>2
<1>. HIDE DEF lay
<1>8. Paced(lay)
  BY <1>4, <1>5, <1>6, <1>7, PacedBy
<1> QED  BY <1>8 DEF lay

\* Every job is the driver's layout of a fit program.
AllFit ==
    \A j \in Job : \E prog \in Seq(SourceWord), m \in Nat : Fit(prog) /\ j.program = Layout(prog, m)

\* What the driver makes of fit programs is paced: with the driver in front of it, the device
\* needs nothing but fit programs for all of the above (gppcu.c:261-342,370-392).
THEOREM FitIsPaced == ASSUME AllFit PROVE AllPaced
<1> SUFFICES ASSUME NEW j \in Job PROVE Paced(j.program)
  BY DEF AllPaced
<1>1. PICK prog \in Seq(SourceWord), m \in Nat : Fit(prog) /\ j.program = Layout(prog, m)
  BY DEF AllFit
<1> QED  BY <1>1, LayoutIsPaced

\* The device runs fit programs, laid out by the driver, in order and completely, its losses
\* and repetitions without effect (gppcu.c:261-342, GPPCU_TEST_QUEUE.v:106-170).
COROLLARY FitProgramsRun ==
    ASSUME AllFit
    PROVE  DeviceSpec => [](InProgramOrder /\ RepeatsAreHarmless /\ SoftwareStalls /\ AllTaken)
<1>1. AllPaced
  BY FitIsPaced
<1>2. /\ DeviceSpec => []InProgramOrder
      /\ DeviceSpec => []RepeatsAreHarmless
      /\ DeviceSpec => []SoftwareStalls
      /\ DeviceSpec => []AllTaken
  BY <1>1, WordsInOrder, RepeatsGiveTheSame, StallsAreSoftware, RunsTakeAll
<1> QED  BY <1>2, PTL
=============================================================================
