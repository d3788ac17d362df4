---------------------------- MODULE GPPCU_DEVICE ----------------------------
(***************************************************************************)
(* The coprocessor as the firmware sees it: the driver (GPPCU_HOST) with   *)
(* programs laid out by it (GPPCU_PROGRAM), the queue it fills and the     *)
(* core that the queue feeds (GPPCU_CORE).  The queue and the core share   *)
(* the edges of iACLK: the word on the bus and instr_valid go to the core, *)
(* can_fetch comes back as instr_ready.                                    *)
(***************************************************************************)
EXTENDS GPPCU_HOST, GPPCU_CORE, GPPCU_PROGRAM, FiniteSets

\* An effective word is one that is not a NOP.  Neither variable is in the code.
VARIABLES
    last,     \* address of the effective word the core took last, QDepth if none
    steps     \* effective words taken since the start, repetitions not counted

deviceVars == <<queueHostVars, coreVars, last, steps>>

DeviceInit ==
    /\ QueueHostInit /\ Init
    /\ last = QDepth /\ steps = 0

-----------------------------------------------------------------------------
Effective(w) == w.op # "NOP"

\* The words are instructions; the memory powers up as zeros, the code of NOP.
ASSUME DeviceAssumption == Word \subseteq Instr /\ ~Effective(Blank)

\* The core takes the word on the bus and will do something with it.
Takes == instr_valid /\ can_fetch /\ Effective(program)

\* An edge of iACLK.
DeviceClk ==
    /\ HostClk(can_fetch)
    /\ Clock(program, instr_valid)
    /\ IF Takes /\ program_addr # last THEN last' = program_addr /\ steps' = steps + 1
       ELSE UNCHANGED <<last, steps>>

\* A step of the firmware, which uploads one program and runs it frame after frame
\* (main.c:128-147; what the words of a longer program before it would do is a question
\* for GPPCU_HOST).  The start of a run is the start of the count.
DeviceHost ==
    /\ HostStep /\ UNCHANGED job
    /\ IF host_pc = "start" THEN last' = QDepth /\ steps' = 0 ELSE UNCHANGED <<last, steps>>
    /\ UNCHANGED coreVars

DeviceNext == DeviceHost \/ DeviceClk

\* The firmware proceeds and the oscillator runs.
DeviceSpec ==
    /\ DeviceInit /\ [][DeviceNext]_deviceVars
    /\ WF_deviceVars(DeviceHost) /\ WF_deviceVars(DeviceClk)

-----------------------------------------------------------------------------
EffectiveAddr == {a \in 0..pmem_end-1 : Effective(pmem[a])}

\* The effective words of the program, round and round.
NextEffective(a) ==
    LET after == {b \in EffectiveAddr : a < b /\ a < QDepth}
        from  == IF after = {} THEN EffectiveAddr ELSE after
    IN  CHOOSE b \in from : \A c \in from : b <= c

\* The core is given the instructions of the tasks in the order in which they were
\* interleaved, A0 B0 C0 A1 B1 C1 (docs/note.kor.md:73): none is left out and none comes
\* early, whatever the stalls do to the queue.  One may come twice in a row.
InProgramOrder == Takes => program_addr \in {last, NextEffective(last)}

\* An instruction that the queue hands out twice in a row gives the same result twice:
\* it does not read the register it writes.
RepeatsAreHarmless == Takes /\ program_addr = last => ~SelfDependent(program)

\* The bubbles of the layout keep the scoreboard out of play: no instruction is ever
\* held in decode for a register ("Generate stall in software level ... Since hardware
\* stall signal generator is not stable !", gppcu.c:338-339).
SoftwareStalls == can_use_reg

\* When the processor sees the run done, every instruction has been taken as often as
\* there are task cycles (main.c:143-147).
AllTaken ==
    host_pc = "read" =>
        steps = Cardinality({a \in 0..Len(job.program)-1 : Effective(job.program[a + 1])})
                    * job.cycles

-----------------------------------------------------------------------------
(* What a program must be like for its losses and repetitions to fall on   *)
(* words that can bear them.                                               *)

\* The word at address a of program p; what lies around it does nothing.
WordAt(p, a) == IF a \in 0..Len(p)-1 THEN p[a + 1] ELSE Blank

\* Word w takes nothing from word u.
Free(w, u) == Sources(w) \cap Writes(TRUE, u) = {}

Paced(p) ==
    LET at(a) == WordAt(p, a)
        fp(a) == FpOp(at(a))
    IN  /\ \A a \in {0, 1, Len(p) - 1} : ~Effective(at(a))
        /\ \E a, b \in 0..Len(p)-1 : a # b /\ Effective(at(a)) /\ Effective(at(b))
        /\ \A a \in 0..Len(p)-1 :
              \* no operand is the result of one of the two words before
              /\ Free(at(a), at(a - 1)) /\ Free(at(a), at(a - 2))
              /\ fp(a) =>
                   \* the word that is lost behind the first of some operations
                   /\ ~fp(a - 1) => ~Effective(at(a + 3))
                   \* the word behind the last one that comes twice
                   /\ ~fp(a + 1) => ~SelfDependent(at(a + 4))
                   \* and those that come as the words before them have been lost
                   /\ ~fp(a + 4) /\ Free(at(a + 4), at(a + 1))
                   /\ ~SelfDependent(at(a + 1)) /\ (fp(a + 2) => ~SelfDependent(at(a + 4)))
                   /\ a + 2 < Len(p)

\* A program whose layout is paced: no floating point operation reads what it writes, and
\* what comes behind one, a NOP apart, is neither another nor reads what it writes itself.
Fit(prog) ==
    \A k \in 1..Len(prog) : FpOp(prog[k]) =>
        LET plain(n) == n <= Len(prog) => ~FpOp(prog[n]) /\ ~SelfDependent(prog[n])
        IN  /\ ~SelfDependent(prog[k])
            /\ plain(k + 1)
            /\ k < Len(prog) /\ prog[k + 1].op = "NOP" => plain(k + 2)
=============================================================================
