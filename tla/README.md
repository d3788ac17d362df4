# SocTerm: a TLA+ model

The repository is a small system on an FPGA: a Nios II processor, an LCD controller, a serial port and a
home-made SIMD coprocessor, the GPPCU, which the firmware uses as a vertex shader. Four parts carry the
program's own logic: the coprocessor (a stalling pipeline with a scoreboard, multi-cycle floating point units,
a queue that feeds it across two clock domains), the driver that rearranges programs so that the hardware's
weak spots are not met, the application that builds a mesh, runs it through the shader and draws it, and the
display generator. Beneath them, the firmware reports through an interrupt driven serial port driver that is
compiled with it. This directory models these parts, checks them with TLC and proves the properties that
matter most with TLAPS.

Paths below are relative to `src/project/`; `HDL/` stands for `resource/HDL/GPPCU/`, `hello/` for
`software/hello/src/` and `drivers/` for `software/Hello_bsp/drivers/src/`.

## 1. Inventory

| Component | State | Operations | Talks to | What makes it correct |
|---|---|---|---|---|
| Core control: `HDL/GPPCU_CORE.v`, `GPPCU_STALL_GEN.v`, `GPPCU_INSTR_DEC.v` | four valid bits, four instruction registers, one *occupied* bit per register | one rising edge of `iACLK`, with or without reset | takes words from the queue (`iINSTR`, `iINSTR_VALID`, `oINSTR_READY`), drives the threads | nothing leaves decode before its operands are final; a stall has a cause and ends; no mark survives its writer |
| Floating point control: `HDL/GPPCU_THREAD.v:152-221`, `fpoint2_multi.vhd` (generated) | `fp_stage`, `fp_start` per thread; busy flag and counter of the unit | IDLE, RUN, BUSY, DONE | stalls the core through `fp_busy` | the machine works for the instruction in exec; an answer is the answer to one's own question; writeback only with all answers |
| Thread datapath: `HDL/GPPCU_THREAD.v`, `GPPCU_THREAD_REGBANK.v`, `GPPCU_ALU.v`, `GPPCU_COND_VERIFIER.v` | registers, operand latches, flags, result latches, local memory | the same edge | control words of the core; the processor's port of the local memory | the pipeline does what the instructions do one after another |
| Instruction queue: `HDL/GPPCU_TEST_QUEUE.v`, `DPRAM_PARAM.v` | program memory and its output register, `pmem_end`, `pmem_running`, `num_cycles`, `sz_per_task`; `pmem_head`, `program_done`, `cur_task_ofst`, `cur_cycle_idx` | commands on edges of `opclk` (push, run/stop, reset, cycles, size, data), supply on edges of `iACLK` | driver on one side, core on the other | the program is supplied whole, in order, once per task cycle, with the offset of that cycle, and then the run is done |
| Driver: `hello/gppcu.c`, `gppcu.h` | program being built, task layout | lay out tasks, upload (in three lanes with bubbles), write and read task data, constants, run, poll | three PIO registers | an uploaded program computes what the program means, once per task, and nothing else |
| Frame loop: `hello/main.c`, `app.c` | mesh, camera, results | build the mesh, upload once; then constants, run, poll, download, draw | driver, frame buffer | results are fetched after the run that made them, in the order of the vertices |
| Line drawing and meshes: `hello/app.c` | vertex and index arrays; drawing buffer | `mesh_createbox`, `mesh_subdevide`, `app_render_on_screen`, `rgb16_drawline` | frame loop | the arrays hold the mesh; the surface stays closed; a line lights what is near it and on the screen, and ends |
| LCD controller: `resource/HDL/LCD/*.v`, `TOP.v` | raster counters, addresses, the buffer's output | pixel clock, push button | frame buffer, panel | the panel and the counters agree where the next pixel goes |
| Serial port driver: `drivers/altera_avalon_jtag_uart_*.c`, and the port it drives | two rings, copy of the interrupt enables, idle seconds; two FIFOs | write, read, close, set the time to wait; interrupt; alarm | firmware's output; a host that comes and goes | no byte is lost, repeated, reordered or left lying; calls and interrupts return |
| System tick and alarms, unused encoders, matrix library, generated system | - | - | - | not modelled (section 6) |

### Where it is hard

* **Concurrency within a clock.** Every register of the core moves on the same edge, stalled or not.
  Three different stall rules (decode, exec, writeback) and the machine of each thread must meet exactly,
  or an operation is dropped, repeated or written early.
* **Two clocks.** The driver's commands are edges of a line that the processor toggles; the supply logic
  runs on `iACLK`. A stop and a start with no edge of `iACLK` in between would continue the old run.
* **Read latency.** `pmem_head` is the address, the word on the bus is the one read a clock earlier. At a
  stall one word is lost and the next one given twice; at the start of a task cycle the bus holds the word
  behind the program.
* **Software that stands in for hardware.** `hello/gppcu.c:338` says "hardware stall signal generator is not
  stable". Whether the driver's bubbles really cover what the hardware lacks depends on the driver,
  the queue and the core together.
* **Spreading tasks.** Three lanes per thread, rounded numbers of tasks, relative addresses, a task's
  space that begins at the pivot of its lane: one slip and a task works on another's data.
* **Interrupts.** Rings, a copied enable register and a count of idle seconds shared by calls, an
  interrupt routine and an alarm. Without an operating system the locks are empty and only the order of the
  accesses protects them.
* **A clocked counter that clocks another.** The line counter of the display runs on the synchronisation
  pulse of the column counter, and the button resets both at any time.
* **Reset.** It clears the driving machine of a floating point unit, and not the unit.
* **Numbers.** Counters of 12 bits that wrap and are compared for equality, a 4-bit latency counter, flags
  that are computed as if every operation were a sum, register fields that run over, 16-bit coordinates of
  points far outside the screen, arrays that are appended to without a look at their capacity.

`PROJECT.json` lists the hazards one by one, each at its line, with the properties that catch it or the
reason why none does.

## 2. The modules

```
GPPCU_INSTR_DEC            decode tables (sets of operations, one per control bit)
 |- GPPCU_STALL_GEN        scoreboard                    GPPCU_COND_VERIFIER   conditions
 |- GPPCU_FPU              driving machine + unit        GPPCU_ALU             ALU on Bits bits
 |    \
 GPPCU_CORE ............... pipeline control             GPPCU_ISA   what a program may rely on
 |  |                                                      |   \
 |  GPPCU_THREAD .......... datapath of the threads,       |    GPPCU_TASKS ... data of the tasks
 |                          refines GPPCU_ISA              |     |
 |   GPPCU_TEST_QUEUE       queue                          |    APP_SHADER .... the application's shader
 |    \- GPPCU_HOST ....... driver's commands + queue    GPPCU_PROGRAM   layout of a program
 |       /                                                 /
 GPPCU_DEVICE ............. driver, layout, queue and core together

 APP_MESH ................. the box and its subdivision  LCD_CON ......... raster generator
  \- APP_RENDER ........... a frame, line by line         \- LCD_DISPLAY . generator, frame buffer, panel

 JTAG_UART ................ the port and its host        CHANNEL   what a serial line promises
  \- JTAG_UART_DRIVER ..... calls, interrupt, alarm; refines CHANNEL in both directions
```

`MC_*` modules give the constants their small values; the modules `*_proofs` hold the theorems.

**GPPCU_INSTR_DEC** translates the decoder's table: `CW_REGWR`, `CW_FPOP` and the like are the sets of the
operations whose row has that bit. An instruction is a record; which fields it has beyond `op, rd, ra, rb`
is up to the module that needs them.

**GPPCU_STALL_GEN** holds `occupied` as a set. `pending_occupy` is the code's expression: claims of the
instruction in decode are added, the release of writeback is taken away last.

**GPPCU_FPU** has, for each thread, `fp_stage` and `fp_start` and the unit's busy flag and counter. The
unit's counter runs freely in the code; only while the unit is busy can anything read it, and the model
keeps it at zero otherwise. What the decoder leaves as `x` in the function code is the constant
`DontCare`.

**GPPCU_CORE** is the pipeline: `Clock(i, v)` is the whole of the clocked block with the word `i` and
`iINSTR_VALID = v` at its input, `Reset(i)` the same with `inRST` low. The control word registers of the
code are functions of the instruction registers beside them and are left out. There are three next-state
relations: any stream with resets (`Next`), any stream without resets (`RunNext`), and streams that are
*scheduled* with resets (`ScheduledNext`). An instruction is scheduled when none of the two before it
writes its own register and, if it reads the register it writes, the one before it is not a floating point
operation. That is the part of the hazards that the hardware leaves to software: two nops before each
instruction in the sequential loader, triples on disjoint register banks in the parallel one.

**GPPCU_THREAD** adds the datapath. The operand latches follow decode on every clock; the unit has latches
of its own; flags and conditions are evaluated in exec; writeback is previewed by the read ports. The ALU,
the flags and the unit's arithmetic are operator parameters: the runs give them `GPPCU_ALU` on two-bit
words, and a toy function for the floating point unit whose answer depends on each operand it reads.
**GPPCU_ISA** is the abstract machine: a queue of instructions given and not carried out, and registers,
flags and memories on which `Execute` acts atomically. The refinement mapping is: what is in fetch, decode
and exec is pending; an instruction takes effect when it leaves exec; registers are read through the
preview.

**GPPCU_TEST_QUEUE** has one action per command and `QueueClk` for an edge of `iACLK`, whose three
alternatives `Finish`, `Advance`, `Wrap` and the branch `Stopped` are those of the code. `program_addr`
remembers where the word on the bus was read; the code has no such register.

**GPPCU_HOST** is the driver as a sequence of commands, with `host_pc` for the firmware's position: lay out,
reset, lay out again, push word by word, and then stop, start, poll and fetch, frame after frame. After a
command at least `Edges` edges of `iACLK` pass before the next one.

**GPPCU_PROGRAM** is the driver's layout function with its real constants (32 registers, three lanes of ten)
and with the immediates: the prologue that sets the pivots, and for each instruction three copies on three
register banks with one bubble, or two behind a floating point operation. It includes the addition for a
fourth lane that does not exist: register 39 becomes register 7 with the S bit.

**GPPCU_DEVICE** puts driver, layout, queue and core together on the shared clock: the word on the bus and
`instr_valid` go to the core, `can_fetch` comes back as `instr_ready`. It has control and no data. At its end
it says what the device needs of a program: `Paced` of the words that are pushed (where the queue's losses and
repetitions fall on words that can bear them), `Fit` of the instructions that the firmware writes.

**GPPCU_TASKS** has the data: clearing the local memories, laying out the tasks over lanes and threads,
writing elements, constants, running, reading back into an array of a given capacity, frame after frame. It
runs the words that `GPPCU_PROGRAM` makes on the machine `GPPCU_ISA` promises, so what
it assumes of the hardware is what `GPPCU_THREAD` and `GPPCU_DEVICE` show. **APP_SHADER** is the vertex
shader of `app.c` as a program of 87 instructions, its constants, and what it should do to a vertex, written
down as a matrix product.

**APP_MESH** and **APP_RENDER** are the other half of the application: the box, `mesh_subdevide` with its
loop over arrays that grow while it walks over them, the triangles of a frame and `rgb16_drawline` with all
its variables, a pixel per step. The coordinates are cut to what `CoordHalf` allows, as the call cuts them to
16 bits (half is 2^15), and the error to twice as many.

**LCD_CON** is one edge of the pixel clock together with the edge of `oHSYNC` it may cause, and the button
as an asynchronous reset. **LCD_DISPLAY** adds the frame buffer, which is clocked by the gated clock
`~(oDE & clk)` and may or may not see the short pulse where data enable ends, and the panel as an external
part that only sees pulses, data enable and data.

**JTAG_UART** is the port: FIFOs, interrupts, the activity bit; a step is a register access or something the
host does, including a byte that arrives between the sampling of RVALID and RAVAIL. **JTAG_UART_DRIVER** is
the driver. A step of a call is what it does between two looks at a variable that interrupts change, a step
of the interrupt routine is one access to the device, the alarm runs once a `Second`. The firmware is built
without optimisation, so the shared variables that are not `volatile` (`host_inactive`, `timeout`) are read
when the code reads them. **CHANNEL** is what the driver promises: bytes come out complete, once and in
order, and no more than the two buffers hold are inside.

Operators whose comment begins with "Mutant of" are deliberate mistakes in the operator they name. No
specification uses them; putting one in place of its original violates the property listed with it in
`PROJECT.json`, which shows that the property says something about the code.

## 3. The runs

| Run | Specification | What it shows |
|---|---|---|
| `core_scheduled` | `FairScheduledSpec` | Under scheduled streams, with resets at any time: no instruction leaves decode early (`IssueIsSafe`), a stall has a cause in front of it (`StallHasCause`) and ends (`StallResolves`), marks belong to writers in flight (`ScoreboardInv`), machines belong to the operation in exec (`FpOwned`), and no operation reaches writeback without all its answers (`FpFinishes`) |
| `core_raw_issue` | `Spec` | `IssueIsSafe` without a schedule: violated (finding 1) |
| `thread_run` | `ThreadsSpec` | `CarriesOutInOrder`: every behaviour of the pipelined threads is one of `GPPCU_ISA`, with flags, conditions, local memory and floating point operations right behind each other; and no machine takes an answer counted down for another operation (`FpDoneIsOwn`) |
| `queue_run` | `QueueHostSpec` | Job after job, frame after frame: the right number of words is supplied before the processor sees the run done (`RunComplete`), the offset goes with the task cycle (`OffsetFollowsCycle`), the bus is at most one word away from the head (`BusSkew`), and every run ends (`RunEnds`) |
| `device_run` | `DeviceSpec` | Fragments of the vertex shader in the real layout: nothing is left out and nothing comes early (`InProgramOrder`), what is repeated does no harm (`RepeatsAreHarmless`), all is taken when the run is seen done (`AllTaken`), the scoreboard never has to hold decode (`SoftwareStalls`), runs end (`RunEnds`) |
| `device_fp_pair` | `DeviceSpec` | `InProgramOrder` for a fragment the layout does not protect: violated (finding 2) |
| `tasks_run` | `TasksSpec` | After a run every task has what its program computes in a machine with one lane and no other task (`TasksRunAlone`), the results come back in the order of the tasks and as many as fit the array (`ResultsInOrder`), and what is drawn is the matrix product under the constants of this frame (`VerticesTransformed`) |
| `tasks_round` | `TasksSpec` | Numbers of tasks the driver accepts run alone: violated (finding 3) |
| `draw_run` | `RenderSpec` | The arrays hold the mesh (`MeshFits`), each side of it is shared by two triangles in opposite directions (`SurfaceClosed`), a finished frame shows only pixels within half a pixel of the ideal line of some side, and one at each column (or row) of each side that is on the screen (`FrameShown`), and frames end (`FrameEnds`), both for all sides that the 16-bit parameters can hold |
| `uart_run` | `DriverSpec` | Both directions are channels (`TxChannel`, `RxChannel`), no byte is left lying (`KeepsGoing`), the copy of the interrupt enables is the device's (`DriverType`), writes, closes, reads and interrupts return (`SendReturns`, `ReadReturns`, `IsrReturns`), with a host that comes, goes and never promises anything |
| `uart_eio` | `DriverSpec` | A write fails only when the host is taken for gone: violated (finding 4) |
| `display_run` | `DisplaySpec` | However and whenever the button is pressed, the panel is in step when the next pixel is shown (`PanelInStep`), gets the pixel of the address a clock behind (`PixelShown`), the linear address is exact (`LinearAddress`), and with the button left alone frames go on (`FramesGoOn`) |

### Bounds, and why they are enough

* **Core.** Two threads (each waits for the other's machine; nothing in the control counts them), two
  registers, and eight instructions, one for each way of meeting another: writer, reader, reader and writer
  of one register, neither, and counted, combinational and self-dependent floating point operations. Four
  stages hold at most four instructions, so all the combinations of neighbours occur.
* **Thread.** One thread (threads do not see each other), two registers, two words of memory, two-bit words;
  every initial content of registers and memory. Two kinds of four instructions, chosen so that each result
  can be an operand, an address, a flag or a condition of a neighbour; the constraint `OneKind` keeps the
  pipeline to instructions of one kind. The theorem has neither bound.
* **Queue.** A memory of four words and programs of none to three of them, one of which fills the memory but
  for one; no, one, two and three task cycles; a cycle counter that wraps at five; three edges per command.
* **Device.** The real register and lane numbers, one thread, a memory of 64 words, one or two task cycles
  and two or three instructions of the shader, laid out to 30 words or more. The theorems have none of these
  bounds.
* **Tasks.** The real banks and layout, two threads, eight-bit words, 128 words of memory per thread (64 in
  `tasks_round`, where the rounding passes the end). Every pair of fourteen kinds of operation between loads
  and stores, for three and for seven tasks (less than a lane for each, and two cycles with idle lanes); the
  whole shader on nine vertices over two frames with different matrices; result arrays that are large, just
  large enough and too small.
* **Meshes and lines.** The real capacities. The box is subdivided three times: 764 vertices and 2304
  indices. A fourth time would need 3068 and 9216 and overflow both arrays (2048 and 8096); the application
  subdivides once (44 vertices). `RoomAssumption` of `MC_DRAW` shows that there is room for what is run. Lines between any two points of a grid of ten by seven around a screen of
  four by three, so that they begin, end and pass inside and outside on every side; five-bit coordinates, and
  lines for which differences and coordinates overflow them.
* **Serial port.** Rings of three places (two bytes), FIFOs of two, two idle seconds instead of ten, bytes
  numbered modulo six (four may be inside), programs that only write, only read, and do both.
* **Display.** A picture of eight by six with sums of 15 and 12; both counters pass their sum by one, as
  they do in the code (889 and 535 in ten bits).

### Fairness

* `iACLK` and the pixel clock are free-running oscillators: weak fairness of the clock step. Nothing forces
  `inRST` low, and nothing forbids it: a system that is reset again and again is a behaviour, and
  `FramesGoOn` speaks of those in which the button is left alone.
* The firmware is one thread that proceeds: weak fairness of its steps. In `GPPCU_HOST` alone the core
  stands for itself as "ready again and again" (weak fairness of an edge with `instr_ready`), which is what
  `StallResolves` shows of the core; in `GPPCU_DEVICE` readiness is the core's own.
* In `JTAG_UART_DRIVER` an interrupt suspends the program, so the program's steps are not continuously
  enabled: interrupts that are not so frequent as to leave it no time are strong fairness of `Program`, and
  the same holds of the alarm and of a pending interrupt. A step of the running interrupt routine is weakly
  fair. The host owes nothing.

## 4. What the runs found

Disagreements between the code and what it says of itself, each with a run that is expected to end in a
violation:

1. *Two writers share a mark* (`HDL/GPPCU_STALL_GEN.v:56`). One bit per register: the first of two close
   writers to reach writeback frees the register under the second, and a reader leaves decode too early.
2. *A lost lane* (`HDL/GPPCU_TEST_QUEUE.v:162`, `hello/app.c:303-304`). With two floating point instructions
   in a row the word that the queue loses at the stall is the third lane's copy of the second: the core takes
   lanes A, B, B. The shader as it is contains such a pair.
3. *Rounded beyond the memory* (`hello/gppcu.c:403`). The number of task cycles is rounded up to whole
   triples after the check against the local memory. A number of tasks that was accepted may need more words
   than there are; addresses wrap, and the last lanes work on the first tasks. The shader's twelve words fit.
4. *EIO after a second* (`drivers/altera_avalon_jtag_uart_write.c:187`). A write that waited and was woken by
   sent bytes gives up as soon as `host_inactive` is not zero, not when it has reached `timeout`.

Seen on the way, with no run of their own:

* *Waiting for oneself* (`HDL/GPPCU_STALL_GEN.v:55`). The destination is marked on each clock in which
  operands are free, also while a floating point operation holds decode. An instruction that reads the
  register it writes is then refused by its own mark, for ever. `StallResolves` under `FairSpec` instead of
  `FairScheduledSpec` shows it. Like finding 1 it does not reach programs that the driver lays out
  (`SoftwareStalls`).
* *Reset and the unit* (`HDL/GPPCU_THREAD.v:178,214`). The unit's reset is tied to zero: it goes on counting
  for an aborted operation, and its done answers the next one. `FpDoneIsOwn` under `ScheduledSpec`, which
  has resets, shows it; `RunSpec` and `ThreadsSpec` have none.
* *The word behind the program* (`HDL/GPPCU_TEST_QUEUE.v:199`). At the start of each task cycle the word at
  `pmem_end` is offered as valid. The memory is never cleared, so it may be an instruction of a program
  uploaded earlier.
* *A step taken twice* (`HDL/GPPCU_TEST_QUEUE.v:162`). An integer instruction behind a floating point one
  reaches the second lane twice; when it reads the register it writes, that task takes the step twice.
* *The picture is a column to the right.* The addresses of the raster are a clock behind the data enable,
  and the first column of each line shows the first pixel of the buffer; `PixelShown` says so. The counters
  have one value more than the sums in `LCD_CON.v` say.

## 5. What is proved

Eight modules of theorems, for every value of the constants their assumptions allow.

**`GPPCU_CORE_proofs`**, for every set of threads, registers and instructions and every value of `DontCare`,
from `InstrAssumption` (fields are registers and operations), `ThreadAssumption` (there is a thread) and
`DontCareAssumption`:

* `TypeCorrect`: `Spec => []TypeOK`.
* `MachinesOwned`: `Spec => []FpOwned`. A machine that is running stalls exec, so exec keeps its instruction
  until DONE; from DONE it goes to IDLE in the clock in which exec moves.
* `AnswersComplete`: `Spec => FpFinishes`, from the above: exec moves only when every machine is in DONE.
* `AnswersOwn`: `RunSpec => []FpDoneIsOwn`. Not inductive by itself: a combinational operation is
  answered at once and still loads the counter with 2. `UnitInv` (theorem `CountsAreShort`) bounds the rest
  of such a count by the stage (at most 2 in DONE, 1 in IDLE, 0 in RUN), so it is over when the next start is
  seen. The proof uses that there are just those clocks between two operations; with an addition one clock
  slower it fails, and the mutant `load_data_SlowAdd` shows the violation.
* `ScoreboardHolds`: `ScheduledSpec => []ScoreboardInv`. The invariant is four named facts: close writers
  write different registers, writers past decode are marked, no self-dependent instruction right behind a
  floating point operation, and every mark has its writer in flight. The step is split by how the pipeline
  moves (`MoveDelayed`: held by a unit, `MoveStalled`: held by the scoreboard, `MoveFree`), one lemma per
  fact.
* `NoDataHazard`, `StallsAreCaused`, `MarksAreOwned`: `IssueIsSafe`, `StallHasCause` and `NoStrayMark` for
  scheduled streams, as consequences.

**`GPPCU_THREAD_proofs`**, for every word size, memory, ALU and unit, from the assumptions above,
`DataAssumption`, `FlagAssumption` (which operations set flags) and `UnitAssumption` (ALU, flags and unit
answer with words and do not look at an operand that the scoreboard does not check):

* `ThreadsTypeCorrect`: `ThreadsSpec => []ThreadType`.
* `PipelineImplementsISA`: `ThreadsSpec => CarriesOutInOrder`, the whole refinement, initial states and every
  step. The invariant `PipelineInv` is the core's type, machines and scoreboard (`IssueIsSafe` from the
  theorem above) with two facts about data: `Lockstep`, the machines of all threads are
  in the same state, and `DatapathInv`, what exec and the unit hold are the values that the
  abstract registers have for the instruction in exec. The step is split by what leaves exec: nothing
  (`DelayChangesNothing`), a bubble (`BubbleChangesNothing`), an instruction (`LeavingTakesEffect`, with
  `LeavingResult` for the value that the preview then shows); `OperandsIssued` is where `IssueIsSafe` is
  needed.

**`GPPCU_DEVICE_proofs`** has two parts. The first is about queue and driver alone, from their assumptions:
`QueueHostTypeCorrect`,
`RunsAreComplete` (`RunComplete`), `OffsetsFollowCycles` (`OffsetFollowsCycle`) and `BusIsAWordAway`
(`BusSkew`). The invariant `QueueHostInv` puts each phase of the firmware beside what the queue's registers
must be in it; the part `RunKept` ties position, cycle and offset of a run together. Between two jobs it
needs that the done bit of the last run is still there, or the device would still be running under the
driver's new program.

The second part is the device as a whole: driver, layout, queue and core together, for programs of any length, any
number of task cycles, threads and edges between commands, from the assumptions of the parts and
`DeviceAssumption` (the words are instructions; the memory powers up as zeros, the code of NOP):

* `DeviceRunsCore` (`DeviceSpec => RunSpec`), `DeviceRunsComplete` (`RunComplete`, `OffsetFollowsCycle`, `BusSkew`)
  and `DeviceAnswersOwn` (`FpDoneIsOwn`) need no hypothesis: what the parts promise alone, they promise together.
* With paced programs (`AllPaced`): `WordsInOrder` (`InProgramOrder`), `RepeatsGiveTheSame`
  (`RepeatsAreHarmless`), `StallsAreSoftware` (`SoftwareStalls`), `RunsTakeAll` (`AllTaken`), and `OperandsFinal`:
  `IssueIsSafe` and `NoStrayMark` of the streams that the queue really delivers, with its losses and repetitions.
* `LayoutIsPaced` and `FitIsPaced`: what the driver makes of a fit program is paced, for programs of any length. So
  `FitProgramsRun`: the device runs fit programs in order and completely. Fit means that behind a floating point
  operation, a NOP apart, there is neither another one nor an instruction that reads what it writes, and that the
  operation does not read what it writes. `FitAssumption` of `MC_DEVICE` shows that the programs of
  `device_run` are fit, and those of finding 2 and of *a step taken twice* are not. The shader is fit but for
  its last ten instructions, which hold the two pairs of finding 2.

None of the five properties is inductive, nor are they together. The queue loses a word and repeats one at every
stall, so what is in fetch, decode and exec cannot be told from the head of the queue alone. `DeviceInv` says how far
the head has gone on since each of them was read (`Distances`): at a stall either the word at the head's back was
taken and is past (`Follows`), or the word at the head was taken early and will come again (`Repeats`). Beside it
stand the memory and the bus (`MemoryKept`, `BusKept`), the marks (`OperandsKept`), how long an operation in exec
holds the pipeline against the bus (`MachinesKept`), and what has been taken so far (`CountKept`, in the midst of a
round or before its first word). The step of the invariant is split by what the core does with its stages
(`DelayedStages`, `StagesStep`) and by the phase of the firmware (`HostDeviceInv`). The layout is treated block by
block (`BlockWords`, `BehindFp`); lanes do not meet because their banks are disjoint (`LanesFree`).

**`GPPCU_PROGRAM_proofs`** holds the lemmas about the layout that the device and the tasks share: where a word of the
laid out program comes from (`LaidOut`), that each instruction's block stands at its place (`BlockPlaced`) behind
the moves that spread the lanes (`ProloguePlaced`), and the least counterexample (`Least`), by which facts
about all lengths are shown.

**`GPPCU_TASKS_proofs`**, the data of the tasks, for every number of threads, lanes, units of memory, jobs and
frames: `TasksTypeCorrect` (`TasksType`), `TasksRunAloneAlways` (`TasksRunAlone`: a task computes what its program
computes with the memory to itself), `ResultsAlwaysInOrder` (`ResultsInOrder`: result i is that of task i) and
`VerticesAlwaysTransformed` (`VerticesTransformed`: what is drawn are the vertices under the matrix of the frame).
The hypotheses are checked by TLC as `ConfinedAssumption` on the jobs of `MC_TASKS`, the real shader among them:
`AllConfined` (programs stay in their task's memory and in the registers of a lane), `UnitsCompute` (the units answer
words with words) and, for the last theorem only, `ShaderJobs` (a job with the shader's program is one of the main
loop: vertices of three words, and every constant that the program reads). The argument goes from the inside out:

* An operation on a lane's registers does what the source instruction does on a thread of its own, and touches no
  other lane (`LaneInStep`, `StayAlike`, `RowsApart`). So does a block of the layout (`BlockStep`); the moves at
  the beginning leave every lane alike (`PrologueStep`); `WordStep` puts both over `Layout`.
* So after any word of a cycle, each lane of each thread is where a thread of its own would be after as many
  instructions as that lane has done. This is the part `Ran` of the invariant. Between cycles (`CycleBegins`,
  `CycleDone`), the tasks of the cycles before are finished and those after are untouched.
* `TasksInv` puts this beside what the driver has done so far: `Values` (registers and memory hold words), `Told` (the
  registers of the queue agree with the job), `Looped` (the loops' counters), `Fed` (the constants and inputs that have
  been written), `Fetched` (the results that have been read). `TasksRunAlone` alone is not inductive: it speaks of
  finished runs and says nothing of the memory while the inputs are written, nor of a lane in the middle of
  its block.
* What a task computes alone is then a question about 87 words on one thread. `AfterConcat` takes them piece by
  piece: a term of a sum (`TermIs`), a component of the product (`ComponentIs`), a coordinate moved to the screen
  (`ToScreenIs`), the input (`LoadingIs`) and the whole (`ShaderIs`), each with what it leaves alone. The floating
  point unit is any function on words, so the theorem says that the sums are formed in this order and
  claims no law of arithmetic. `ShaderInv` adds two things to `TasksInv`. `ConstantsWritten`: the constants of
  this frame are in the device, those of the frame before overwritten. `PointsPut`: the points of the mesh, written
  once, none over another (`WritesPoint`), are still in front of the shader on every frame, since a task leaves its
  own point alone (`ShaderIs`) and writes in no other task's space (`PointsKept`).

**`APP_RENDER_proofs`**, for every screen, size of the box, set of applications and half range of the coordinates
(`AppAssumption`, `MeshAssumption`):

* `MeshAlwaysFits` (`MeshFits`), if there is room for the result of the last subdivision (`AllRoom`). `MeshInv`
  counts: with T triangles before a subdivision and j of them done, there are T + 3j triangles, all indices and
  no gap, and T + 3j - 4 vertices. The numbers after each subdivision are a recursive function, whose existence
  and growth are lemmas of their own (`GrowthExists`, `GrowthIs`).
* `FramesShown` (`FrameShown`), without a hypothesis: sides that the parameters cannot hold are excluded in the
  property itself. `LineAt` gives every variable of `rgb16_drawline` after u steps along the longer extent and v
  along the shorter one, `OnLine` says that the pixel is then no more than half a step off. `MovedIs` is one turn of the
  loop: it always moves along the longer extent, along the shorter one exactly when the error asks for it, and no
  variable overflows. Hence `AtEnd`, the only way out of "while ( 1 )" is met, and `DrawnCovers`. `BuffInv` and `ScreenInv`
  carry this from line to line and from the buffer to the screen; that no line of the frame before is left needs
  the `memset` (`BeginsKeeps`).

**`LCD_DISPLAY_proofs`**, for every timing that `TimingAssumption` allows: `DisplayTypeCorrect`,
`PanelNeverSlips` (`PanelInStep`), `PixelsComeFromTheBuffer` (`PixelShown`), `AddressesAreExact`
(`LinearAddress`). The invariant says where the panel is at every count, not only in the picture: `Ranges`,
`PulsesKept` (the pulses are those of the counters, a clock behind), `ColumnsKept` and `LinesKept`, which
allow for a button pressed in the middle of a line, then `PixelKept` and `AddressKept`.

**`JTAG_UART_DRIVER_proofs`**, for every size of the rings and FIFOs and all thresholds: `DriverTypeCorrect`
(`DriverType`) and `NoByteLeftLying` (`KeepsGoing`). The invariant is `DeviceKept`, `RingsKept`,
`WatchKept`, `IsrKept`, `ProgramKept`, with `SendsOn` and `ReceivesOn` for the two directions. The delicate
step is the routine's turning the read interrupt off: the ring may already have room again, and what saves
the byte is that the ring is then not empty, so a read is still to come.

On top of this, in the same module: `TransmitsInOrder` (`DriverSpec => TxChannel`)
and `ReceivesInOrder` (`DriverSpec => RxChannel`), both refinements of `CHANNEL`, initial states and every
step. The invariant `ChannelInv` says what is inside a line, FIFO and ring as one sequence: consecutive
numbers, from the one taken out next to the one put in last (`TxNumbers`, `RxNumbers`). Three facts about
work in progress make it inductive. `SpaceKept`: the routine, which reads the room in the FIFO once and
then sends without looking again, still has it, since nobody else fills the FIFO. `WriteKept`: the bytes a write
has copied and not yet published lie behind the newest byte and stop before the oldest, so the routine cannot
send them. `ReadKept`: those a read has copied and not yet released are still in the ring, and the routine
does not overwrite them. `RingUntouched`, `RingGrows` and `RingShrinks` are the lemmas about a ring that
wraps; `PutNumbers`, `TakeNumbers` and `Front` those about numbers modulo `MODULUS`.

Only model-checked: liveness (`StallResolves`, `RunEnds`, `SendReturns`, `ReadReturns`, `IsrReturns`,
`FrameEnds`, `FramesGoOn`), which is out of the prover's reach; and that the
surface stays closed (`SurfaceClosed`), which needs that the midpoints of different sides are different points.

## 6. What is left out, and why

* *System tick and alarms*: a service of the board support package. The serial driver's alarm is the action
  `Second`; the firmware starts no other.
* *Unused encoders* (nothing instantiates them), *matrix library* (third-party functions without control
  state), *generated system* (interconnect, C library headers, arithmetic of the floating point unit). Most
  of the repository's lines are these.
* The processor's port of the local memories and of the constant memory inside a run: programs run while
  the firmware only polls. `GPPCU_TASKS` has the accesses between runs, `GPPCU_THREAD` keeps the constant
  memory fixed.
* Reset of the datapath while it works: registers are not reset at all, flags are, and the unit is not.
* Flags of operations that leave an operand unchecked, and the S bit on floating point operations:
  `FlagAssumption` excludes them, and both are hazards on the list.
* Status word fields other than the done bit; pushing words while the device runs; the sequential loader,
  which the firmware does not use.
* `GPPCU_DEVICE` has control and no data, `GPPCU_TASKS` data and no clock. Their composition in one state
  space is beyond TLC; the refinement of `GPPCU_ISA` is what connects them.
* Tearing of the frame buffer between processor and display; metastability: edges of two clocks interleave,
  they do not coincide.
* `ioctl` asking for the connection, which reads and changes nothing; writes of zero bytes, which the C
  library does not make.

## 7. Plan

Done, in this order: core, floating point control and theorems about both; thread and its abstract machine;
queue and driver; layout and device; tasks and shader; meshes and lines; display; serial port driver; the
proofs about queue, display, serial port and the refinements of the abstract machine and of the channel; the
proofs about the device and the layout, those about meshes and lines, and those about the data of the tasks.
What would come next:

1. `GPPCU_HOST` with a processor that pushes and reconfigures while the device runs, and the status word's
   subtraction of four-bit counters.
2. Conditions after SBC and SBI against the signed order, V after MVN and shifts, and the S bit on floating
   point operations, for all operands of a small width.
