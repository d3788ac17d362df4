------------------------------ MODULE MC_DEVICE ------------------------------
(***************************************************************************)
(* GPPCU_DEVICE with the driver's real layout of short programs: three     *)
(* lanes, 32 registers, one thread.  The programs are fragments of the     *)
(* vertex shader of app.c.                                                 *)
(***************************************************************************)
EXTENDS GPPCU_DEVICE

MC_Thread == {"t0"}
MC_Reg    == 0..NUM_REG-1

Shader(op, rd, ra, rb) == Word32(op, FALSE, rd, ra, rb, 0)

\* rx 0, ra = acc 4, rb = calc 5, loader 6: the inner loop of the matrix product, and
\* loads, steps and stores around it.
LoopBody  == << Shader("FMUL", 5, 0, 6), Shader("ADI", 6, 4, 0), Shader("FADD", 4, 6, 5) >>
LoadStore == << Shader("LDL", 0, 0, REGPIVOT), Shader("ADI", 0, 0, 0),
                Shader("STL", 0, 0, REGPIVOT) >>

\* The end of the shader: two floating point operations in a row.
CastPoint == << Shader("FADD", 5, 4, 0), Shader("FTOI", 4, 5, 0),
                Shader("STL", 0, 4, REGPIVOT) >>

\* The inner loop with an accumulation in place, the counter of a loop for one.
LoopCount == << Shader("FMUL", 5, 0, 6), Shader("ADI", 4, 4, 0) >>

\* The same two with a way round: two instructions that do nothing in between.
Pad == << Shader("NOP", 0, 0, 0), Shader("NOP", 0, 0, 0) >>
Padded(shader) == <<shader[1]>> \o Pad \o Tail(shader)

\* What the theorems about the device ask of a program: these have it, the two that the
\* ways round are for have not.
ASSUME FitAssumption ==
    /\ \A shader \in {LoopBody, LoadStore, Padded(CastPoint), Padded(LoopCount)} :
          shader \in Seq(SourceWord) /\ Fit(shader)
    /\ ~Fit(CastPoint) /\ ~Fit(LoopCount)

J(shader, cycles) == [program |-> Layout(shader, 1), sz |-> 3, cycles |-> cycles]

MC_Job       == { J(LoopBody, 2), J(LoadStore, 2), J(LoadStore, 1),
                  J(Padded(CastPoint), 1), J(Padded(LoopCount), 2) }
MC_CastJob   == { J(CastPoint, 1) }

\* Every word of the jobs, which all the runs share.
MC_Word ==
    {nop} \cup UNION {{j.program[k] : k \in 1..Len(j.program)} :
                        j \in MC_Job \cup MC_CastJob}
=============================================================================
