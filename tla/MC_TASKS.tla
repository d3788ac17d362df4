------------------------------ MODULE MC_TASKS ------------------------------
(***************************************************************************)
(* GPPCU_TASKS and APP_SHADER with the driver's real banks and layout, two *)
(* threads, eight-bit words and a toy of the floating point unit that adds,*)
(* multiplies and halves.                                                  *)
(***************************************************************************)
EXTENDS APP_SHADER, GPPCU_ALU

MC_Thread == 0..1
MC_Reg    == 0..NUM_REG-1

MC_FpuQ(op, a, b) ==
    CASE op \in {"FADD", "FSUB"}  -> (a + b) % DataSize
      [] op \in {"FMUL", "FDIV"}  -> (a * b) % DataSize
      [] OTHER                    -> a \div 2

\* Every two of these, between the loads and the stores of a task.
Ops ==
    { nop, Word32("MOV", FALSE, 2, 0, 1, 3), Word32("ADC", FALSE, 8, 0, 1, 0),
      Word32("SBC", FALSE, 0, 1, 8, 0), Word32("ADI", FALSE, 1, 1, 0, 5),
      Word32("LSL", FALSE, 1, 8, 0, 0), gp_fp("FMUL", 8, 0, 1), gp_fp("FADD", 0, 8, 1),
      gp_fp("FTOI", 1, 8, 0), gp_fp("FNEG", 0, 8, 0), gp_ldci(8, 1), gp_ldl(8, 2),
      gp_stl(1, 3), gp_mvi(1, 9) }

Between(x, y) ==
    << gp_ldl(0, 0), gp_ldl(1, 1), gp_mvi(8, 7), x, y, gp_stl(0, 0), gp_stl(8, 1), gp_stl(1, 2) >>

Elements(n) == [k \in 1..n |-> <<7 * k, 200 - k>>]

PairJob(x, y, n, capacity) ==
    [program |-> Between(x, y), mtaskmem |-> 4, elements |-> Elements(n), ofst_in |-> 0,
     out |-> 3, ofst_out |-> 0, capacity |-> capacity, constants |-> << [a \in {1} |-> 3] >>]

Vertices(n) == [k \in 1..n |-> <<k, 3 * k + 1, 90 - k>>]
Frames ==
    << ObjectConstant([k \in 1..16 |-> k], 20, 12, 1),
       ObjectConstant([k \in 1..16 |-> (5 * k * k) % 256], 20, 12, 1) >>

\* Lanes of the last cycle without a task; an array that is large, one that is exactly as
\* large as the results and one that is too small.
MC_Job == { PairJob(x, y, n, 100) : x \in Ops, y \in Ops, n \in {3, 7} }
            \cup { PairJob(nop, nop, 7, 20), ShaderJob(Vertices(9), Frames, 100),
                   ShaderJob(Vertices(3), Frames, 9) }

\* Accepted for 64 words a thread: five cycles of twelve words, rounded up to six.  The
\* program copies the first word of the input to the output.
MC_RoundJob ==
    { [ShaderJob(Vertices(9), << [a \in {1} |-> 1] >>, 100) EXCEPT
         !.program = << gp_ldl(0, OFST_VEC3_VTEX_INPUT), gp_stl(0, OFST_VECI4_VTEX_OUTPUT + 1) >>] }

\* The programs are confined and the units are what the theorems take them for.
ASSUME ConfinedAssumption == AllConfined /\ UnitsCompute /\ ShaderJobs
=============================================================================
