------------------------------- MODULE MC_CORE -------------------------------
(***************************************************************************)
(* GPPCU_CORE on a small instance: two threads, two registers and one      *)
(* instruction for each way an instruction can meet the others: a writer   *)
(* and a reader of each register, a reader that overwrites its source, a   *)
(* counted, a combinational and a self dependent floating point operation, *)
(* and one that neither reads nor writes.                                  *)
(***************************************************************************)
EXTENDS GPPCU_CORE

MC_Thread == {"t0", "t1"}
MC_Reg    == {"r0", "r1"}

I(op, rd, ra, rb) == [op |-> op, rd |-> rd, ra |-> ra, rb |-> rb]

MC_Instr ==
    { I("NOP",  "r0", "r0", "r0"),
      I("MVI",  "r0", "r0", "r0"),      \* writes r0
      I("MOV",  "r1", "r0", "r0"),      \* r1 <- r0
      I("ADI",  "r0", "r0", "r0"),      \* r0 <- r0 + immediate
      I("STL",  "r0", "r0", "r1"),      \* reads both, writes none
      I("FMUL", "r0", "r1", "r1"),      \* counted
      I("FTOI", "r1", "r0", "r0"),      \* combinational
      I("FADD", "r1", "r1", "r0") }     \* counted, reads what it writes
=============================================================================
