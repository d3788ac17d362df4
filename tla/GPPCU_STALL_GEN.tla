-------------------------- MODULE GPPCU_STALL_GEN --------------------------
(***************************************************************************)
(* The scoreboard (GPPCU_STALL_GEN.v): one bit per register, set while the *)
(* instruction that writes it is between issue and writeback.  The module  *)
(* is a component of GPPCU_CORE, which drives its inputs.                  *)
(***************************************************************************)
EXTENDS GPPCU_INSTR_DEC

CONSTANT Reg          \* the registers of a thread (NUMREG = 32 of them)

VARIABLE occupied     \* the registers marked as waiting for a writer

StallGenType == occupied \subseteq Reg

StallGenInit == occupied = {}

\* oENABLED: no register the decode stage asks for (iVALID_REGA/B) is occupied.
oENABLED(rq_mask) == occupied \cap rq_mask = {}

\* Mutant of pending_occupy: a held instruction claims its register too.
pending_occupy_Ungated(rq_mask, regd, wrreg) == (occupied \cup regd) \ wrreg

\* pending_occupy.  insig are the registers claimed by the instruction in decode,
\* outsig the ones released by the writeback stage; a register that is claimed and
\* released in one clock ends up free.
pending_occupy(rq_mask, regd, wrreg) ==
    LET insig == IF oENABLED(rq_mask) THEN regd ELSE {}
    IN  (occupied \cup insig) \ wrreg

StallGenClock(rq_mask, regd, wrreg) == occupied' = pending_occupy(rq_mask, regd, wrreg)

\* Mutant of StallGenReset: the marks survive a reset.
StallGenReset_Keeps == UNCHANGED occupied

StallGenReset == occupied' = {}
=============================================================================
