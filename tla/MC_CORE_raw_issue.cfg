SPECIFICATION Spec
CONSTANTS
    Thread <- MC_Thread
    Reg <- MC_Reg
    DontCare = 0
    Instr <- MC_Instr
INVARIANT IssueIsSafe
