SPECIFICATION FairScheduledSpec
CONSTANTS
    Thread <- MC_Thread
    Reg <- MC_Reg
    DontCare = 0
    Instr <- MC_Instr
INVARIANTS TypeOK IssueIsSafe StallHasCause FpOwned ScoreboardInv
PROPERTIES FpFinishes StallResolves
