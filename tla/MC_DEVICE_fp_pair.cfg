SPECIFICATION DeviceSpec
CONSTANTS
    Thread <- MC_Thread
    Reg <- MC_Reg
    Instr <- MC_Word
    DontCare = 5
    Word <- MC_Word
    Blank <- nop
    QDepth = 64
    CycleLimit = 5
    OfstLimit = 32
    Job <- MC_CastJob
    Edges = 3
INVARIANT InProgramOrder
