SPECIFICATION ThreadsSpec
CONSTANTS
    Thread <- MC_Thread
    Reg <- MC_Reg
    Instr <- MC_Instr
    DontCare = 5
    Bits = 2
    DataSize = 4
    MemDepth = 2
    GMem <- MC_GMem
    AluQ <- oQ
    AluSreg <- AluFlags
    FpuQ <- MC_FpuQ
CONSTRAINT OneKind
INVARIANTS ThreadType FpDoneIsOwn
PROPERTY CarriesOutInOrder
