SPECIFICATION TasksSpec
CONSTANTS
    Thread <- MC_Thread
    Reg <- MC_Reg
    Instr = {}
    Bits = 8
    DataSize = 256
    MemDepth = 128
    ro_max_word_per_thread = 128
    ClearedWords = 40
    Garbage = {77}
    Job <- MC_Job
    AluQ <- oQ
    AluSreg <- AluFlags
    FpuQ <- MC_FpuQ
CHECK_DEADLOCK FALSE
INVARIANTS TasksType TasksRunAlone ResultsInOrder VerticesTransformed
