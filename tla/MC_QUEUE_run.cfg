SPECIFICATION QueueHostSpec
CONSTANTS
    blank = blank
    a = a
    b = b
    Word <- MC_Word
    Blank = blank
    QDepth = 4
    CycleLimit = 5
    OfstLimit = 32
    Job <- MC_Job
    Edges = 3
INVARIANTS QueueHostType RunComplete OffsetFollowsCycle BusSkew
PROPERTY RunEnds
