CONSTANTS
    ShortT = 1
    StoreT = 2
    RplT = 2
    SeqRate = 2
    MaxSeq = 0
    NetVals = {n1}
    Absent = Absent
    Preemptive = TRUE
    MarkCats <- MCMarkCats

SPECIFICATION FairSpec

PROPERTY FlushProgress
