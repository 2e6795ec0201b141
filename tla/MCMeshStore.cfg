CONSTANTS
    ShortT = 1
    StoreT = 2
    RplT = 3
    SeqRate = 2
    MaxSeq = 2
    NetVals = {n1}
    Absent = Absent
    Preemptive = TRUE
    MarkCats <- MCMarkCats

SPECIFICATION Spec

INVARIANT TypeOK
INVARIANT FlushDeadline
