CONSTANTS
    ShortT = 1
    StoreT = 2
    RplT = 3
    SeqRate = 2
    MaxSeq = 0
    NetVals = {n1}
    Absent = Absent
    Preemptive = FALSE
    MarkCats <- MCMarkCats

SPECIFICATION Spec

INVARIANT SpecDeadline
