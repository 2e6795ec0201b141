CONSTANTS
    ShortT = 1
    StoreT = 1
    RplT = 1
    SeqRate = 2
    MaxSeq = 2
    NetVals = {n1}
    Absent = Absent
    Preemptive = TRUE
    MarkCats = {"CFG"}

SPECIFICATION Spec

INVARIANT SeqDurable
