CONSTANTS
    ShortT = 1
    StoreT = 1
    RplT = 1
    SeqRate = 2
    MaxSeq = 4
    NetVals = {n1}
    Absent = Absent
    Preemptive = FALSE
    MarkCats = {}

SPECIFICATION Spec

PROPERTY SeqRestoreNotBehind
