CONSTANTS
    ShortT = 1
    StoreT = 1
    RplT = 1
    SeqRate = 2
    MaxSeq = 4
    NetVals = {n1, n2}
    Absent = Absent
    Preemptive = TRUE
    MarkCats = {}

SPECIFICATION Spec

INVARIANT ProvisioningDurable
INVARIANT SeqDurable
INVARIANT SeqCodecSound
