CONSTANTS
    NEntries = 2
    MaxSeq = 2
    Preemptive = TRUE
    Absent = Absent
    Srcs <- MCSrcs

SPECIFICATION FairSpec

INVARIANT TypeOK
INVARIANT RplStored
PROPERTY RplWritten
PROPERTY RplRefinesList
