CONSTANTS
    Table = "nodes"
    Ids <- MCIds
    Vals = {v1, v2}
    NSlots = 2
    Preemptive = FALSE
    Absent = Absent

SPECIFICATION Spec

PROPERTY NoLiveDelete
