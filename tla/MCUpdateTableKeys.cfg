CONSTANTS
    Table = "keys"
    Ids <- MCIds
    Vals = {v1, v2}
    NSlots = 2
    Preemptive = TRUE
    Absent = Absent

SPECIFICATION Spec

INVARIANT TypeOK
INVARIANT StoreMatchesMemory
