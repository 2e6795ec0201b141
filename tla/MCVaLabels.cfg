CONSTANTS
    NLabels = 2
    Uuids = {u1, u2, u3}
    MaxRef = 2
    Preemptive = TRUE
    Absent = Absent

SPECIFICATION Spec

INVARIANT TypeOK
INVARIANT LiveLabelsStored
