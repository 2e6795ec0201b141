CONSTANTS
    NLabels = 2
    Uuids = {u1, u2, u3}
    MaxRef = 2
    Preemptive = FALSE
    Absent = Absent

SPECIFICATION Spec

INVARIANT DeletedLabelsGone
