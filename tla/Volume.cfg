SPECIFICATION Spec
CONSTANTS
    Procs = {p, q}
    Files = {f, g}
    Contents = {a}
    Labels = {hand}
    Safety = Safety
    Keeps = {0}
    MaxSeq = 2
    Absent = Absent
    None = None
SYMMETRY Symmetry
CHECK_DEADLOCK FALSE
INVARIANT NothingIsLost
INVARIANT RestoresAreWhole
PROPERTY SnapshotsNeverChange
