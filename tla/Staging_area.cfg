\* Two processes on one staging directory, with I/O errors and crashes.
CONSTANTS
    Clients = {c1, c2}
    Process <- OwnProcess
    Files = {f1}
    Blocks = {x, y}
    MaxSize = 2
    MaxChanges = 1
    MaxOps = 2
    MaxFaults = 1
SYMMETRY Symmetric
SPECIFICATION Spec
INVARIANTS TypeOK NoOrphanContent LostOnlyByDiscard NothingDropped SnapshotConsistent
CHECK_DEADLOCK FALSE
