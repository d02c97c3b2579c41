\* A failed Stage removes content that a queued operation needs.
CONSTANTS
    Clients = {c1}
    Process <- OwnProcess
    Files = {f1, f2}
    Blocks = {x, y}
    MaxSize = 3
    MaxChanges = 1
    MaxOps = 3
    MaxFaults = 0
SYMMETRY Symmetric
SPECIFICATION Spec
INVARIANT QueuedContentPresent
CHECK_DEADLOCK FALSE
