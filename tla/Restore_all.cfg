\* Restores of a file and of the directory that fail, are killed and repeated.
CONSTANTS
    plain = plain
    sealed = sealed
    Files = {plain, sealed}
    Sealed = {sealed}
    Listing <- InOrder
    Chunks = 2
    MaxCommands = 3
    MaxFaults = 2
SPECIFICATION FairSpec
INVARIANTS TypeOK ReportedComplete NoPartialOutput NoLeak
PROPERTY RestoreEnds
CHECK_DEADLOCK FALSE
