\* Nested directories, ignore rules in both, changes at any time.
CONSTANTS
    Dirs <- TwoDirs
    Walk <- WalkAll
    Copies <- CopiesAll
    CopyOf <- CopyOfAll
    Stamps = {1, 2}
    None = None
    Base <- BasePatterns
    IgnoreSets <- IgnoreFiles
    MaxIds = 3
    MaxQueue = 2
    MaxChanges = 2
SPECIFICATION Spec
INVARIANTS TypeOK StatusTellsTruth RestoreFindsLast AddComplete CopiesStayOut
CHECK_DEADLOCK FALSE
