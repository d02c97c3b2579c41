\* A directory tracked inside a tracked directory, and restored.
CONSTANTS
    Dirs <- TwoDirs
    Walk <- WalkAll
    Copies <- CopiesAll
    CopyOf <- CopyOfAll
    Stamps = {1, 2}
    None = None
    Base <- BasePatterns
    IgnoreSets <- IgnoreFiles
    MaxIds = 2
    MaxQueue = 1
    MaxChanges = 0
SPECIFICATION Spec
INVARIANT RestoresWholeDirectory
CHECK_DEADLOCK FALSE
