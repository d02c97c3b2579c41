\* Nested directories tracked between stage and backup; failures and crashes.
CONSTANTS
    a = a
    b = b
    c = c
    inA = inA
    inB = inB
    inC = inC
    x = x
    y = y
    x1 = x1
    x2 = x2
    y1 = y1
    Dirs = {a, b}
    Paths = {inA, inB}
    Above <- TreeAbove
    Like <- TreeLike
    Snaps = {x1, y1}
    Contents = {x, y}
    ContentOf <- SnapContent
    Null = Null
    MaxIds = 5
    MaxSnaps = 4
    MaxCiphers = 3
    MaxDirs = 3
    MaxStaged = 3
    MaxRejects = 1
    MaxStops = 1
SPECIFICATION FairSpec
INVARIANTS TypeOK Restorable
PROPERTIES ImplementsVersionStore ImplementsMetadata BackedUpUnlessBlocked BackupEnds
CHECK_DEADLOCK FALSE
