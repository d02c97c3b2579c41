\* A directory consolidated after a file in it was staged.
CONSTANTS
    a = a
    b = b
    c = c
    inA = inA
    inB = inB
    inC = inC
    x = x
    y = y
    x1 = x1
    x2 = x2
    y1 = y1
    Dirs = {a, b}
    Paths = {inB}
    Above <- TreeAbove
    Like <- TreeLike
    Snaps = {x1}
    Contents = {x}
    ContentOf <- SnapContent
    Null = Null
    MaxIds = 3
    MaxSnaps = 2
    MaxCiphers = 2
    MaxDirs = 2
    MaxStaged = 1
    MaxRejects = 0
    MaxStops = 0
SPECIFICATION FairSpec
PROPERTY EventuallyBackedUp
CHECK_DEADLOCK FALSE
