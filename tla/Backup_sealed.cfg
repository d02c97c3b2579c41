\* The same content staged in a plain and in an encrypted directory.
CONSTANTS
    a = a
    b = b
    c = c
    inA = inA
    inB = inB
    inC = inC
    x = x
    y = y
    x1 = x1
    x2 = x2
    y1 = y1
    Dirs = {a, b}
    Paths = {inA, inB}
    Above <- FlatAbove
    Like <- FlatLike
    Snaps = {x1}
    Contents = {x}
    ContentOf <- SnapContent
    Null = Null
    MaxIds = 4
    MaxSnaps = 3
    MaxCiphers = 2
    MaxDirs = 2
    MaxStaged = 2
    MaxRejects = 0
    MaxStops = 0
SPECIFICATION Spec
INVARIANT EncryptedDirSealed
CHECK_DEADLOCK FALSE
