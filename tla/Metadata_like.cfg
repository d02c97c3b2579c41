\* Directory names with a LIKE wildcard.
CONSTANTS
    a = a
    b = b
    c = c
    inA = inA
    inB = inB
    inC = inC
    x = x
    y = y
    x1 = x1
    x2 = x2
    y1 = y1
    Dirs = {a, b, c}
    Paths = {inC}
    Above <- WildAbove
    Like <- WildLike
    Snaps = {x1}
    Contents = {x}
    ContentOf <- SnapContent
    Null = Null
    MaxIds = 4
    MaxSnaps = 1
    MaxCiphers = 2
SPECIFICATION Spec
PROPERTY ConsolidatesChildrenOnly
CHECK_DEADLOCK FALSE
