\* Nested directories tracked in any order, names without LIKE wildcards.
CONSTANTS
    a = a
    b = b
    c = c
    inA = inA
    inB = inB
    inC = inC
    x = x
    y = y
    x1 = x1
    x2 = x2
    y1 = y1
    Dirs = {a, b, c}
    Paths = {inB, inC}
    Above <- TreeAbove
    Like <- TreeLike
    Snaps = {x1, x2}
    Contents = {x}
    ContentOf <- SnapContent
    Null = Null
    MaxIds = 5
    MaxSnaps = 2
    MaxCiphers = 1
SPECIFICATION Spec
INVARIANTS TypeOK OneFilePerPath NestedOwnNothing NoRepeatedSnapshot
PROPERTIES CoverageKept HistoryKept
CHECK_DEADLOCK FALSE
