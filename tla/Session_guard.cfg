\* Two commands, alone or overlapping, on a file system or an S3 vault, with
\* crashes and a replaced database.
CONSTANTS
    Procs = {p1, p2}
    Radix = 3
    MaxOps = 4
    MaxFaults = 2
    MaxLosses = 2
    Torn = Torn
SYMMETRY Symmetric
SPECIFICATION Spec
INVARIANTS TypeOK NeverLockedOut VersionNotAhead VersionIsLatest
PROPERTY RemoteKept
CHECK_DEADLOCK FALSE
