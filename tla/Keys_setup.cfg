\* config init repeated after failures and kills, between commands.
CONSTANTS
    MaxKeys = 3
    MaxHosts = 3
    MaxFaults = 3
    None = None
    Torn = Torn
    Plain = Plain
SPECIFICATION Spec
INVARIANTS TypeOK Recoverable VaultHoldsKeys
PROPERTY KeysImmutable
CHECK_DEADLOCK FALSE
