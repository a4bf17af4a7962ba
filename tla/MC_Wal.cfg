SPECIFICATION WalSpec
CONSTANTS
    p1 = p1
    p2 = p2
    p3 = p3
    p4 = p4
    NoPayload = NoPayload
    Garbled = Garbled
    Payload <- MCPayload
    MaxSeq = 4
    MaxCrash = 2
    MaxTorn = 1
    MaxTruncate = 1
    MaxMisread = 2
INVARIANTS
    WalTypeOK
    RecoveryFindsInFlight
    NumberingSound
CHECK_DEADLOCK FALSE
