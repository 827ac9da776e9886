SPECIFICATION FairSpec
CONSTANTS
    a = a
    b = b
    c14 = c14
    c5 = c5
    id = id
    none = none
    noStatus = noStatus
    Payloads <- MCPayloads
    Codes <- MCCodes
    Unavailable <- c14
    NoStatus <- noStatus
    Nothing <- none
    Names <- MCNames
    Docs <- CoreDocs
    Settings <- AllSettings
    REQUEST_CHANNEL_BUFFER = 1
    MaxItems = 2
INVARIANTS
    TypeOK
    NoSilentPass
    EveryCheckHeld
    VerdictFollowsStream
    SnapshotComplete
PROPERTIES
    FailFastAfterTimeout
    EndsUnlessStalled
