SPECIFICATION Spec
CONSTANTS
    UsizeMax <- MCUsizeMax
    Sealers <- CbcSealers
    Openers <- CbcOpeners
    Config <- CbcConfig
    Keys <- CbcKeys
    Payloads <- MCPayloads
    EmptyPayload = "empty"
    PayloadLen <- MCPayloadLen
    Contexts <- MCContexts
    MaxSeals = 2
    StrangerKey = stranger
    aSign = aSign
    aDecrypt = aDecrypt
    bSign = bSign
    bDecrypt = bDecrypt
INVARIANTS
    TypeOK
    ReleasedWithinLimit
    FailuresAlikeAfterUnwrap
PROPERTY ImplementsChannel
