SPECIFICATION Spec
CONSTANTS
    UsizeMax <- MCUsizeMax
    Sealers <- ModeSealers
    Openers <- ModeOpeners
    Config <- ModeConfig
    Keys <- ModeKeys
    Payloads <- ModePayloads
    EmptyPayload = "empty"
    PayloadLen <- ModePayloadLen
    Contexts <- MCContexts
    MaxSeals = 2
    StrangerKey = stranger
    aSign = aSign
    aDecrypt = aDecrypt
    bSign = bSign
    bDecrypt = bDecrypt
INVARIANTS
    ReleasedWasSealed
    ModePinned
    RoundTrip
    FrameBoundToContext
