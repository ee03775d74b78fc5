SPECIFICATION Spec
CONSTANTS
    Tokens <- MCTokens
    UsizeMax = 65535
    Config <- MCConfig
    Keys <- MCKeys
    Identity <- MCIdentity
    Adapter <- MCAdapter
    Schema <- MCSchema
    Payloads <- MCPayloads
    EmptyPayload = "empty"
    PayloadLen <- MCPayloadLen
    RawLengths <- MCRawLengths
    MaxSeals = 2
INVARIANTS
    DeclaredOutcomes
    AcceptsExactlyTheSound
    OpensExactlyTheValid
    BoundariesAreTight
