SPECIFICATION Spec
CONSTANTS
    Tokens <- MCTokens
    UsizeMax <- MCUsizeMax
    Candidates <- MCCandidates
    Peer <- MCPeer
    Config <- MCConfig
    Keys <- MCKeys
    Identity <- MCIdentity
    Adapter <- MCAdapter
    Schema <- MCSchema
    Payloads <- MCPayloads
    EmptyPayload = "empty"
    PayloadLen <- MCPayloadLen
    Documents = {"doc"}
    Calls <- MCCalls
    Unserializable = "unserializable"
    MaxSeals = 4
INVARIANTS
    RequestsOpenAtThePeer
    IntactAnswersOpen
    PinnedClientsNeverMismatch
PROPERTY ImplementsExchange
CONSTRAINT DeepForTheBoundPair
