SPECIFICATION LayerSpec
CONSTANTS
    Tokens <- MCTokens
    HeaderNames <- MCHeaderNames
    HeaderValues <- MCHeaderValues
    MaxHeaders = 2
    Base <- InCipherHeader
    MappedNames <- MCMappedNames
    StaticValues <- MCStaticValues
    MaxSets = 2
    Schemas <- MCSchemas
    Casings = {"lower", "upper"}
    Foreign <- MCForeign
    MaxChanges = 3
INVARIANTS
    CollectionsSound
    BuiltSchemasAreUsable
    ResponsesAreReadExactly
    HarmlessChangesAreInvisible
PROPERTY AppendIsAtomic
CHECK_DEADLOCK FALSE
