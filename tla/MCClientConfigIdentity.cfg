SPECIFICATION ConfigSpec
CONSTANTS
    Tokens = {}
    UsizeMax = 2147483647
    Base <- MCBase
    Texts <- MCTexts
    ByteLens <- MCByteLens
    Limits <- MCLimits
    MaxSets = 3
INVARIANT IdentityFitsHeaders
CHECK_DEADLOCK FALSE
