SPECIFICATION PartsSpec
CONSTANTS
    Tokens = {}
    UsizeMax = 2147483647
    Base <- MCBase
    Texts <- MCTexts
    ByteLens <- MCByteLens
    Limits <- MCLimits
    MaxSets = 3
    Private = {"private"}
    Peer = {"peer"}
    PrivateFiles <- MCPrivateFiles
    PeerFiles <- MCPeerFiles
    Passwords = {"pw", "other"}
    MaxReplaced = 2
    Strings <- MCStrings
    FrameHeaders <- MCFrameHeaders
    AEAD_AAD_LABEL <- MCLabel
    MaxMade = 2
    Moments <- MCMoments
    LastDay = 146463
INVARIANTS
    BuiltConfigsAreRunnable
    RolesAreAsDeclared
    ResultIsExplainedByTheFiles
    EncodingsReadOneWay
    DatesFollowTheCalendar
    LaterStampsSortLater
CHECK_DEADLOCK FALSE
