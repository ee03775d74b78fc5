CONSTANTS
    Builders = {"b1"}
    Artifacts <- TwoArtifacts
    Faults = {"fail"}
    MeddlePoints <- AllPoints
    MaxMeddles = 0
SPECIFICATION Spec
CHECK_DEADLOCK FALSE
INVARIANT UnchangedReservationCleaned
