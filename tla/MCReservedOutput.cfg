CONSTANTS
    Builders = {"b1", "b2"}
    Artifacts <- TwoArtifacts
    Faults = {"fail", "signal", "kill"}
    MeddlePoints <- CheckedPoints
    MaxMeddles = 2
SPECIFICATION FairSpec
CHECK_DEADLOCK FALSE
INVARIANTS CompleteMeansCommitted CommittedStays StoppedRunLeavesNothing
PROPERTIES SparesOutsider CommitPublishesExactSet SomeRunPublishes
