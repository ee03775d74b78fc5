SPECIFICATION Spec
CONSTANTS
    Generators = {g1, g2, g3}
    Old = old
    Absent = absent
    Faults = {"fail", "signal", "kill"}
INVARIANTS
    PublishedSurvives
    CleanedRunsLeaveTheirResult
    OneRunPublishes
PROPERTY EveryRunEnds
CHECK_DEADLOCK FALSE
