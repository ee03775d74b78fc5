SPECIFICATION SizesSpec
CONSTANTS
    UsizeMax <- MCUsizeMax
    Limits <- MCLimits
    Lengths <- MCLengths
INVARIANTS
    SealedIsAdmitted
    AdmittedIsBounded
    TooLargeIsTruthful
