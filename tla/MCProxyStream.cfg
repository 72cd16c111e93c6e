SPECIFICATION PxSpec
CONSTANTS
    PxOrder <- Given
    PxName <- GivenNames
    PxOther <- OtherWords
    PxMaxWords = 3
    PxMustAudit = TRUE
INVARIANT
    PxSplitRestored
CHECK_DEADLOCK FALSE
