SPECIFICATION Spec
CONSTANTS
    MaxSeeds = 2
    MaxAccs = 3
    MaxUses = 2
    ReadErrors = TRUE
INVARIANTS
    TypeOK
    UseCountsSurvive
    UsedKeysAreNotReissued
    UnlockedKeyMatches
    IInv
PROPERTIES
    ImplementsKeyStore
CHECK_DEADLOCK FALSE
