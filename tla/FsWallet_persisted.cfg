SPECIFICATION Spec
CONSTANTS
    MaxSeeds = 1
    MaxAccs = 2
    MaxUses = 1
    ReadErrors = FALSE
INVARIANTS
    OnlyUsedArePersisted
CHECK_DEADLOCK FALSE
