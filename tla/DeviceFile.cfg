SPECIFICATION Spec
CONSTANTS
    Savers = {s1, s2, s3}
    Length <- MCLength
    MaxChanges = 4
    MaxCrashes = 2
    MaxFaults = 1
SYMMETRY Symmetry
INVARIANTS
    FileWhole
    SavedWhenQuiet
CHECK_DEADLOCK FALSE
