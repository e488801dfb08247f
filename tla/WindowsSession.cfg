SPECIFICATION FairSpec
CONSTANTS
    Ifaces <- MCIfaces
    Settings <- MCSettings
    Answers = {"Enabled", "DisabledBySku"}
    Port = 5335
    MaxFaults = 2
    MaxCrashes = 2
    MaxChanges = 1
INVARIANT TypeOK
INVARIANT Recoverable
INVARIANT Whole
INVARIANT RefusedUpFront
PROPERTY CleanUpEnds
