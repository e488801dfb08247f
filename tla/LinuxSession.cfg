SPECIFICATION FairSpec

CONSTANTS
    d1 = d1
    Devices <- MCDevices
    MaxFaults = 2
    MaxCrashes = 2
    MaxMeddling = 1

INVARIANTS
    TypeOK
    Accounted
    CleanWhenQuiet
    ForwardingRemembered
    CaptureOnlyOnGateway
    StatusNotBetter
PROPERTY CleanUpEnds
