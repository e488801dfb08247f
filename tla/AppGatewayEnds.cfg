SPECIFICATION FairSpec
CONSTANTS
    ui = ui
    quit = quit
    Callers <- MCCallers
    MaxStarts = 1
    MaxFaults = 1
PROPERTIES
    StopEndsAlone
    CaptureWithdrawn
