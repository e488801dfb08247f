SPECIFICATION FairSpec
CONSTANTS
    ui = ui
    quit = quit
    Callers <- MCCallers
    MaxStarts = 1
    MaxFaults = 0
PROPERTY StopEnds
