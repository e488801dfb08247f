SPECIFICATION Spec
CONSTANTS
    ui = ui
    quit = quit
    Callers <- MCCallers
    MaxStarts = 2
    MaxFaults = 1
SYMMETRY MCSymmetry
INVARIANTS
    TypeOK
    WatcherTouchesLive
    NothingLeft
    CaptureWatched
    SilentBeforeClosed
