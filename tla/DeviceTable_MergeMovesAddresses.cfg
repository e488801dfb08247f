SPECIFICATION Spec
CONSTANTS
    a1 = a1
    a2 = a2
    tablet = tablet
    laptop = laptop
    NoAddr = NoAddr
    NoKey = NoKey
    Addrs <- MCAddrs
    Keys <- MCKeys
    TextKeys <- MCTextKeys
    Name = name
    Decisions = {name}
    MaxDevices = 2
    MaxAddrs = 3
    QueueLength = 1
    MaxUnsaved = 1
    Ids <- MCIds
    NoId = NoId
    d1 = d1
    d2 = d2
    d3 = d3
SYMMETRY MCSymmetry
PROPERTY MergeMovesAddresses
