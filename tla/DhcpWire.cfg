SPECIFICATION Spec
CONSTANTS
    Chunk = 2
    Data <- MCData
    HLens = {6, 17}
    PadTo = 8
    MaxItems = 4
INVARIANT ReadAsMeant
INVARIANT AnswerRead
