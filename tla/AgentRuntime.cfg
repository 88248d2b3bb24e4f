\* Two seats, two turns, sequential and simultaneous.
SPECIFICATION RuntimeSpec
CONSTANTS
    Count = 2
    MaxTurns = 2
    MaxStarts = 1
    MaxCloses = 2
    PipeRoom = 4
    NULL = NULL
INVARIANTS
    NoOrphans
PROPERTIES
    ActionAnswersItsTurn
    EveryCallReturns
CHECK_DEADLOCK FALSE
