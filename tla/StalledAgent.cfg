\* One seat; a single unread turn message fills the pipe.
SPECIFICATION RuntimeSpec
CONSTANTS
    Count = 1
    MaxTurns = 1
    MaxStarts = 1
    MaxCloses = 1
    PipeRoom = 1
    NULL = NULL
PROPERTIES
    EveryCallReturns
CHECK_DEADLOCK FALSE
