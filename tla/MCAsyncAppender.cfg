SPECIFICATION Spec
CONSTANTS
    Producers = {p1, p2}
    LinesPer = 2
    LineLength <- MCLineLength
    BufferSize = 3
    DropLimit = 2
    NoBuffer = NoBuffer
INVARIANTS
    TypeOK
    BuffersReady
    LogPreserved
PROPERTIES
    LineReachesAppender
    StopReturns
