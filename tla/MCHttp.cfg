SPECIFICATION HttpSpec
CONSTANTS
    Kinds = {"request", "response"}
    BufSize = 34
    Wires <- MCWires
INVARIANTS
    CallbacksExact
    EndReported
    RequestsInOrder
    DroppedOnlyPipelined
PROPERTIES
    ImplementsEvents
    EventuallyClosed
