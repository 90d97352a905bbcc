CONSTANTS
    MaxBody = 5
    BodyLimit = 4
    InSize = 2
    MaxTries = 2
    MaxCapacity = 1
    Sink = Sink
    None = None
CHECK_DEADLOCK FALSE
SPECIFICATION RequestBodySpec
INVARIANTS
    RequestBodyTypeOK
    AssertionsHold
    WholeBodySent
PROPERTIES
    BodyEnds
    ConsumersLeave
