SPECIFICATION Spec
CONSTANTS
    Messages = {m1}
    MaxAttempts = 2
    Workers = {w1, w2}
    Bodies = {b1, b2}
    Provider = "twilio"
    DefiniteRejections = TRUE
    MaxFaults = 1
    NoMessage = NoMessage
    NoWorker = NoWorker
    NoBody = NoBody
SYMMETRY Interchangeable
CHECK_DEADLOCK FALSE
INVARIANTS
    TypeOK
    AtMostOneCopy
    CancelledNeverSent
PROPERTIES
    VisibleNeverRegresses
