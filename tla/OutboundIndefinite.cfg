SPECIFICATION Spec
CONSTANTS
    Messages = {m1}
    MaxAttempts = 2
    Workers = {w1}
    Bodies = {b1}
    Provider = "twilio"
    DefiniteRejections = FALSE
    MaxFaults = 1
    NoMessage = NoMessage
    NoWorker = NoWorker
    NoBody = NoBody
SYMMETRY Interchangeable
CHECK_DEADLOCK FALSE
INVARIANTS
    EvidenceDecides
    NoStaleFailure
PROPERTIES
    EvidenceStopsResend
