SPECIFICATION FairSpec
CONSTANTS
    Messages = {m1}
    MaxAttempts = 2
    Workers = {w1, w2}
    Bodies = {b1}
    Provider = "whatsapp"
    DefiniteRejections = TRUE
    MaxFaults = 2
    NoMessage = NoMessage
    NoWorker = NoWorker
    NoBody = NoBody
CHECK_DEADLOCK FALSE
PROPERTIES
    ImplementsSendOnce
    EveryIntentResolves
