SPECIFICATION FairSpec
CONSTANTS
    Aggregates = {contact1}
    Types = {"created", "merged"}
    Targets = {1, 2}
    Subscribes <- Routed
    Dispatchers = {d1}
    MaxEvents = 2
    Limit = 2
    Serialized = TRUE
    MaxFaults = 0
    NoAggregate = NoAggregate
    NoType = NoType
CHECK_DEADLOCK FALSE
PROPERTIES
    EveryEventDelivered
