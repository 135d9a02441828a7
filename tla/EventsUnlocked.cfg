SPECIFICATION Spec
CONSTANTS
    Aggregates = {ticket}
    Types = {"commented"}
    Targets = {1, 2}
    Subscribes <- EveryType
    Dispatchers = {d1}
    MaxEvents = 2
    Limit = 2
    Serialized = FALSE
    MaxFaults = 0
    NoAggregate = NoAggregate
    NoType = NoType
CHECK_DEADLOCK FALSE
INVARIANTS
    VersionsConsecutive
