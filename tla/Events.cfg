SPECIFICATION FairSpec
CONSTANTS
    Aggregates = {contact1, contact2}
    Types = {"created", "merged", "noted"}
    Targets = {1, 2}
    Subscribes <- Routed
    Dispatchers = {d1, d2}
    MaxEvents = 2
    Limit = 1
    Serialized = TRUE
    MaxFaults = 1
    NoAggregate = NoAggregate
    NoType = NoType
CHECK_DEADLOCK FALSE
INVARIANTS
    TypeOK
    DeliveredToAll
    AppliedInOrder
    VersionsConsecutive
PROPERTIES
    DeliveredUnlessStuck
