SPECIFICATION Spec
CONSTANTS
    e1 = e1
    v1 = v1
    Events = {e1}
    Calls = {v1}
    CallTo <- OnScreen
    Slots = 2
    Serves <- SlotServes
    NoMessage = NoMessage
    PageSize = 1
    MaxConversation = 4
    MaxTrouble = 2
CHECK_DEADLOCK FALSE
INVARIANTS
    TypeOK
    CountedOnce
    DeliveredIsApplied
    KeptUnlessDeleted
    OrphansPending
    ReopenedWhenFree
    NewerChangeVetoes
