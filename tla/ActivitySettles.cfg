SPECIFICATION FairSpec
CONSTANTS
    e1 = e1
    v1 = v1
    Events = {e1}
    Calls = {v1}
    CallTo <- OnScreen
    Slots = 1
    Serves <- OneSlotServes
    NoMessage = NoMessage
    PageSize = 1
    MaxConversation = 4
    MaxTrouble = 2
CHECK_DEADLOCK FALSE
PROPERTIES
    Settles
    
