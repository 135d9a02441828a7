SPECIFICATION FairSpec
CONSTANTS
    left = left
    right = right
    Executions = {1, 2}
    Plan <- PlanOfTwo
    FactVersion = 1
    Runners = {left, right}
    Asking <- AskingOfTwo
    MaxEdits = 1
    MaxDisturbances = 1
    MaxFaults = 1
    NoRunner = NoRunner
    NoReceipt = NoReceipt
CHECK_DEADLOCK FALSE
INVARIANTS
    TypeOK
    NoFabricatedFailure
    FactFenced
    SoundNotQuarantined
    Inherited
PROPERTIES
    FinalIsFinal
    ImplementsOwnerPromise
    Settles
