SPECIFICATION FairSpec
CONSTANTS
    N = 2
    Loops = {loop}
    Request = request
    Reconciler = reconciler
    MaxTrouble = 4
    NoReceipt = NoReceipt
    NoCompletion = NoCompletion
CHECK_DEADLOCK FALSE
INVARIANTS
    TypeOK
    TargetInheritsNothing
    NotSetAside
PROPERTIES
    Settles
