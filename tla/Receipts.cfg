SPECIFICATION FairSpec
CONSTANTS
    first = first
    other = other
    plain = plain
    prepared = prepared
    direct = direct
    Callers = {first, other, plain}
    Keys = {prepared, direct}
    Inputs = {1, 2}
    KeyOf <- KeyOfCaller
    InputOf <- InputOfCaller
    Preflighted = {prepared}
    MaxRequests = 3
    NoCaller = NoCaller
    NoReceipt = NoReceipt
CHECK_DEADLOCK FALSE
INVARIANTS
    TypeOK
    EffectIffReceipt
    RefusedLeavesNothing
PROPERTIES
    ImplementsCommandOnce
    EveryRequestEnds
