SPECIFICATION OutboundSpec
CONSTANTS
    T = T
    C = C
    c1 = c1
    c2 = c2
    Calls = {c1, c2}
    Targets <- OneRadio
    Urgent = {c1}
    Direct = {c1, c2}
    Radios = {C}
    ById = {}
    Device = device
    NoMsg = nomsg
    MaxFrames = 2
    MaxTrouble = 1
INVARIANT ConfirmedWasDelivered
CHECK_DEADLOCK FALSE
