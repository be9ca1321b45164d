SPECIFICATION OutboundFairSpec
CONSTANTS
    T = T
    C = C
    c1 = c1
    c2 = c2
    Calls = {c1, c2}
    Targets <- BothRadios
    Urgent = {c1}
    Direct = {c2}
    Radios = {T, C}
    ById = {T}
    Device = device
    NoMsg = nomsg
    MaxFrames = 1
    MaxTrouble = 1
INVARIANTS OutboundTypeOK AnswersReachTheirMessage OneVerdict EverySendIsLogged
PROPERTIES EmergencyPages StatusAsPromised
CHECK_DEADLOCK FALSE
