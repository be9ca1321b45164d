SPECIFICATION BridgeSpec
CONSTANTS
    A = A
    B = B
    C = C
    D = D
    emc = emc
    ch = ch
    u1 = u1
    u2 = u2
    p1 = p1
    p2 = p2
    p3 = p3
    Adapters = {A, B, C, D}
    Aprs = {B, D}
    SharedNet <- NetShared
    Callsigns = {u2}
    Workers = {A, B, C, D}
    Short <- ShortTexts
    Deco = deco
    Token = 2
    EchoWindow = 2
    TicksPerMinute = 2
    SentCap = 2
    RepeatWithin = 1
    Volatile = {C}
    SendWithin = 1
    MaxLoads = 1
    MaxTime = 3
    MaxHeard = 3
    None = none
    Rules <- NetRules
    Inputs <- NetInputs
    WorkerOf <- ReceiveTasks
INVARIANTS NothingReturns ForwardedOnce RateRespected
CHECK_DEADLOCK FALSE
