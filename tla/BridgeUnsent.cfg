SPECIFICATION BridgeSpec
CONSTANTS
    A = A
    B = B
    C = C
    D = D
    emc = emc
    ch = ch
    u1 = u1
    u2 = u2
    p1 = p1
    p2 = p2
    p3 = p3
    Adapters = {A, B}
    Aprs = {B}
    SharedNet = {}
    Callsigns = {u2}
    Workers = {A, B}
    Short <- ShortTexts
    Deco = deco
    Token = 2
    EchoWindow = 3
    TicksPerMinute = 2
    SentCap = 4
    RepeatWithin = 2
    Volatile = {B}
    SendWithin = 1
    MaxLoads = 0
    MaxTime = 4
    MaxHeard = 4
    None = none
    Rules <- PairRules
    Inputs <- PairInputs
    WorkerOf <- ReceiveTasks
INVARIANTS DuplicateOfSent
CHECK_DEADLOCK FALSE
