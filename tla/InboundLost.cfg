SPECIFICATION InboundSpec
CONSTANTS
    A = A
    B = B
    h1 = h1
    h2 = h2
    ch = ch
    side = side
    u1 = u1
    u2 = u2
    own1 = own1
    own2 = own2
    p1 = p1
    p2 = p2
    None = none
    Adapters = {A, B}
    Radios = {A, B}
    Aprs = {}
    Inputs = {}
    SharedNet = {}
    Callsigns = {}
    HoldSlots = {h1, h2}
    Workers = {A, B, h1, h2}
    Short = {}
    Deco = deco
    Token = 1
    TicksPerMinute = 1
    SentCap = 8
    RepeatWithin = 0
    SendWithin = 1
    Volatile = {}
    DedupWindow = 0
    Hold = 1
    MergeWindow = 2
    EchoWindow = 3
    CopyWithin = 1
    MaxTime = 4
    MaxHeard = 4
    MaxLoads = 0
    MaxSpoken = 2
    Rules <- SiteRules
    WorkerOf <- TaskOf
    OwnName <- Own
    ChannelName <- LabelAt
    NodeName <- NameAt
    Spoken <- UserTexts
INVARIANTS SuppressedIsShown
CHECK_DEADLOCK FALSE
