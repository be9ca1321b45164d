SPECIFICATION Spec
CONSTANTS
    AprsMessages = {m1, m2}
    RetryDelays = 2
    OutgoingCap = 1
    EvictCount = 1
    ObjectNames = {shelter}
    MaxVersions = 2
    HubCallers = {h1}
    Paths = {is, rf}
    SerialPaths = {rf}
    AprsIncoming = {q1, q2}
    SeenWindow = 2
    AckWithin = 1
    MaxHearings = 3
    MaxTicks = 4
    MaxRestarts = 1
    CatCallers = {c1}
    MaxCatRequests = 2
    MaxCatTroubles = 1
    RigBacklog = 1
    SmsMessages = {s1, s2, s3}
    Nameless = {s2}
    PlusTexts = {s3}
    Slots = {1, 2}
    ReusesSlots = FALSE
    MaxSmsTimeouts = 0
    MaxSmsSends = 1
    Empty = Empty
    BotUsers = {u1}
    BotChannels = {ch}
    Talkative = {}
    Fields = 1
    GameItems = {key}
    MaxBotMessages = 4
    MaxUnstarted = 1
    MaxForms = 1
    MaxQuestions = 1
    RadioMail = {d1}
    StaleContacts = {k1}
    Requesters = {"contacts", "pulse"}
    MaxCommands = 2
    MaxFrames = 1
    MaxLinkDrops = 1
    NoMail = NoMail
INVARIANTS LinksTypeOK NoZombies ShownOnce
PROPERTIES RetriesAreDelivery LatestIsAnnounced SmsGetsThrough ConfirmedKeyIsReleased AbandonedGamesEnd MessagesAreFetched
CHECK_DEADLOCK FALSE
