SPECIFICATION Spec
CONSTANTS
    BotUsers = {u1}
    BotChannels = {ch}
    Talkative = {}
    Fields = 2
    GameItems = {key}
    MaxBotMessages = 5
    MaxUnstarted = 2
    MaxForms = 2
    MaxQuestions = 2
    StoredMessages = {x}
    Purgers = {hourly, asked}
    MaxRestores = 1
    MaxStoreCrashes = 1
    storm = storm
    flood = flood
    loop = loop
    Reports = {storm, flood}
    Sorts = {"wind", "water"}
    SortOf <- mcSortOf
    Polls = {loop, asked}
    MinInterval = 1
    Cooldown = 2
    Hour = 3
    MaxPerHour = 2
    MaxClock = 2
    MaxAired = 3
    MaxPollRestarts = 1
    main = main
    added = added
    dropped = dropped
    CodeFiles = {main, added, dropped}
    Releases = 2
    Ships <- mcShips
    Updates = {w1, w2}
INVARIANTS ServicesTypeOK UsedOnce FiledReportsAreWhole StopStops NothingLost LimitsHold
PROPERTIES RestoredStay VersionIsEarned
CHECK_DEADLOCK FALSE
