SPECIFICATION FairSpec
CONSTANTS
    a = a
    b = b
    a1 = a1
    a2 = a2
    a3 = a3
    b1 = b1
    b2 = b2
    NoInst = NoInst
    NoTask = NoTask
    Names = {a}
    Insts = {a1, a2}
    BootInsts = {}
    BuiltinSims = {a1}
    SwallowsCancel = {}
    RaisesOnClose = {a2}
    Clients = {c1}
    NameOf <- MCNameOf
INVARIANTS RegisteredIsSupervised RecordedTaskIsCurrent
PROPERTIES StopEnds StopAdapterReturns FailureIsRetried
CHECK_DEADLOCK FALSE
