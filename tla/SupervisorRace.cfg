SPECIFICATION Spec
CONSTANTS
    a = a
    b = b
    a1 = a1
    a2 = a2
    a3 = a3
    b1 = b1
    b2 = b2
    NoInst = NoInst
    NoTask = NoTask
    Names = {a}
    Insts = {a1, a2, a3}
    BootInsts = {a1}
    BuiltinSims = {}
    SwallowsCancel = {a1, a2}
    RaisesOnClose = {a2}
    Clients = {c1, c2}
    NameOf <- MCNameOf
INVARIANTS TypeOK NoOrphanedTransport OneSupervisorPerObject LiveTasksAreTracked StoppedIsQuiet
CHECK_DEADLOCK FALSE
