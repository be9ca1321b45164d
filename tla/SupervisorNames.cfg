SPECIFICATION Spec
CONSTANTS
    a = a
    b = b
    a1 = a1
    a2 = a2
    a3 = a3
    b1 = b1
    b2 = b2
    NoInst = NoInst
    NoTask = NoTask
    Names = {a}
    Insts = {a1, a2}
    BootInsts = {a1}
    BuiltinSims = {}
    SwallowsCancel = {a1, a2}
    RaisesOnClose = {}
    Clients = {c1}
    NameOf <- MCNameOf
INVARIANTS OneSupervisorPerName
CHECK_DEADLOCK FALSE
