----------------------------- MODULE Supervisor -----------------------------
(***************************************************************************)
(* Adapter life cycle of the message router (ech/core/router.py), the      *)
(* adapter contract it relies on (ech/adapters/base.py), and the callers   *)
(* that stop and restart adapters while it runs (ech/api/app.py,           *)
(* ech/core/state.py).                                                     *)
(*                                                                         *)
(* Everything runs on one asyncio loop, so an action is the code between   *)
(* two awaits.  A supervise task is an asyncio task; cancelling it only    *)
(* marks it, and the CancelledError is delivered when it next runs.        *)
(*                                                                         *)
(* Adapters are rebuilt on a reconnect: an element of Insts is one adapter *)
(* object, and NameOf gives the configured name it is registered under.    *)
(* Router.start and start_adapter each create one task per object at most, *)
(* so a task is <<object, creator>>.                                       *)
(***************************************************************************)
EXTENDS Naturals, FiniteSets

CONSTANTS
    Names,          \* configured adapter names
    Insts,          \* adapter objects ever built; its size bounds the rebuilds
    NameOf,         \* name of each object
    BootInsts,      \* objects main.run registers from config.yaml
    BuiltinSims,    \* objects ECHState.init starts before Router.start
    SwallowsCancel, \* objects whose disconnect() absorbs a CancelledError
    RaisesOnClose,  \* objects whose disconnect() may raise before it closes
    Clients,        \* concurrent API requests
    NoInst, NoTask  \* absent dictionary entries

Tasks == Insts \X {"boot", "dyn"}

InstOf(t) == t[1]

ASSUME ConstantsAssumption ==
    /\ Names # {}
    /\ NameOf \in [Insts -> Names]
    /\ BootInsts \subseteq Insts
    /\ BuiltinSims \subseteq Insts
    /\ SwallowsCancel \subseteq Insts
    /\ RaisesOnClose \subseteq Insts
    /\ BootInsts \cap BuiltinSims = {}
    /\ \A i, j \in BootInsts : NameOf[i] = NameOf[j] => i = j
    /\ \A i, j \in BuiltinSims : NameOf[i] = NameOf[j] => i = j
    /\ NoInst \notin Insts
    /\ NoTask \notin Tasks

VARIABLES
    phase,        \* where main.run and Router.stop are
    adapters,     \* Router._adapters: name -> object
    adapterTasks, \* Router._adapter_tasks: name -> task
    tasks,        \* Router._tasks
    built,        \* objects constructed so far
    pc,           \* where each supervise task is suspended
    exiting,      \* the task is in its finally block on the way out
    cancelled,    \* a CancelledError is due when the task next runs
    connected,    \* Adapter._connected
    open,         \* the object's current transport is open
    orphaned,     \* connect() replaced a transport that was still open
    client,       \* progress of each API request
    toClose       \* objects Router.stop has yet to disconnect

registry == <<adapters, adapterTasks, tasks, built>>
control  == <<pc, exiting, cancelled>>
links    == <<connected, open, orphaned>>
vars     == <<phase, registry, control, links, client, toClose>>

Phases    == {"loaded", "simsUp", "running", "gathering", "closing", "stopped",
              "aborted"}
TaskPcs   == {"none", "created", "connecting", "opening", "receive", "report",
              "cleanup", "backoff", "done"}
Ops       == {"reconnect", "remove", "disable"}
\* A request that is not running.
NoRequest == [pc |-> "idle", op |-> "reconnect", name |-> CHOOSE n \in Names : TRUE,
              task |-> NoTask, inst |-> NoInst]

Request ==
    [pc : {"awaitTask"}, op : Ops, name : Names, task : Tasks, inst : {NoInst}]
    \cup [pc : {"disconnect"}, op : Ops, name : Names, task : {NoTask}, inst : Insts]
    \cup [pc : {"sleep"}, op : {"reconnect"}, name : Names, task : {NoTask}, inst : {NoInst}]
    \cup {NoRequest}

Registered    == {n \in Names : adapters[n] # NoInst}
LiveTask(t)   == pc[t] \notin {"none", "done"}
LoopRuns      == phase \notin {"loaded", "simsUp"}
ClientOn(n)   == \E c \in Clients : client[c].pc # "idle" /\ client[c].name = n

TypeOK ==
    /\ phase \in Phases
    /\ adapters \in [Names -> Insts \cup {NoInst}]
    /\ adapterTasks \in [Names -> Tasks \cup {NoTask}]
    /\ tasks \subseteq Tasks
    /\ built \subseteq Insts
    /\ pc \in [Tasks -> TaskPcs]
    /\ exiting \in [Tasks -> BOOLEAN]
    /\ cancelled \in [Tasks -> BOOLEAN]
    /\ connected \in [Insts -> BOOLEAN]
    /\ open \in [Insts -> BOOLEAN]
    /\ orphaned \in [Insts -> BOOLEAN]
    /\ client \in [Clients -> Request]
    /\ toClose \subseteq Insts

Init ==
    /\ phase = "loaded"
    /\ adapters \in [Names -> BootInsts \cup {NoInst}]
    /\ \A n \in Names : IF adapters[n] = NoInst
                        THEN \A i \in BootInsts : NameOf[i] # n
                        ELSE NameOf[adapters[n]] = n
    /\ adapterTasks = [n \in Names |-> NoTask]
    /\ tasks = {}
    /\ built = BootInsts
    /\ pc = [t \in Tasks |-> "none"]
    /\ exiting = [t \in Tasks |-> FALSE]
    /\ cancelled = [t \in Tasks |-> FALSE]
    /\ connected = [i \in Insts |-> FALSE]
    /\ open = [i \in Insts |-> FALSE]
    /\ orphaned = [i \in Insts |-> FALSE]
    /\ client = [c \in Clients |-> NoRequest]
    /\ toClose = {}

-----------------------------------------------------------------------------
(* Boot: ECHState.init, then Router.start, with no await between them.      *)

SimsToStart == {i \in BuiltinSims : adapters[NameOf[i]] = NoInst}

StartBuiltinSims ==
    /\ phase = "loaded"
    /\ phase' = "simsUp"
    /\ adapters' = [n \in Names |->
                      IF \E i \in SimsToStart : NameOf[i] = n
                      THEN CHOOSE i \in SimsToStart : NameOf[i] = n
                      ELSE adapters[n]]
    /\ adapterTasks' = [n \in Names |->
                          IF \E i \in SimsToStart : NameOf[i] = n
                          THEN <<CHOOSE i \in SimsToStart : NameOf[i] = n, "dyn">>
                          ELSE adapterTasks[n]]
    /\ tasks' = tasks \cup (SimsToStart \X {"dyn"})
    /\ built' = built \cup SimsToStart
    /\ pc' = [t \in Tasks |-> IF t \in SimsToStart \X {"dyn"} THEN "created" ELSE pc[t]]
    /\ UNCHANGED <<exiting, cancelled, links, client, toClose>>

\* Router.start supervises every registered adapter, tasks in _tasks only.
RouterStart ==
    /\ phase = "simsUp"
    /\ phase' = "running"
    /\ LET fresh == {adapters[n] : n \in Registered} \X {"boot"}
       IN  /\ tasks' = tasks \cup fresh
           /\ pc' = [t \in Tasks |-> IF t \in fresh THEN "created" ELSE pc[t]]
    /\ UNCHANGED <<adapters, adapterTasks, built, exiting, cancelled, links,
                   client, toClose>>

-----------------------------------------------------------------------------
(* _supervise: connect, receive until the link ends, clean up, back off.    *)

Runs(t) == LoopRuns /\ ~cancelled[t]

\* The task starts, or its back-off sleep ends: connect() is called.
CallConnect(t) ==
    /\ Runs(t)
    /\ pc[t] \in {"created", "backoff"}
    /\ pc' = [pc EXCEPT ![t] = "connecting"]
    /\ UNCHANGED <<phase, registry, exiting, cancelled, links, client, toClose>>

\* connect() allocates its transport and awaits the rest of the handshake.
ConnectAllocates(t) ==
    /\ Runs(t)
    /\ pc[t] = "connecting"
    /\ pc' = [pc EXCEPT ![t] = "opening"]
    /\ open' = [open EXCEPT ![InstOf(t)] = TRUE]
    /\ orphaned' = [orphaned EXCEPT ![InstOf(t)] = @ \/ open[InstOf(t)]]
    /\ UNCHANGED <<phase, registry, exiting, cancelled, connected, client, toClose>>

ConnectReturns(t) ==
    /\ Runs(t)
    /\ pc[t] = "opening"
    /\ pc' = [pc EXCEPT ![t] = "receive"]
    /\ connected' = [connected EXCEPT ![InstOf(t)] = TRUE]
    /\ UNCHANGED <<phase, registry, exiting, cancelled, open, orphaned, client, toClose>>

\* Entry of the finally block: _connected = False, then await disconnect().
EnterFinally(t) ==
    /\ pc' = [pc EXCEPT ![t] = "cleanup"]
    /\ connected' = [connected EXCEPT ![InstOf(t)] = FALSE]

\* An exception; a port conflict is first broadcast to the web clients.
Raise(t) ==
    \/ EnterFinally(t)
    \/ /\ pc' = [pc EXCEPT ![t] = "report"]
       /\ UNCHANGED connected

ConnectRaises(t) ==
    /\ Runs(t)
    /\ pc[t] \in {"connecting", "opening"}
    /\ Raise(t)
    /\ UNCHANGED <<phase, registry, exiting, cancelled, open, orphaned, client, toClose>>

ReceiveRaises(t) ==
    /\ Runs(t)
    /\ pc[t] = "receive"
    /\ Raise(t)
    /\ UNCHANGED <<phase, registry, exiting, cancelled, open, orphaned, client, toClose>>

ConflictBroadcast(t) ==
    /\ Runs(t)
    /\ pc[t] = "report"
    /\ EnterFinally(t)
    /\ UNCHANGED <<phase, registry, exiting, cancelled, open, orphaned, client, toClose>>

\* Seeded fault: a receive() that simply returns skips disconnect().
ReceiveEndsUncleaned(t) ==
    /\ Runs(t)
    /\ pc[t] = "receive"
    /\ ~connected[InstOf(t)]
    /\ pc' = [pc EXCEPT ![t] = "backoff"]
    /\ UNCHANGED <<phase, registry, exiting, cancelled, links, client, toClose>>

\* receive() returns because some party cleared _connected.
ReceiveEnds(t) ==
    /\ Runs(t)
    /\ pc[t] = "receive"
    /\ ~connected[InstOf(t)]
    /\ EnterFinally(t)
    /\ UNCHANGED <<phase, registry, exiting, cancelled, open, orphaned, client, toClose>>

\* disconnect() has come to its end: the transport is closed, or an exception
\* came first.  MeshCore's re-raises the one its read task ended with, at every
\* call until a connect() starts another read task.
DisconnectEnds(i) ==
    \/ open' = [open EXCEPT ![i] = FALSE]
    \/ /\ i \in RaisesOnClose
       /\ UNCHANGED open

\* With nothing open, or an exception to raise, disconnect() does not suspend,
\* and a CancelledError waits for the back-off sleep.
NotSuspended(t) == open[InstOf(t)] => InstOf(t) \in RaisesOnClose /\ open'[InstOf(t)]

\* Seeded fault: the supervisor gives up after its first failure.
CleanupEndsForGood(t) ==
    /\ LoopRuns
    /\ pc[t] = "cleanup"
    /\ DisconnectEnds(InstOf(t))
    /\ cancelled[t] => NotSuspended(t)
    /\ pc' = [pc EXCEPT ![t] = "done"]
    /\ UNCHANGED <<phase, registry, exiting, cancelled, connected, orphaned,
                   client, toClose>>

\* The awaited disconnect() is over, and an exception of it logged: leave, or
\* back off and try again.
CleanupEnds(t) ==
    /\ LoopRuns
    /\ pc[t] = "cleanup"
    /\ DisconnectEnds(InstOf(t))
    /\ cancelled[t] => NotSuspended(t)
    /\ pc' = [pc EXCEPT ![t] = IF exiting[t] THEN "done" ELSE "backoff"]
    /\ cancelled' = [cancelled EXCEPT ![t] = @ /\ ~exiting[t]]
    /\ UNCHANGED <<phase, registry, exiting, connected, orphaned, client, toClose>>

\* The adapter's own watchdog or read loop gives the link up.
LinkLost(i) ==
    /\ LoopRuns
    /\ connected[i]
    /\ connected' = [connected EXCEPT ![i] = FALSE]
    /\ UNCHANGED <<phase, registry, control, open, orphaned, client, toClose>>

\* CancelledError before the first step or in the back-off sleep: the task ends.
CancelIdle(t) ==
    /\ LoopRuns
    /\ cancelled[t]
    /\ pc[t] \in {"created", "backoff"}
    /\ pc' = [pc EXCEPT ![t] = "done"]
    /\ cancelled' = [cancelled EXCEPT ![t] = FALSE]
    /\ UNCHANGED <<phase, registry, exiting, links, client, toClose>>

\* Seeded fault: the CancelledError is handled like any other exception.
CancelActiveRetries(t) ==
    /\ LoopRuns
    /\ cancelled[t]
    /\ pc[t] \in {"connecting", "opening", "receive", "report"}
    /\ EnterFinally(t)
    /\ cancelled' = [cancelled EXCEPT ![t] = FALSE]
    /\ UNCHANGED <<phase, registry, exiting, open, orphaned, client, toClose>>

\* CancelledError inside the try statement: return, through the finally block.
CancelActive(t) ==
    /\ LoopRuns
    /\ cancelled[t]
    /\ pc[t] \in {"connecting", "opening", "receive", "report"}
    /\ EnterFinally(t)
    /\ exiting' = [exiting EXCEPT ![t] = TRUE]
    /\ cancelled' = [cancelled EXCEPT ![t] = FALSE]
    /\ UNCHANGED <<phase, registry, open, orphaned, client, toClose>>

\* CancelledError while disconnect() awaits its own read task: disconnect()
\* takes it for that task's and carries on.
CancelSwallowed(t) ==
    /\ LoopRuns
    /\ cancelled[t]
    /\ pc[t] = "cleanup"
    /\ open[InstOf(t)]
    /\ InstOf(t) \in SwallowsCancel
    /\ cancelled' = [cancelled EXCEPT ![t] = FALSE]
    /\ UNCHANGED <<phase, registry, pc, exiting, links, client, toClose>>

\* The other adapters let it out of disconnect(), and the finally block with it.
CancelEscapes(t) ==
    /\ LoopRuns
    /\ cancelled[t]
    /\ pc[t] = "cleanup"
    /\ open[InstOf(t)]
    /\ InstOf(t) \notin SwallowsCancel
    /\ pc' = [pc EXCEPT ![t] = "done"]
    /\ cancelled' = [cancelled EXCEPT ![t] = FALSE]
    /\ UNCHANGED <<phase, registry, exiting, links, client, toClose>>

-----------------------------------------------------------------------------
(* API requests: reconnect_adapter and set_m17_server ("reconnect"), the    *)
(* stop half alone for a built-in simulation adapter ("remove"), and        *)
(* set_adapter_enabled with persist ("disable").                            *)

Cancel(t) == cancelled' = [cancelled EXCEPT ![t] = LiveTask(t)]

\* stop_adapter has returned: a reconnect sleeps a second before it goes on.
AfterStop(op, n) ==
    IF op = "reconnect"
    THEN [NoRequest EXCEPT !.pc = "sleep", !.name = n]
    ELSE NoRequest

\* Seeded fault: `if adapter:` is left out after the pop.
PopAdapterUnchecked(c, op, n) ==
    /\ adapters' = [adapters EXCEPT ![n] = NoInst]
    /\ connected' = [i \in Insts |-> connected[i] /\ i # adapters[n]]
    /\ client' = [client EXCEPT ![c] =
                    [pc |-> "disconnect", op |-> op, name |-> n,
                     task |-> NoTask, inst |-> adapters[n]]]

\* stop_adapter after its task is gone: unregister, and begin disconnect().
PopAdapter(c, op, n) ==
    LET i == adapters[n]
    IN  /\ adapters' = [adapters EXCEPT ![n] = NoInst]
        /\ \/ /\ i # NoInst
              /\ connected' = [connected EXCEPT ![i] = FALSE]
              /\ client' = [client EXCEPT ![c] =
                              [pc |-> "disconnect", op |-> op, name |-> n,
                               task |-> NoTask, inst |-> i]]
           \/ /\ i = NoInst
              /\ UNCHANGED connected
              /\ client' = [client EXCEPT ![c] = AfterStop(op, n)]

\* Seeded fault: the task leaves _tasks when it is cancelled, not when it ends.
BeginStopUntracks(c, op, n) ==
    /\ phase = "running"
    /\ client[c].pc = "idle"
    /\ adapterTasks' = [adapterTasks EXCEPT ![n] = NoTask]
    /\ tasks' = tasks \ {adapterTasks[n]}
    /\ \/ /\ adapterTasks[n] # NoTask
          /\ Cancel(adapterTasks[n])
          /\ client' = [client EXCEPT ![c] =
                          [pc |-> "awaitTask", op |-> op, name |-> n,
                           task |-> adapterTasks[n], inst |-> NoInst]]
          /\ UNCHANGED <<adapters, connected>>
       \/ /\ adapterTasks[n] = NoTask
          /\ PopAdapter(c, op, n)
          /\ UNCHANGED cancelled
    /\ UNCHANGED <<phase, built, pc, exiting, open, orphaned, toClose>>

\* Seeded fault: the task is looked up but stays in _adapter_tasks.
BeginStopKeepsEntry(c, op, n) ==
    /\ phase = "running"
    /\ client[c].pc = "idle"
    /\ \/ /\ adapterTasks[n] # NoTask
          /\ Cancel(adapterTasks[n])
          /\ client' = [client EXCEPT ![c] =
                          [pc |-> "awaitTask", op |-> op, name |-> n,
                           task |-> adapterTasks[n], inst |-> NoInst]]
          /\ UNCHANGED <<adapters, connected>>
       \/ /\ adapterTasks[n] = NoTask
          /\ PopAdapter(c, op, n)
          /\ UNCHANGED cancelled
    /\ UNCHANGED <<phase, adapterTasks, tasks, built, pc, exiting, open, orphaned,
                   toClose>>

BeginStop(c, op, n) ==
    /\ phase = "running"
    /\ client[c].pc = "idle"
    /\ adapterTasks' = [adapterTasks EXCEPT ![n] = NoTask]
    /\ \/ /\ adapterTasks[n] # NoTask
          /\ Cancel(adapterTasks[n])
          /\ client' = [client EXCEPT ![c] =
                          [pc |-> "awaitTask", op |-> op, name |-> n,
                           task |-> adapterTasks[n], inst |-> NoInst]]
          /\ UNCHANGED <<adapters, connected>>
       \/ /\ adapterTasks[n] = NoTask
          /\ PopAdapter(c, op, n)
          /\ UNCHANGED cancelled
    /\ UNCHANGED <<phase, tasks, built, pc, exiting, open, orphaned, toClose>>

\* Only a registered name can be reconnected.
RequestReconnect(c, n) ==
    /\ n \in Registered
    /\ BeginStop(c, "reconnect", n)

\* Simulation switched off: a built-in adapter is stopped for good.
RequestRemove(c, n) ==
    /\ n \in {NameOf[i] : i \in BuiltinSims}
    /\ BeginStop(c, "remove", n)

RequestDisable(c, n) ==
    /\ phase = "running"
    /\ client[c].pc = "idle"
    /\ n \in Registered
    /\ connected' = [connected EXCEPT ![adapters[n]] = FALSE]
    /\ client' = [client EXCEPT ![c] =
                    [pc |-> "disconnect", op |-> "disable", name |-> n,
                     task |-> NoTask, inst |-> adapters[n]]]
    /\ UNCHANGED <<phase, registry, control, open, orphaned, toClose>>

\* `await task` returns in stop_adapter.
TaskAwaited(c) ==
    /\ client[c].pc = "awaitTask"
    /\ pc[client[c].task] = "done"
    /\ tasks' = tasks \ {client[c].task}
    /\ PopAdapter(c, client[c].op, client[c].name)
    /\ UNCHANGED <<phase, adapterTasks, built, control, open, orphaned, toClose>>

\* The disconnect() the request itself awaits is over; its exception is dropped.
RequestDisconnected(c) ==
    /\ client[c].pc = "disconnect"
    /\ DisconnectEnds(client[c].inst)
    /\ client' = [client EXCEPT ![c] = AfterStop(client[c].op, client[c].name)]
    /\ UNCHANGED <<phase, registry, control, connected, orphaned, toClose>>

\* Seeded fault: the object that was stopped is started again as it is.
RebuildReuses(c, i) ==
    /\ client[c].pc = "sleep"
    /\ i \in built
    /\ NameOf[i] = client[c].name
    /\ adapters' = [adapters EXCEPT ![NameOf[i]] = i]
    /\ adapterTasks' = [adapterTasks EXCEPT ![NameOf[i]] = <<i, "dyn">>]
    /\ tasks' = tasks \cup {<<i, "dyn">>}
    /\ pc' = [pc EXCEPT ![<<i, "dyn">>] = "created"]
    /\ client' = [client EXCEPT ![c] = NoRequest]
    /\ UNCHANGED <<phase, built, exiting, cancelled, links, toClose>>

\* Config re-read, adapter rebuilt: start_adapter(new object).
Rebuild(c, i) ==
    /\ client[c].pc = "sleep"
    /\ i \notin built
    /\ i \notin BuiltinSims
    /\ NameOf[i] = client[c].name
    /\ built' = built \cup {i}
    /\ adapters' = [adapters EXCEPT ![NameOf[i]] = i]
    /\ adapterTasks' = [adapterTasks EXCEPT ![NameOf[i]] = <<i, "dyn">>]
    /\ tasks' = tasks \cup {<<i, "dyn">>}
    /\ pc' = [pc EXCEPT ![<<i, "dyn">>] = "created"]
    /\ client' = [client EXCEPT ![c] = NoRequest]
    /\ UNCHANGED <<phase, exiting, cancelled, links, toClose>>

\* The name left config.yaml, or build_adapter raised: the adapter is gone.
RebuildFails(c) ==
    /\ client[c].pc = "sleep"
    /\ client' = [client EXCEPT ![c] = NoRequest]
    /\ UNCHANGED <<phase, registry, control, links, toClose>>

-----------------------------------------------------------------------------
(* Router.stop, called once the web servers have drained their requests.    *)

StopRequested ==
    /\ phase = "running"
    /\ \A c \in Clients : client[c].pc = "idle"
    /\ phase' = "gathering"
    /\ cancelled' = [t \in Tasks |-> (t \in tasks /\ LiveTask(t)) \/ cancelled[t]]
    /\ UNCHANGED <<registry, pc, exiting, links, client, toClose>>

\* Seeded fault: the tasks are cancelled but not gathered.
GatherSkipped ==
    /\ phase = "gathering"
    /\ phase' = "closing"
    /\ toClose' = {adapters[n] : n \in Registered}
    /\ UNCHANGED <<registry, control, links, client>>

GatherDone ==
    /\ phase = "gathering"
    /\ \A t \in tasks : pc[t] = "done"
    /\ phase' = "closing"
    /\ toClose' = {adapters[n] : n \in Registered}
    /\ UNCHANGED <<registry, control, links, client>>

CloseAdapter(i) ==
    /\ phase = "closing"
    /\ i \in toClose
    /\ toClose' = toClose \ {i}
    /\ connected' = [connected EXCEPT ![i] = FALSE]
    /\ open' = [open EXCEPT ![i] = FALSE]
    /\ UNCHANGED <<phase, registry, control, orphaned, client>>

\* The loop over the adapters has no try: an exception of disconnect() leaves
\* Router.stop and main.run, and this adapter and the rest stay as they are.
CloseRaises(i) ==
    /\ phase = "closing"
    /\ i \in toClose \cap RaisesOnClose
    /\ phase' = "aborted"
    /\ connected' = [connected EXCEPT ![i] = FALSE]
    /\ UNCHANGED <<registry, control, open, orphaned, client, toClose>>

Stopped ==
    /\ phase = "closing"
    /\ toClose = {}
    /\ phase' = "stopped"
    /\ UNCHANGED <<registry, control, links, client, toClose>>

-----------------------------------------------------------------------------
SuperviseStep(t) ==
    \/ CallConnect(t)      \/ ConnectAllocates(t) \/ ConnectReturns(t)
    \/ ConnectRaises(t)    \/ ConflictBroadcast(t) \/ ReceiveEnds(t)
    \/ CleanupEnds(t)      \/ CancelIdle(t)       \/ CancelActive(t)
    \/ CancelSwallowed(t)  \/ CancelEscapes(t)

RequestStep(c) ==
    \/ TaskAwaited(c) \/ RequestDisconnected(c) \/ RebuildFails(c)
    \/ \E i \in Insts : Rebuild(c, i)

StopStep == GatherDone \/ Stopped \/ \E i \in Insts : CloseAdapter(i) \/ CloseRaises(i)

Next ==
    \/ StartBuiltinSims \/ RouterStart
    \/ \E t \in Tasks : SuperviseStep(t) \/ ReceiveRaises(t)
    \/ \E i \in Insts : LinkLost(i)
    \/ \E c \in Clients : RequestStep(c)
    \/ \E c \in Clients, n \in Names :
          RequestReconnect(c, n) \/ RequestRemove(c, n) \/ RequestDisable(c, n)
    \/ StopRequested \/ StopStep

\* The event loop runs every ready task; sleeps end; connect() and
\* disconnect() return or raise.  Nothing obliges a working link to fail.
Fairness ==
    /\ WF_vars(StartBuiltinSims) /\ WF_vars(RouterStart)
    /\ \A t \in Tasks : WF_vars(SuperviseStep(t))
    /\ \A c \in Clients : WF_vars(RequestStep(c))
    /\ WF_vars(StopStep)

Spec == Init /\ [][Next]_vars

FairSpec == Spec /\ Fairness

-----------------------------------------------------------------------------
(* Properties                                                               *)

\* No connect() runs over a transport of the same object that is still open
\* (the file-descriptor leak _supervise's docstring recounts): every way out
\* of a connection closes it first, whatever cancellations, failures and
\* reconnect requests come in between.  A disconnect() that raises first is
\* only logged, and keeps no such promise.
NoOrphanedTransport == \A i \in Insts \ RaisesOnClose : ~orphaned[i]

\* Two supervise tasks never drive the same adapter object.
OneSupervisorPerObject ==
    \A t, u \in Tasks : LiveTask(t) /\ LiveTask(u) /\ InstOf(t) = InstOf(u) => t = u

\* A reconnect is "full disconnect + reconnect" (app.py): afterwards a single
\* supervise task works for the name.
OneSupervisorPerName ==
    \A t, u \in Tasks :
       LiveTask(t) /\ LiveTask(u) /\ NameOf[InstOf(t)] = NameOf[InstOf(u)] => t = u

\* Whatever stop_adapter removed from the table, every supervise task that can
\* still run is in Router._tasks, where Router.stop will find it.
LiveTasksAreTracked == \A t \in Tasks : LiveTask(t) => t \in tasks

\* When Router.stop has returned, or was broken off by an exception, no
\* supervise task is left and no adapter claims to be connected; when it has
\* returned, no registered adapter holds a transport either.
StoppedIsQuiet ==
    /\ phase \in {"stopped", "aborted"} =>
          /\ \A t \in Tasks : ~LiveTask(t)
          /\ \A i \in Insts : ~connected[i]
    /\ phase = "stopped" => \A n \in Registered : ~open[adapters[n]]

\* A registered adapter no request is working on has a supervisor that nobody
\* has cancelled: stop and restart never leave a name listed but unattended.
RegisteredIsSupervised ==
    phase = "running" =>
       \A n \in Registered : ClientOn(n) \/
          \E t \in Tasks : InstOf(t) = adapters[n] /\ LiveTask(t)
                           /\ ~cancelled[t] /\ ~exiting[t]

\* A recorded task is the one that supervises the registered object, so the
\* next stop_adapter stops what the registry shows.
RecordedTaskIsCurrent ==
    phase = "running" =>
       \A n \in Names : adapterTasks[n] # NoTask =>
          InstOf(adapterTasks[n]) = adapters[n] /\ LiveTask(adapterTasks[n])

\* Router.stop ends, whatever its supervisors are doing when it cancels them:
\* it runs to its last line, unless the disconnect() of an adapter that was
\* still to be closed has raised.
StopEnds ==
    phase = "gathering" ~>
       \/ phase = "stopped"
       \/ phase = "aborted" /\ toClose \cap RaisesOnClose # {}

\* stop_adapter gets past `await task`.
StopAdapterReturns ==
    \A c \in Clients : client[c].pc = "awaitTask" ~> client[c].pc # "awaitTask"

\* A supervisor whose connection failed connects again, unless it is stopped.
FailureIsRetried ==
    \A t \in Tasks :
       pc[t] \in {"report", "cleanup"} ~>
          pc[t] = "connecting" \/ cancelled[t] \/ exiting[t]
=============================================================================
