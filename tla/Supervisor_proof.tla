-------------------------- MODULE Supervisor_proof --------------------------
(***************************************************************************)
(* Proofs about Supervisor for every number of names, adapter objects and  *)
(* concurrent requests.                                                    *)
(*                                                                         *)
(*   TypeCorrect     the type invariant, the base of the other proofs;     *)
(*   Tracking        no live supervise task is missing from Router._tasks; *)
(*   NoLeak          without boot-time simulation adapters, connect()      *)
(*                   never runs over a transport that is still open, where *)
(*                   disconnect() does not raise, and one task at most     *)
(*                   drives an adapter object;                             *)
(*   QuietWhenStopped  when Router.stop ends nothing runs or is connected, *)
(*                   and when it returns no registered adapter holds a     *)
(*                   transport;                                            *)
(*   Attended        a registered adapter no request works on has a        *)
(*                   supervisor that nobody has cancelled;                 *)
(*   RecordsAreCurrent  when requests do not overlap on a name, the        *)
(*                   recorded task supervises the registered object.       *)
(***************************************************************************)
EXTENDS Supervisor, TLAPS

USE DEF InstOf

-----------------------------------------------------------------------------
LEMMA TaskShape ==
    ASSUME NEW t \in Tasks
    PROVE  /\ InstOf(t) \in Insts
           /\ t = <<InstOf(t), "boot">> \/ t = <<InstOf(t), "dyn">>
  BY DEF Tasks

LEMMA NewTask ==
    ASSUME NEW i \in Insts
    PROVE  /\ <<i, "boot">> \in Tasks
           /\ <<i, "dyn">> \in Tasks
           /\ InstOf(<<i, "boot">>) = i
           /\ InstOf(<<i, "dyn">>) = i
  BY DEF Tasks

\* The pending request of a client is well formed.
LEMMA RequestShape ==
    /\ NoRequest \in Request
    /\ \A op \in Ops, n \in Names : AfterStop(op, n) \in Request
  <1>1. NoRequest.name \in Names
    BY ConstantsAssumption DEF NoRequest
  <1>2. NoRequest \in Request
    BY DEF Request
  <1>3. ASSUME NEW op \in Ops, NEW n \in Names
        PROVE  AfterStop(op, n) \in Request
    BY <1>2 DEF AfterStop, NoRequest, Request
  <1> QED BY <1>2, <1>3

\* What the control states of a request say about its other fields.
LEMMA RequestFields ==
    ASSUME NEW r \in Request
    PROVE  /\ r.name \in Names
           /\ r.op \in Ops
           /\ r.pc = "awaitTask" => r.task \in Tasks
           /\ r.pc = "disconnect" => r.inst \in Insts
  BY ConstantsAssumption DEF Request, NoRequest, Ops

-----------------------------------------------------------------------------
(* Type correctness.                                                        *)

LEMMA TypeInit == Init => TypeOK
  <1> SUFFICES ASSUME Init PROVE TypeOK
    OBVIOUS
  <1>1. client \in [Clients -> Request]
    BY RequestShape DEF Init
  <1>2. adapters \in [Names -> Insts \cup {NoInst}]
    BY ConstantsAssumption DEF Init
  <1> QED
    BY <1>1, <1>2, ConstantsAssumption DEF Init, TypeOK, Phases, TaskPcs

LEMMA TypeBoot ==
    TypeOK /\ (StartBuiltinSims \/ RouterStart) => TypeOK'
  <1> SUFFICES ASSUME TypeOK, StartBuiltinSims \/ RouterStart PROVE TypeOK'
    OBVIOUS
  <1>1. CASE StartBuiltinSims
    <2>1. SimsToStart \subseteq Insts
      BY ConstantsAssumption DEF SimsToStart
    <2>2. \A n \in Names : (\E i \in SimsToStart : NameOf[i] = n) =>
             (CHOOSE i \in SimsToStart : NameOf[i] = n) \in Insts
      BY <2>1
    <2>3. adapters' \in [Names -> Insts \cup {NoInst}]
      BY <1>1, <2>2 DEF StartBuiltinSims, TypeOK
    <2>4. adapterTasks' \in [Names -> Tasks \cup {NoTask}]
      BY <1>1, <2>2, NewTask DEF StartBuiltinSims, TypeOK
    <2>5. tasks' \subseteq Tasks /\ built' \subseteq Insts
      BY <1>1, <2>1 DEF StartBuiltinSims, TypeOK, Tasks
    <2>6. pc' \in [Tasks -> TaskPcs]
      BY <1>1 DEF StartBuiltinSims, TypeOK, TaskPcs
    <2> QED
      BY <1>1, <2>3, <2>4, <2>5, <2>6
      DEF StartBuiltinSims, TypeOK, Phases, links
  <1>2. CASE RouterStart
    <2> DEFINE fresh == {adapters[n] : n \in Registered} \X {"boot"}
    <2>1. fresh \subseteq Tasks
      BY DEF TypeOK, Registered, Tasks
    <2>2. tasks' \subseteq Tasks /\ pc' \in [Tasks -> TaskPcs]
      BY <1>2, <2>1 DEF RouterStart, TypeOK, TaskPcs
    <2> QED
      BY <1>2, <2>2 DEF RouterStart, TypeOK, Phases, links
  <1> QED BY <1>1, <1>2

LEMMA TypeSupervise ==
    ASSUME TypeOK, NEW t \in Tasks, SuperviseStep(t) \/ ReceiveRaises(t)
    PROVE  TypeOK'
  <1> USE DEF TypeOK, registry, links
  <1>0. InstOf(t) \in Insts
    BY TaskShape
  <1>1. CASE CallConnect(t)
    BY <1>1 DEF CallConnect, TaskPcs
  <1>2. CASE ConnectAllocates(t)
    BY <1>0, <1>2 DEF ConnectAllocates, TaskPcs
  <1>3. CASE ConnectReturns(t)
    BY <1>0, <1>3 DEF ConnectReturns, TaskPcs
  <1>4. CASE ConnectRaises(t)
    BY <1>0, <1>4 DEF ConnectRaises, Raise, EnterFinally, TaskPcs
  <1>5. CASE ConflictBroadcast(t)
    BY <1>0, <1>5 DEF ConflictBroadcast, EnterFinally, TaskPcs
  <1>6. CASE ReceiveEnds(t)
    BY <1>0, <1>6 DEF ReceiveEnds, EnterFinally, TaskPcs
  <1>7. CASE CleanupEnds(t)
    BY <1>0, <1>7 DEF CleanupEnds, DisconnectEnds, TaskPcs
  <1>8. CASE CancelIdle(t)
    BY <1>8 DEF CancelIdle, TaskPcs
  <1>9. CASE CancelActive(t)
    BY <1>0, <1>9 DEF CancelActive, EnterFinally, TaskPcs
  <1>10. CASE CancelSwallowed(t)
    BY <1>10 DEF CancelSwallowed
  <1>11. CASE CancelEscapes(t)
    BY <1>11 DEF CancelEscapes, TaskPcs
  <1>12. CASE ReceiveRaises(t)
    BY <1>0, <1>12 DEF ReceiveRaises, Raise, EnterFinally, TaskPcs
  <1> QED
    BY <1>1, <1>2, <1>3, <1>4, <1>5, <1>6, <1>7, <1>8, <1>9, <1>10, <1>11, <1>12
    DEF SuperviseStep

LEMMA TypePop ==
    ASSUME TypeOK, NEW c \in Clients, NEW op \in Ops, NEW n \in Names,
           PopAdapter(c, op, n)
    PROVE  /\ adapters' \in [Names -> Insts \cup {NoInst}]
           /\ connected' \in [Insts -> BOOLEAN]
           /\ client' \in [Clients -> Request]
  <1>1. adapters' \in [Names -> Insts \cup {NoInst}]
    BY DEF PopAdapter, TypeOK
  <1>2. CASE adapters[n] = NoInst
    BY <1>1, <1>2, RequestShape DEF PopAdapter, TypeOK
  <1>3. CASE adapters[n] # NoInst
    <2>1. adapters[n] \in Insts
      BY <1>3 DEF TypeOK
    <2>2. [pc |-> "disconnect", op |-> op, name |-> n,
           task |-> NoTask, inst |-> adapters[n]] \in Request
      BY <2>1 DEF Request
    <2>3. connected' = [connected EXCEPT ![adapters[n]] = FALSE]
      BY <1>3 DEF PopAdapter
    <2>4. client' = [client EXCEPT ![c] =
                       [pc |-> "disconnect", op |-> op, name |-> n,
                        task |-> NoTask, inst |-> adapters[n]]]
      BY <1>3 DEF PopAdapter
    <2> QED BY <1>1, <2>1, <2>2, <2>3, <2>4 DEF TypeOK
  <1> QED BY <1>2, <1>3

LEMMA TypeBeginStop ==
    ASSUME TypeOK, NEW c \in Clients, NEW op \in Ops, NEW n \in Names,
           BeginStop(c, op, n)
    PROVE  TypeOK'
  <1>1. adapterTasks' \in [Names -> Tasks \cup {NoTask}]
    BY DEF BeginStop, TypeOK
  <1>2. CASE adapterTasks[n] # NoTask
    <2>1. adapterTasks[n] \in Tasks
      BY <1>2 DEF TypeOK
    <2>2. [pc |-> "awaitTask", op |-> op, name |-> n,
           task |-> adapterTasks[n], inst |-> NoInst] \in Request
      BY <2>1 DEF Request
    <2>3. cancelled' \in [Tasks -> BOOLEAN]
      BY <1>2, <2>1 DEF BeginStop, Cancel, LiveTask, TypeOK
    <2>4. client' \in [Clients -> Request]
      BY <1>2, <2>2 DEF BeginStop, TypeOK
    <2> QED BY <1>1, <1>2, <2>3, <2>4 DEF BeginStop, TypeOK
  <1>3. CASE adapterTasks[n] = NoTask
    <2>1. PopAdapter(c, op, n) /\ UNCHANGED cancelled
      BY <1>3 DEF BeginStop
    <2> QED BY <1>1, <2>1, TypePop DEF BeginStop, TypeOK
  <1> QED BY <1>2, <1>3

LEMMA TypeRequest ==
    ASSUME TypeOK, NEW c \in Clients,
           \/ RequestStep(c)
           \/ \E n \in Names :
                 RequestReconnect(c, n) \/ RequestRemove(c, n) \/ RequestDisable(c, n)
    PROVE  TypeOK'
  <1>0. client[c] \in Request
    BY DEF TypeOK
  <1>1. CASE TaskAwaited(c)
    <2>1. client[c].op \in Ops /\ client[c].name \in Names
      BY <1>0, RequestFields
    <2>2. PopAdapter(c, client[c].op, client[c].name)
      BY <1>1 DEF TaskAwaited
    <2> QED BY <1>1, <2>1, <2>2, TypePop DEF TaskAwaited, TypeOK, control
  <1>2. CASE RequestDisconnected(c)
    <2>1. client[c].inst \in Insts
      BY <1>0, <1>2, RequestFields DEF RequestDisconnected
    <2>2. AfterStop(client[c].op, client[c].name) \in Request
      BY <1>0, RequestShape, RequestFields
    <2> QED BY <1>2, <2>1, <2>2 DEF RequestDisconnected, DisconnectEnds, TypeOK, control, registry
  <1>3. CASE RebuildFails(c)
    BY <1>3, RequestShape DEF RebuildFails, TypeOK, control, registry, links
  <1>4. ASSUME NEW i \in Insts, Rebuild(c, i)
        PROVE  TypeOK'
    <2>1. NameOf[i] \in Names
      BY ConstantsAssumption
    <2> QED BY <1>4, <2>1, RequestShape, NewTask DEF Rebuild, TypeOK, links, TaskPcs
  <1>5. ASSUME NEW n \in Names, RequestReconnect(c, n)
        PROVE  TypeOK'
    BY <1>5, TypeBeginStop DEF RequestReconnect, Ops
  <1>6. ASSUME NEW n \in Names, RequestRemove(c, n)
        PROVE  TypeOK'
    BY <1>6, TypeBeginStop DEF RequestRemove, Ops
  <1>7. ASSUME NEW n \in Names, RequestDisable(c, n)
        PROVE  TypeOK'
    <2>1. adapters[n] \in Insts
      BY <1>7 DEF RequestDisable, Registered, TypeOK
    <2>2. [pc |-> "disconnect", op |-> "disable", name |-> n,
           task |-> NoTask, inst |-> adapters[n]] \in Request
      BY <2>1 DEF Request, Ops
    <2> QED BY <1>7, <2>1, <2>2 DEF RequestDisable, TypeOK, control, registry
  <1> QED
    BY <1>1, <1>2, <1>3, <1>4, <1>5, <1>6, <1>7 DEF RequestStep

LEMMA TypeStop ==
    TypeOK /\ (StopRequested \/ StopStep) => TypeOK'
  <1> SUFFICES ASSUME TypeOK, StopRequested \/ StopStep PROVE TypeOK'
    OBVIOUS
  <1> USE DEF TypeOK, Phases, registry, control, links
  <1>1. CASE StopRequested
    BY <1>1 DEF StopRequested, LiveTask
  <1>2. CASE GatherDone
    BY <1>2 DEF GatherDone, Registered
  <1>3. CASE Stopped
    BY <1>3 DEF Stopped
  <1>4. ASSUME NEW i \in Insts, CloseAdapter(i)
        PROVE  TypeOK'
    BY <1>4 DEF CloseAdapter
  <1>5. ASSUME NEW i \in Insts, CloseRaises(i)
        PROVE  TypeOK'
    BY <1>5 DEF CloseRaises
  <1> QED BY <1>1, <1>2, <1>3, <1>4, <1>5 DEF StopStep

LEMMA TypeNext == TypeOK /\ [Next]_vars => TypeOK'
  <1> SUFFICES ASSUME TypeOK, [Next]_vars PROVE TypeOK'
    OBVIOUS
  <1>1. CASE StartBuiltinSims \/ RouterStart
    BY <1>1, TypeBoot
  <1>2. ASSUME NEW t \in Tasks, SuperviseStep(t) \/ ReceiveRaises(t)
        PROVE  TypeOK'
    BY <1>2, TypeSupervise
  <1>3. ASSUME NEW i \in Insts, LinkLost(i)
        PROVE  TypeOK'
    BY <1>3 DEF LinkLost, TypeOK, registry, control
  <1>4. ASSUME NEW c \in Clients, RequestStep(c)
        PROVE  TypeOK'
    BY <1>4, TypeRequest
  <1>5. ASSUME NEW c \in Clients, NEW n \in Names,
               RequestReconnect(c, n) \/ RequestRemove(c, n) \/ RequestDisable(c, n)
        PROVE  TypeOK'
    BY <1>5, TypeRequest
  <1>6. CASE StopRequested \/ StopStep
    BY <1>6, TypeStop
  <1>7. CASE UNCHANGED vars
    BY <1>7 DEF vars, registry, control, links, TypeOK
  <1> QED BY <1>1, <1>2, <1>3, <1>4, <1>5, <1>6, <1>7 DEF Next

\* Every reachable state is well typed.
THEOREM TypeCorrect == Spec => []TypeOK
  BY TypeInit, TypeNext, PTL DEF Spec

-----------------------------------------------------------------------------
(* Tracking: the only place that takes a task out of _tasks is after the     *)
(* await in stop_adapter, when the task has ended.                           *)

LEMMA TrackBoot ==
    TypeOK /\ LiveTasksAreTracked /\ (StartBuiltinSims \/ RouterStart)
    => LiveTasksAreTracked'
  BY DEF StartBuiltinSims, RouterStart, LiveTasksAreTracked, LiveTask, TypeOK

LEMMA TrackSupervise ==
    ASSUME TypeOK, LiveTasksAreTracked, NEW t \in Tasks,
           SuperviseStep(t) \/ ReceiveRaises(t)
    PROVE  LiveTasksAreTracked'
  <1>1. LiveTask(t) /\ tasks' = tasks
    BY DEF SuperviseStep, CallConnect, ConnectAllocates, ConnectReturns, ConnectRaises,
           ConflictBroadcast, ReceiveEnds, CleanupEnds, CancelIdle, CancelActive,
           CancelSwallowed, CancelEscapes, ReceiveRaises, Raise, EnterFinally,
           LiveTask, registry, TypeOK
  <1>2. \A u \in Tasks : u # t => pc'[u] = pc[u]
    BY DEF SuperviseStep, CallConnect, ConnectAllocates, ConnectReturns, ConnectRaises,
           ConflictBroadcast, ReceiveEnds, CleanupEnds, CancelIdle, CancelActive,
           CancelSwallowed, CancelEscapes, ReceiveRaises, Raise, EnterFinally, TypeOK
  <1> QED BY <1>1, <1>2 DEF LiveTasksAreTracked, LiveTask

LEMMA TrackRequest ==
    ASSUME TypeOK, LiveTasksAreTracked, NEW c \in Clients, NEW n \in Names,
           \/ RequestStep(c)
           \/ RequestReconnect(c, n) \/ RequestRemove(c, n) \/ RequestDisable(c, n)
    PROVE  LiveTasksAreTracked'
  <1>1. CASE TaskAwaited(c)
    <2>1. pc' = pc /\ tasks' = tasks \ {client[c].task} /\ ~LiveTask(client[c].task)
      BY <1>1 DEF TaskAwaited, control, LiveTask
    <2> QED BY <2>1 DEF LiveTasksAreTracked, LiveTask
  <1>2. ASSUME NEW i \in Insts, Rebuild(c, i)
        PROVE  LiveTasksAreTracked'
    BY <1>2 DEF Rebuild, LiveTasksAreTracked, LiveTask, TypeOK
  <1>3. CASE \/ RequestDisconnected(c) \/ RebuildFails(c) \/ RequestReconnect(c, n)
             \/ RequestRemove(c, n) \/ RequestDisable(c, n)
    <2>1. pc' = pc /\ tasks' = tasks
      BY <1>3 DEF RequestDisconnected, RebuildFails, RequestReconnect, RequestRemove,
                  RequestDisable, BeginStop, control, registry
    <2> QED BY <2>1 DEF LiveTasksAreTracked, LiveTask
  <1> QED BY <1>1, <1>2, <1>3 DEF RequestStep

LEMMA TrackNext ==
    TypeOK /\ LiveTasksAreTracked /\ [Next]_vars => LiveTasksAreTracked'
  <1> SUFFICES ASSUME TypeOK, LiveTasksAreTracked, [Next]_vars
               PROVE  LiveTasksAreTracked'
    OBVIOUS
  <1>1. CASE StartBuiltinSims \/ RouterStart
    BY <1>1, TrackBoot
  <1>2. ASSUME NEW t \in Tasks, SuperviseStep(t) \/ ReceiveRaises(t)
        PROVE  LiveTasksAreTracked'
    BY <1>2, TrackSupervise
  <1>3. ASSUME NEW c \in Clients, RequestStep(c)
        PROVE  LiveTasksAreTracked'
    BY <1>3, TrackRequest, ConstantsAssumption
  <1>4. ASSUME NEW c \in Clients, NEW n \in Names,
               RequestReconnect(c, n) \/ RequestRemove(c, n) \/ RequestDisable(c, n)
        PROVE  LiveTasksAreTracked'
    BY <1>4, TrackRequest
  <1>5. CASE \/ \E i \in Insts : LinkLost(i)
             \/ StopRequested \/ StopStep
             \/ UNCHANGED vars
    <2>1. pc' = pc /\ tasks' = tasks
      BY <1>5 DEF LinkLost, StopRequested, StopStep, GatherDone, Stopped, CloseAdapter, CloseRaises,
                  control, registry, vars
    <2> QED BY <2>1 DEF LiveTasksAreTracked, LiveTask
  <1> QED BY <1>1, <1>2, <1>3, <1>4, <1>5 DEF Next

\* Router.stop can reach every supervise task that is still able to run.
THEOREM Tracking == Spec => []LiveTasksAreTracked
  <1>1. Init => LiveTasksAreTracked
    BY DEF Init, LiveTasksAreTracked, LiveTask
  <1> QED BY <1>1, TrackNext, TypeCorrect, PTL DEF Spec

-----------------------------------------------------------------------------
(* No leak.  NoOrphanedTransport is not inductive: whether connect() finds  *)
(* the transport closed depends on no second task working on the object     *)
(* (OneTaskPerObject), and on every way back to connect() leading through   *)
(* disconnect() (ClosedBeforeConnect).  The simulation adapters started     *)
(* before Router.start get two tasks, hence the assumption of the theorem.  *)

OneTaskPerObject ==
    \A t, u \in Tasks :
       pc[t] # "none" /\ pc[u] # "none" /\ InstOf(t) = InstOf(u) => t = u

TasksOnBuilt ==
    /\ \A t \in Tasks : pc[t] # "none" => InstOf(t) \in built
    /\ \A n \in Names : adapters[n] # NoInst => adapters[n] \in built
    /\ \A i \in Insts : open[i] => i \in built

NothingBeforeStart ==
    ~LoopRuns => /\ \A t \in Tasks : pc[t] = "none"
                 /\ \A i \in Insts : ~open[i]
                 /\ \A c \in Clients : client[c].pc = "idle"

ClosedBeforeConnect ==
    \A t \in Tasks : pc[t] \in {"created", "connecting", "backoff"} =>
       ~open[InstOf(t)] \/ InstOf(t) \in RaisesOnClose

Exclusive ==
    /\ OneTaskPerObject
    /\ TasksOnBuilt
    /\ NothingBeforeStart
    /\ ClosedBeforeConnect
    /\ NoOrphanedTransport

LEMMA ExclusiveInit == Init => Exclusive
  BY ConstantsAssumption
  DEF Init, NoRequest, Exclusive, OneTaskPerObject, TasksOnBuilt, NothingBeforeStart,
      ClosedBeforeConnect, NoOrphanedTransport

LEMMA ExclusiveBoot ==
    ASSUME TypeOK, Exclusive, BuiltinSims = {}, StartBuiltinSims \/ RouterStart
    PROVE  Exclusive'
  <1>1. CASE StartBuiltinSims
    <2>1. SimsToStart = {}
      BY DEF SimsToStart
    <2>2. pc' = pc /\ built' = built /\ open' = open /\ orphaned' = orphaned
      BY <1>1, <2>1 DEF StartBuiltinSims, links, TypeOK
    <2>3. adapters' = adapters /\ client' = client
      BY <1>1, <2>1 DEF StartBuiltinSims, TypeOK
    <2>4. ~LoopRuns
      BY <1>1 DEF StartBuiltinSims, LoopRuns
    <2> QED
      BY <2>2, <2>3, <2>4
      DEF Exclusive, OneTaskPerObject, TasksOnBuilt, NothingBeforeStart,
          ClosedBeforeConnect, NoOrphanedTransport
  <1>2. CASE RouterStart
    <2> DEFINE fresh == {adapters[n] : n \in Registered} \X {"boot"}
    <2>1. ~LoopRuns /\ LoopRuns'
      BY <1>2 DEF RouterStart, LoopRuns
    <2>2. \A t \in Tasks : pc'[t] # "none" => t \in fresh /\ pc'[t] = "created"
      BY <1>2, <2>1 DEF RouterStart, Exclusive, NothingBeforeStart, TypeOK
    <2>3. \A t \in fresh : InstOf(t) \in built /\ t = <<InstOf(t), "boot">>
      BY DEF Exclusive, TasksOnBuilt, Registered
    <2>4. adapters' = adapters /\ built' = built /\ open' = open /\ orphaned' = orphaned
      BY <1>2 DEF RouterStart, links
    <2>5. OneTaskPerObject'
      BY <2>2, <2>3 DEF OneTaskPerObject
    <2>6. TasksOnBuilt'
      BY <2>2, <2>3, <2>4 DEF Exclusive, TasksOnBuilt
    <2>7. ClosedBeforeConnect'
      BY <2>1, <2>4, TaskShape DEF Exclusive, NothingBeforeStart, ClosedBeforeConnect
    <2> QED
      BY <2>1, <2>4, <2>5, <2>6, <2>7
      DEF Exclusive, NothingBeforeStart, NoOrphanedTransport
  <1> QED BY <1>1, <1>2

\* A supervise task only moves itself, and only opens or closes its own object.
LEMMA SuperviseLocal ==
    ASSUME TypeOK, NEW t \in Tasks, SuperviseStep(t) \/ ReceiveRaises(t)
    PROVE  /\ LoopRuns /\ phase' = phase /\ built' = built /\ adapters' = adapters
           /\ pc[t] # "none" /\ pc' = [pc EXCEPT ![t] = pc'[t]]
           /\ open' = [open EXCEPT ![InstOf(t)] = open'[InstOf(t)]]
           /\ orphaned' = [orphaned EXCEPT ![InstOf(t)] = orphaned'[InstOf(t)]]
  <1> USE DEF TypeOK, Runs, registry, links, LoopRuns
  <1>0. InstOf(t) \in Insts
    BY TaskShape
  <1>1. CASE CallConnect(t)
    BY <1>0, <1>1 DEF CallConnect
  <1>2. CASE ConnectAllocates(t)
    BY <1>0, <1>2 DEF ConnectAllocates
  <1>3. CASE ConnectReturns(t)
    BY <1>0, <1>3 DEF ConnectReturns
  <1>4. CASE ConnectRaises(t)
    BY <1>0, <1>4 DEF ConnectRaises, Raise, EnterFinally
  <1>5. CASE ConflictBroadcast(t)
    BY <1>0, <1>5 DEF ConflictBroadcast, EnterFinally
  <1>6. CASE ReceiveEnds(t)
    BY <1>0, <1>6 DEF ReceiveEnds, EnterFinally
  <1>7. CASE CleanupEnds(t)
    BY <1>0, <1>7 DEF CleanupEnds, DisconnectEnds, NotSuspended
  <1>8. CASE CancelIdle(t)
    BY <1>0, <1>8 DEF CancelIdle
  <1>9. CASE CancelActive(t)
    BY <1>0, <1>9 DEF CancelActive, EnterFinally
  <1>10. CASE CancelSwallowed(t)
    BY <1>0, <1>10 DEF CancelSwallowed
  <1>11. CASE CancelEscapes(t)
    BY <1>0, <1>11 DEF CancelEscapes
  <1>12. CASE ReceiveRaises(t)
    BY <1>0, <1>12 DEF ReceiveRaises, Raise, EnterFinally
  <1> QED
    BY <1>1, <1>2, <1>3, <1>4, <1>5, <1>6, <1>7, <1>8, <1>9, <1>10, <1>11, <1>12
    DEF SuperviseStep

\* A task that is about to connect has closed its object; only a task in
\* "connecting" opens it.
LEMMA SuperviseCloses ==
    ASSUME TypeOK, ClosedBeforeConnect, NoOrphanedTransport, NEW t \in Tasks,
           SuperviseStep(t) \/ ReceiveRaises(t)
    PROVE  InstOf(t) \notin RaisesOnClose =>
              /\ pc'[t] \in {"created", "connecting", "backoff"} => ~open'[InstOf(t)]
              /\ ~orphaned'[InstOf(t)]
  <1> USE DEF TypeOK, Runs, registry, links, ClosedBeforeConnect, NoOrphanedTransport
  <1>0. InstOf(t) \in Insts
    BY TaskShape
  <1>1. CASE CallConnect(t)
    BY <1>0, <1>1 DEF CallConnect
  <1>2. CASE ConnectAllocates(t)
    BY <1>0, <1>2 DEF ConnectAllocates
  <1>3. CASE ConnectReturns(t)
    BY <1>0, <1>3 DEF ConnectReturns
  <1>4. CASE ConnectRaises(t)
    BY <1>0, <1>4 DEF ConnectRaises, Raise, EnterFinally
  <1>5. CASE ConflictBroadcast(t)
    BY <1>0, <1>5 DEF ConflictBroadcast, EnterFinally
  <1>6. CASE ReceiveEnds(t)
    BY <1>0, <1>6 DEF ReceiveEnds, EnterFinally
  <1>7. CASE CleanupEnds(t)
    BY <1>0, <1>7 DEF CleanupEnds, DisconnectEnds, NotSuspended
  <1>8. CASE CancelIdle(t)
    BY <1>0, <1>8 DEF CancelIdle
  <1>9. CASE CancelActive(t)
    BY <1>0, <1>9 DEF CancelActive, EnterFinally
  <1>10. CASE CancelSwallowed(t)
    BY <1>0, <1>10 DEF CancelSwallowed
  <1>11. CASE CancelEscapes(t)
    BY <1>0, <1>11 DEF CancelEscapes
  <1>12. CASE ReceiveRaises(t)
    BY <1>0, <1>12 DEF ReceiveRaises, Raise, EnterFinally
  <1> QED
    BY <1>1, <1>2, <1>3, <1>4, <1>5, <1>6, <1>7, <1>8, <1>9, <1>10, <1>11, <1>12
    DEF SuperviseStep

LEMMA ExclusiveSupervise ==
    ASSUME TypeOK, Exclusive, NEW t \in Tasks, SuperviseStep(t) \/ ReceiveRaises(t)
    PROVE  Exclusive'
  <1>0. InstOf(t) \in Insts
    BY TaskShape
  <1>1. /\ LoopRuns /\ phase' = phase /\ built' = built /\ adapters' = adapters
        /\ pc[t] # "none" /\ pc' = [pc EXCEPT ![t] = pc'[t]]
        /\ open' = [open EXCEPT ![InstOf(t)] = open'[InstOf(t)]]
        /\ orphaned' = [orphaned EXCEPT ![InstOf(t)] = orphaned'[InstOf(t)]]
    BY SuperviseLocal
  <1>2. InstOf(t) \notin RaisesOnClose =>
           /\ pc'[t] \in {"created", "connecting", "backoff"} => ~open'[InstOf(t)]
           /\ ~orphaned'[InstOf(t)]
    BY SuperviseCloses DEF Exclusive
  <1>3. \A u \in Tasks : u # t => pc'[u] = pc[u]
    BY <1>1 DEF TypeOK
  <1>4. \A i \in Insts : i # InstOf(t) => open'[i] = open[i] /\ orphaned'[i] = orphaned[i]
    BY <1>1 DEF TypeOK
  <1>5. \A u \in Tasks : u # t /\ pc[u] # "none" => InstOf(u) # InstOf(t)
    BY <1>1 DEF Exclusive, OneTaskPerObject
  <1>6. OneTaskPerObject'
    BY <1>1, <1>3 DEF Exclusive, OneTaskPerObject
  <1>7. TasksOnBuilt'
    BY <1>1, <1>3, <1>4 DEF Exclusive, TasksOnBuilt
  <1>8. NothingBeforeStart'
    BY <1>1 DEF NothingBeforeStart, LoopRuns
  <1>9. ClosedBeforeConnect'
    BY <1>2, <1>3, <1>4, <1>5, TaskShape DEF Exclusive, ClosedBeforeConnect
  <1>10. NoOrphanedTransport'
    BY <1>2, <1>4 DEF Exclusive, NoOrphanedTransport
  <1> QED BY <1>6, <1>7, <1>8, <1>9, <1>10 DEF Exclusive

\* Requests never open a transport, and start a task only on a new object.
LEMMA ExclusiveRequest ==
    ASSUME TypeOK, Exclusive, NEW c \in Clients, NEW n \in Names,
           \/ RequestStep(c)
           \/ RequestReconnect(c, n) \/ RequestRemove(c, n) \/ RequestDisable(c, n)
    PROVE  Exclusive'
  <1>0. client[c] \in Request
    BY DEF TypeOK
  <1>a. LoopRuns /\ phase' = phase
    BY DEF Exclusive, NothingBeforeStart, LoopRuns, RequestStep, TaskAwaited,
           RequestDisconnected, RebuildFails, Rebuild, RequestReconnect, RequestRemove,
           RequestDisable, BeginStop
  <1>b. NothingBeforeStart'
    BY <1>a DEF NothingBeforeStart, LoopRuns
  <1> USE DEF Exclusive, OneTaskPerObject, TasksOnBuilt, ClosedBeforeConnect,
              NoOrphanedTransport
  <1>1. ASSUME NEW i \in Insts, Rebuild(c, i)
        PROVE  Exclusive'
    <2>1. /\ <<i, "dyn">> \in Tasks /\ InstOf(<<i, "dyn">>) = i
          /\ i \notin built /\ built' = built \cup {i} /\ ~open[i]
          /\ pc' = [pc EXCEPT ![<<i, "dyn">>] = "created"]
          /\ open' = open /\ orphaned' = orphaned /\ phase' = phase
      BY <1>1, NewTask DEF Rebuild, links
    <2>2. \A u \in Tasks : pc[u] # "none" => InstOf(u) # i
      BY <2>1
    <2>3. \A u \in Tasks : u # <<i, "dyn">> => pc'[u] = pc[u]
      BY <2>1 DEF TypeOK
    <2>4. OneTaskPerObject'
      BY <2>1, <2>2, <2>3
    <2>5. adapters' = [adapters EXCEPT ![NameOf[i]] = i]
      BY <1>1 DEF Rebuild
    <2>6. TasksOnBuilt'
      BY <2>1, <2>3, <2>5 DEF TypeOK
    <2>7. ClosedBeforeConnect'
      BY <2>1, <2>3
    <2> QED BY <1>b, <2>1, <2>4, <2>6, <2>7
  <1>2. CASE RequestDisconnected(c)
    <2>1. client[c].inst \in Insts
      BY <1>0, <1>2, RequestFields DEF RequestDisconnected
    <2>2. \A i \in Insts : open'[i] => open[i]
      BY <1>2, <2>1 DEF RequestDisconnected, DisconnectEnds, TypeOK
    <2>3. pc' = pc /\ built' = built /\ adapters' = adapters /\ orphaned' = orphaned
          /\ phase' = phase
      BY <1>2 DEF RequestDisconnected, registry, control
    <2> QED BY <1>b, <2>2, <2>3, TaskShape
  <1>3. CASE \/ TaskAwaited(c) \/ RebuildFails(c) \/ RequestReconnect(c, n)
             \/ RequestRemove(c, n) \/ RequestDisable(c, n)
    <2>1. /\ pc' = pc /\ built' = built /\ open' = open /\ orphaned' = orphaned
          /\ phase' = phase
      BY <1>3 DEF TaskAwaited, RebuildFails, RequestReconnect, RequestRemove,
                  RequestDisable, BeginStop, control, registry, links
    <2>2. \A m \in Names : adapters'[m] = adapters[m] \/ adapters'[m] = NoInst
      BY <1>3 DEF TaskAwaited, RebuildFails, RequestReconnect, RequestRemove,
                  RequestDisable, BeginStop, PopAdapter, registry, TypeOK
    <2> QED BY <1>b, <2>1, <2>2
  <1> QED BY <1>1, <1>2, <1>3 DEF RequestStep

LEMMA ExclusiveNext ==
    BuiltinSims = {} /\ TypeOK /\ Exclusive /\ [Next]_vars => Exclusive'
  <1> SUFFICES ASSUME BuiltinSims = {}, TypeOK, Exclusive, [Next]_vars
               PROVE  Exclusive'
    OBVIOUS
  <1>1. CASE StartBuiltinSims \/ RouterStart
    BY <1>1, ExclusiveBoot
  <1>2. ASSUME NEW t \in Tasks, SuperviseStep(t) \/ ReceiveRaises(t)
        PROVE  Exclusive'
    BY <1>2, ExclusiveSupervise
  <1>3. ASSUME NEW c \in Clients, RequestStep(c)
        PROVE  Exclusive'
    BY <1>3, ExclusiveRequest, ConstantsAssumption
  <1>4. ASSUME NEW c \in Clients, NEW n \in Names,
               RequestReconnect(c, n) \/ RequestRemove(c, n) \/ RequestDisable(c, n)
        PROVE  Exclusive'
    BY <1>4, ExclusiveRequest
  <1>5. CASE \/ \E i \in Insts : LinkLost(i)
             \/ StopRequested \/ StopStep
             \/ UNCHANGED vars
    <2>1. /\ pc' = pc /\ built' = built /\ adapters' = adapters
          /\ orphaned' = orphaned /\ client' = client
      BY <1>5 DEF LinkLost, StopRequested, StopStep, GatherDone, Stopped, CloseAdapter, CloseRaises,
                  control, registry, links, vars
    <2>2. \A i \in Insts : open'[i] => open[i]
      BY <1>5 DEF LinkLost, StopRequested, StopStep, GatherDone, Stopped, CloseAdapter, CloseRaises,
                  links, vars, TypeOK
    <2>3. LoopRuns' => LoopRuns
      BY <1>5 DEF LinkLost, StopRequested, StopStep, GatherDone, Stopped, CloseAdapter, CloseRaises,
                  LoopRuns, vars
    <2>4. LoopRuns => LoopRuns'
      BY <1>5 DEF LinkLost, StopRequested, StopStep, GatherDone, Stopped, CloseAdapter, CloseRaises,
                  LoopRuns, vars
    <2>5. NothingBeforeStart'
      BY <2>1, <2>2, <2>4 DEF Exclusive, NothingBeforeStart
    <2> QED
      BY <2>1, <2>2, <2>5, TaskShape
      DEF Exclusive, OneTaskPerObject, TasksOnBuilt, ClosedBeforeConnect,
          NoOrphanedTransport
  <1> QED BY <1>1, <1>2, <1>3, <1>4, <1>5 DEF Next

LEMMA ExclusiveAlways ==
    ASSUME BuiltinSims = {}
    PROVE  Spec => []Exclusive
  <1>1. TypeOK /\ Exclusive /\ [Next]_vars => Exclusive'
    BY ExclusiveNext
  <1> QED BY <1>1, ExclusiveInit, TypeCorrect, PTL DEF Spec

\* The incident of _supervise's docstring cannot come back through any
\* interleaving of supervisors, failures, cancellations and API requests, for
\* an adapter whose disconnect() does not raise before it closes.
THEOREM NoLeak ==
    ASSUME BuiltinSims = {}
    PROVE  Spec => []NoOrphanedTransport
  <1>1. Exclusive => NoOrphanedTransport
    BY DEF Exclusive
  <1> QED BY <1>1, ExclusiveAlways, PTL

\* Nor do two supervise tasks ever work on one adapter object.
THEOREM OneSupervisor ==
    ASSUME BuiltinSims = {}
    PROVE  Spec => []OneSupervisorPerObject
  <1>1. Exclusive => OneSupervisorPerObject
    BY DEF Exclusive, OneTaskPerObject, OneSupervisorPerObject, LiveTask
  <1> QED BY <1>1, ExclusiveAlways, PTL

-----------------------------------------------------------------------------
(* Shutdown.  StoppedIsQuiet speaks of the last phase only; the invariant    *)
(* says what each phase of Router.stop has settled, and that _connected is   *)
(* true only while some supervisor of the object is receiving.               *)

ConnectedHasOwner ==
    \A i \in Insts : connected[i] =>
       \E t \in Tasks : InstOf(t) = i /\ pc[t] \in {"receive", "report"}

LEMMA BuiltNext == TypeOK /\ TasksOnBuilt /\ [Next]_vars => TasksOnBuilt'
  <1> SUFFICES ASSUME TypeOK, TasksOnBuilt, [Next]_vars PROVE TasksOnBuilt'
    OBVIOUS
  <1>1. CASE StartBuiltinSims
    <2>1. /\ built' = built \cup SimsToStart /\ open' = open
          /\ \A n \in Names : adapters'[n] \in SimsToStart \/ adapters'[n] = adapters[n]
          /\ \A t \in Tasks : InstOf(t) \in SimsToStart \/ pc'[t] = pc[t]
      BY <1>1 DEF StartBuiltinSims, links
    <2> QED BY <2>1 DEF TasksOnBuilt
  <1>2. CASE RouterStart
    <2> DEFINE fresh == {adapters[n] : n \in Registered} \X {"boot"}
    <2>1. /\ built' = built /\ open' = open /\ adapters' = adapters
          /\ \A t \in Tasks : t \in fresh \/ pc'[t] = pc[t]
      BY <1>2 DEF RouterStart, links
    <2>2. \A t \in fresh : InstOf(t) \in built
      BY DEF TasksOnBuilt, Registered
    <2> QED BY <2>1, <2>2 DEF TasksOnBuilt
  <1>3. ASSUME NEW t \in Tasks, SuperviseStep(t) \/ ReceiveRaises(t)
        PROVE  TasksOnBuilt'
    <2>1. /\ built' = built /\ adapters' = adapters /\ pc[t] # "none"
          /\ \A u \in Tasks : u # t => pc'[u] = pc[u]
          /\ \A i \in Insts : i # InstOf(t) => open'[i] = open[i]
      BY <1>3, SuperviseLocal, TaskShape DEF TypeOK
    <2> QED BY <2>1 DEF TasksOnBuilt
  <1>4. ASSUME NEW c \in Clients, NEW i \in Insts, Rebuild(c, i)
        PROVE  TasksOnBuilt'
    <2>1. /\ <<i, "dyn">> \in Tasks /\ built' = built \cup {i} /\ open' = open
          /\ \A t \in Tasks : t # <<i, "dyn">> => pc'[t] = pc[t]
          /\ \A n \in Names : adapters'[n] \in {i, adapters[n]}
      BY <1>4, NewTask DEF Rebuild, links, TypeOK
    <2> QED BY <2>1 DEF TasksOnBuilt
  <1>5. ASSUME NEW c \in Clients, RequestDisconnected(c)
        PROVE  TasksOnBuilt'
    <2>1. client[c].inst \in Insts
      BY <1>5, RequestFields DEF RequestDisconnected, DisconnectEnds, TypeOK
    <2> QED BY <1>5, <2>1 DEF RequestDisconnected, DisconnectEnds, TasksOnBuilt, TypeOK, registry, control
  <1>6. ASSUME NEW c \in Clients, NEW n \in Names,
               \/ TaskAwaited(c) \/ RebuildFails(c) \/ RequestReconnect(c, n)
               \/ RequestRemove(c, n) \/ RequestDisable(c, n)
        PROVE  TasksOnBuilt'
    <2>1. pc' = pc /\ built' = built /\ open' = open
      BY <1>6 DEF TaskAwaited, RebuildFails, RequestReconnect, RequestRemove,
                  RequestDisable, BeginStop, control, registry, links
    <2>2. \A m \in Names : adapters'[m] = adapters[m] \/ adapters'[m] = NoInst
      BY <1>6 DEF TaskAwaited, RebuildFails, RequestReconnect, RequestRemove,
                  RequestDisable, BeginStop, PopAdapter, registry, TypeOK
    <2> QED BY <2>1, <2>2 DEF TasksOnBuilt
  <1>7. CASE \/ \E i \in Insts : LinkLost(i)
             \/ StopRequested \/ StopStep
             \/ UNCHANGED vars
    <2>1. pc' = pc /\ built' = built /\ adapters' = adapters
      BY <1>7 DEF LinkLost, StopRequested, StopStep, GatherDone, Stopped, CloseAdapter, CloseRaises,
                  control, registry, vars
    <2>2. \A i \in Insts : open'[i] => open[i]
      BY <1>7 DEF LinkLost, StopRequested, StopStep, GatherDone, Stopped, CloseAdapter, CloseRaises,
                  links, vars, TypeOK
    <2> QED BY <2>1, <2>2 DEF TasksOnBuilt
  <1> QED
    BY <1>1, <1>2, <1>3, <1>4, <1>5, <1>6, <1>7, ConstantsAssumption DEF Next, RequestStep

LEMMA BuiltAlways == Spec => []TasksOnBuilt
  <1>1. Init => TasksOnBuilt
    BY DEF Init, TasksOnBuilt
  <1> QED BY <1>1, BuiltNext, TypeCorrect, PTL DEF Spec

NoneAtBoot == ~LoopRuns => \A i \in Insts : ~connected[i]

Drained ==
    phase \in {"gathering", "closing", "stopped", "aborted"} =>
       \A c \in Clients : client[c].pc = "idle"

Gathered ==
    phase \in {"closing", "stopped", "aborted"} =>
       /\ \A t \in Tasks : ~LiveTask(t)
       /\ \A n \in Registered : adapters[n] \in toClose \/ ~open[adapters[n]]

Quiet ==
    /\ NoneAtBoot
    /\ ConnectedHasOwner
    /\ Drained
    /\ Gathered
    /\ phase = "stopped" => toClose = {}

LEMMA QuietInit == Init => Quiet
  BY DEF Init, Quiet, NoneAtBoot, ConnectedHasOwner, Drained, Gathered

LEMMA QuietBoot ==
    ASSUME TypeOK, Quiet, StartBuiltinSims \/ RouterStart
    PROVE  Quiet'
  <1>1. connected' = connected /\ phase' \in {"simsUp", "running"} /\ ~LoopRuns
    BY DEF StartBuiltinSims, RouterStart, links, LoopRuns
  <1>2. \A i \in Insts : ~connected'[i]
    BY <1>1 DEF Quiet, NoneAtBoot
  <1> QED BY <1>1, <1>2 DEF Quiet, NoneAtBoot, ConnectedHasOwner, Drained, Gathered

LEMMA QuietSupervise ==
    ASSUME TypeOK, Quiet, NEW t \in Tasks, SuperviseStep(t) \/ ReceiveRaises(t)
    PROVE  Quiet'
  <1>0. InstOf(t) \in Insts
    BY TaskShape
  <1>1. LoopRuns /\ LiveTask(t) /\ phase' = phase /\ client' = client /\ toClose' = toClose
    BY DEF SuperviseStep, CallConnect, ConnectAllocates, ConnectReturns, ConnectRaises,
           ConflictBroadcast, ReceiveEnds, CleanupEnds, CancelIdle, CancelActive,
           CancelSwallowed, CancelEscapes, ReceiveRaises, LiveTask, Runs
  <1>2. phase \notin {"closing", "stopped", "aborted"}
    BY <1>1 DEF Quiet, Gathered
  <1>3. \A u \in Tasks : u # t => pc'[u] = pc[u]
    BY SuperviseLocal DEF TypeOK
  <1>4. /\ \A i \in Insts : i # InstOf(t) => connected'[i] = connected[i]
        /\ connected'[InstOf(t)] =>
              \/ pc'[t] \in {"receive", "report"}
              \/ connected[InstOf(t)] /\ pc[t] \notin {"receive", "report"}
    <2> USE DEF TypeOK
    <2>1. CASE CallConnect(t) \/ ConnectAllocates(t) \/ ConnectReturns(t)
      BY <1>0, <2>1 DEF CallConnect, ConnectAllocates, ConnectReturns, links
    <2>2. CASE ConnectRaises(t) \/ ReceiveRaises(t) \/ ConflictBroadcast(t)
      BY <1>0, <2>2 DEF ConnectRaises, ReceiveRaises, ConflictBroadcast, Raise, EnterFinally
    <2>3. CASE ReceiveEnds(t) \/ CancelActive(t)
      BY <1>0, <2>3 DEF ReceiveEnds, CancelActive, EnterFinally
    <2>4. CASE \/ CleanupEnds(t) \/ CancelIdle(t) \/ CancelSwallowed(t)
               \/ CancelEscapes(t)
      BY <1>0, <2>4 DEF CleanupEnds, CancelIdle, CancelSwallowed, CancelEscapes, links
    <2> QED BY <2>1, <2>2, <2>3, <2>4 DEF SuperviseStep
  <1>5. ConnectedHasOwner'
    <2> SUFFICES ASSUME NEW i \in Insts, connected'[i]
                 PROVE  \E u \in Tasks : InstOf(u) = i /\ pc'[u] \in {"receive", "report"}
      BY DEF ConnectedHasOwner
    <2>1. CASE i = InstOf(t) /\ pc'[t] \in {"receive", "report"}
      BY <2>1
    <2>2. CASE ~(i = InstOf(t) /\ pc'[t] \in {"receive", "report"})
      <3>1. connected[i] /\ (i = InstOf(t) => pc[t] \notin {"receive", "report"})
        BY <1>4, <2>2
      <3>2. PICK u \in Tasks : InstOf(u) = i /\ pc[u] \in {"receive", "report"}
        BY <3>1 DEF Quiet, ConnectedHasOwner
      <3>3. u # t
        BY <3>1, <3>2
      <3> QED BY <1>3, <3>2, <3>3
    <2> QED BY <2>1, <2>2
  <1> QED
    BY <1>1, <1>2, <1>5 DEF Quiet, NoneAtBoot, LoopRuns, Drained, Gathered

LEMMA QuietRequest ==
    ASSUME TypeOK, TasksOnBuilt, Quiet, NEW c \in Clients, NEW n \in Names,
           \/ RequestStep(c)
           \/ RequestReconnect(c, n) \/ RequestRemove(c, n) \/ RequestDisable(c, n)
    PROVE  Quiet'
  <1>1. phase' = phase /\ phase \notin {"gathering", "closing", "stopped", "aborted"}
    BY DEF Quiet, Drained, RequestStep, TaskAwaited, RequestDisconnected, RebuildFails,
           Rebuild, RequestReconnect, RequestRemove, RequestDisable, BeginStop
  <1>2. \A i \in Insts : connected'[i] => connected[i]
    <2>1. CASE \/ RequestDisconnected(c) \/ RebuildFails(c)
               \/ \E i \in Insts : Rebuild(c, i)
      BY <2>1 DEF RequestDisconnected, RebuildFails, Rebuild, links
    <2>2. CASE RequestDisable(c, n)
      BY <2>2 DEF RequestDisable, TypeOK
    <2>3. CASE TaskAwaited(c) \/ RequestReconnect(c, n) \/ RequestRemove(c, n)
      BY <2>3 DEF TaskAwaited, RequestReconnect, RequestRemove, BeginStop, PopAdapter,
                  TypeOK
    <2> QED BY <2>1, <2>2, <2>3 DEF RequestStep
  <1>3. \A t \in Tasks : pc[t] \in {"receive", "report"} => pc'[t] = pc[t]
    <2>1. ASSUME NEW i \in Insts, Rebuild(c, i), NEW t \in Tasks,
                 pc[t] \in {"receive", "report"}
          PROVE  pc'[t] = pc[t]
      <3>1. t # <<i, "dyn">>
        BY <2>1 DEF Rebuild, TasksOnBuilt
      <3> QED BY <2>1, <3>1 DEF Rebuild, TypeOK
    <2>2. CASE \/ TaskAwaited(c) \/ RequestDisconnected(c) \/ RebuildFails(c)
               \/ RequestReconnect(c, n) \/ RequestRemove(c, n) \/ RequestDisable(c, n)
      BY <2>2 DEF TaskAwaited, RequestDisconnected, RebuildFails, RequestReconnect,
                  RequestRemove, RequestDisable, BeginStop, control
    <2> QED BY <2>1, <2>2 DEF RequestStep
  <1>4. ConnectedHasOwner'
    BY <1>2, <1>3 DEF Quiet, ConnectedHasOwner
  <1> QED
    BY <1>1, <1>2, <1>4 DEF Quiet, NoneAtBoot, LoopRuns, Drained, Gathered

LEMMA QuietStop ==
    ASSUME TypeOK, LiveTasksAreTracked, Quiet, StopRequested \/ StopStep
    PROVE  Quiet'
  <1>1. pc' = pc /\ adapters' = adapters /\ client' = client
    BY DEF StopRequested, StopStep, GatherDone, Stopped, CloseAdapter, CloseRaises, control, registry
  <1>2. \A i \in Insts : connected'[i] => connected[i]
    BY DEF StopRequested, StopStep, GatherDone, Stopped, CloseAdapter, CloseRaises, links, TypeOK
  <1>3. ConnectedHasOwner'
    BY <1>1, <1>2 DEF Quiet, ConnectedHasOwner
  <1>4. LoopRuns' /\ NoneAtBoot'
    BY DEF StopRequested, StopStep, GatherDone, Stopped, CloseAdapter, CloseRaises, LoopRuns, NoneAtBoot
  <1>5. Drained'
    BY <1>1 DEF StopRequested, StopStep, GatherDone, Stopped, CloseAdapter, CloseRaises, Quiet, Drained
  <1>6. Gathered' /\ (phase' = "stopped" => toClose' = {})
    <2>1. CASE StopRequested
      BY <2>1 DEF StopRequested, Gathered
    <2>2. CASE GatherDone
      <3>1. \A t \in Tasks : ~LiveTask(t)
        BY <2>2 DEF GatherDone, LiveTasksAreTracked, LiveTask
      <3>2. phase' = "closing" /\ toClose' = {adapters[n] : n \in Registered}
        BY <2>2 DEF GatherDone
      <3> QED BY <1>1, <3>1, <3>2 DEF Gathered, LiveTask, Registered
    <2>3. CASE Stopped
      BY <1>1, <2>3 DEF Stopped, Quiet, Gathered, LiveTask, Registered, links
    <2>4. ASSUME NEW i \in Insts, CloseAdapter(i)
          PROVE  Gathered' /\ (phase' = "stopped" => toClose' = {})
      <3>1. /\ phase = "closing" /\ phase' = "closing" /\ toClose' = toClose \ {i}
            /\ open' = [open EXCEPT ![i] = FALSE]
        BY <2>4 DEF CloseAdapter
      <3>2. \A n \in Registered : adapters[n] \in Insts
        BY DEF TypeOK, Registered
      <3>3. \A n \in Registered : adapters[n] \in toClose' \/ ~open'[adapters[n]]
        BY <3>1, <3>2 DEF Quiet, Gathered, TypeOK
      <3> QED BY <1>1, <3>1, <3>3 DEF Quiet, Gathered, LiveTask, Registered
    <2>5. ASSUME NEW i \in Insts, CloseRaises(i)
          PROVE  Gathered' /\ (phase' = "stopped" => toClose' = {})
      BY <1>1, <2>5 DEF CloseRaises, Quiet, Gathered, LiveTask, Registered
    <2> QED BY <2>1, <2>2, <2>3, <2>4, <2>5 DEF StopStep
  <1> QED BY <1>3, <1>4, <1>5, <1>6 DEF Quiet

LEMMA QuietNext ==
    TypeOK /\ LiveTasksAreTracked /\ TasksOnBuilt /\ Quiet /\ [Next]_vars => Quiet'
  <1> SUFFICES ASSUME TypeOK, LiveTasksAreTracked, TasksOnBuilt, Quiet, [Next]_vars
               PROVE  Quiet'
    OBVIOUS
  <1>1. CASE StartBuiltinSims \/ RouterStart
    BY <1>1, QuietBoot
  <1>2. ASSUME NEW t \in Tasks, SuperviseStep(t) \/ ReceiveRaises(t)
        PROVE  Quiet'
    BY <1>2, QuietSupervise
  <1>3. ASSUME NEW i \in Insts, LinkLost(i)
        PROVE  Quiet'
    <2>1. \A j \in Insts : connected'[j] => connected[j]
      BY <1>3 DEF LinkLost, TypeOK
    <2>2. /\ phase' = phase /\ pc' = pc /\ adapters' = adapters /\ client' = client
          /\ open' = open /\ toClose' = toClose
      BY <1>3 DEF LinkLost, control, registry
    <2> QED
      BY <2>1, <2>2
      DEF Quiet, NoneAtBoot, LoopRuns, ConnectedHasOwner, Drained, Gathered, LiveTask,
          Registered
  <1>4. ASSUME NEW c \in Clients, RequestStep(c)
        PROVE  Quiet'
    BY <1>4, QuietRequest, ConstantsAssumption
  <1>5. ASSUME NEW c \in Clients, NEW n \in Names,
               RequestReconnect(c, n) \/ RequestRemove(c, n) \/ RequestDisable(c, n)
        PROVE  Quiet'
    BY <1>5, QuietRequest
  <1>6. CASE StopRequested \/ StopStep
    BY <1>6, QuietStop
  <1>7. CASE UNCHANGED vars
    BY <1>7 DEF vars, registry, control, links, Quiet, NoneAtBoot, LoopRuns,
                ConnectedHasOwner, Drained, Gathered, LiveTask, Registered
  <1> QED BY <1>1, <1>2, <1>3, <1>4, <1>5, <1>6, <1>7 DEF Next

\* Router.stop leaves no task behind, zombies of earlier reconnects included,
\* and, where no disconnect() breaks it off, no open registered adapter.
THEOREM QuietWhenStopped == Spec => []StoppedIsQuiet
  <1>1. TypeOK /\ Quiet => StoppedIsQuiet
    <2> SUFFICES ASSUME TypeOK, Quiet, phase \in {"stopped", "aborted"}
                 PROVE  /\ \A t \in Tasks : ~LiveTask(t)
                        /\ \A i \in Insts : ~connected[i]
                        /\ phase = "stopped" => \A n \in Registered : ~open[adapters[n]]
      BY DEF StoppedIsQuiet
    <2>1. \A t \in Tasks : ~LiveTask(t)
      BY DEF Quiet, Gathered
    <2>2. \A i \in Insts : ~connected[i]
      BY <2>1 DEF Quiet, ConnectedHasOwner, LiveTask
    <2>3. phase = "stopped" => \A n \in Registered : ~open[adapters[n]]
      BY DEF Quiet, Gathered
    <2> QED BY <2>1, <2>2, <2>3
  <1> QED
    BY <1>1, QuietInit, QuietNext, TypeCorrect, Tracking, BuiltAlways, PTL DEF Spec

-----------------------------------------------------------------------------
(* While the router runs: who supervises what is registered.                *)

\* The tables are keyed by the names of what is in them.
NamesAgree ==
    /\ \A n \in Registered : NameOf[adapters[n]] = n
    /\ \A n \in Names : adapterTasks[n] # NoTask => NameOf[InstOf(adapterTasks[n])] = n

\* A task that does not exist yet is not cancelled, and before the loop runs
\* none is.
FreshTasks ==
    \A t \in Tasks : pc[t] = "none" \/ ~LoopRuns => ~cancelled[t] /\ ~exiting[t]

Undisturbed(t) == LiveTask(t) /\ ~cancelled[t] /\ ~exiting[t]

\* A registered adapter has a supervisor nobody has cancelled, or the request
\* that cancelled it is waiting for it to end.
Attendance ==
    phase = "running" =>
       \A n \in Registered :
          \/ \E t \in Tasks : InstOf(t) = adapters[n] /\ Undisturbed(t)
          \/ \E c \in Clients : client[c].pc = "awaitTask" /\ client[c].name = n

LEMMA BootStarts ==
    ASSUME TypeOK, StartBuiltinSims, NEW n \in Names
    PROVE  \/ /\ adapters'[n] \in Insts /\ NameOf[adapters'[n]] = n
              /\ adapterTasks'[n] = <<adapters'[n], "dyn">> /\ pc'[adapterTasks'[n]] = "created"
           \/ adapters'[n] = adapters[n] /\ adapterTasks'[n] = adapterTasks[n]
  <1>1. CASE \E i \in SimsToStart : NameOf[i] = n
    <2> DEFINE s == CHOOSE i \in SimsToStart : NameOf[i] = n
    <2>1. s \in SimsToStart /\ NameOf[s] = n
      BY <1>1
    <2>2. s \in Insts
      BY <2>1, ConstantsAssumption DEF SimsToStart
    <2>3. adapters'[n] = s /\ adapterTasks'[n] = <<s, "dyn">>
      BY <1>1 DEF StartBuiltinSims
    <2> HIDE DEF s
    <2>4. <<s, "dyn">> \in Tasks /\ <<s, "dyn">> \in SimsToStart \X {"dyn"}
      BY <2>1, <2>2, NewTask
    <2>5. pc'[<<s, "dyn">>] = "created"
      BY <2>4 DEF StartBuiltinSims
    <2> QED BY <2>1, <2>2, <2>3, <2>5
  <1>2. CASE ~ \E i \in SimsToStart : NameOf[i] = n
    BY <1>2 DEF StartBuiltinSims
  <1> QED BY <1>1, <1>2

LEMMA PopMoves ==
    ASSUME TypeOK, NEW c \in Clients, NEW op, NEW n \in Names, PopAdapter(c, op, n)
    PROVE  /\ adapters' = [adapters EXCEPT ![n] = NoInst]
           /\ client'[c].pc # "awaitTask"
           /\ \A d \in Clients \ {c} : client'[d] = client[d]
  <1>1. AfterStop(op, n).pc # "awaitTask"
    BY DEF AfterStop, NoRequest
  <1>2. PICK r : client' = [client EXCEPT ![c] = r] /\ r.pc # "awaitTask"
    BY <1>1 DEF PopAdapter
  <1> QED BY <1>2 DEF PopAdapter, TypeOK

\* What a stop does to the tables and to the tasks.
LEMMA StopMoves ==
    ASSUME TypeOK, NEW c \in Clients, NEW op \in Ops, NEW n \in Names, BeginStop(c, op, n)
    PROVE  /\ adapterTasks' = [adapterTasks EXCEPT ![n] = NoTask]
           /\ \/ /\ adapterTasks[n] \in Tasks /\ adapters' = adapters
                 /\ \A t \in Tasks \ {adapterTasks[n]} : cancelled'[t] = cancelled[t]
                 /\ cancelled'[adapterTasks[n]] = LiveTask(adapterTasks[n])
                 /\ client'[c].pc = "awaitTask" /\ client'[c].name = n
              \/ /\ adapterTasks[n] = NoTask /\ adapters' = [adapters EXCEPT ![n] = NoInst]
                 /\ cancelled' = cancelled
                 /\ client'[c].pc # "awaitTask"
           /\ \A d \in Clients \ {c} : client'[d] = client[d]
           /\ client[c].pc = "idle" /\ pc' = pc /\ exiting' = exiting /\ phase' = phase
  <1>1. CASE adapterTasks[n] # NoTask
    BY <1>1 DEF BeginStop, Cancel, TypeOK
  <1>2. CASE adapterTasks[n] = NoTask
    <2>1. PopAdapter(c, op, n)
      BY <1>2 DEF BeginStop
    <2> QED BY <1>2, <2>1, PopMoves DEF BeginStop
  <1> QED BY <1>1, <1>2

LEMMA AwaitMoves ==
    ASSUME TypeOK, NEW c \in Clients, TaskAwaited(c)
    PROVE  /\ client[c].pc = "awaitTask" /\ client[c].name \in Names
           /\ adapters' = [adapters EXCEPT ![client[c].name] = NoInst]
           /\ \A d \in Clients \ {c} : client'[d] = client[d]
           /\ client'[c].pc # "awaitTask"
           /\ adapterTasks' = adapterTasks /\ phase' = phase
           /\ pc' = pc /\ cancelled' = cancelled /\ exiting' = exiting
  <1>1. client[c].name \in Names
    BY RequestFields DEF TypeOK
  <1>2. PopAdapter(c, client[c].op, client[c].name)
    BY DEF TaskAwaited
  <1> QED BY <1>1, <1>2, PopMoves DEF TaskAwaited, control

LEMMA NamesNext == TypeOK /\ NamesAgree /\ [Next]_vars => NamesAgree'
  <1> SUFFICES ASSUME TypeOK, NamesAgree, [Next]_vars PROVE NamesAgree'
    OBVIOUS
  <1>a. ASSUME adapters' = adapters, adapterTasks' = adapterTasks PROVE NamesAgree'
    BY <1>a DEF NamesAgree, Registered
  <1>b. ASSUME NEW n \in Names, adapters' = [adapters EXCEPT ![n] = NoInst],
               adapterTasks' = adapterTasks \/ adapterTasks' = [adapterTasks EXCEPT ![n] = NoTask]
        PROVE  NamesAgree'
    BY <1>b DEF NamesAgree, Registered, TypeOK
  <1>1. CASE StartBuiltinSims
    <2> SUFFICES ASSUME NEW n \in Names
                 PROVE  /\ adapters'[n] # NoInst => NameOf[adapters'[n]] = n
                        /\ adapterTasks'[n] # NoTask => NameOf[InstOf(adapterTasks'[n])] = n
      BY DEF NamesAgree, Registered
    <2> QED BY <1>1, BootStarts DEF NamesAgree, Registered
  <1>2. CASE RouterStart
    BY <1>2, <1>a DEF RouterStart
  <1>3. ASSUME NEW t \in Tasks, SuperviseStep(t) \/ ReceiveRaises(t) PROVE NamesAgree'
    BY <1>3, <1>a DEF SuperviseStep, CallConnect, ConnectAllocates, ConnectReturns, ConnectRaises,
           ConflictBroadcast, ReceiveEnds, CleanupEnds, CancelIdle, CancelActive,
           CancelSwallowed, CancelEscapes, ReceiveRaises, registry
  <1>4. ASSUME NEW c \in Clients, NEW i \in Insts, Rebuild(c, i) PROVE NamesAgree'
    BY <1>4, ConstantsAssumption DEF Rebuild, NamesAgree, Registered, TypeOK
  <1>5. ASSUME NEW c \in Clients, NEW n \in Names, NEW op \in Ops, BeginStop(c, op, n) PROVE NamesAgree'
    <2>1. CASE adapters' = adapters /\ adapterTasks' = [adapterTasks EXCEPT ![n] = NoTask]
      BY <2>1 DEF NamesAgree, Registered, TypeOK
    <2> QED BY <1>5, <1>b, <2>1, StopMoves
  <1>6. ASSUME NEW c \in Clients, TaskAwaited(c) PROVE NamesAgree'
    BY <1>6, <1>b, AwaitMoves
  <1>7. ASSUME NEW c \in Clients, RequestDisconnected(c) \/ RebuildFails(c) \/ \E n \in Names : RequestDisable(c, n)
        PROVE  NamesAgree'
    BY <1>7, <1>a DEF RequestDisconnected, RebuildFails, RequestDisable, registry
  <1>8. CASE \/ \E i \in Insts : LinkLost(i)
             \/ StopRequested \/ StopStep
             \/ UNCHANGED vars
    BY <1>8, <1>a DEF LinkLost, StopRequested, StopStep, GatherDone, Stopped, CloseAdapter, CloseRaises, registry, vars
  <1> QED
    BY <1>1, <1>2, <1>3, <1>4, <1>5, <1>6, <1>7, <1>8
    DEF Next, RequestStep, RequestReconnect, RequestRemove, Ops

\* A supervise task moves itself only, and ends only when it was cancelled.
LEMMA SuperviseKeeps ==
    ASSUME TypeOK, NEW t \in Tasks, SuperviseStep(t) \/ ReceiveRaises(t), NEW u \in Tasks
    PROVE  /\ Undisturbed(u) => Undisturbed(u)'
           /\ pc'[u] = "none" => pc[u] = "none"
           /\ pc[u] = "none" => cancelled'[u] = cancelled[u] /\ exiting'[u] = exiting[u]
           /\ LoopRuns /\ phase' = phase /\ adapters' = adapters /\ adapterTasks' = adapterTasks
           /\ client' = client
  <1>1. LoopRuns /\ phase' = phase /\ adapters' = adapters /\ adapterTasks' = adapterTasks /\ client' = client
    BY DEF SuperviseStep, CallConnect, ConnectAllocates, ConnectReturns, ConnectRaises,
           ConflictBroadcast, ReceiveEnds, CleanupEnds, CancelIdle, CancelActive,
           CancelSwallowed, CancelEscapes, ReceiveRaises, registry, Runs
  <1>2. CASE CallConnect(t) \/ ConnectAllocates(t) \/ ConnectReturns(t) \/ ConnectRaises(t)
             \/ ConflictBroadcast(t) \/ ReceiveEnds(t) \/ ReceiveRaises(t)
    <2>1. exiting' = exiting /\ cancelled' = cancelled
      BY <1>2 DEF CallConnect, ConnectAllocates, ConnectReturns, ConnectRaises,
           ConflictBroadcast, ReceiveEnds, ReceiveRaises
    <2>2. \A x \in Tasks \ {t} : pc'[x] = pc[x]
      BY SuperviseLocal DEF TypeOK
    <2>3. pc[t] # "none" /\ pc'[t] \notin {"none", "done"}
      BY <1>2 DEF CallConnect, ConnectAllocates, ConnectReturns, ConnectRaises, ConflictBroadcast,
           ReceiveEnds, ReceiveRaises, Raise, EnterFinally, TypeOK
    <2> QED BY <1>1, <2>1, <2>2, <2>3 DEF Undisturbed, LiveTask
  <1>3. CASE CleanupEnds(t)
    BY <1>1, <1>3 DEF CleanupEnds, Undisturbed, LiveTask, TypeOK
  <1>4. CASE CancelIdle(t) \/ CancelActive(t) \/ CancelSwallowed(t) \/ CancelEscapes(t)
    BY <1>1, <1>4 DEF CancelIdle, CancelActive, CancelSwallowed, CancelEscapes, EnterFinally, Undisturbed,
           LiveTask, TypeOK
  <1> QED BY <1>2, <1>3, <1>4 DEF SuperviseStep

LEMMA FreshNext == TypeOK /\ NamesAgree /\ FreshTasks /\ [Next]_vars => FreshTasks'
  <1> SUFFICES ASSUME TypeOK, NamesAgree, FreshTasks, [Next]_vars PROVE FreshTasks'
    OBVIOUS
  <1>a. ASSUME cancelled' = cancelled, exiting' = exiting, LoopRuns => LoopRuns',
               \A t \in Tasks : pc'[t] = "none" => pc[t] = "none"
        PROVE  FreshTasks'
    BY <1>a DEF FreshTasks
  <1>1. CASE StartBuiltinSims \/ RouterStart
    <2>1. cancelled' = cancelled /\ exiting' = exiting /\ ~LoopRuns
      BY <1>1 DEF StartBuiltinSims, RouterStart, LoopRuns
    <2> QED BY <2>1 DEF FreshTasks
  <1>2. ASSUME NEW t \in Tasks, SuperviseStep(t) \/ ReceiveRaises(t) PROVE FreshTasks'
    <2>1. LoopRuns /\ LoopRuns'
      BY <1>2, SuperviseKeeps DEF LoopRuns
    <2> QED BY <1>2, <2>1, SuperviseKeeps DEF FreshTasks
  <1>3. ASSUME NEW c \in Clients, NEW i \in Insts, Rebuild(c, i) PROVE FreshTasks'
    BY <1>3, <1>a DEF Rebuild, LoopRuns, TypeOK
  <1>4. ASSUME NEW c \in Clients, NEW n \in Names, NEW op \in Ops, BeginStop(c, op, n) PROVE FreshTasks'
    <2>1. pc' = pc /\ exiting' = exiting /\ LoopRuns
      BY <1>4, StopMoves DEF BeginStop, LoopRuns
    <2>2. \A t \in Tasks : cancelled'[t] => cancelled[t] \/ LiveTask(t)
      BY <1>4, StopMoves, Zenon
    <2>3. \A t \in Tasks : pc[t] = "none" => ~cancelled'[t] /\ ~exiting'[t]
      BY <2>1, <2>2 DEF FreshTasks, LiveTask
    <2>4. LoopRuns'
      BY <1>4, <2>1, StopMoves DEF LoopRuns
    <2> QED BY <2>1, <2>3, <2>4 DEF FreshTasks
  <1>5. ASSUME NEW c \in Clients,
               TaskAwaited(c) \/ RequestDisconnected(c) \/ RebuildFails(c) \/ \E n \in Names : RequestDisable(c, n)
        PROVE  FreshTasks'
    BY <1>5, <1>a DEF TaskAwaited, RequestDisconnected, RebuildFails, RequestDisable, control, LoopRuns
  <1>6. CASE StopRequested
    BY <1>6 DEF StopRequested, FreshTasks, LoopRuns, LiveTask
  <1>7. CASE (\E i \in Insts : LinkLost(i)) \/ StopStep \/ UNCHANGED vars
    BY <1>7, <1>a DEF LinkLost, StopStep, GatherDone, Stopped, CloseAdapter, CloseRaises, control, LoopRuns, vars
  <1> QED
    BY <1>1, <1>2, <1>3, <1>4, <1>5, <1>6, <1>7
    DEF Next, RequestStep, RequestReconnect, RequestRemove, Ops

LEMMA AttendanceNext ==
    TypeOK /\ NamesAgree /\ FreshTasks /\ TasksOnBuilt /\ Attendance /\ [Next]_vars => Attendance'
  <1> SUFFICES ASSUME TypeOK, NamesAgree, FreshTasks, TasksOnBuilt, Attendance, [Next]_vars,
                      phase' = "running", NEW n \in Registered'
               PROVE  \/ \E t \in Tasks : InstOf(t) = adapters'[n] /\ Undisturbed(t)'
                      \/ \E c \in Clients : client'[c].pc = "awaitTask" /\ client'[c].name = n
    BY DEF Attendance
  <1>n. n \in Names /\ adapters'[n] # NoInst
    BY DEF Registered
  <1>a. ASSUME phase = "running", adapters'[n] = adapters[n],
               \A t \in Tasks : Undisturbed(t) => Undisturbed(t)',
               \A c \in Clients : client[c].pc = "awaitTask" => client'[c] = client[c]
        PROVE  \/ \E t \in Tasks : InstOf(t) = adapters'[n] /\ Undisturbed(t)'
               \/ \E c \in Clients : client'[c].pc = "awaitTask" /\ client'[c].name = n
    <2>1. n \in Registered
      BY <1>n, <1>a DEF Registered
    <2>2. CASE \E t \in Tasks : InstOf(t) = adapters[n] /\ Undisturbed(t)
      BY <2>2, <1>a
    <2>3. CASE \E c \in Clients : client[c].pc = "awaitTask" /\ client[c].name = n
      BY <2>3, <1>a, Zenon
    <2> QED BY <2>1, <2>2, <2>3, <1>a DEF Attendance
  <1>1. CASE RouterStart
    <2>1. adapters' = adapters /\ ~LoopRuns /\ cancelled' = cancelled /\ exiting' = exiting
      BY <1>1 DEF RouterStart, LoopRuns
    <2> DEFINE t == <<adapters[n], "boot">>
    <2>2. n \in Registered /\ adapters[n] \in Insts
      BY <1>n, <2>1 DEF Registered, TypeOK
    <2>3. t \in Tasks /\ InstOf(t) = adapters'[n]
      BY <2>1, <2>2, NewTask
    <2>4. t \in {adapters[m] : m \in Registered} \X {"boot"}
      BY <2>2
    <2>5. pc'[t] = "created"
      BY <1>1, <2>3, <2>4 DEF RouterStart
    <2>6. ~cancelled'[t] /\ ~exiting'[t]
      BY <2>1, <2>3 DEF FreshTasks
    <2> QED BY <2>3, <2>5, <2>6 DEF Undisturbed, LiveTask
  <1>2. ASSUME NEW t \in Tasks, SuperviseStep(t) \/ ReceiveRaises(t)
        PROVE  /\ phase = "running" /\ adapters'[n] = adapters[n] /\ client' = client
               /\ \A u \in Tasks : Undisturbed(u) => Undisturbed(u)'
    BY <1>2, SuperviseKeeps
  <1>3. ASSUME NEW d \in Clients, NEW i \in Insts, Rebuild(d, i)
        PROVE  \/ \E t \in Tasks : InstOf(t) = adapters'[n] /\ Undisturbed(t)'
               \/ \E c \in Clients : client'[c].pc = "awaitTask" /\ client'[c].name = n
    <2> DEFINE u == <<i, "dyn">>
    <2>1. u \in Tasks /\ InstOf(u) = i /\ pc[u] = "none" /\ pc'[u] = "created"
      BY <1>3, NewTask DEF Rebuild, TasksOnBuilt, TypeOK
    <2>2. Undisturbed(u)'
      BY <1>3, <2>1 DEF Rebuild, FreshTasks, Undisturbed, LiveTask
    <2>3. CASE adapters'[n] = i
      BY <2>1, <2>2, <2>3
    <2>4. CASE adapters'[n] # i
      <3>1. phase = "running" /\ adapters'[n] = adapters[n]
        BY <1>3, <1>n, <2>4 DEF Rebuild, TypeOK
      <3>2. \A t \in Tasks : Undisturbed(t) => Undisturbed(t)'
        BY <1>3 DEF Rebuild, Undisturbed, LiveTask, TypeOK
      <3>3. \A c \in Clients : client[c].pc = "awaitTask" => client'[c] = client[c]
        BY <1>3 DEF Rebuild, TypeOK
      <3> QED BY <3>1, <3>2, <3>3, <1>a
    <2> QED BY <2>3, <2>4
  <1>4. ASSUME NEW d \in Clients, NEW m \in Names, NEW op \in Ops, BeginStop(d, op, m)
        PROVE  \/ \E t \in Tasks : InstOf(t) = adapters'[n] /\ Undisturbed(t)'
               \/ \E c \in Clients : client'[c].pc = "awaitTask" /\ client'[c].name = n
    <2>1. phase = "running" /\ \A c \in Clients : client[c].pc = "awaitTask" => client'[c] = client[c]
      BY <1>4, StopMoves
    <2>2. CASE /\ adapterTasks[m] \in Tasks /\ adapters' = adapters
               /\ client'[d].pc = "awaitTask" /\ client'[d].name = m
      <3>1. CASE n = m
        BY <2>2, <3>1
      <3>2. CASE n # m
        <4>1. NameOf[InstOf(adapterTasks[m])] = m /\ NameOf[adapters[n]] = n
          BY <1>n, <2>2, ConstantsAssumption DEF NamesAgree, Registered
        <4>2. n \in Registered /\ adapters'[n] = adapters[n]
          BY <1>n, <2>2 DEF Registered
        <4>3. \A t \in Tasks : InstOf(t) = adapters[n] /\ Undisturbed(t) => Undisturbed(t)'
          <5>1. \A t \in Tasks \ {adapterTasks[m]} : Undisturbed(t) => Undisturbed(t)'
            BY <1>4, <2>2, StopMoves, ConstantsAssumption DEF Undisturbed, LiveTask
          <5> QED BY <5>1, <4>1, <3>2
        <4> QED BY <4>2, <4>3, <2>1 DEF Attendance
      <3> QED BY <3>1, <3>2
    <2>3. CASE adapterTasks[m] = NoTask
      <3>1. adapters' = [adapters EXCEPT ![m] = NoInst] /\ cancelled' = cancelled /\ pc' = pc /\ exiting' = exiting
        BY <1>4, <2>3, StopMoves, ConstantsAssumption
      <3>2. adapters'[n] = adapters[n] /\ \A t \in Tasks : Undisturbed(t) => Undisturbed(t)'
        BY <3>1, <1>n DEF Undisturbed, LiveTask, TypeOK
      <3> QED BY <3>2, <2>1, <1>a
    <2> QED BY <1>4, <2>2, <2>3, StopMoves
  <1>5. ASSUME NEW d \in Clients, TaskAwaited(d)
        PROVE  \/ \E t \in Tasks : InstOf(t) = adapters'[n] /\ Undisturbed(t)'
               \/ \E c \in Clients : client'[c].pc = "awaitTask" /\ client'[c].name = n
    <2>1. /\ n # client[d].name /\ adapters'[n] = adapters[n] /\ phase = "running"
          /\ \A t \in Tasks : Undisturbed(t) => Undisturbed(t)'
      BY <1>5, <1>n, AwaitMoves DEF Undisturbed, LiveTask, TypeOK
    <2>2. n \in Registered
      BY <1>n, <2>1 DEF Registered
    <2>3. CASE \E t \in Tasks : InstOf(t) = adapters[n] /\ Undisturbed(t)
      BY <2>1, <2>3
    <2>4. ASSUME NEW c \in Clients, client[c].pc = "awaitTask", client[c].name = n
          PROVE  client'[c].pc = "awaitTask" /\ client'[c].name = n
      BY <2>1, <2>4, <1>5, AwaitMoves
    <2> QED BY <2>1, <2>2, <2>3, <2>4 DEF Attendance
  <1>6. ASSUME NEW d \in Clients, RequestDisconnected(d) \/ RebuildFails(d) \/ \E m \in Names : RequestDisable(d, m)
        PROVE  /\ phase = "running" /\ adapters'[n] = adapters[n]
               /\ \A t \in Tasks : Undisturbed(t) => Undisturbed(t)'
               /\ \A c \in Clients : client[c].pc = "awaitTask" => client'[c] = client[c]
    BY <1>6 DEF RequestDisconnected, RebuildFails, RequestDisable, registry, control, Undisturbed, LiveTask, TypeOK
  <1>7. CASE (\E i \in Insts : LinkLost(i)) \/ UNCHANGED vars
    <2>1. /\ phase = "running" /\ adapters'[n] = adapters[n] /\ client' = client
          /\ \A u \in Tasks : Undisturbed(u) => Undisturbed(u)'
      BY <1>7 DEF LinkLost, registry, control, vars, Undisturbed, LiveTask
    <2> QED BY <2>1, <1>a
  <1>8. ~StartBuiltinSims /\ ~StopRequested /\ ~StopStep
    BY DEF StartBuiltinSims, StopRequested, StopStep, GatherDone, Stopped, CloseAdapter, CloseRaises
  <1> QED
    BY <1>a, <1>1, <1>2, <1>3, <1>4, <1>5, <1>6, <1>7, <1>8
    DEF Next, RequestStep, RequestReconnect, RequestRemove, Ops

\* Whatever requests overlap, a registered adapter that no request is working
\* on has a supervise task that nobody has cancelled.
THEOREM Attended == Spec => []RegisteredIsSupervised
  <1>1. Init => NamesAgree /\ FreshTasks /\ Attendance
    BY DEF Init, NamesAgree, FreshTasks, Attendance, Registered
  <1>2. Attendance => RegisteredIsSupervised
    BY DEF Attendance, RegisteredIsSupervised, ClientOn, Undisturbed
  <1> QED BY <1>1, <1>2, NamesNext, FreshNext, AttendanceNext, TypeCorrect, BuiltAlways, PTL DEF Spec

-----------------------------------------------------------------------------
(* Nothing in the code keeps two requests from one name.  When they do not   *)
(* overlap there, the record of a name's task agrees with the registry.      *)

OneRequestPerName ==
    \A c, d \in Clients :
       client[c].pc # "idle" /\ client[d].pc # "idle" /\ client[c].name = client[d].name => c = d

\* Who has taken a name's task out of the table is waiting for it.
Records ==
    /\ phase \in {"loaded", "simsUp", "running"} =>
          \A n \in Names : adapterTasks[n] # NoTask =>
             InstOf(adapterTasks[n]) = adapters[n] /\ Undisturbed(adapterTasks[n])
    /\ \A c \in Clients : client[c].pc = "awaitTask" => LoopRuns /\ adapterTasks[client[c].name] = NoTask

LEMMA RecordsNext ==
    TypeOK /\ NamesAgree /\ FreshTasks /\ TasksOnBuilt /\ OneRequestPerName /\ Records /\ [Next]_vars => Records'
  <1> SUFFICES ASSUME TypeOK, NamesAgree, FreshTasks, TasksOnBuilt, OneRequestPerName, Records, [Next]_vars
               PROVE  Records'
    OBVIOUS
  <1> DEFINE Calm(t) == pc'[t] \notin {"none", "done"} /\ ~cancelled'[t] /\ ~exiting'[t]
             Early == {"loaded", "simsUp", "running"}
             Kept(n) == InstOf(adapterTasks'[n]) = adapters'[n] /\ Calm(adapterTasks'[n])
             Awaited(c) == client'[c].pc = "awaitTask" => LoopRuns' /\ adapterTasks'[client'[c].name] = NoTask
  <1>r. ASSUME phase' \in Early => \A n \in Names : adapterTasks'[n] # NoTask => Kept(n),
               \A c \in Clients : Awaited(c)
        PROVE  Records'
    BY <1>r DEF Records, Undisturbed, LiveTask
  <1>n. \A n \in Names : adapterTasks[n] # NoTask => adapterTasks[n] \in Tasks
    BY DEF TypeOK
  <1>a. ASSUME NEW n \in Names, phase \in Early, adapters'[n] = adapters[n], adapterTasks'[n] = adapterTasks[n],
               adapterTasks'[n] # NoTask, Undisturbed(adapterTasks[n]) => Calm(adapterTasks[n])
        PROVE  Kept(n)
    BY <1>a DEF Records, Undisturbed, LiveTask
  <1>b. ASSUME adapterTasks' = adapterTasks, LoopRuns',
               \A c \in Clients : client'[c].pc = "awaitTask" => client'[c] = client[c]
        PROVE  \A c \in Clients : Awaited(c)
    BY <1>b DEF Records
  \* The steps that leave the two tables alone.
  <1>c. ASSUME phase' \in Early => phase \in Early, LoopRuns', adapters' = adapters, adapterTasks' = adapterTasks,
               phase' \in Early => \A t \in Tasks : Undisturbed(t) => Calm(t),
               \A c \in Clients : client'[c].pc = "awaitTask" => client'[c] = client[c]
        PROVE  Records'
    <2>1. ASSUME phase' \in Early, NEW n \in Names, adapterTasks'[n] # NoTask PROVE Kept(n)
      <3>1. Undisturbed(adapterTasks[n]) => Calm(adapterTasks[n])
        BY <2>1, <1>c, <1>n
      <3> QED BY <2>1, <3>1, <1>a, <1>c
    <2> QED BY <2>1, <1>b, <1>c, <1>r
  <1>1. CASE StartBuiltinSims
    <2>1. /\ phase \in Early /\ client' = client /\ cancelled' = cancelled /\ exiting' = exiting /\ ~LoopRuns
      BY <1>1 DEF StartBuiltinSims, LoopRuns
    <2>2. ASSUME NEW n \in Names, adapterTasks'[n] # NoTask PROVE Kept(n)
      <3>1. CASE /\ adapters'[n] \in Insts /\ adapterTasks'[n] = <<adapters'[n], "dyn">>
                 /\ pc'[adapterTasks'[n]] = "created"
        <4>1. adapterTasks'[n] \in Tasks /\ InstOf(adapterTasks'[n]) = adapters'[n]
          BY <3>1, NewTask
        <4>2. ~cancelled'[adapterTasks'[n]] /\ ~exiting'[adapterTasks'[n]]
          BY <2>1, <4>1 DEF FreshTasks
        <4> QED BY <3>1, <4>1, <4>2 DEF Undisturbed, LiveTask
      <3>2. CASE adapters'[n] = adapters[n] /\ adapterTasks'[n] = adapterTasks[n]
        <4>1. pc'[adapterTasks[n]] \in {"created", pc[adapterTasks[n]]}
          BY <1>1, <1>n, <2>2, <3>2 DEF StartBuiltinSims
        <4>2. Undisturbed(adapterTasks[n]) => Calm(adapterTasks[n])
          BY <2>1, <4>1 DEF Undisturbed, LiveTask
        <4> QED BY <1>a, <2>1, <2>2, <3>2, <4>2
      <3> QED BY <1>1, <3>1, <3>2, BootStarts
    <2>3. \A c \in Clients : Awaited(c)
      BY <2>1 DEF Records
    <2> QED BY <1>r, <2>2, <2>3
  <1>2. CASE RouterStart
    <2>1. /\ phase \in Early /\ client' = client /\ cancelled' = cancelled /\ exiting' = exiting
          /\ adapters' = adapters /\ adapterTasks' = adapterTasks /\ LoopRuns'
          /\ \A t \in Tasks : pc'[t] \in {"created", pc[t]}
      BY <1>2 DEF RouterStart, LoopRuns
    <2>2. \A t \in Tasks : Undisturbed(t) => Calm(t)
      BY <2>1 DEF Undisturbed, LiveTask
    <2> QED BY <1>c, <2>1, <2>2
  <1>3. ASSUME NEW t \in Tasks, SuperviseStep(t) \/ ReceiveRaises(t) PROVE Records'
    <2>1. /\ LoopRuns' /\ phase' = phase /\ client' = client /\ adapters' = adapters /\ adapterTasks' = adapterTasks
          /\ \A u \in Tasks : Undisturbed(u) => Calm(u)
      BY <1>3, SuperviseKeeps DEF LoopRuns, Undisturbed, LiveTask
    <2> QED BY <1>c, <2>1
  <1>4. ASSUME NEW d \in Clients, NEW i \in Insts, Rebuild(d, i) PROVE Records'
    <2> DEFINE u == <<i, "dyn">>
               k == NameOf[i]
    <2>1. /\ u \in Tasks /\ InstOf(u) = i /\ pc[u] = "none" /\ pc'[u] = "created" /\ k \in Names
          /\ client[d].pc = "sleep" /\ client[d].name = k /\ client'[d].pc = "idle" /\ phase' = phase
      BY <1>4, NewTask, ConstantsAssumption DEF Rebuild, TasksOnBuilt, TypeOK, NoRequest
    <2>2. /\ adapters' = [adapters EXCEPT ![k] = i] /\ adapterTasks' = [adapterTasks EXCEPT ![k] = u]
          /\ \A c \in Clients \ {d} : client'[c] = client[c]
          /\ LoopRuns => LoopRuns'
      BY <1>4 DEF Rebuild, TypeOK, LoopRuns
    <2>3. Calm(u)
      BY <1>4, <2>1 DEF Rebuild, FreshTasks, Undisturbed, LiveTask
    <2>4. ASSUME phase' \in Early, NEW n \in Names, adapterTasks'[n] # NoTask PROVE Kept(n)
      <3>1. CASE n = k
        <4>1. adapterTasks'[n] = u /\ adapters'[n] = i
          BY <2>2, <3>1 DEF TypeOK
        <4> QED BY <4>1, <2>1, <2>3 DEF Undisturbed, LiveTask
      <3>2. CASE n # k
        <4>1. adapterTasks'[n] = adapterTasks[n] /\ adapters'[n] = adapters[n]
          BY <2>2, <3>2 DEF TypeOK
        <4>2. Undisturbed(adapterTasks[n]) => Calm(adapterTasks[n])
          BY <1>4, <1>n, <2>4, <4>1 DEF Rebuild, Undisturbed, LiveTask, TypeOK
        <4> QED BY <1>a, <2>1, <2>4, <4>1, <4>2
      <3> QED BY <3>1, <3>2
    <2>5. ASSUME NEW c \in Clients, client'[c].pc = "awaitTask"
          PROVE  LoopRuns' /\ adapterTasks'[client'[c].name] = NoTask
      <3>1. c # d /\ client'[c] = client[c] /\ client[c].pc = "awaitTask"
        BY <2>1, <2>2, <2>5
      <3>2. client[c].name # k /\ client[c].name \in Names
        BY <3>1, <2>1, RequestFields DEF OneRequestPerName, TypeOK
      <3>3. LoopRuns /\ adapterTasks[client[c].name] = NoTask
        BY <3>1 DEF Records
      <3> QED BY <3>1, <3>2, <3>3, <2>2 DEF TypeOK
    <2> HIDE DEF u, k
    <2> QED BY <1>r, <2>4, <2>5
  <1>5. ASSUME NEW d \in Clients, NEW m \in Names, NEW op \in Ops, BeginStop(d, op, m) PROVE Records'
    <2>1. /\ phase = "running" /\ phase' = phase /\ pc' = pc /\ exiting' = exiting /\ LoopRuns'
          /\ adapterTasks' = [adapterTasks EXCEPT ![m] = NoTask]
      BY <1>5, StopMoves DEF BeginStop, LoopRuns
    <2>2. ASSUME NEW n \in Names, adapterTasks'[n] # NoTask PROVE Kept(n)
      <3>1. n # m /\ adapterTasks'[n] = adapterTasks[n] /\ adapterTasks[n] \in Tasks
        BY <2>1, <2>2, <1>n DEF TypeOK
      <3>2. CASE /\ adapterTasks[m] \in Tasks /\ adapters' = adapters
                 /\ \A t \in Tasks \ {adapterTasks[m]} : cancelled'[t] = cancelled[t]
        <4>1. adapterTasks[n] # adapterTasks[m]
          BY <3>1, <3>2, ConstantsAssumption DEF NamesAgree
        <4>2. Undisturbed(adapterTasks[n]) => Calm(adapterTasks[n])
          BY <2>1, <3>1, <3>2, <4>1 DEF Undisturbed, LiveTask
        <4> QED BY <1>a, <2>1, <2>2, <3>1, <3>2, <4>2
      <3>3. CASE adapters' = [adapters EXCEPT ![m] = NoInst] /\ cancelled' = cancelled
        <4>1. adapters'[n] = adapters[n]
          BY <3>1, <3>3 DEF TypeOK
        <4>2. Undisturbed(adapterTasks[n]) => Calm(adapterTasks[n])
          BY <2>1, <3>3 DEF Undisturbed, LiveTask
        <4> QED BY <1>a, <2>1, <2>2, <3>1, <4>1, <4>2
      <3> QED BY <1>5, <3>2, <3>3, StopMoves
    <2>3. ASSUME NEW c \in Clients, client'[c].pc = "awaitTask" PROVE adapterTasks'[client'[c].name] = NoTask
      <3>1. CASE c = d
        <4>1. client'[c].name = m
          BY <1>5, <2>3, <3>1, StopMoves
        <4> QED BY <2>1, <4>1 DEF TypeOK
      <3>2. CASE c # d
        <4>1. client'[c] = client[c]
          BY <1>5, <3>2, StopMoves
        <4>2. client[c].name \in Names /\ adapterTasks[client[c].name] = NoTask
          BY <2>3, <4>1, RequestFields DEF Records, TypeOK
        <4> QED BY <2>1, <4>1, <4>2 DEF TypeOK
      <3> QED BY <3>1, <3>2
    <2> QED BY <1>r, <2>1, <2>2, <2>3
  <1>6. ASSUME NEW d \in Clients, TaskAwaited(d) PROVE Records'
    <2> DEFINE k == client[d].name
    <2>1. /\ k \in Names /\ adapters' = [adapters EXCEPT ![k] = NoInst] /\ adapterTasks' = adapterTasks /\ phase' = phase
          /\ pc' = pc /\ cancelled' = cancelled /\ exiting' = exiting
          /\ \A c \in Clients : client'[c].pc = "awaitTask" => client'[c] = client[c]
      BY <1>6, AwaitMoves
    <2>2. LoopRuns' /\ adapterTasks[k] = NoTask
      BY <1>6, <2>1 DEF TaskAwaited, Records, LoopRuns
    <2>3. ASSUME phase' \in Early, NEW n \in Names, adapterTasks'[n] # NoTask PROVE Kept(n)
      <3>1. n # k /\ adapters'[n] = adapters[n]
        BY <2>1, <2>2, <2>3 DEF TypeOK
      <3>2. Undisturbed(adapterTasks[n]) => Calm(adapterTasks[n])
        BY <2>1 DEF Undisturbed, LiveTask
      <3> QED BY <1>a, <2>1, <2>3, <3>1, <3>2
    <2> HIDE DEF k
    <2> QED BY <1>r, <1>b, <2>1, <2>2, <2>3
  <1>7. ASSUME NEW d \in Clients, RequestDisconnected(d) \/ RebuildFails(d) \/ \E m \in Names : RequestDisable(d, m)
        PROVE  Records'
    <2>1. /\ phase' = phase /\ adapters' = adapters /\ adapterTasks' = adapterTasks
          /\ \A t \in Tasks : Undisturbed(t) => Calm(t)
      BY <1>7 DEF RequestDisconnected, RebuildFails, RequestDisable, registry, control, Undisturbed, LiveTask
    <2>2. \A c \in Clients : client'[c].pc = "awaitTask" => client'[c] = client[c]
      <3>1. AfterStop(client[d].op, client[d].name).pc # "awaitTask" /\ NoRequest.pc # "awaitTask"
        BY DEF AfterStop, NoRequest
      <3>2. PICK r : client' = [client EXCEPT ![d] = r] /\ r.pc # "awaitTask"
        BY <1>7, <3>1 DEF RequestDisconnected, RebuildFails, RequestDisable
      <3> QED BY <3>2 DEF TypeOK
    <2>3. ASSUME NEW c \in Clients PROVE Awaited(c)
      BY <2>1, <2>2 DEF Records, LoopRuns
    <2>4. ASSUME phase' \in Early, NEW n \in Names, adapterTasks'[n] # NoTask PROVE Kept(n)
      <3>1. Undisturbed(adapterTasks[n]) => Calm(adapterTasks[n])
        BY <2>1, <2>4, <1>n
      <3> QED BY <1>a, <2>1, <2>4, <3>1
    <2> QED BY <1>r, <2>3, <2>4
  <1>8. CASE StopRequested \/ StopStep
    <2>1. /\ adapters' = adapters /\ adapterTasks' = adapterTasks /\ client' = client
          /\ phase' \notin Early /\ LoopRuns'
      BY <1>8 DEF StopRequested, StopStep, GatherDone, Stopped, CloseAdapter, CloseRaises, registry, LoopRuns
    <2> QED BY <1>c, <2>1
  <1>9. CASE (\E i \in Insts : LinkLost(i)) \/ UNCHANGED vars
    <2>1. /\ phase' = phase /\ adapters' = adapters /\ adapterTasks' = adapterTasks /\ client' = client
          /\ \A t \in Tasks : Undisturbed(t) => Calm(t)
      BY <1>9 DEF LinkLost, registry, control, vars, Undisturbed, LiveTask
    <2>2. ASSUME NEW c \in Clients PROVE Awaited(c)
      BY <2>1 DEF Records, LoopRuns
    <2>3. ASSUME phase' \in Early, NEW n \in Names, adapterTasks'[n] # NoTask PROVE Kept(n)
      <3>1. Undisturbed(adapterTasks[n]) => Calm(adapterTasks[n])
        BY <2>1, <2>3, <1>n
      <3> QED BY <1>a, <2>1, <2>3, <3>1
    <2> QED BY <1>r, <2>2, <2>3
  <1> QED
    BY <1>1, <1>2, <1>3, <1>4, <1>5, <1>6, <1>7, <1>8, <1>9
    DEF Next, RequestStep, RequestReconnect, RequestRemove, Ops

\* While no two requests work on one name, a task recorded for a name is live
\* and supervises the object registered under it, so that the next stop_adapter
\* stops what the registry shows.
THEOREM RecordsAreCurrent == Spec /\ []OneRequestPerName => []RecordedTaskIsCurrent
  <1>1. Init => NamesAgree /\ FreshTasks /\ Records
    BY DEF Init, NamesAgree, FreshTasks, Records, Registered, NoRequest
  <1>2. Records => RecordedTaskIsCurrent
    BY DEF Records, RecordedTaskIsCurrent, Undisturbed
  <1> QED BY <1>1, <1>2, NamesNext, FreshNext, RecordsNext, TypeCorrect, BuiltAlways, PTL DEF Spec
=============================================================================
