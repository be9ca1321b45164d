# Formal models of the emergency communications hub

ECH (SignalMatrix) joins mesh radios, APRS, DMR, M17, SMS, Winlink, telephony
and data feeds into one operator feed. It is one Python process on one asyncio
event loop: code between two `await`s is atomic, everything else interleaves.
This directory holds TLA+ models of its core, the TLC configurations that check
them, and machine-checked proofs. All paths below are relative to the
repository.

Run a model with `tlc -config X.cfg M` (table below), proofs with
`tlapm M.tla` for the modules named `_proof` (`Services_proof`, `Links_proof` and
`Bridge_proof` take minutes).

## Inventory

| Component | State | Operations | Interacts with | Hard part |
|---|---|---|---|---|
| Adapter life cycle (`core/router.py`, `adapters/base.py`) | `_adapters`, `_adapter_tasks`, `_tasks`; per adapter `_connected`, transport | register, start_adapter, stop_adapter, start, stop, `_supervise` | API reconnect, simulation switch, main | cancellation at every await, two requests for one name, shutdown in any state |
| Inbound pipeline (`_handle_inbound`) | `_dedup_cache`, `_radio_seen` | de-duplicate, merge radios, save, broadcast, bridge | receive loops, database, web clients, bridge | several receive loops suspended half-way, expiring windows, failing saves |
| Bridge engine (`core/bridge.py`) | `_sent`, `_seen`, `_buckets`, rules | load, apply | adapters' `send()` | loops through several rules and networks, stale time after awaits |
| Outbound and delivery (`send_tracked`, `_handle_delivery_status`) | `_last_sent_uuid`, `_pending_acks`, message rows | send, report, page | API, adapters, database | late, early, repeated and misattributed ACKs; one target of many failing |
| State (`core/state.py`) | mode, simulation, tactical data | set_simulation, init | router, database | two switches at once |
| Broadcast services (`weather`, `air_quality`, `pota_service`) | seen sets, times of the last broadcasts, hour's list | poll, trigger_poll, auto-broadcast, restore | router.send, database, state | limits checked before an await, recorded after it; restarts |
| AT engine, SMS (`adapters/at_engine.py`, `sms.py`) | reader, response queue, lock; SIM storage | cmd, cmd_prompt, read loop, poll, send | modem | announcements swallowed by a command in flight, late answers |
| CAT control (`core/cat_rigctld.py`) | socket, PTT, watchdog | poll, set_ptt, set_freq, stop | rigctld | three kinds of task on one stream without a lock; unkeying |
| APRS hub (`core/aprs_hub.py`) | outgoing messages, own objects, seen messages | track, retry, ack, upsert, kill, restore | APRS adapters, database | a loop that works on copies of tables others change |
| Mesh bot (`core/mesh_bot.py`) | sessions per user and channel: trivia, forms, games | handle and a task per message | database, web, radios | decisions taken before an await, acted on after it |
| Message store (`core/database.py`) | table, dated archive files | save, purge, archive, restore, clear | everything | purges, restores and crashes between select, file and delete; one connection, so one task's commit is every task's |
| MeshCore MQTT bridge | queue of 512 | enqueue, publish | broker | full queue, failed publish |
| MeshCore companion link (`adapters/meshcore.py`) | flags of the contact stream, pending removals and polls | poll loop, frame dispatch, init sequence, contact requests, removals | radio | the message poll waits for the end of a stream that may be lost |
| Self update (`core/self_update.py`) | `_state`, deploy tarball, the installed tree, VERSION | start_update, download, apply, restart | systemd, updates API | files replaced in place one by one, failing one by one; the end of the process at any step |
| Other tables (sessions, audit chain, scores, logs) | SQLite through aiosqlite | one statement each, or a SELECT and an INSERT | API | two requests between SELECT and INSERT |
| About 30 adapters, codecs, geographic services, anomaly engine, ham log, network probe, UI | own data | I/O | router | protocol plumbing |

What makes the modelled ones correct:

* *Life cycle*: no transport is leaked, an adapter has one supervisor, a
  failure is retried, stopping ends everything.
* *Inbound*: one transmission that the radios name alike is one feed entry; what
  is suppressed is in the feed; the hub's own transmissions are not news.
* *Bridge*: nothing returns where it came from, nothing is forwarded twice,
  the rates are kept.
* *Outbound*: a status shown to an operator is true, every transmission is
  logged, an emergency pages.
* *Broadcasts*: the limits hold against everything the service knows of, across
  restarts.
* *SMS*: what the modem accepted, in a form the adapter understands, reaches the
  users.
* *CAT*: a transmitter that was keyed is unkeyed.
* *APRS hub*: no copy of a settled message is sent, killed objects do not come
  back, edited ones end as they were edited, a message heard often is shown once
  in the half hour it is remembered.
* *Mesh bot*: a question is judged once, a report is whole and filed once,
  "stop" stops, abandoned games end.
* *Message store*: a message is in the table or the archive until its time is
  over; what was restored stays.
* *Companion link*: a message that waits at the radio is asked for in the end.
* *Self update*: VERSION names a release only when the tree is that release.

`PROJECT.json` lists all components with what is modelled of each, and the
hazards of the code line by line with the properties that watch them.

## Modules

| Module | Models | Built on |
|---|---|---|
| `Supervisor` | adapter life cycle | - |
| `Supervisor_proof` | its theorems | `Supervisor`, TLAPS |
| `Bridge` | bridge engine and the networks around it | community sequences |
| `Bridge_proof` | its theorems | `Bridge`, TLAPS |
| `Inbound` | inbound pipeline, several radios, composed with the bridge | extends `Bridge` |
| `Inbound_proof` | its theorems, those of the bridge carried over | `Inbound`, `Bridge_proof` |
| `Outbound` | tracked sends, delivery status, two ACK correlations | instantiates `DeliveryStatus` |
| `DeliveryStatus` | abstract: what an operator may learn of a message sent | - |
| `Outbound_proof` | its theorems, the refinement included | `Outbound`, TLAPS |
| `AprsHub` | the APRS hub: retries, own objects, received messages | instantiates `Delivery` |
| `Delivery` | abstract: what a sender with retries promises | - |
| `AprsHub_proof` | its theorems, the refinement included | `AprsHub`, TLAPS |
| `CatPtt` | the rigctld socket, the poll loop, requests, the PTT watchdog | - |
| `SmsModem` | AT engine and SMS adapter, with the modem | - |
| `MeshBot` | the mesh bot's sessions and tasks | - |
| `MessageStore` | message table, archive files, purges, restores, crashes | - |
| `Broadcasts` | the three services' polls, limits and restarts | - |
| `Companion` | MeshCore companion link: fetching messages, contact lists, removals | - |
| `SelfUpdate` | download, copy in place, removals, VERSION, restart | - |
| `Services_proof` | theorems about the bot and about the broadcasts | `MeshBot`, `Broadcasts`, TLAPS |
| `Stores_proof` | theorems about the message store, the self update, and the services side by side | `MCServices`, `Services_proof` |
| `Links_proof` | theorems about the modem, CAT control, the companion link, and the links side by side | `MCLinks`, `AprsHub_proof`, `Services_proof` |
| `MCServices` | instance: `MeshBot`, `MessageStore`, `Broadcasts`, `SelfUpdate` | all four |
| `MCLinks` | instance: `AprsHub`, `CatPtt`, `SmsModem`, `MeshBot`, `Companion` | all five |
| `MCSupervisor`, `MCBridge`, `MCInbound`, `MCOutbound` | instances | the module they are named after |

`MCServices` and `MCLinks` hold components that share no variable: nothing one
does can change what another may do. Interleaving them would multiply states
without adding a behaviour of any component, so the variable `focus`, chosen in
the initial state, names the one that moves; the properties are checked of all.
That such a composition does to each component what its own specification allows
is a theorem (`ServicesAreTheirParts`, `LinksAreTheirParts`).

### Supervisor

A supervise task is `<<object, creator>>`: the boot loop of `Router.start` and
`start_adapter` make one task per adapter object each. `pc[t]` is the await the
task is suspended at (connecting, in `receive`, reporting, in the clean-up
`disconnect`, backing off), `cancelled[t]` a `task.cancel()` that is not yet
delivered, `exiting[t]` that the `finally` block runs on the way out. Actions
are the steps between the awaits: `CallConnect` / `ConnectAllocates` /
`ConnectReturns` / `ConnectRaises`, `ReceiveEnds` / `ReceiveRaises`,
`CleanupEnds`, and the ways a cancellation lands (`CancelIdle`, `CancelActive`,
`CancelSwallowed`, `CancelEscapes`: whether `disconnect()` lets a
CancelledError out is the adapter's, the constant `SwallowsCancel`). How
`disconnect()` ends is `DisconnectEnds`: an adapter in `RaisesOnClose` may raise
before it closes its transport, as MeshCore's does with what its reader task died
of (`meshcore.py:1531-1539`). `_supervise` logs that and goes on, `stop_adapter`
passes over it; in `Router.stop` nothing catches it and the stop is over
(`CloseRaises`, phase `"aborted"`). Requests
are the API's reconnect, remove and disable, with their awaits; `Rebuild` takes
any object not built yet, as the configuration is read again. Back-off lengths
are left out: a sleep ends some time.

### Bridge

`RunLeg` is one pass of the inner loop of `apply()`, with the checks in the
order of the code; a job suspended in `target.send()` keeps its `now` and the
legs still to do, a set that is worked off in the order of the rules (`Before`). Text is a sequence of words, decoration first, so equality
and containment of long enough texts are what they are in `_echo`. Networks
repeat what the bridge sends, plain or decorated (`NetworkRepeats`), users
send (`UserSends`), adapters come and go, the rules are saved again (`Reload`).

### Inbound

Extends `Bridge`: the bridge runs in the receive task, or after a hold in a task
of its own (`HoldSlots`). `Receive` is `_handle_inbound` up to its first await;
`stage[a]` is the await the receive task is at. `Fate` is what `_is_duplicate`
and `_multi_radio_check` decide. Users speak, each radio hears a transmission
zero or more times within `CopyWithin`, and hears its sibling's bridged texts.
`RadioKey` matches the copies by what each radio calls the sender and the channel
(`NodeName`, `ChannelName`): a Meshtastic radio takes the display name from its own
node table and the channel as `ch<n>`, its own index
(`meshtastic_adapter.py:567-574`), a MeshCore radio the names in the packet or its
channel list. What the properties promise of copies, they promise of texts the
radios name alike (`NamedAlike`).
`SaveFails` is a `save_message` that raises: the exception leaves the receive
loop, and `_supervise` reconnects.

### Outbound

A call is a `send_tracked` invocation; a message is one of its targets.
`step[c]` is the await it is at. `reports` are the runs of
`_handle_delivery_status`, each with a SELECT and an UPDATE of its own, whether
`send_tracked` awaits it or an adapter spawned it. Radios in `ById` correlate
as Meshtastic does, by the packet id that `sendText` returned, which may be
registered after the ACK came; the others as MeshCore does, by the last message
sent. `air` is the truth the properties compare with: what became of a message
as its radio knows it.

`DeliveryStatus` says what an operator is promised of a message: a send that is
due, under way or over (`phase`), what became of it (`truth`), at most one
`verdict`, a true one, told to the web clients, and an `entry` in the log that
follows it. The log may lose a verdict, and "sent" may replace one that came
before the send was reported; after that only the verdict is entered. `Outbound`
implements it (`Promised`) for the messages of radios in `ById` (`Keyed`):
`PhaseOf` reads the phase off the position and the await of the call, `VerdictOn`
the verdict off what was broadcast (`told`), `air` and `row` are the other two.
Radios that correlate by the last message sent do not: that is what `OutboundLast`
shows.

### AprsHub and Delivery

`hubLoop` is where `_loop` stands and the copy of the table it works on:
`_retry_due` takes a list of the outgoing messages (`RetryBegins`), looks at each
(`RetryPasses`, `RetryGivesUp`, `RetryStarts`), and awaits a send (`RetryEnds`);
then `own_objects` are copied (`AnnouncingBegins`) and those due announced. API
requests (`UpsertObject`, `KillObject`, then `CallSent`, `CallEnds`), answers
(`IngestAck`), link trouble (`Flap`) and restarts come in between. `next_ts` and
`last_sent` are flags that fall due. `lastHeard` is what other stations show.
A record that was replaced is a version number of its own, since the loop may
hold the old one. A copy of a message is being acknowledged (`acking`) between
`HearMessage` and `MessageAcked`, where it is looked up among those remembered;
`incoming_message_seen` first drops the entries older than half an hour
(`FreshIncoming`) and renews the time of this one (`SeenWith`). APRS-IS makes a task
of every packet, KISS handles one at a time (`SerialPaths`) and loses it with its
connection (`CopyDropped`). `Delivery` knows only a message's fate, the copies on the air
and those being sent; `Abstract` maps the hub's tables to it.

### CatPtt

`_cmd` writes its command (`Write`) and waits for lines. `catWaiter` is the one
coroutine a `StreamReader` serves; for a second the wait raises after the
command is out, and its answer is read by whoever asks next. `rigInput` and
`catLines` are the two directions of the socket, `Replies` the lines of an
answer. The rig may refuse any command (`RigRefuses`): whoever reads the non-zero
`RPRT` fails (`CmdRefused`), be it its own answer or a late one. `catOwed` records that a key-down was confirmed and no unkey
written since.

### SmsModem

`ReaderTakes` is `_dispatch_line`: a line goes to the command in flight, else to
`_on_urc`. `smsLock` is the queue of callers of `_cmd_lock`, `CmdStarts` and
`CmdAnswered` the two ends of `cmd`, with what its caller does with the answer.
The modem (external) marks what it lists or reads as read, numbers its storage
and announces arrivals. `ReaderEnds` is the time-out outside the reader's loop.
What the parsers make of an answer is `Items`: of a list (`Listed`) the messages
whose header `RE_CMGL` matches, of a read (`ReadItems`) the last header, if `RE_CMGR`
matches it and the text has a line that does not begin with a plus. Headers with an
empty name field (`Nameless`) do not match; such a message is marked read by the
modem and is never asked for again.

### MeshBot

`Handle` is `handle()`: from the sessions that exist it decides at once who a
message is for (`Claim`) and leaves the rest to a task. `botTasks` keeps the
tasks in the order of their messages; they begin in that order and then
interleave at their awaits, `pc` names the one a task is suspended at, `obj` the
session or question it still holds. A form is an object with a number, as tasks
keep it after it left its table. Expiries (a question, a web answer that does not
come) are choices. A pasted strip (`"pasted"`) waits for its destination with
whatever fields were in it, a guided one (`"dest"`) has been asked for all.
`skywarn <call> <report>` begins no form (`NoFormBegins`): it is saved as it came.
Scores, wording and cooldowns are left out.

### MessageStore

`row` is the table as executed, `committed` as committed: a `commit` of any task
commits everything (`Commit`), a crash returns to `committed` and keeps the files
(`lines`). A purge takes its cut-off (`PurgeBegins`), selects, writes, deletes
and commits in separate steps. `kept` and `givenUp` are history: what was durable
once, and what was cleared, expired or refused by the disk.

### Broadcasts

One module for the three services (`service`), as they share the limits and their
order and differ in what `Now`, `Cooled` and `PollPasses` say: the spots of a
POTA poll all carry the time of its fetch and have no cooldown, readings are never
"seen". `aired` records each broadcast with what the service knew of
when it checked; `hourly` is the hour's list, as the numbers in `aired` of the
broadcasts whose times it holds.

### Companion

`loop` is where `_run` stands: the checks before a frame is read (`LoopTurn`, the
safety valve first), or `_read_frame` (`ReadTimesOut`, `FrameRead` with one
operator per type of frame). `commands` and `frames` are the two directions of the
link; the radio (external) keeps messages until it is asked, lists its contacts,
and answers no command while it lists. `inProgress` and `pollPending` are the two
flags of the stream, which a dropped link leaves as they are. Any frame may be
garbled, the end of the list included. An exception in a pass or a frame's handler
that is no `ConnectionError` ends `_run` for good (`ReaderDies`), with `_connected`
still true, so that nobody reconnects. Draining ten or twenty messages at start-up
counts as one request, which helps the radio less than the code does.

### SelfUpdate

`tree` is what each installed file is: a release, absent, or `Torn` (opened by
`copytree`, not filled). `update[u]` is a run of `_run_update`: the release it
unpacked, the files still to copy, the one open, and whether any failed
(`CopyMisses`), which `copytree` raises only at its end. `ProcessEnds` is the
restart that was asked for, a crash or a power cut, between any two steps; the
files and VERSION stay, the flag and the runs do not.

## Runs

| Run | Instance | Checks |
|---|---|---|
| `SupervisorRace` | 1 name, 3 objects (two swallow a cancellation, one of them may raise on closing), 2 racing requests | `TypeOK`, `NoOrphanedTransport`, `OneSupervisorPerObject`, `LiveTasksAreTracked`, `StoppedIsQuiet` |
| `SupervisorLive` | 1 name, 2 objects, one of them built in, the other may raise on closing, 1 request, fairness | `RegisteredIsSupervised`, `RecordedTaskIsCurrent`, `StopEnds`, `StopAdapterReturns`, `FailureIsRetried` |
| `SupervisorNames` | as boot, 1 request | finds `OneSupervisorPerName` violated |
| `Bridge` | networks A - (B, D) - C, the middle one shared by two radios, five rules (two live, dry run, disabled, undeliverable) | `NothingReturns`, `ForwardedOnce`, `RateRespected` |
| `BridgeUnsent` | one bridge, a target that fails | finds `DuplicateOfSent` violated |
| `Inbound` | two sibling radios, a bridge between them, 2 transmissions of a user they name alike or of one they name differently, 3 hearings | `InboundTypeOK` (the bridge's types included), `FeedOnce`, `OwnTransmissionsHidden`, `HearersAreSkipped` |
| `InboundLost` | the same | finds `SuppressedIsShown` violated |
| `Outbound` | an emergency broadcast on MeshCore and Meshtastic, a direct message on the latter, fairness | `OutboundTypeOK`, `AnswersReachTheirMessage`, `OneVerdict`, `EverySendIsLogged`, `EmergencyPages`, `StatusAsPromised` |
| `OutboundLast` | two direct messages on one MeshCore radio | finds `ConfirmedWasDelivered` violated |
| `Services` | a user and a channel with trivia and forms; one message, two purgers, a restore and a crash; two reports, two polls or a restart; two updates, two releases | `ServicesTypeOK`, `UsedOnce`, `FiledReportsAreWhole`, `StopStops`, `NothingLost`, `LimitsHold`, `RestoredStay`, `VersionIsEarned` |
| `Links` | two tracked messages and a table for one; an object and a caller; two incoming messages on two paths and a clock that passes their window; two CAT requests, or one and trouble; three SMS, one whose header and one whose text is not read; games; a message at a MeshCore radio; a stale contact; fairness | `LinksTypeOK`, `NoZombies`, `ShownOnce`, `RetriesAreDelivery`, `LatestIsAnnounced`, `SmsGetsThrough`, `ConfirmedKeyIsReleased`, `AbandonedGamesEnd`, `MessagesAreFetched` |
| `CatKeyed` | one request beside the poll loop, no trouble, fairness | finds `NeverLeftKeyed` violated |

Deadlock is not checked: each model stops when its bounds are used up, and the
hub itself may be idle.

### Bounds, and why they are enough

* Supervisor: races need two requests for one name and an object more than
  requests, so that a rebuilt adapter can meet the one it replaces and its
  successor. Names do not interact except through the tables, so one suffices
  for the races; the theorems hold for any number.
* Bridge: a loop needs two hops (three networks), the second from a radio that
  hears the first one's sends (B and D hear each other), a lost window needs the clock
  to pass it (`MaxTime` > `EchoWindow`), duplicates need a first copy, a copy
  and a third message. `MaxLoads` = 1 save. An echo memory of two texts
  (`SentCap`) fills up.
* Inbound: windows keep the order of the code (`DEDUP_WINDOW` 5 s <
  `BRIDGE_SIBLING_HOLD_S` 8 s < `RADIO_MERGE_WINDOW_S` 60 s <= the bridge's),
  and the clock passes all of them. Two hold slots bound the jobs held at once
  (and are interchangeable: `SYMMETRY`). Three hearings are a copy on each radio and
  one more: a repeat, or the first of the next transmission.
* Outbound: three messages on two radios; `MaxTrouble` = 1 disturbance per
  behaviour (a database exception, a dropped link, a repeated ACK, a failing
  housekeeping command), at any moment. `MaxFrames` = 1 unread answer per link.
* Hub: the table holds one message (`OutgoingCap` = 1), so the second evicts the
  first while it is pending or being sent; two retries let one be acknowledged
  between two copies. One object with two versions is enough for an announcement
  of the old one after the edit or the kill; names do not interact. A message is
  heard three times over two paths, within the two ticks it is remembered and after
  them, one restart. The theorems hold for any of these numbers.
* CAT: two requests beside the poll loop and the watchdog, or one request and a
  lost connection, late answer or refused command. The loop polls while fewer than `RigBacklog`
  commands wait, as it sleeps between polls.
* SMS: three messages and two slots, so that one arrives while others are listed or
  deleted, one of them with a header and one with a text that is not read; a send
  adds a command in flight.
* Mesh bot: five messages of one user in the user's own and a channel's context,
  two of them not begun (they begin at the loop's next turn), two questions, two
  forms of two fields: an answer overtaken by another, by a cancellation, and by
  the end of the form. Sessions of different users share nothing but the rooms.
* Store: one message is in at most one purge of each purger, one restore and one
  crash; messages do not interact but through the shared commit, which the steps
  of the other jobs stand for. The theorems hold for any number.
* Broadcasts: `MinInterval` < `Cooldown` < `Hour` as configured, a clock that
  passes the first two, three broadcasts against a cap of two, one restart.

* Companion: one message or one stale contact (they meet only in the stream's
  flags), one frame unread, one dropped link, and the end of the reader at any
  moment; a contact poll and a discovery pulse
  may each ask for a list while another comes in. Any frame may be garbled.
* Self update: two releases and three files, one kept, one new and one dropped by
  the second; two runs, any number of crashes. The theorems hold for any number.

### Assumptions of the instances

* `NoOrphanedTransport` is stated for adapters whose `disconnect()` closes before it
  may raise; `StopEnds` says that a stop returns or was aborted by one that raised.
* Adapters whose `disconnect()` swallows a cancellation are in
  `SupervisorRace` but not in `SupervisorLive`: with them `stop_adapter` may
  wait for ever (`adapters/m17_reflector.py:317-326` is one).
* `EchoWindow >= RepeatWithin + SendWithin`: networks repeat within the echo
  memory even if a send is slow. `apply()` remembers with the time it began.
* Rule names are distinct, rates at least one a minute. Adapters may share a
  network (`SharedNet`), as long as no chain of rules and networks leads a text to
  its author's adapter (`LoopFree`): `_echo` knows a text only by the adapter the
  bridge sent it to, so a second radio that hears it is a new source.
* Each module names what it assumes of its constants (`SmsAssumption`,
  `CatAssumption`, `CompanionAssumption`, `BridgeAssumption`, ...): bounds are
  numbers, sets of names are finite or disjoint where the code has them so.
  `LoopPolls` of `MCServices` says the broadcast loop's poll is one of the polls.
* The names a radio has for senders and channels do not change while a text is
  remembered (`NodeName`, `ChannelName` are constants).
* The copies of one transmission are heard within the merge window, and the
  pipeline's own awaits return within a tick.
* The acknowledgement of an APRS message is sent within `AckWithin` of the copy: over
  a socket that blocks for longer, a copy may be looked up after its entry was
  dropped, and is shown again.
* Packet ids are not reused; the database answers in the end.
* The second kill of an object, 120 s after the first, finds the sends finished
  that were under way at the first (`RepeatIsLate`).
* The modem ends its prompt with a line feed and does not put a new message into
  a slot just freed (`ReusesSlots`): with reuse, the delete of the old message
  can take the new one. No text has a line that is itself the end of an answer (OK,
  ERROR, BUSY, ..., `at_engine.py:37-47`), which ends it early; in PDU mode
  `Nameless` and `PlusTexts` are empty. An announcement that comes inside an answer is
  lost as an announcement, as modelled, and in a list becomes part of a text, which is
  not. `SmsGetsThrough` is stated for a reader that runs and
  commands that are answered in time (`MaxSmsTimeouts` = 0), and for messages that
  are neither `Nameless` nor `PlusTexts`.
* A message's timestamp is that of its arrival.
* Companion: within 30 s (`meshcore.py:2273`) the radio has answered or
  will not, and the poll interval has passed; requests for contacts are further
  apart than that. `MessagesAreFetched` is stated while the reader lives.
* Self update: the branch stays the same, every release has a version of its own
  and every file differs between releases.
* Polls that overlap in a send (`trigger_poll` beside the loop) are excused from
  the spacing in `LimitsHold`, and those for spots from the hourly cap as well: a
  poll counts back from its own fetch, and the younger of two drops times from the
  list that the older still had to count. Alerts and readings count back from the
  present, and their cap holds even then.
* `ForwardedOnce` measures from the hearing of the message a first copy answered
  to the moment a second copy is sent. Measured from hearing to hearing it is
  false: while an earlier leg of the copy awaits its send, a younger message may
  drop the first text from `_seen`.
* `FeedOnce` and `HearersAreSkipped` speak of texts the radios name alike,
  `HearersAreSkipped` of texts spoken once: one repeated on a second channel
  within `DEDUP_WINDOW` counts as heard where it was not.

### Fairness

asyncio runs every ready task, so each task's own steps are weakly fair: the
steps of a supervise task, of a request, of `Router.stop`; of a `send_tracked`
call, of an adapter's handler and of the status reports. Sleeps end, connect
and disconnect attempts return or raise. Nothing is assumed of the outside: a
link need not fail, a radio need not answer, a user need not speak.

In `Links`: the hub's loop runs, a retry's and an object's interval pass, requests
under way return (`LatestIsAnnounced` excuses a link that is down); rigctld
executes what it was sent and the watchdog's sleep ends, the tasks that have a
line to read read it; the modem answers, the lock is granted in turn, the poll
interval passes; time passes and `_sweep_mud_sessions` runs once a minute; the
MeshCore poll loop and init sequence run, the radio takes the next command and its
list stops some time, and the supervisor reconnects a link that was found lost. No contact list need be asked
for, and no frame need survive the line.

## Seeded faults

Each checked property has a seeded fault, an operator beside the definition it
stands in for (comment "Seeded fault"), and TLC finds the property violated
when the two are exchanged. `PROJECT.json` lists the pairs.

## Proofs

`Supervisor_proof` proves of `Spec`, for any number of names, objects and
concurrent requests:

| Theorem | Statement | Assumes |
|---|---|---|
| `TypeCorrect` | `[]TypeOK` | - |
| `Tracking` | `[]LiveTasksAreTracked` | - |
| `NoLeak` | `[]NoOrphanedTransport` (of adapters that close before they may raise) | no built-in simulation adapters |
| `OneSupervisor` | `[]OneSupervisorPerObject` | no built-in simulation adapters |
| `QuietWhenStopped` | `[]StoppedIsQuiet` | - |
| `Attended` | `[]RegisteredIsSupervised` | - |
| `RecordsAreCurrent` | `[]RecordedTaskIsCurrent` | no two requests ever work on one name at once |

All rest on `ConstantsAssumption`, which every run evaluates. None of the safety
invariants is inductive alone:

* `NoOrphanedTransport` needs that a task about to connect finds its object's
  transport closed (`ClosedBeforeConnect`), which holds because nobody else
  opens it: an object has one task (`OneTaskPerObject`), tasks exist only for
  objects that were built (`TasksOnBuilt`), and none before the router started
  (`NothingBeforeStart`). Their conjunction is `Exclusive`. With built-in
  simulation adapters `OneTaskPerObject` is false, as `main.py` starts them
  twice, so the theorem excludes them.
* `StoppedIsQuiet` needs that a connected object has a live task
  (`ConnectedHasOwner`), that gathering begins with every live task cancelled
  (`Gathered`), that afterwards none is live (`Drained`), and what is still to
  close: the conjunction is `Quiet`.
* `RegisteredIsSupervised` needs `Attendance`: a registered object has a task that is
  live, not cancelled and not on its way out, or the request that cancelled it is
  waiting for it; and that a task that does not exist yet is not cancelled
  (`FreshTasks`).
* `RecordedTaskIsCurrent` is about requests one after the other on a name
  (`[]OneRequestPerName` is a hypothesis, which any number of clients with names of
  their own satisfy). When two overlap on one name the record may be the other's.
  `Records` says who has taken a name's task out of the table is waiting for it.

`Stores_proof` proves of `StoreSpec`, for any number of messages, purgers,
restores and crashes, of `UpdateSpec`, under `ReleasesAssumption` (each release
ships some of the files), and of the composition `MCServices` of the two with the bot
and the broadcasts:

| Theorem | Statement |
|---|---|
| `StoreTypeCorrect` | `[]StoreTypeOK` |
| `NoMessageLost` | `[]NothingLost` |
| `RestoredKept` | `RestoredStay` |
| `UpdateTypeCorrect` | `[]UpdateTypeOK` |
| `LabelsAreEarned` | `VersionIsEarned` |
| `ServicesAreTheirParts` | the composition implements `BotSpec`, `StoreSpec`, `AirSpec` and `UpdateSpec` |
| `ServicesTyped` | `[]ServicesTypeOK` |

`NothingLost` speaks of durable messages and must survive a crash between any two
steps, so the invariant `StoreInv` says of every place a message's number can
stand that the message is accounted for (in a file, or given up): rows restored
from a file, the rows a purge has in hand once its file was written, what a
restore has still to insert, and a durable message not in a file is live both as
executed and as committed. `RestoredStay` needs
`CutoffsRespectRestores`: a purge's cut-off never covers a row restored after it
was taken.

VERSION is written by the run that finds no file left over; that the shipped
files are whole by then needs `CopiedSoFar` (the files a run has behind it are those
of its release, unless one failed), which another run's copy would break:
`OneAtWork` says there is none, as the flag is set as long as a run is at work.
`KnownRelease` says what is unpacked is a release. Their conjunction with the types
is `TreeInv`.

The composition's proof needed `LoopPolls`: without it the instance could name as its
loop something that is no poll of `Broadcasts`, and its steps were not all steps
of that module.

`AprsHub_proof` proves of `AprsSpec`, under `AprsAssumption` (the counts are
natural numbers, eviction takes at least one entry and at most the table):

| Theorem | Statement |
|---|---|
| `AprsTypeCorrect` | `[]AprsTypeOK` |
| `KillsAreRepeated` | `[]NoZombies` |
| `MessagesShownOnce` | `[]ShownOnce`: no second showing of a copy heard within `SeenWindow - AckWithin` of an earlier one |
| `RetriesImplementDelivery` | `RetriesAreDelivery`: `AprsSpec` implements `Delivery` |

The invariant `AprsInv` has a part per table. For the refinement: `LoopHolds` (what
the loop has in hand was handed to the hub), `OutgoingHanded`, and `TriesAreCopies`
(the tries recorded of a message are its copies on the air), which makes giving up
after `RETRY_DELAYS` a `GiveUp` with all copies sent; a step then is a `Launch`, a
`Land`, a `Settle`, a `GiveUp`, a `Lose` or a stutter. For the kills: an object that
nobody owns but that the loop or a request may still announce is `Covered` by a
kill to come (`KillsInv`).

`Links_proof` proves, under `SmsAssumption`, `CatAssumption` and
`CompanionAssumption` (and, for the composition, `AprsAssumption` and
`MeshBotAssumption`):

| Theorem | Statement |
|---|---|
| `SmsTypeCorrect` | `[]SmsTypeOK` of the modem's steps |
| `CompanionTypeCorrect` | `[]CompanionTypeOK` of the companion link's |
| `CatTypeCorrect` | `[]CatTypeOK` of the rigctld socket's |
| `LinksAreTheirParts` | the composition `MCLinks` implements, fairness aside, the specification of each of its five components |
| `LinksTyped` | `[]LinksTypeOK` |

`SmsInv`: the lines on the wire and the commands waiting for the lock are about
slots there are and messages that arrived, which `Ascending` (a `CHOOSE` of an
increasing enumeration, proved to exist for every finite set of numbers) carries from
the storage to the list; one list at most waits (`OneList`), as the loop that polls
awaits it. `LinkInv`: a message is coming exactly when one frame on the link brings it
(`ComesIn`), so that no drop, garbled frame or reconnection leaves one that is coming
nowhere. `CatInv`: who waits for a line is at the place for it (`WaiterInv`), and the
commands the rig is behind are bounded (`BacklogInv`). The bound is an account: what
waits at the rig and what may still be written although the rig is behind (`ToCome`:
two commands for a request to come, one for a request at work, for the watchdog, for
`stop`, for a trouble to come, for a connection to be made) is at most the poll's
backlog and `AllToCome`; a step that writes spends what it writes. The proofs corrected
the models: `CatTypeOK` had a bound that troubles could exceed, and the modem's
`StoreAfter` was a `CASE` whose arms overlapped.

`Outbound_proof` proves of `OutboundSpec`, under `OutboundAssumption` (the kinds of
the constants), for any calls, targets, radios and bounds:

| Theorem | Statement |
|---|---|
| `OutboundTypeCorrect` | `[]OutboundTypeOK` |
| `AnswersAreTrue` | `[]AnswersReachTheirMessage` |
| `OneVerdictEach` | `[]OneVerdict` |
| `SendsAreLogged` | `[]EverySendIsLogged` |
| `VerdictsStay` | `VerdictStays`: once the send is reported, a verdict in the log stays |
| `LogIsAsPromised` | `StatusAsPromised`: `OutboundSpec` implements `DeliveryStatus` |

The invariant `IInv` follows a message of a radio that correlates by packet id
(`Keyed`) through every place its answer can be. `FramesInv`: an unread answer is
about a message of that radio, and true. `VerdictOf`: the one verdict is awaited, or
on its way to the row in exactly one report, or in the row, and no "sent" report is
under way but the one `send_tracked` itself awaits. `AnswersInv` carries truth along
that path (`Claimed`: shown, or about to be). `LoggedInv` says what a suspended call
still owes the log.

The refinement needs `EntryInv` beside it: a message has a row only from the moment
`send_tracked` stored it, a report that is about to update a row found one, and no
MeshCore verdict is under way for a message of a keyed radio. Then the steps of a call
are a `Passes`, `Begins`, `Enter` or `Ends`, a handler's a `Tell`, an update a
`MarkSent` or a `MarkVerdict`, the radio's an `IsAnswered`, and all others stutters.
`VerdictStays` (a verdict in the log stays once the send is reported) is stated by a
theorem of its own; `StatusAsPromised`, which the run checks, implies it.

`Bridge_proof` proves of `BridgeSpec`, under `BridgeAssumption`:

| Theorem | Statement | Assumes |
|---|---|---|
| `BridgeTypeCorrect` | `[]BridgeTypeOK` | - |
| `DuplicatesForwardedOnce` | `[]ForwardedOnce` | - |
| `RatesAreRespected` | `[]RateRespected` | `RatesByName`: rules of one name have one rate |
| `NothingEverReturns` | `[]NothingReturns` | `LoopFree(reach)`, `LongTexts`, `Prompt`, and `[]Spacious` |

`MemoryInv` says of each transmission that its text is still in `_seen` or its window
is over: every entry that `_is_duplicate` prunes is older than that, whichever of the
suspended jobs does it. `BudgetInv` is an account of tokens: since any transmission
under the present rules, what was sent and what is left in the bucket is at most one
full bucket and what flowed in. Rules that share a name share its buckets, hence the
hypothesis. Prefixes of a queue are found as the first entry that is not dropped, by
the well-founded order of the positions.

`NothingEverReturns` is about what the code cannot see: a text is known to it only as
what it sent, while networks repeat it, plain or decorated. Its hypotheses are what
an operator must provide. `LoopFree(reach)`: `reach`, the adapters where a text is heard
otherwise than as a repeat to the adapter that sent it, is closed under the rules and
the networks two adapters share, and no rule leads from it to the adapter of the
text's author. `LongTexts`: users' texts are long enough for `_echo` to compare.
`Prompt`: the sends one message causes, awaited one after the other, and the repeat of
the last fit in `DEDUPE_WINDOW_S`, as `apply()` remembers them with the time it began.
`Spacious`: of the sends to an adapter, no more than `_sent` has room for may still be
repeated. `Spacious` is about behaviours, not constants: `_sent` is a
`deque(maxlen=200)` over 120 s, while rates go up to 120 a minute for each rule and
direction, so a busy bridge of several rules can push out a text that is still
repeated, and it then returns. The argument is one invariant, `ReturnInv`: transmissions
are in the order of their times (`OrderInv`); what a task has in hand is no older
than a send for each leg it has done (`DelayInv`); a text sent that may still be
repeated is still in `_sent`, no further from the end than what was sent since
(`EchoInv`), hence a repeat is dropped as an echo; and so every text that goes out was
heard in `reach` of its author (`CarryInv`), from where no rule leads back. The
instance of the run `Bridge` satisfies the hypotheses with `reach` = A and D for the
texts of A's users, B and C for those of C's, and in its 566,831 states TLC finds
`Spacious` and `ReturnInv` to hold.

`Inbound_proof` proves of `InboundSpec`, under `InboundAssumption` (the order of the
windows; copies arrive within the merge window) and, but for the last, `Family` (a
radio has siblings: with one radio the router merges nothing):

| Theorem | Statement |
|---|---|
| `InboundTypeCorrect` | `[]InboundTypeOK` |
| `HeardByManyShownOnce` | `[]FeedOnce`, of texts the radios name alike |
| `OwnWordsStayHidden` | `[]OwnTransmissionsHidden` |
| `NoneHearsItTwice` | `[]HearersAreSkipped`, of texts the radios name alike and take for no other |
| `PipelineForwardsOnce` | `[]ForwardedOnce`, of the composed system |

`InboundInv` is in three parts. `HeardInv`: what was heard within a window is in that
window's table, under the name the hearing radio gives it, with the radios that
heard it. `PathInv`: what each receive task and
each held job has in hand was new when it was heard, is not yet in the feed twice, and
a hold ends before the entry it will be looked up in expires. `WorkInv`: the legs of a
job lead to radios that had not heard its message, and what was sent went to such.

`Services_proof` proves of `BotSpec` (under `MeshBotAssumption`: a form has fields, the
bounds are numbers) and of `AirSpec` (under `BroadcastsAssumption`: times and limits
are natural numbers):

| Theorem | Statement |
|---|---|
| `MeshBotTypeCorrect` | `[]MeshBotTypeOK` |
| `QuestionsAndStripsAreUsedOnce` | `[]UsedOnce` |
| `ReportsAreWhole` | `[]FiledReportsAreWhole`, whole but for pasted strips |
| `RoundsStop` | `[]StopStops` |
| `AirTypeCorrect` | `[]AirTypeOK` |
| `BroadcastLimitsHold` | `[]LimitsHold` |

`BotSpec` has any number of users, channels, messages, questions and fields. Its
invariant: `QuestionInv`, a question is open in one context, or being scored by one
task, or judged; `PauseInv`, after a "stop" the allowance covers the tasks on their
way; `FormInv`, the table has a user's last form, a task holds a form of its user
which is in the table, is filed, was cancelled or is superseded, and no two tasks
file or send one form. A form that is out of its table while another is in it is
`Superseded`; the theorems excuse such strips, as the properties do: of three
overlapping answers the last may send an old strip in place of a new form.

`LimitsHold` is part of the invariant `AirInv`, as it speaks of the past. `SpacingInv`:
unless polls overlapped, the times in memory and in the database are not before those
of any broadcast they know (`Covers`), and one poll at most is in a send. `HourInv`:
what fell out of the hour's list is an hour old for the present and for every poll
that could still broadcast; a poll of an older fetch cannot (`Blocked`).

Each proof has one lemma per family of actions, one step per action and one per
conjunct the action can disturb.

Every safety invariant and every refinement that a run checks is a theorem. Only
model-checked are the liveness properties (`StopEnds`, `StopAdapterReturns`,
`FailureIsRetried`, `EmergencyPages`, `LatestIsAnnounced`, `SmsGetsThrough`,
`ConfirmedKeyIsReleased`, `AbandonedGamesEnd`, `MessagesAreFetched`): temporal
reasoning about fairness and ENABLED is outside what the prover does. What a recursive
function computes for every input would need an induction that quantifies over
predicates, which the backends cannot instantiate; where the proofs need an induction
over numbers, they take the least member of a set of numbers instead
(`WellFoundedInduction`).

## Where code and documents disagree

1. `Router.start` (`core/router.py:108-112`) does not record its tasks per
   name, so "Stop and restart the adapter's supervise task" (`api/app.py:1356`)
   does not stop the task of an adapter from the configuration: two supervisors
   work for the name (`SupervisorNames`).
2. A text is recorded as a duplicate before the rate limit and the target's
   connection are checked (`core/bridge.py:368`); after a drop the next copies
   are dropped as duplicates of nothing (`BridgeUnsent`).
3. A save that raises (`core/router.py:276`) loses the message and suppresses
   the siblings' copies (`InboundLost`).
4. MeshCore confirmations are attributed to the last send whatever ACK code
   they carry (`adapters/meshcore.py:2943`) (`OutboundLast`).

5. A key-down whose wait for an answer is refused, because the poll loop waits on
   the same stream, is executed all the same, and no watchdog unkeys it
   (`core/cat_rigctld.py:357-361`) (`CatKeyed`, which needs no trouble on the line;
   a late answer or a connection lost while keyed has the same effect).

Seen while modelling, without a run of their own:

* *Life cycle*: built-in simulation adapters are supervised twice (`main.py:341`
  before `:357`); a swallowed cancellation blocks `stop_adapter`
  (`m17_reflector.py:324`); two overlapping simulation switches can leave built-in
  adapters running that no list names (`core/state.py:205-265`). A MeshCore
  `disconnect()` raises what its reader task died of before it closes the transport
  (`meshcore.py:1531-1539`): `_supervise` only logs that and connects again beside the
  open one; `Router.stop` (`router.py:137-138`) is aborted by it, the adapters after
  it stay open, and `main.run` does not get to closing the database
  (`main.py:518-521`).
* *Several radios*: README and `router.py` say that a message heard on several radios
  is one feed entry. The copies are matched by names (`router.py:213`) which two
  Meshtastic radios may have differently: a display name one has not learnt yet, or a
  channel at another index (`meshtastic_adapter.py:567-574`). Each then shows the
  transmission, and the bridge relays it to the other.
* *Bridge*: a rule of less than one message a minute never forwards.
* *Outbound*: an ACK that arrives before `send_tracked` has stored the message is
  lost; a failed INSERT ends an emergency send before the page.
* *CAT*: `_get_freq` and `_get_mode` return the last value when a command fails, so
  the poll loop does not notice a lost connection and never reconnects. An unkey the
  rig refuses is tried once: `set_ptt` returns False, and the watchdog is over.
* *SMS*: the reader's time-out is caught outside its loop, so one idle second ends
  it (`at_engine.py:183-198`). The header `sms.py:321` documents, with an empty name
  field (`,,`), is matched neither by `RE_CMGR` nor by `RE_CMGL` (`sms.py:59-60`),
  which want quotes right after the comma: the message, marked read by the modem, is
  never shown, and in a list its text joins that of the message before. A message read
  by announcement loses the lines that begin with a plus (`sms.py:330`) and, if these
  are all, is never shown.
* *APRS*: a kill while the link is down is not repeated later: the object stays on
  other maps. A new message that uses a number again within half an hour is
  acknowledged and never shown.
* *Mesh bot*: the rooms' items are module constants shared by all games, while
  `mesh_bot.py:231-237` says there is no shared or persistent world; a strip report
  cancelled while its node is looked up starts all the same.
* *Broadcasts*: when `trigger_poll` overlaps the loop's poll, the younger fetch
  prunes times from the hour's list that the older still counts, and both may send
  within the minimum interval.
* *Bridge*: `_is_duplicate` compares with the time its job began, so a copy heard
  within the window of the first is forwarded all the same when it waits behind a
  slow leg until a younger message has pruned the first (`bridge.py:325`).
* *Message store*: a row whose archive file could not be written is deleted all the
  same; `add_audit_entry` awaits between reading the last hash and inserting
  (`database.py:1318-1331`), so two requests at once fork the audit chain and
  `verify_audit_chain` reports it broken.
* *Winlink*: `pat_winlink.py` defines `_run` twice, and the second, empty one
  replaces the inbox poll: mail is read only at a `NewMessages` event.
* *MeshCore*: `_discover_path` leaves its future behind after a time-out, and later
  pings wait for it without asking again; a late answer to a quiet probe reaches the
  feed; the interception of signatures takes the OK or ERROR of other commands, and
  after several time-outs `sign_data` can return the signature of an earlier request.
  The discovery pulse, the push 0x84 and the init sequence ask for messages while a
  list is coming in, though the comments at `meshcore.py:2280` and `:2776` say that
  this must not be done. A contact heard again between its listing and its removal is
  removed all the same. An exception other than `ConnectionError` ends the reader
  (`meshcore.py:2384-2388`) with the adapter shown as connected: nothing is polled
  until an operator reconnects. That of an unplugged serial port
  (`SerialException`) is one.
* *Self update*: when an update that re-applies the installed release is cut short,
  the tree is torn and VERSION equals the tip's, so nothing offers a repair. The flag
  is cleared before the restart, and an update started in between is cut off by it.

`PROJECT.json` has those of the modelled parts among the hazards.

## Plan

1. `Simulation`: `set_simulation` over the life cycle of `Supervisor`, with the
   restart from `state.init`.
2. `MqttQueue`: the packet queue to the broker; `Winlink`: Pat's mailbox and events;
   `Signing`: the signature interception of the companion link; `AuditLog`: the hash
   chain and the sessions.
3. `Feed` (every transmission shown at most once), an abstract specification
   implemented by `Inbound`, with the proof of the refinement.
4. Pure algorithms: locator grid, message splitting, DMR text encoding, version
   order, against reference definitions.

## Not modelled

Protocol parsing in the adapters, codecs, geographic services, the anomaly
statistics, the ham log, the UI, installers and dashboards: little shared state, or
I/O; most of the source is of this kind, which is why the models stand for a small
share of its lines. Within the modelled parts: wording, counters, scores and the decision log,
back-off lengths, web-socket clients that come and go, and `send()` without
tracking; of the hub other stations' objects, weather and bulletins; of the database
the tables that one statement reads or writes.
