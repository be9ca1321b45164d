----------------------------- MODULE Broadcasts ------------------------------
(***************************************************************************)
(* The automatic broadcasts of weather alerts, air quality and POTA spots  *)
(* (ech/core/weather.py, air_quality.py, pota_service.py): a poll checks   *)
(* three limits, awaits the router's send and only then records what went  *)
(* out; the times of the last broadcasts survive a restart in the          *)
(* database, the hour's list does not.  trigger_poll() of the API runs a   *)
(* poll beside the loop's.                                                 *)
(***************************************************************************)
EXTENDS Integers, Sequences, FiniteSets

CONSTANTS
    Reports,        \* what a poll may bring: alerts, readings, spots
    Sorts,          \* events or categories
    SortOf,         \* report -> its sort
    Polls,          \* the loop, a triggered poll
    MinInterval, Cooldown, Hour, MaxPerHour,
    MaxClock,       \* bound: the time
    MaxAired,       \* bound: broadcasts
    MaxPollRestarts \* bound: restarts

ASSUME BroadcastsAssumption ==
    /\ SortOf \in [Reports -> Sorts]
    /\ {MinInterval, Cooldown, Hour, MaxPerHour, MaxClock, MaxPollRestarts} \subseteq Nat

VARIABLES
    service,        \* "weather", "air" or "pota"
    clock,
    lastAuto, lastOf, \* the limits' memory, in the service
    hourly,         \* the broadcasts whose times are in the hour's list
    savedState,     \* [last, of]: its part in the database
    seen,           \* reports a poll has met
    poll,           \* poll -> [pc, todo, at, report, nth]: nth is its broadcast
    aired,          \* the broadcasts: [at, sort, run, knew]
    recorded,       \* those of them the service remembers
    onRecord,       \* those a restart would remember
    overlapped,     \* a check was made while another broadcast was on its way
    run             \* restarts so far

airVars == <<service, clock, lastAuto, lastOf, hourly, savedState, seen, poll, aired, recorded,
             onRecord, overlapped, run>>

Never == -Hour
NoPoll == [pc |-> "idle", todo |-> {}, at |-> 0, nth |-> 0,
           report |-> CHOOSE r \in Reports : TRUE]

ClockTicks ==
    /\ clock < MaxClock
    /\ clock' = clock + 1
    /\ UNCHANGED <<service, lastAuto, lastOf, hourly, savedState, seen, poll, aired, recorded,
                   onRecord, overlapped, run>>

\* A fetch returned: alerts in force, the one reading, the spots in range.
\* Spots met long ago count as new again.
PollFetches(p, found) ==
    /\ poll[p].pc = "idle" /\ found # {}
    /\ service = "air" => Cardinality(found) = 1
    /\ \E expired \in SUBSET (seen \intersect found) : seen' = IF service = "pota" THEN seen \ expired ELSE seen
    /\ poll' = [poll EXCEPT ![p] = [@ EXCEPT !.pc = "next", !.todo = found, !.at = IF service = "pota" THEN clock ELSE 0]]
    /\ UNCHANGED <<service, clock, lastAuto, lastOf, hourly, savedState, aired, recorded,
                   onRecord, overlapped, run>>

PollEnds(p) ==
    /\ poll[p].pc = "next" /\ poll[p].todo = {}
    /\ poll' = [poll EXCEPT ![p] = NoPoll]
    /\ UNCHANGED <<service, clock, lastAuto, lastOf, hourly, savedState, seen, aired, recorded,
                   onRecord, overlapped, run>>

\* A report met before is passed over, but for readings.
PollPasses(p, r) ==
    /\ poll[p].pc = "next" /\ r \in poll[p].todo
    /\ service # "air" /\ r \in seen
    /\ poll' = [poll EXCEPT ![p].todo = @ \ {r}]
    /\ UNCHANGED <<service, clock, lastAuto, lastOf, hourly, savedState, seen, aired, recorded,
                   onRecord, overlapped, run>>

\* A new one is marked before anything else, then handed to the pipeline.
PollMeets(p, r) ==
    /\ poll[p].pc = "next" /\ r \in poll[p].todo
    /\ service = "air" \/ r \notin seen
    /\ seen' = seen \union {r}
    /\ poll' = [poll EXCEPT ![p].pc = "check", ![p].todo = @ \ {r}, ![p].report = r]
    /\ UNCHANGED <<service, clock, lastAuto, lastOf, hourly, savedState, aired, recorded,
                   onRecord, overlapped, run>>

\* The spots of a poll all carry the time of its fetch.
Now(p) == IF service = "pota" THEN poll[p].at ELSE clock

\* Spots have no cooldown of their own.
Cooled(p, s) == service = "pota" \/ Now(p) - lastOf[s] >= Cooldown

ThisHour(p) == {i \in hourly : aired[i].at > Now(p) - Hour}

Spaced(p, s)  == Now(p) - lastAuto >= MinInterval /\ Cooled(p, s)
Allowed(p, s) == Spaced(p, s) /\ Cardinality(ThisHour(p)) < MaxPerHour

\* On to the next report; the spots of a poll keep their time.
NextReport(at) == [NoPoll EXCEPT !.pc = "next", !.todo = at.todo, !.at = IF service = "pota" THEN at.at ELSE 0]

Skipped(p) ==
    /\ poll[p].pc = "check" /\ ~Allowed(p, SortOf[poll[p].report])
    /\ hourly' = IF Spaced(p, SortOf[poll[p].report]) THEN ThisHour(p) ELSE hourly
    /\ poll' = [poll EXCEPT ![p] = NextReport(@)]
    /\ UNCHANGED <<service, clock, lastAuto, lastOf, savedState, seen, aired, recorded,
                   onRecord, overlapped, run>>

\* The limits allow it: router.send is awaited.
GoesOnAir(p) ==
    /\ poll[p].pc = "check" /\ Allowed(p, SortOf[poll[p].report]) /\ Len(aired) < MaxAired
    /\ aired' = Append(aired, [at |-> Now(p), sort |-> SortOf[poll[p].report], run |-> run, knew |-> recorded])
    /\ hourly' = ThisHour(p)
    /\ poll' = [poll EXCEPT ![p].pc = "sending", ![p].at = Now(p), ![p].nth = Len(aired')]
    /\ overlapped' = (overlapped \/ \E q \in Polls \ {p} : poll[q].pc = "sending")
    /\ UNCHANGED <<service, clock, lastAuto, lastOf, savedState, seen, recorded, onRecord, run>>

\* The send returned: the time of the check is recorded.  With one poll at a
\* time that is the last broadcast.
SendReturns(p) ==
    /\ poll[p].pc = "sending"
    /\ lastAuto' = poll[p].at
    /\ lastOf'   = [lastOf EXCEPT ![SortOf[poll[p].report]] = poll[p].at]
    /\ hourly'   = hourly \union {poll[p].nth}
    /\ recorded' = recorded \union {poll[p].nth}
    /\ poll' = [poll EXCEPT ![p].pc = "saving"]
    /\ UNCHANGED <<service, clock, savedState, seen, aired, onRecord, overlapped, run>>

\* Seeded fault: the times of the sorts are not saved.
LastOnly == [last |-> lastAuto, of |-> [s \in Sorts |-> Never]]

Snapshot == [last |-> lastAuto, of |-> lastOf]

\* set_kv, whose failure is only logged.
StateSaved(p) ==
    /\ poll[p].pc = "saving"
    /\ \/ savedState' = Snapshot /\ onRecord' = onRecord \union recorded
       \/ UNCHANGED <<savedState, onRecord>>
    /\ poll' = [poll EXCEPT ![p] = NextReport(@)]
    /\ UNCHANGED <<service, clock, lastAuto, lastOf, hourly, seen, aired, recorded, overlapped, run>>

\* state.init() restores the times before the services start.
ServiceRestarts ==
    /\ run < MaxPollRestarts
    /\ run'      = run + 1
    /\ lastAuto' = savedState.last
    /\ lastOf'   = savedState.of
    /\ hourly'   = {}
    /\ seen'     = {}
    /\ recorded' = onRecord
    /\ poll'     = [p \in Polls |-> NoPoll]
    /\ UNCHANGED <<service, clock, savedState, aired, onRecord, overlapped>>

AirInit ==
    /\ service \in {"weather", "air", "pota"}
    /\ clock = 0 /\ run = 0 /\ overlapped = FALSE
    /\ lastAuto = Never /\ lastOf = [s \in Sorts |-> Never] /\ hourly = {}
    /\ savedState = [last |-> Never, of |-> [s \in Sorts |-> Never]]
    /\ seen = {} /\ poll = [p \in Polls |-> NoPoll]
    /\ aired = <<>> /\ recorded = {} /\ onRecord = {}

AirStep(p) ==
    \/ PollEnds(p) \/ Skipped(p) \/ GoesOnAir(p) \/ SendReturns(p) \/ StateSaved(p)
    \/ \E found \in SUBSET Reports : PollFetches(p, found)
    \/ \E r \in Reports : PollPasses(p, r) \/ PollMeets(p, r)

AirNext == ClockTicks \/ ServiceRestarts \/ \E p \in Polls : AirStep(p)

AirSpec == AirInit /\ [][AirNext]_airVars

-----------------------------------------------------------------------------
(* Properties.                                                              *)

AirTypeOK ==
    /\ clock \in 0 .. MaxClock /\ run \in 0 .. MaxPollRestarts
    /\ lastAuto \in Never .. MaxClock /\ lastOf \in [Sorts -> Never .. MaxClock]
    /\ onRecord \subseteq DOMAIN aired /\ recorded \subseteq DOMAIN aired
    /\ \A p \in Polls : poll[p].pc \in {"idle", "next", "check", "sending", "saving"}

\* The earlier broadcasts of this run that the service knew of when it checked.
KnownOfRun(j) == {i \in aired[j].knew : aired[i].run = aired[j].run}

\* The three limits hold against every broadcast the service knew of, in memory
\* or from the database (weather.py:391-407): it is MinInterval back and, if of
\* the same sort, Cooldown, also across a restart -- unless polls overlapped in a
\* send --, and fewer than MaxPerHour of this run's are less than an hour old,
\* even then: no poll drops a time another recorded.  (But of overlapping polls
\* for spots the younger drops times the older, which counts back from its own
\* fetch, still had to count.)
LimitsHold ==
    \A j \in DOMAIN aired :
        /\ overlapped \/ \A i \in aired[j].knew :
             /\ aired[j].at - aired[i].at >= MinInterval
             /\ aired[j].sort = aired[i].sort /\ service # "pota" => aired[j].at - aired[i].at >= Cooldown
        /\ \/ overlapped /\ service = "pota"
           \/ Cardinality({i \in KnownOfRun(j) : aired[j].at - aired[i].at < Hour}) < MaxPerHour
=============================================================================
