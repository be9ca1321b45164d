------------------------------ MODULE AprsHub -------------------------------
(***************************************************************************)
(* The APRS hub (ech/core/aprs_hub.py) and the send and receive paths of   *)
(* the two adapters that feed it (aprs_is.py, aprs_kiss.py): messages that *)
(* are retried until acknowledged, the objects this station announces      *)
(* until they are killed, and messages of others, whose every copy is      *)
(* acknowledged and of whose retries one is shown.                         *)
(*                                                                         *)
(* Every await of send_info() or of the database is a step of its own; the *)
(* hub's loop works on a copy of each table taken when its pass began.     *)
(* Time is in the flags "due", in the pending kill repeats and, for the    *)
(* messages of others, in ticks.                                           *)
(***************************************************************************)
EXTENDS Integers, Sequences, FiniteSets, SequencesExt

CONSTANTS
    AprsMessages,   \* messages users send
    RetryDelays,    \* Len of RETRY_DELAYS: retries after the first copy
    OutgoingCap,    \* the table keeps this many ...
    EvictCount,     \* ... and drops this many of the oldest beyond it
    ObjectNames,
    MaxVersions,    \* bound: creations and edits of objects
    HubCallers,     \* API requests that may run at once
    Paths,          \* adapters that may hear the same packet
    SerialPaths,    \* those that handle one packet at a time (KISS)
    AprsIncoming,   \* sender and number of messages addressed to this station
    SeenWindow,     \* the half hour for which a message is remembered, in ticks
    AckWithin,      \* assumption: ticks within which send_info of an ack returns
    MaxHearings,    \* bound: copies heard
    MaxTicks,       \* bound: ticks
    MaxRestarts     \* bound: restarts of the program

ASSUME AprsAssumption ==
    /\ RetryDelays \in Nat /\ MaxVersions \in Nat
    /\ OutgoingCap \in Nat /\ EvictCount \in 1 .. OutgoingCap
    /\ SeenWindow \in Nat /\ AckWithin \in Nat /\ MaxTicks \in Nat

VARIABLES
    aprsUp,         \* can_transmit() of the adapter
    outgoing,       \* the tracked messages, oldest first
    aprsMsg,        \* message -> [state, tries, due]
    aprsCopies,     \* message -> copies that reached the air
    hubLoop,        \* [pc, todo, objs, changed]: where _loop stands
    ownObjects,     \* name -> version of its record, 0 if none
    savedObjects,   \* what the database holds of it
    objectDue,      \* records <<name, version>> whose interval has passed
    hubApi,         \* caller -> the request it serves
    killRepeats,    \* names whose second kill is scheduled
    lastHeard,      \* name -> what stations last heard: a version, 0 or Killed
    missedKills,    \* names whose kill, or the repetition of it, could not be sent
    versions,
    ticks,
    acking,         \* copies being acknowledged: [nth, path, msg, heard]
    hearings,       \* copies heard
    seenIncoming,   \* _seen_incoming: set of [msg, t]
    lookups,        \* history: the copies looked up in this run, and their fate
    hubRestarts

aprsMsgVars    == <<outgoing, aprsMsg, aprsCopies>>
aprsObjectVars == <<ownObjects, savedObjects, objectDue, hubApi, killRepeats,
                    lastHeard, missedKills, versions>>
aprsRxVars     == <<ticks, acking, hearings, seenIncoming, lookups>>
aprsVars       == <<aprsUp, aprsMsgVars, hubLoop, aprsObjectVars, aprsRxVars, hubRestarts>>

-----------------------------------------------------------------------------
(* Messages with acknowledgement and retry.                                 *)

\* The loop is suspended in a send.
Sending == hubLoop.pc \in {"sending", "announcing"}

\* send() of an adapter: awaits the transmission ...
AprsSend(m) ==
    /\ aprsMsg[m].state = "unsent"
    /\ aprsMsg' = [aprsMsg EXCEPT ![m].state = "sending"]
    /\ UNCHANGED <<aprsUp, outgoing, aprsCopies, hubLoop, aprsObjectVars, aprsRxVars, hubRestarts>>

\* Seeded fault: nothing is evicted.
TrackedForever(m) == Append(outgoing, m)

\* track_outgoing: a full table drops its oldest entries, pending or not.
Tracked(m) ==
    LET table == Append(outgoing, m)
    IN  IF Len(table) > OutgoingCap THEN SubSeq(table, EvictCount + 1, Len(table)) ELSE table

\* ... and hands the message to the hub if it went out.
AprsSendReturns(m) ==
    /\ aprsMsg[m].state = "sending"
    /\ IF aprsUp
       THEN /\ aprsMsg'    = [aprsMsg EXCEPT ![m] = [state |-> "pending", tries |-> 1, due |-> FALSE]]
            /\ aprsCopies' = [aprsCopies EXCEPT ![m] = @ + 1]
            /\ outgoing'   = Tracked(m)
       ELSE /\ aprsMsg' = [aprsMsg EXCEPT ![m].state = "failed"]
            /\ UNCHANGED <<aprsCopies, outgoing>>
    /\ UNCHANGED <<aprsUp, hubLoop, aprsObjectVars, aprsRxVars, hubRestarts>>

\* _ingest_ack: an answer with the message's number from its addressee.
IngestAck(m) ==
    /\ m \in Range(outgoing) /\ aprsMsg[m].state = "pending"
    /\ \E verdict \in {"acked", "rejected"} : aprsMsg' = [aprsMsg EXCEPT ![m].state = verdict]
    /\ UNCHANGED <<aprsUp, outgoing, aprsCopies, hubLoop, aprsObjectVars, aprsRxVars, hubRestarts>>

\* next_ts passes.
RetryFallsDue(m) ==
    /\ aprsMsg[m].state = "pending" /\ ~aprsMsg[m].due
    /\ aprsMsg' = [aprsMsg EXCEPT ![m].due = TRUE]
    /\ UNCHANGED <<aprsUp, outgoing, aprsCopies, hubLoop, aprsObjectVars, aprsRxVars, hubRestarts>>

LoopTo(pc, todo) == hubLoop' = [hubLoop EXCEPT !.pc = pc, !.todo = todo]

\* _retry_due works through a copy of the table.
RetryBegins ==
    /\ hubLoop.pc = "asleep"
    /\ LoopTo("retry", outgoing)
    /\ UNCHANGED <<aprsUp, aprsMsgVars, aprsObjectVars, aprsRxVars, hubRestarts>>

\* Seeded fault: whether a message waits is asked before the pass, not at its turn.
WantsRetryInPass(m) == aprsMsg[m].due /\ aprsMsg[m].state \notin {"no_ack", "unsent"}

WantsRetry(m) == aprsMsg[m].state = "pending" /\ aprsMsg[m].due

Exhausted(m) == aprsMsg[m].tries > RetryDelays

RetryPasses ==
    /\ hubLoop.pc = "retry" /\ hubLoop.todo # <<>>
    /\ ~WantsRetry(Head(hubLoop.todo))
    /\ LoopTo("retry", Tail(hubLoop.todo))
    /\ UNCHANGED <<aprsUp, aprsMsgVars, aprsObjectVars, aprsRxVars, hubRestarts>>

RetryGivesUp ==
    /\ hubLoop.pc = "retry" /\ hubLoop.todo # <<>>
    /\ WantsRetry(Head(hubLoop.todo)) /\ Exhausted(Head(hubLoop.todo))
    /\ aprsMsg' = [aprsMsg EXCEPT ![Head(hubLoop.todo)].state = "no_ack"]
    /\ LoopTo("retry", Tail(hubLoop.todo))
    /\ UNCHANGED <<aprsUp, outgoing, aprsCopies, aprsObjectVars, aprsRxVars, hubRestarts>>

RetryStarts ==
    /\ hubLoop.pc = "retry" /\ hubLoop.todo # <<>>
    /\ WantsRetry(Head(hubLoop.todo)) /\ ~Exhausted(Head(hubLoop.todo))
    /\ LoopTo("sending", hubLoop.todo)
    /\ UNCHANGED <<aprsUp, aprsMsgVars, aprsObjectVars, aprsRxVars, hubRestarts>>

TriesAfter(m) == aprsMsg[m].tries + (IF aprsUp THEN 1 ELSE 0)

\* The retry returns; the record may have been settled or evicted meanwhile.
RetryEnds ==
    /\ hubLoop.pc = "sending"
    /\ LET m == Head(hubLoop.todo)
       IN  /\ aprsMsg'    = [aprsMsg EXCEPT ![m].tries = TriesAfter(m), ![m].due = FALSE]
           /\ aprsCopies' = [aprsCopies EXCEPT ![m] = IF aprsUp THEN @ + 1 ELSE @]
    /\ LoopTo("retry", Tail(hubLoop.todo))
    /\ UNCHANGED <<aprsUp, outgoing, aprsObjectVars, aprsRxVars, hubRestarts>>

-----------------------------------------------------------------------------
(* Own objects: announced until killed.                                     *)

Killed == -1

OwnRecords == {<<n, ownObjects[n]>> : n \in {k \in ObjectNames : ownObjects[k] # 0}}

\* The second half of a pass works on a copy of own_objects.  Records that
\* were replaced and are held by nobody are forgotten here.
AnnouncingBegins ==
    /\ hubLoop.pc = "retry" /\ hubLoop.todo = <<>>
    /\ hubLoop' = [hubLoop EXCEPT !.pc = "objects", !.objs = OwnRecords]
    /\ objectDue' = objectDue \intersect OwnRecords
    /\ UNCHANGED <<aprsUp, aprsMsgVars, ownObjects, savedObjects, hubApi, killRepeats, lastHeard,
                   missedKills, versions, aprsRxVars, hubRestarts>>

ObjectRests(rec) ==
    /\ hubLoop.pc = "objects" /\ rec \in hubLoop.objs /\ rec \notin objectDue
    /\ hubLoop' = [hubLoop EXCEPT !.objs = @ \ {rec}]
    /\ UNCHANGED <<aprsUp, aprsMsgVars, aprsObjectVars, aprsRxVars, hubRestarts>>

AnnounceStarts(rec) ==
    /\ hubLoop.pc = "objects" /\ rec \in hubLoop.objs /\ rec \in objectDue
    /\ hubLoop' = [hubLoop EXCEPT !.pc = "announcing", !.objs = {rec} \union @, !.todo = <<rec>>]
    /\ UNCHANGED <<aprsUp, aprsMsgVars, aprsObjectVars, aprsRxVars, hubRestarts>>

\* _send_object: what stations hear, and last_sent of the record.
Heard(n, what) == lastHeard' = IF aprsUp THEN [lastHeard EXCEPT ![n] = what] ELSE lastHeard

AnnounceEnds ==
    /\ hubLoop.pc = "announcing"
    /\ LET rec == Head(hubLoop.todo)
       IN  /\ Heard(rec[1], rec[2])
           /\ objectDue' = objectDue \ {rec}
           /\ hubLoop' = [pc |-> "objects", todo |-> <<>>, objs |-> hubLoop.objs \ {rec}, changed |-> TRUE]
    /\ UNCHANGED <<aprsUp, aprsMsgVars, ownObjects, savedObjects, hubApi, killRepeats, missedKills,
                   versions, aprsRxVars, hubRestarts>>

\* Seeded fault: an object is sent again only if its first sending is recorded.
FallsDueOnce == {rec \in OwnRecords : lastHeard[rec[1]] = 0}

FallsDue == OwnRecords \ objectDue

IntervalPasses(rec) ==
    /\ rec \in FallsDue
    /\ objectDue' = objectDue \union {rec}
    /\ UNCHANGED <<aprsUp, aprsMsgVars, hubLoop, ownObjects, savedObjects, hubApi, killRepeats,
                   lastHeard, missedKills, versions, aprsRxVars, hubRestarts>>

\* _save, which may raise.
Saves == savedObjects' \in {ownObjects, savedObjects}

LoopSaves ==
    /\ hubLoop.pc = "objects" /\ hubLoop.objs = {}
    /\ hubLoop' = [hubLoop EXCEPT !.pc = "asleep", !.changed = FALSE]
    /\ IF hubLoop.changed THEN Saves ELSE UNCHANGED savedObjects
    /\ UNCHANGED <<aprsUp, aprsMsgVars, ownObjects, objectDue, hubApi, killRepeats, lastHeard,
                   missedKills, versions, aprsRxVars, hubRestarts>>

IdleCall == [pc |-> "idle", op |-> "none", rec |-> <<>>]

\* upsert_object: the record replaces the old one before it is sent.
UpsertObject(c, n) ==
    /\ hubApi[c].pc = "idle" /\ versions < MaxVersions
    /\ versions'   = versions + 1
    /\ ownObjects' = [ownObjects EXCEPT ![n] = versions']
    /\ objectDue'  = objectDue \union {<<n, versions'>>}
    /\ missedKills' = missedKills \ {n}
    /\ hubApi'     = [hubApi EXCEPT ![c] = [pc |-> "sending", op |-> "upsert", rec |-> <<n, versions'>>]]
    /\ UNCHANGED <<aprsUp, aprsMsgVars, hubLoop, savedObjects, killRepeats, lastHeard,
                   aprsRxVars, hubRestarts>>

\* kill_object: the record is gone before the kill is sent.
KillObject(c, n) ==
    /\ hubApi[c].pc = "idle" /\ ownObjects[n] # 0
    /\ ownObjects' = [ownObjects EXCEPT ![n] = 0]
    /\ hubApi'     = [hubApi EXCEPT ![c] = [pc |-> "sending", op |-> "kill", rec |-> <<n, ownObjects[n]>>]]
    /\ UNCHANGED <<aprsUp, aprsMsgVars, hubLoop, savedObjects, objectDue, killRepeats, lastHeard,
                   missedKills, versions, aprsRxVars, hubRestarts>>

\* Seeded fault: the kill is not repeated.
RepeatsNone(n) == killRepeats

Repeats(n) == killRepeats \union {n}

CallSent(c) ==
    /\ hubApi[c].pc = "sending"
    /\ LET rec == hubApi[c].rec
       IN  IF hubApi[c].op = "upsert"
           THEN /\ Heard(rec[1], rec[2])
                /\ objectDue' = objectDue \ {rec}
                /\ UNCHANGED killRepeats
           ELSE /\ Heard(rec[1], Killed)
                /\ killRepeats' = Repeats(rec[1])
                /\ UNCHANGED objectDue
    /\ hubApi' = [hubApi EXCEPT ![c].pc = "saving"]
    /\ UNCHANGED <<aprsUp, aprsMsgVars, hubLoop, ownObjects, savedObjects, missedKills,
                   versions, aprsRxVars, hubRestarts>>

CallEnds(c) ==
    /\ hubApi[c].pc = "saving"
    /\ Saves
    /\ hubApi' = [hubApi EXCEPT ![c] = IdleCall]
    /\ UNCHANGED <<aprsUp, aprsMsgVars, hubLoop, ownObjects, objectDue, killRepeats, lastHeard,
                   missedKills, versions, aprsRxVars, hubRestarts>>

\* Assumption: a send that was under way when an object was killed, and the
\* pass it belongs to, end within the 120 s to the second kill.
RepeatIsLate(n) ==
    /\ \A rec \in hubLoop.objs : rec[1] = n => rec[2] = ownObjects[n]
    /\ \A c \in HubCallers : hubApi[c].rec # <<>> /\ hubApi[c].rec[1] = n => hubApi[c].pc # "sending"

\* call_later: the second kill, whatever has become of the name.
KillRepeated(n) ==
    /\ n \in killRepeats /\ RepeatIsLate(n)
    /\ killRepeats' = killRepeats \ {n}
    /\ Heard(n, Killed)
    /\ missedKills' = IF aprsUp \/ ownObjects[n] # 0 THEN missedKills ELSE missedKills \union {n}
    /\ UNCHANGED <<aprsUp, aprsMsgVars, hubLoop, ownObjects, savedObjects, objectDue, hubApi,
                   versions, aprsRxVars, hubRestarts>>

-----------------------------------------------------------------------------
(* Messages of others: every copy is acknowledged before it is looked up.   *)

\* _process_packet: the acknowledgement is awaited, in a task for each packet
\* from the internet, in the one loop of a radio modem ...
HearMessage(p, i) ==
    /\ hearings < MaxHearings
    /\ p \in SerialPaths => \A c \in acking : c.path # p
    /\ hearings' = hearings + 1
    /\ acking' = acking \union {[nth |-> hearings', path |-> p, msg |-> i, heard |-> ticks]}
    /\ UNCHANGED <<aprsUp, aprsMsgVars, hubLoop, aprsObjectVars, ticks, seenIncoming, lookups, hubRestarts>>

\* What incoming_message_seen keeps of its memory: the last half hour.
FreshIncoming == {e \in seenIncoming : ticks - e.t <= SeenWindow}

IsRetry(i) == \E e \in FreshIncoming : e.msg = i

\* Seeded fault: the time of a known message is not renewed.
SeenFirst(i) == FreshIncoming \union (IF IsRetry(i) THEN {} ELSE {[msg |-> i, t |-> ticks]})

\* "Records it either way."
SeenWith(i) == {e \in FreshIncoming : e.msg # i} \union {[msg |-> i, t |-> ticks]}

\* ... and only then the hub is asked whether this is a retry.
MessageAcked(c) ==
    /\ c \in acking
    /\ acking' = acking \ {c}
    /\ seenIncoming' = SeenWith(c.msg)
    /\ lookups' = Append(lookups, [msg |-> c.msg, heard |-> c.heard, shown |-> ~IsRetry(c.msg)])
    /\ UNCHANGED <<aprsUp, aprsMsgVars, hubLoop, aprsObjectVars, ticks, hearings, hubRestarts>>

\* The modem's loop is cancelled in the await; the message may come again.
CopyDropped(c) ==
    /\ c \in acking /\ c.path \in SerialPaths
    /\ acking' = acking \ {c}
    /\ UNCHANGED <<aprsUp, aprsMsgVars, hubLoop, aprsObjectVars, ticks, hearings, seenIncoming, lookups, hubRestarts>>

TimePasses ==
    /\ ticks < MaxTicks
    /\ \A c \in acking : ticks < c.heard + AckWithin
    /\ ticks' = ticks + 1
    /\ UNCHANGED <<aprsUp, aprsMsgVars, hubLoop, aprsObjectVars, acking, hearings, seenIncoming, lookups, hubRestarts>>

-----------------------------------------------------------------------------
Flap ==
    /\ aprsUp' = ~aprsUp
    /\ UNCHANGED <<aprsMsgVars, hubLoop, aprsObjectVars, aprsRxVars, hubRestarts>>

LoopAsleep == [pc |-> "asleep", todo |-> <<>>, objs |-> {}, changed |-> FALSE]

\* The program ends and starts: set_db restores the saved objects, nothing else is kept.
HubRestarts ==
    /\ hubRestarts < MaxRestarts
    /\ hubRestarts' = hubRestarts + 1
    /\ outgoing'   = <<>>
    /\ aprsMsg'    = [m \in AprsMessages |->
                        IF aprsMsg[m].state = "unsent" THEN aprsMsg[m]
                        ELSE [aprsMsg[m] EXCEPT !.state = "lost"]]
    /\ hubLoop'    = LoopAsleep
    /\ ownObjects' = savedObjects
    /\ objectDue'  = {<<n, savedObjects[n]>> : n \in {k \in ObjectNames : savedObjects[k] # 0}}
    /\ hubApi'     = [c \in HubCallers |-> IdleCall]
    /\ killRepeats' = {}
    /\ missedKills' = missedKills \union {n \in ObjectNames : savedObjects[n] = 0}
    /\ acking'       = {}
    /\ seenIncoming' = {}
    /\ lookups'      = <<>>
    /\ UNCHANGED <<aprsUp, aprsCopies, savedObjects, lastHeard, versions, ticks, hearings>>

AprsInit ==
    /\ aprsUp     = TRUE
    /\ outgoing   = <<>>
    /\ aprsMsg    = [m \in AprsMessages |-> [state |-> "unsent", tries |-> 0, due |-> FALSE]]
    /\ aprsCopies = [m \in AprsMessages |-> 0]
    /\ hubLoop    = LoopAsleep
    /\ ownObjects = [n \in ObjectNames |-> 0] /\ savedObjects = ownObjects
    /\ objectDue  = {}
    /\ hubApi     = [c \in HubCallers |-> IdleCall]
    /\ killRepeats = {}
    /\ lastHeard  = [n \in ObjectNames |-> 0]
    /\ missedKills = {}
    /\ versions = 0
    /\ ticks = 0 /\ hearings = 0
    /\ acking = {} /\ seenIncoming = {} /\ lookups = <<>>
    /\ hubRestarts = 0

HubPass ==
    \/ RetryBegins \/ RetryPasses \/ RetryGivesUp \/ RetryStarts \/ RetryEnds
    \/ AnnouncingBegins \/ AnnounceEnds \/ LoopSaves
    \/ \E rec \in hubLoop.objs : ObjectRests(rec) \/ AnnounceStarts(rec)

AprsMessageStep ==
    \E m \in AprsMessages : AprsSend(m) \/ AprsSendReturns(m) \/ IngestAck(m) \/ RetryFallsDue(m)

AprsObjectStep ==
    \/ \E c \in HubCallers : CallSent(c) \/ CallEnds(c)
    \/ \E c \in HubCallers, n \in ObjectNames : UpsertObject(c, n) \/ KillObject(c, n)
    \/ \E n \in ObjectNames : KillRepeated(n)
    \/ \E rec \in OwnRecords : IntervalPasses(rec)

AprsReceiveStep ==
    \/ \E p \in Paths, i \in AprsIncoming : HearMessage(p, i)
    \/ \E c \in acking : MessageAcked(c) \/ CopyDropped(c)
    \/ TimePasses

AprsNext ==
    AprsMessageStep \/ AprsObjectStep \/ AprsReceiveStep \/ HubPass \/ Flap \/ HubRestarts

AprsSpec == AprsInit /\ [][AprsNext]_aprsVars

\* The loop, the retries' clock, the calls under way and the intervals do not stop.
AprsFairness ==
    /\ WF_aprsVars(HubPass)
    /\ \A m \in AprsMessages : WF_aprsVars(RetryFallsDue(m))
    /\ \A c \in HubCallers : WF_aprsVars((CallSent(c) \/ CallEnds(c)))
    /\ \A n \in ObjectNames :
         WF_aprsVars(\E rec \in OwnRecords : rec[1] = n /\ IntervalPasses(rec))

-----------------------------------------------------------------------------
(* Properties.                                                              *)

\* Every variable keeps the shape its reader relies on, and a table over its
\* limit was cut down (track_outgoing).
AprsTypeOK ==
    /\ aprsUp \in BOOLEAN
    /\ outgoing \in Seq(AprsMessages) /\ Len(outgoing) <= OutgoingCap
    /\ \A m \in AprsMessages :
         /\ aprsMsg[m].state \in {"unsent", "sending", "pending", "acked", "rejected", "no_ack", "failed", "lost"}
         /\ aprsMsg[m].tries \in 0 .. RetryDelays + 1
    /\ ownObjects \in [ObjectNames -> 0 .. MaxVersions]
    /\ savedObjects \in [ObjectNames -> 0 .. MaxVersions]
    /\ killRepeats \subseteq ObjectNames
    /\ hubLoop.pc \in {"asleep", "retry", "sending", "objects", "announcing"}
    /\ \A e, f \in seenIncoming : e.msg = f.msg => e = f

\* An object nobody owns any more is not left alive on other stations' maps:
\* whatever the loop sent from its copy of the table after the kill, a second
\* kill is still to come -- unless it found the link down or the program ended.
NoZombies ==
    \A n \in ObjectNames :
        ownObjects[n] = 0 /\ lastHeard[n] \notin {0, Killed} /\ n \notin missedKills
          => \/ n \in killRepeats
             \/ \E c \in HubCallers : hubApi[c].op = "kill" /\ hubApi[c].rec[1] = n /\ hubApi[c].pc = "sending"

\* "True if this (sender, msgno) arrived in the last 30 min -- the sender is
\* retrying because our ack was lost.  Ack again, but don't deliver twice": a
\* copy is shown only when half an hour has passed since the last one that was
\* looked up before it in this run, shown or not, came over any path.  The copies
\* are looked up after the await of their acknowledgement, in any order: its
\* length is missing from the half hour.
ShownOnce ==
    \A j, k \in DOMAIN lookups :
       j < k /\ lookups[j].msg = lookups[k].msg /\ lookups[k].shown
         => lookups[k].heard > lookups[j].heard + SeenWindow - AckWithin

\* The last edit of an object is what stations hear in the end: an older
\* version the loop sends after it, or the second kill of its predecessor, is
\* corrected by a later announcement.
LatestIsAnnounced ==
    \A n \in ObjectNames :
        ownObjects[n] # 0 ~> (lastHeard[n] = ownObjects[n] \/ ownObjects[n] = 0 \/ ~aprsUp)

\* The standing of a message towards its sender, for the abstract specification.
FateOf(m) ==
    LET s == aprsMsg[m].state
    IN  CASE s \in {"unsent", "sending"} -> "new"
          [] s = "pending" -> IF m \in Range(outgoing) THEN "waiting" ELSE "forgotten"
          [] OTHER -> s

Flying ==
    {m \in AprsMessages : aprsMsg[m].state = "sending"}
      \union (IF hubLoop.pc = "sending" THEN {Head(hubLoop.todo)} ELSE {})

Abstract == INSTANCE Delivery WITH
    Messages <- AprsMessages, MaxCopies <- RetryDelays + 1,
    fate <- [m \in AprsMessages |-> FateOf(m)], copies <- aprsCopies, flying <- Flying

\* The hub's retries keep what Delivery promises: no copy of a settled message
\* is launched, however long the pass's copy of the table has been waiting.
RetriesAreDelivery == Abstract!DeliverySpec
=============================================================================
