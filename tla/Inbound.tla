------------------------------- MODULE Inbound -------------------------------
(***************************************************************************)
(* The router's inbound pipeline (ech/core/router.py): what happens to a   *)
(* message between an adapter's receive loop and the web clients, the      *)
(* database and the bridge.  Several radios of one protocol act as one     *)
(* station: a channel message two of them hear is a single feed entry, and *)
(* the bridge between them waits to see who hears it.                      *)
(*                                                                         *)
(* Each adapter's supervise task handles one message at a time and is      *)
(* suspended at the awaits: the heard_on event, the database and the       *)
(* web-socket broadcast.  The bridge runs in that task, or after a hold in *)
(* a task of its own, a hold slot here.  Users' transmissions are on the   *)
(* air, and each radio in range may hear one, once or more.                *)
(***************************************************************************)
EXTENDS Bridge

CONSTANTS
    Radios,        \* the adapters of one radio family
    OwnName,       \* the sender of each radio's own transmissions
    ChannelName(_, _), \* the name a radio's messages give a channel
    NodeName(_, _),    \* the name a radio's messages give a sender
    Spoken,        \* what users may transmit: messages without a source
    HoldSlots,     \* tasks for held messages; their number bounds the holds
    DedupWindow,   \* DEDUP_WINDOW, in ticks
    MergeWindow,   \* RADIO_MERGE_WINDOW_S
    Hold,          \* BRIDGE_SIBLING_HOLD_S
    CopyWithin,    \* ticks within which the copies of a transmission are heard
    MaxSpoken      \* bound: users' transmissions

ASSUME InboundAssumption ==
    /\ Radios \subseteq Adapters
    /\ Workers = Adapters \cup HoldSlots
    /\ DedupWindow < Hold /\ Hold < MergeWindow /\ MergeWindow <= EchoWindow
    /\ CopyWithin < MergeWindow
    /\ {DedupWindow, MergeWindow, Hold, CopyWithin, MaxSpoken} \subseteq Nat
    /\ \A s \in Spoken : s.kind \in {"text", "dm"} /\ \A r \in Radios : s.from # OwnName[r]

VARIABLES
    spoken,     \* users' transmissions: sequence of [what, at]
    stage,      \* what each adapter's receive task awaits
    dedup,      \* _dedup_cache: set of [key, t]
    radioSeen,  \* _radio_seen: set of [key, id, adapters, t]
    feed,       \* messages pushed to the web clients
    stored,     \* ids of messages in the database
    held,       \* messages waiting for the bridge: slot -> [msg, due] or None
    hearings    \* history: what was handed to the pipeline, and its fate

pipeline == <<spoken, stage, dedup, radioSeen, feed, stored, held, hearings>>

inVars == <<bridgeVars, pipeline>>

Free == [at |-> "free"]

FreeTask(a) == stage[a] = Free /\ worker[WorkerOf[a]] = Idle

-----------------------------------------------------------------------------
(* _handle_inbound up to its first await.                                   *)

DedupKey(m) == <<m.src, m.from, m.text>>

FreshDedup == {d \in dedup : clock - d.t <= DedupWindow}

IsRepeat(m) == \E d \in FreshDedup : d.key = DedupKey(m)

\* The other registered radios of the same family.
Siblings(a) == IF a \in Radios THEN {r \in Radios \ {a} : status[r] # "absent"} ELSE {}

\* Seeded fault: the receiving radio's own name is compared.
IsOwnRadioOfReceiver(m) == Siblings(m.src) # {} /\ m.from = OwnName[m.src]

IsOwnRadio(m) == \E r \in Siblings(m.src) : m.from = OwnName[r]

\* Seeded fault: the channel's index stands for it, which differs per radio.
RadioKeyByIndex(m) == <<m.src, m.chan, NodeName(m.src, m.from), m.text>>

\* Identity of a channel text across radios; a direct message has none.  The
\* channel and the sender go by the names the radio's own tables have for them.
HasRadioKey(m) == m.kind = "text" /\ m.src \in Radios

RadioKey(m) == <<ChannelName(m.src, m.chan), NodeName(m.src, m.from), m.text>>

FreshSeen == {e \in radioSeen : clock - e.t <= MergeWindow}

SeenEntry(m) == {e \in FreshSeen : e.key = RadioKey(m)}

\* The radios that heard m, by the entry kept for it, expired or not.
HeardOn(m) ==
    LET e == {x \in radioSeen : x.key = RadioKey(m)}
    IN  IF e = {} THEN {m.src} ELSE (CHOOSE x \in e : TRUE).adapters

\* What the two checks make of a message.
Fate(m) ==
    IF IsRepeat(m) THEN "duplicate"
    ELSE IF Siblings(m.src) = {} THEN "new"
    ELSE IF IsOwnRadio(m) THEN "echo"
    ELSE IF ~HasRadioKey(m) \/ SeenEntry(m) = {} THEN "new"
    ELSE "merged"

\* Seeded fault: expired entries are not removed.
SeenAfterKeepsExpired(m) ==
    IF Siblings(m.src) = {} \/ IsRepeat(m) \/ IsOwnRadio(m) \/ ~HasRadioKey(m) THEN radioSeen
    ELSE IF SeenEntry(m) = {}
    THEN radioSeen \cup {[key |-> RadioKey(m), id |-> heard + 1, adapters |-> {m.src}, t |-> clock]}
    ELSE (radioSeen \ SeenEntry(m))
            \cup {[e EXCEPT !.adapters = @ \cup {m.src}] : e \in SeenEntry(m)}

\* _radio_seen afterwards: expired entries go, m's is made or gets its radio.
SeenAfter(m) ==
    IF Siblings(m.src) = {} \/ IsRepeat(m) \/ IsOwnRadio(m) \/ ~HasRadioKey(m) THEN radioSeen
    ELSE IF SeenEntry(m) = {}
    THEN FreshSeen \cup {[key |-> RadioKey(m), id |-> heard + 1, adapters |-> {m.src}, t |-> clock]}
    ELSE (FreshSeen \ SeenEntry(m))
            \cup {[e EXCEPT !.adapters = @ \cup {m.src}] : e \in SeenEntry(m)}

\* The first sibling to hear a known message announces it to the web clients.
IsNews(m) == \A e \in SeenEntry(m) : m.src \notin e.adapters

\* Adapter a's receive loop yields message m.
Receive(m) ==
    /\ ~Busy
    /\ FreeTask(m.src)
    /\ status[m.src] = "up"
    /\ heard < MaxHeard
    /\ heard' = heard + 1
    /\ dedup' = FreshDedup \cup
                  (IF IsRepeat(m) THEN {} ELSE {[key |-> DedupKey(m), t |-> clock]})
    /\ radioSeen' = SeenAfter(m)
    /\ hearings' = hearings \cup {[n |-> heard + 1, msg |-> m, fate |-> Fate(m), at |-> clock]}
    /\ stage' = [stage EXCEPT ![m.src] =
                    CASE Fate(m) = "new" -> [at |-> "saving", msg |-> m, id |-> heard + 1]
                      [] Fate(m) = "merged" /\ IsNews(m) -> [at |-> "announcing"]
                      [] OTHER -> Free]
    /\ UNCHANGED <<clock, status, worker, sent, seen, buckets, outcomes, onAir, loads,
                   spoken, feed, stored, held>>

\* A user's transmission n as adapter a hears it.
CopyFor(a, n) ==
    [src |-> a, chan |-> spoken[n].what.chan, addr |-> spoken[n].what.addr,
     kind |-> spoken[n].what.kind, from |-> spoken[n].what.from,
     text |-> spoken[n].what.text, bridged |-> FALSE, notice |-> FALSE, tx |-> n]

Speak ==
    /\ ~Busy
    /\ Len(spoken) < MaxSpoken
    /\ \E what \in Spoken : spoken' = Append(spoken, [what |-> what, at |-> clock])
    /\ UNCHANGED <<bridgeVars, stage, dedup, radioSeen, feed, stored, held, hearings>>

HearUser(a) ==
    \E n \in DOMAIN spoken :
       /\ clock - spoken[n].at <= CopyWithin
       /\ spoken[n].what.kind = "dm" => a = spoken[n].what.addr
       /\ Receive(CopyFor(a, n))

\* A sibling of the radio that sent a bridged text hears it from that radio.
HearBridge(a) ==
    \E k \in DOMAIN onAir :
       /\ onAir[k].dst \in Radios \ {a}
       /\ clock - onAir[k].at <= CopyWithin
       /\ Receive([src |-> a, chan |-> onAir[k].chan, addr |-> None, kind |-> "text",
                   from |-> OwnName[onAir[k].dst], text |-> onAir[k].text,
                   bridged |-> FALSE, notice |-> FALSE, tx |-> 0])

-----------------------------------------------------------------------------
(* The awaits of _handle_inbound.                                           *)

Announced(a) ==
    /\ ~Busy
    /\ stage[a].at = "announcing"
    /\ stage' = [stage EXCEPT ![a] = Free]
    /\ UNCHANGED <<bridgeVars, spoken, dedup, radioSeen, feed, stored, held, hearings>>

Saved(a) ==
    /\ ~Busy
    /\ stage[a].at = "saving"
    /\ stored' = stored \cup {stage[a].id}
    /\ stage' = [stage EXCEPT ![a].at = "showing"]
    /\ UNCHANGED <<bridgeVars, spoken, dedup, radioSeen, feed, held, hearings>>

\* save_message raises: the exception ends the receive loop and its link.
SaveFails(a) ==
    /\ ~Busy
    /\ stage[a].at = "saving"
    /\ stage' = [stage EXCEPT ![a] = Free]
    /\ status' = [status EXCEPT ![a] = "down"]
    /\ UNCHANGED <<clock, worker, sent, seen, buckets, outcomes, onAir, heard, loads,
                   spoken, dedup, radioSeen, feed, stored, held, hearings>>

\* Some enabled rule has a sibling of the source as a target.
ToSibling(a) ==
    \E leg \in Legs : RuleOf(leg).enabled /\ DstEnd(leg).adapter \in Siblings(a)

\* Seeded fault: the bridge does not wait for the siblings.
ShownUnheld(a) ==
    /\ ~Busy
    /\ stage[a].at = "showing"
    /\ feed' = Append(feed, [id |-> stage[a].id, msg |-> stage[a].msg, at |-> clock])
    /\ stage' = [stage EXCEPT ![a] = Free]
    /\ worker' = [worker EXCEPT ![WorkerOf[a]] =
                     IF Ignored(stage[a].msg) THEN Idle ELSE Job(stage[a].msg, {})]
    /\ UNCHANGED <<held, clock, status, sent, seen, buckets, outcomes, onAir, heard, loads,
                   spoken, dedup, radioSeen, stored, hearings>>

\* The broadcast is done; then the bridge rules, at once or after a hold.
Shown(a) ==
    /\ ~Busy
    /\ stage[a].at = "showing"
    /\ feed' = Append(feed, [id |-> stage[a].id, msg |-> stage[a].msg, at |-> clock])
    /\ stage' = [stage EXCEPT ![a] = Free]
    /\ LET m == stage[a].msg
       IN  \/ /\ ToSibling(a) /\ HasRadioKey(m)
              /\ \E h \in HoldSlots :
                    /\ held[h] = None /\ worker[h] = Idle
                    /\ held' = [held EXCEPT ![h] = [msg |-> m, due |-> clock + Hold]]
              /\ UNCHANGED worker
           \/ /\ ~(ToSibling(a) /\ HasRadioKey(m))
              /\ worker' = [worker EXCEPT ![WorkerOf[a]] =
                               IF Ignored(m) THEN Idle ELSE Job(m, {})]
              /\ UNCHANGED held
    /\ UNCHANGED <<clock, status, sent, seen, buckets, outcomes, onAir, heard, loads,
                   spoken, dedup, radioSeen, stored, hearings>>

\* _bridge_after_hold: whoever heard the message meanwhile is skipped.
HoldEnds(h) ==
    /\ ~Busy
    /\ held[h] # None
    /\ held[h].due <= clock
    /\ held' = [held EXCEPT ![h] = None]
    /\ LET m == held[h].msg
       IN  worker' = [worker EXCEPT ![h] = IF Ignored(m) THEN Idle
                                           ELSE Job(m, HeardOn(m) \ {m.src})]
    /\ UNCHANGED <<clock, status, sent, seen, buckets, outcomes, onAir, heard, loads,
                   spoken, stage, dedup, radioSeen, feed, stored, hearings>>

BridgeRuns(w) ==
    /\ RunLeg(w) \/ SendReturns(w) \/ Finish(w)
    /\ UNCHANGED pipeline

\* The supervisor connects the adapter again.
Reconnected(a) ==
    /\ ~Busy
    /\ status[a] = "down"
    /\ stage[a] = Free
    /\ status' = [status EXCEPT ![a] = "up"]
    /\ UNCHANGED <<clock, worker, sent, seen, buckets, outcomes, onAir, heard, loads, pipeline>>

\* The pipeline's own awaits return within a tick, and a hold ends on time.
PipelineTick ==
    /\ \A a \in Adapters : stage[a] = Free
    /\ \A h \in HoldSlots : held[h] # None => clock < held[h].due
    /\ Tick
    /\ UNCHANGED pipeline

InboundInit ==
    /\ BridgeInit
    /\ spoken = <<>>
    /\ stage = [a \in Adapters |-> Free]
    /\ dedup = {}
    /\ radioSeen = {}
    /\ feed = <<>>
    /\ stored = {}
    /\ held = [h \in HoldSlots |-> None]
    /\ hearings = {}

InboundNext ==
    \/ Speak
    \/ \E a \in Adapters : \/ HearUser(a) \/ HearBridge(a) \/ Announced(a) \/ Saved(a)
                            \/ SaveFails(a) \/ Shown(a) \/ Reconnected(a)
    \/ \E h \in HoldSlots : HoldEnds(h)
    \/ \E w \in Workers : BridgeRuns(w)
    \/ PipelineTick

InboundSpec == InboundInit /\ [][InboundNext]_inVars

-----------------------------------------------------------------------------
(* Properties                                                               *)

InboundTypeOK ==
    /\ BridgeTypeOK
    /\ \A a \in Adapters : stage[a].at \in {"free", "announcing", "saving", "showing"}
    /\ \A d \in dedup : d.t \in 0..clock
    /\ \A e \in radioSeen : e.id \in 1..heard /\ e.adapters \subseteq Radios
    /\ \A e, f \in radioSeen : e.key = f.key => e = f
    /\ stored \subseteq 1..heard
    /\ \A k \in DOMAIN feed : feed[k].id \in stored

\* All radios have one name for the channel of m and one for its sender.
NamedAlike(m) ==
    \A a, b \in Radios : /\ ChannelName(a, m.chan) = ChannelName(b, m.chan)
                         /\ NodeName(a, m.from) = NodeName(b, m.from)

\* "A channel message heard on more than one radio is a single feed entry"
\* (README): however the copies' handling interleaves, fails or is retried, when
\* the radios name its channel and its sender alike.
FeedOnce ==
    \A j, k \in DOMAIN feed :
       /\ feed[j].msg.tx = feed[k].msg.tx /\ NamedAlike(feed[j].msg)
       /\ feed[j].msg.kind = "text" /\ {feed[j].msg.src, feed[k].msg.src} \subseteq Radios
       => j = k

\* "One of your radios hearing another's transmission is not shown as a new
\* message" (README), so no radio carries the bridge's own words further.
OwnTransmissionsHidden == \A k \in DOMAIN feed : feed[k].msg.src \in Radios => feed[k].msg.tx # 0

\* Transmission i has the text of n and its sender, or a name of its sender.
SoundsLike(i, n) ==
    /\ spoken[i].what.text = spoken[n].what.text
    /\ \/ spoken[i].what.from = spoken[n].what.from
       \/ \E a, b \in Radios : NodeName(a, spoken[i].what.from) = NodeName(b, spoken[n].what.from)

\* No radio takes another transmission for n, nor n for two.
Unmistakable(n) ==
    /\ NamedAlike(spoken[n].what)
    /\ \A i \in DOMAIN spoken : SoundsLike(i, n) => i = n

\* A bridge between sibling radios "skips any radio that already heard the
\* message itself" (README): nothing is sent to another radio that had heard the
\* same transmission when the bridge began with it.  (Of one that the radios
\* name differently it is, and of a text spoken a second time just as the entry
\* for the first expires, or on a second channel in the five seconds in which
\* that is taken for a repeat, it can be.)
HearersAreSkipped ==
    \A k \in DOMAIN onAir, h \in hearings :
       /\ {h.msg.src, onAir[k].of.src} \subseteq Radios /\ h.msg.src # onAir[k].of.src
       /\ h.msg.tx = onAir[k].of.tx /\ Unmistakable(h.msg.tx)
       /\ h.msg.src = onAir[k].dst
       => h.n > onAir[k].start

\* "'merged' = already in the feed from a sibling radio" (router.py): a copy is
\* suppressed only when an equal text is in the feed or about to be.
SuppressedIsShown ==
    \A h \in hearings :
       h.fate \in {"duplicate", "merged"} =>
          \/ \E k \in DOMAIN feed : feed[k].msg.text = h.msg.text /\ feed[k].msg.from = h.msg.from
          \/ \E a \in Adapters : /\ stage[a].at \in {"saving", "showing"}
                                 /\ stage[a].msg.text = h.msg.text
                                 /\ stage[a].msg.from = h.msg.from
=============================================================================
