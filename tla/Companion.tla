------------------------------ MODULE Companion ------------------------------
(***************************************************************************)
(* The hub and a MeshCore radio over the companion protocol                *)
(* (ech/adapters/meshcore.py): the radio keeps received messages until it  *)
(* is asked for the next one, and streams its contact list when asked for  *)
(* it.  The adapter does not poll for messages while a list is coming in,  *)
(* so a list whose end is lost must not stop it.                           *)
(*                                                                         *)
(* Sending and signing use the same link and are not in this module.       *)
(***************************************************************************)
EXTENDS Integers, Sequences

CONSTANTS
    RadioMail,      \* messages the radio receives
    StaleContacts,  \* contacts on the radio that are older than node_ttl_hours
    Requesters,     \* of contact lists: "contacts" (the poll), "refresh", "pulse" (discovery)
    MaxCommands,    \* bound: commands unread when the loop or a task adds its own
    MaxFrames,      \* bound: frames the hub has not read
    MaxLinkDrops,   \* bound: lost connections
    NoMail

ASSUME CompanionAssumption ==
    /\ RadioMail \intersect StaleContacts = {} /\ NoMail \notin RadioMail \union StaleContacts
    /\ MaxFrames \in Nat

VARIABLES
    mail,           \* message -> "unsent", "waiting" (at the radio), "coming", "fetched", "lost"
    onRadio,        \* stale contacts in the radio's flash
    listing,        \* the radio is streaming its contacts
    commands,       \* hub -> radio
    frames,         \* radio -> hub
    loop,           \* _run: "off", "pass" (the checks), "read" (_read_frame), or "dead"
    starting,       \* what _init_sequence has left to send
    inProgress,     \* _contacts_in_progress
    streamOld,      \* its stream began over 30 s ago
    pollPending,    \* _msg_poll_pending
    pollDue,        \* poll_interval is over
    asked,          \* requesters that asked within the last 30 s
    removals,       \* _pending_contact_removals
    flushing,       \* contacts that _flush_contact_removals has left to remove
    drops

companionVars == <<mail, onRadio, listing, commands, frames, loop, starting, inProgress, streamOld,
                   pollPending, pollDue, asked, removals, flushing, drops>>

radioVars == <<mail, onRadio, listing>>
flagVars  == <<inProgress, streamOld, pollPending>>
taskVars  == <<loop, starting, removals, flushing>>

Sync     == [kind |-> "sync", of |-> NoMail]
Contacts == [kind |-> "contacts", of |-> NoMail]
RemovalOf(c) == [kind |-> "remove", of |-> c]
Frame(kind, x) == [kind |-> kind, of |-> x]

\* CMD_SYNC_NEXT_MESSAGE ten or twenty times: here as little help as one.
Drain == <<Sync>>

Room(n) == Len(commands) + n <= MaxCommands

-----------------------------------------------------------------------------
(* The radio.                                                               *)

Listening == loop # "off" /\ Len(frames) < MaxFrames

\* A message from the mesh, with PUSH_MSG_WAITING, 0x84, or a push that is lost.
MailArrives(m) ==
    /\ mail[m] = "unsent" /\ Listening
    /\ mail' = [mail EXCEPT ![m] = "waiting"]
    /\ \E push \in {<<>>, <<Frame("push", NoMail)>>, <<Frame("push84", NoMail)>>} : frames' = frames \o push
    /\ UNCHANGED <<onRadio, listing, commands, flagVars, taskVars, pollDue, asked, drops>>

AnswersSync ==
    /\ Head(commands) = Sync
    /\ \/ \E m \in RadioMail : /\ mail[m] = "waiting"
                               /\ mail' = [mail EXCEPT ![m] = "coming"]
                               /\ frames' = Append(frames, Frame("message", m))
       \/ (\A m \in RadioMail : mail[m] # "waiting") /\ UNCHANGED <<mail, frames>>
    /\ UNCHANGED <<onRadio, listing>>

AnswersContacts ==
    /\ Head(commands) = Contacts
    /\ listing' = TRUE /\ frames' = Append(frames, Frame("start", NoMail))
    /\ UNCHANGED <<mail, onRadio>>

AnswersRemove ==
    /\ Head(commands).kind = "remove"
    /\ onRadio' = onRadio \ {Head(commands).of}
    /\ UNCHANGED <<mail, listing, frames>>

\* One command at a time; one that comes in during a list may be refused (PACKET_ERROR).
RadioExecutes ==
    /\ commands # <<>> /\ Listening
    /\ commands' = Tail(commands)
    /\ \/ ~listing /\ (AnswersSync \/ AnswersContacts \/ AnswersRemove)
       \/ listing /\ UNCHANGED <<radioVars, frames>>
    /\ UNCHANGED <<flagVars, taskVars, pollDue, asked, drops>>

ListsContact(c) ==
    /\ listing /\ c \in onRadio /\ Listening
    /\ Frame("stale", c) \notin {frames[i] : i \in DOMAIN frames} /\ c \notin removals
    /\ frames' = Append(frames, Frame("stale", c))
    /\ UNCHANGED <<radioVars, commands, flagVars, taskVars, pollDue, asked, drops>>

\* PACKET_CONTACT_END, or a restart of the radio in the middle.
ListEnds ==
    /\ listing /\ Listening
    /\ listing' = FALSE
    /\ frames' = Append(frames, Frame("end", NoMail)) \/ UNCHANGED frames
    /\ UNCHANGED <<mail, onRadio, commands, flagVars, taskVars, pollDue, asked, drops>>

Lost(fs) == [m \in RadioMail |-> IF \E i \in DOMAIN fs : fs[i].of = m THEN "lost" ELSE mail[m]]

\* A frame does not survive the serial line.
FrameGarbled ==
    /\ frames # <<>>
    /\ mail' = Lost(<<Head(frames)>>)
    /\ frames' = Tail(frames)
    /\ UNCHANGED <<onRadio, listing, commands, flagVars, taskVars, pollDue, asked, drops>>

-----------------------------------------------------------------------------
(* The adapter.                                                             *)

\* Seeded fault: no safety valve.
NeverExpired == FALSE

Expired == inProgress /\ streamOld

Asking(requesters) ==
    (IF "contacts" \in requesters THEN <<Contacts>> ELSE <<>>) \o
    (IF "pulse" \in requesters THEN <<Contacts>> \o Drain ELSE <<>>) \o
    (IF "refresh" \in requesters THEN <<Contacts>> ELSE <<>>)

\* _run: the checks of one turn, in the order of the code.  The safety valve
\* comes first; then the message poll, the contact requests, the discovery
\* pulse, which reads messages whether or not a list is coming in.  No frame is
\* read in between.
TurnSends(requesters) ==
    LET open == inProgress /\ ~Expired
    IN  (IF Expired /\ pollPending THEN <<Sync>> ELSE <<>>) \o
        (IF pollDue /\ ~open THEN <<Sync>> ELSE <<>>) \o
        Asking(requesters)

LoopTurn(requesters) ==
    /\ loop = "pass"
    /\ requesters \subseteq Requesters \ asked
    /\ requesters = {} \/ Room(Len(TurnSends(requesters)))
    /\ commands'    = commands \o TurnSends(requesters)
    /\ inProgress'  = (inProgress /\ ~Expired)
    /\ pollPending' = (pollPending /\ ~Expired)
    /\ pollDue'     = (pollDue /\ inProgress /\ ~Expired)
    /\ asked'       = asked \union requesters
    /\ loop'        = "read"
    /\ UNCHANGED <<radioVars, frames, streamOld, starting, removals, flushing, drops>>

ReadTimesOut ==
    /\ loop = "read" /\ frames = <<>>
    /\ loop' = "pass"
    /\ UNCHANGED <<radioVars, commands, frames, flagVars, starting, pollDue, asked, removals, flushing, drops>>

\* _dispatch_frame, by type of frame.
StreamStarts ==
    /\ Head(frames).kind = "start"
    /\ inProgress' = TRUE /\ streamOld' = FALSE
    /\ UNCHANGED <<mail, commands, pollPending, removals, flushing>>

StaleContact ==
    /\ Head(frames).kind = "stale"
    /\ removals' = removals \union {Head(frames).of}
    /\ UNCHANGED <<mail, commands, flagVars, flushing>>

StreamEnds ==
    /\ Head(frames).kind = "end"
    /\ inProgress' = FALSE /\ pollPending' = FALSE
    /\ flushing' = flushing \union removals /\ removals' = {}
    /\ commands' = commands \o (IF pollPending THEN <<Sync>> ELSE <<>>)
    /\ UNCHANGED <<mail, streamOld>>

MailAnnounced ==
    /\ Head(frames).kind \in {"push", "push84"}
    /\ IF Head(frames).kind = "push" /\ inProgress
       THEN pollPending' = TRUE /\ UNCHANGED commands
       ELSE commands' = Append(commands, Sync) /\ UNCHANGED pollPending
    /\ UNCHANGED <<mail, inProgress, streamOld, removals, flushing>>

MailComes ==
    /\ Head(frames).kind = "message"
    /\ mail' = [mail EXCEPT ![Head(frames).of] = "fetched"]
    /\ UNCHANGED <<commands, flagVars, removals, flushing>>

FrameRead ==
    /\ loop = "read" /\ frames # <<>>
    /\ loop' = "pass" /\ frames' = Tail(frames)
    /\ StreamStarts \/ StaleContact \/ StreamEnds \/ MailAnnounced \/ MailComes
    /\ UNCHANGED <<onRadio, listing, starting, pollDue, asked, drops>>

\* _flush_contact_removals, a task of its own that sleeps between two removals.
FlushSends(c) ==
    /\ c \in flushing /\ Room(1)
    /\ flushing' = flushing \ {c}
    /\ commands' = IF loop = "off" THEN commands ELSE Append(commands, RemovalOf(c))
    /\ UNCHANGED <<radioVars, frames, flagVars, loop, starting, pollDue, asked, removals, drops>>

\* _init_sequence runs beside the loop.
InitSends ==
    /\ starting # <<>> /\ Room(1)
    /\ commands' = Append(commands, Head(starting))
    /\ starting' = Tail(starting)
    /\ UNCHANGED <<radioVars, frames, flagVars, loop, pollDue, asked, removals, flushing, drops>>

PollFallsDue ==
    /\ ~pollDue /\ loop # "off" /\ Room(1)
    /\ pollDue' = TRUE
    /\ UNCHANGED <<radioVars, commands, frames, flagVars, taskVars, asked, drops>>

\* The radio has long answered, or will not: 30 s are far longer than a poll
\* interval, and far shorter than the intervals of the contact requests.
HalfMinutePasses ==
    /\ commands = <<>> /\ frames = <<>> /\ ~listing /\ starting = <<>> /\ loop # "off"
    /\ (inProgress /\ ~streamOld) \/ asked # {}
    /\ streamOld' = inProgress /\ pollDue' = TRUE /\ asked' = {}
    /\ UNCHANGED <<radioVars, commands, frames, inProgress, pollPending, taskVars, drops>>

\* ConnectionError, in a read or a write: the flags stay as they are.
LinkDrops ==
    /\ loop \in {"pass", "read"} /\ drops < MaxLinkDrops
    /\ drops' = drops + 1
    /\ loop' = "off" /\ commands' = <<>> /\ frames' = <<>> /\ starting' = <<>>
    /\ mail' = Lost(frames) /\ listing' = FALSE
    /\ UNCHANGED <<onRadio, flagVars, pollDue, asked, removals, flushing>>

\* Any other exception, in a check, a read or the handling of a frame, ends _run
\* with _connected as it was: nobody reads from then on and nobody reconnects,
\* while the other tasks go on writing.
ReaderDies ==
    /\ loop \in {"pass", "read"}
    /\ loop' = "dead"
    /\ \/ UNCHANGED <<mail, frames>>
       \/ /\ loop = "read" /\ frames # <<>>
          /\ mail' = Lost(<<Head(frames)>>) /\ frames' = Tail(frames)
    /\ UNCHANGED <<onRadio, listing, commands, flagVars, starting, pollDue, asked, removals, flushing, drops>>

\* The supervisor's next connect().
Connects ==
    /\ loop = "off"
    /\ loop' = "pass" /\ starting' = <<Contacts>> \o Drain /\ pollDue' = FALSE
    /\ UNCHANGED <<radioVars, commands, frames, flagVars, asked, removals, flushing, drops>>

CompanionInit ==
    /\ mail = [m \in RadioMail |-> "unsent"] /\ onRadio \in SUBSET StaleContacts /\ listing = FALSE
    /\ commands = <<>> /\ frames = <<>>
    /\ loop = "off" /\ starting = <<>>
    /\ inProgress = FALSE /\ streamOld = FALSE /\ pollPending = FALSE /\ pollDue = FALSE
    /\ asked = {} /\ removals = {} /\ flushing = {} /\ drops = 0

CompanionNext ==
    \/ \E m \in RadioMail : MailArrives(m)
    \/ \E c \in StaleContacts : ListsContact(c) \/ FlushSends(c)
    \/ \E requesters \in SUBSET Requesters : LoopTurn(requesters)
    \/ RadioExecutes \/ ListEnds \/ FrameGarbled \/ ReadTimesOut \/ FrameRead \/ InitSends
    \/ PollFallsDue \/ HalfMinutePasses \/ LinkDrops \/ ReaderDies \/ Connects

\* The loop runs, the radio obeys, time passes, the supervisor reconnects;
\* nobody need ask for contacts, and any frame may be garbled.
CompanionFairness ==
    /\ WF_companionVars(\E requesters \in SUBSET Requesters : LoopTurn(requesters))
    /\ WF_companionVars(ReadTimesOut \/ FrameRead)
    /\ WF_companionVars(RadioExecutes)
    /\ WF_companionVars(ListEnds)
    /\ WF_companionVars(InitSends)
    /\ WF_companionVars(PollFallsDue)
    /\ WF_companionVars(HalfMinutePasses)
    /\ WF_companionVars(Connects)

CompanionSpec == CompanionInit /\ [][CompanionNext]_companionVars /\ CompanionFairness

-----------------------------------------------------------------------------
(* Properties.                                                              *)

CompanionTypeOK ==
    /\ mail \in [RadioMail -> {"unsent", "waiting", "coming", "fetched", "lost"}]
    /\ onRadio \union removals \union flushing \subseteq StaleContacts
    /\ Len(frames) <= MaxFrames
    /\ loop \in {"off", "pass", "read", "dead"}
    /\ \A m \in RadioMail :
         mail[m] = "coming" <=> \E i \in DOMAIN frames : frames[i] = Frame("message", m)

\* A message that waits at the radio is fetched in the end (or lost on the
\* line), whatever becomes of the contact lists: an end that never comes, a
\* radio that restarts, commands refused during a list, announcements lost, as
\* long as the reader lives.
MessagesAreFetched ==
    \A m \in RadioMail : mail[m] = "waiting" ~> (mail[m] \in {"fetched", "lost"} \/ loop = "dead")
=============================================================================
