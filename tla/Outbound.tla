------------------------------ MODULE Outbound ------------------------------
(***************************************************************************)
(* An operator's send, from the API request to the status the feed shows:  *)
(* Router.send_tracked (ech/core/router.py) transmits on one radio after   *)
(* another, stores each message, records its status and, for an emergency, *)
(* pages the telephone exchange.  The radio answers later, and the adapter *)
(* must tell which message an answer is about: Meshtastic by the packet id *)
(* sendText returned, MeshCore by the message sent last.                   *)
(*                                                                         *)
(* Requests, radio answers and status reports are separate tasks; each is  *)
(* suspended at its awaits (adapter.send, the database).                   *)
(***************************************************************************)
EXTENDS Integers, Sequences

CONSTANTS
    Calls,        \* send_tracked invocations
    Targets,      \* call -> sequence of radios to send on
    Urgent,       \* the calls with Emergency priority
    Direct,       \* the calls addressed to one station: only these are ACKed
    Radios,
    ById,         \* the radios that correlate by packet id (Meshtastic)
    Device,       \* stands for a radio as the origin of a report
    NoMsg,        \* Python's None
    MaxFrames,    \* bound: answers waiting on a link
    MaxTrouble    \* bound: failed database writes, link drops, repeated ACKs and
                  \* MeshCore commands that are not sends, together

ASSUME OutboundAssumption ==
    /\ Targets \in [Calls -> Seq(Radios)]
    /\ Urgent \subseteq Calls /\ Direct \subseteq Calls /\ ById \subseteq Radios
    /\ Device \notin Calls
    /\ MaxFrames \in Nat /\ MaxTrouble \in Nat

VARIABLES
    step,       \* what each call does next
    pos,        \* the target it is at
    up,         \* radios that are connected and not paused
    air,        \* what became of each message, as the radio knows it
    frames,     \* answers of each radio not read yet, in order: [kind, msg]
    pending,    \* _pending_acks of the ById radios: messages awaiting an ACK
    last,       \* _last_sent_uuid of each radio
    lastIsSend, \* _last_cmd_sent was a send
    row,        \* status of each message in the database, or "absent"
    told,       \* history: verdicts reported to the web clients, per message
    reports,    \* _handle_delivery_status runs that await the database
    paged,      \* calls that paged the exchange
    faults,     \* database writes that failed
    troubles    \* the other troubles so far

calls  == <<step, pos, paged>>
radio  == <<up, air, frames, pending, last, lastIsSend>>
status == <<row, told, reports>>
counts == <<faults, troubles>>
vars   == <<calls, radio, status, counts>>

\* A message is the i-th target of a call.
Sent == UNION {{<<c, i>> : i \in DOMAIN Targets[c]} : c \in Calls}

Current(c) == <<c, pos[c]>>
At(c)      == Targets[c][pos[c]]
RadioOf(m) == Targets[m[1]][m[2]]

\* The messages on radios that correlate by packet id.
Keyed == {m \in Sent : RadioOf(m) \in ById}

Verdicts == {"delivered", "confirmed", "failed"}
Statuses == Verdicts \cup {"sent_to_air"}

Trouble == faults + troubles < MaxTrouble

-----------------------------------------------------------------------------
(* _handle_delivery_status: tells the web clients, then SELECTs the         *)
(* message's row and UPDATEs it.                                            *)

Report(m, s, by) ==
    /\ told' = IF s \in Verdicts THEN [told EXCEPT ![m] = Append(@, s)] ELSE told
    /\ reports' = reports \cup {[msg |-> m, status |-> s, by |-> by, at |-> "select"]}

Select(r) ==
    /\ r \in reports /\ r.at = "select"
    /\ reports' = (reports \ {r}) \cup
         (IF row[r.msg] = "absent" THEN {} ELSE {[r EXCEPT !.at = "update"]})
    /\ UNCHANGED <<calls, radio, row, told, counts>>

Update(r) ==
    /\ r \in reports /\ r.at = "update"
    /\ row' = [row EXCEPT ![r.msg] = r.status]
    /\ reports' = reports \ {r}
    /\ UNCHANGED <<calls, radio, told, counts>>

\* Either statement raises: the exception is swallowed.
StatusLost(r) ==
    /\ r \in reports
    /\ Trouble
    /\ faults' = faults + 1
    /\ reports' = reports \ {r}
    /\ UNCHANGED <<calls, radio, row, told, troubles>>

-----------------------------------------------------------------------------
(* send_tracked.                                                            *)

HasTarget(c) == step[c] = "look" /\ pos[c] <= Len(Targets[c])

\* Seeded fault: an unreachable target ends the request.
SkipAll(c) ==
    /\ HasTarget(c) /\ At(c) \notin up
    /\ step' = [step EXCEPT ![c] = "done"]
    /\ UNCHANGED <<pos, paged, radio, status, counts>>

Skip(c) ==
    /\ HasTarget(c) /\ At(c) \notin up
    /\ pos' = [pos EXCEPT ![c] = @ + 1]
    /\ UNCHANGED <<step, paged, radio, status, counts>>

\* adapter.send hands the message to the radio, which has it or not by the time
\* the call returns, and may answer before.
Transmit(c) ==
    /\ HasTarget(c) /\ At(c) \in up
    /\ last' = [last EXCEPT ![At(c)] = Current(c)]
    /\ \/ /\ air' = [air EXCEPT ![Current(c)] = "air"]
          /\ lastIsSend' = lastIsSend \cup {At(c)}
       \/ /\ lastIsSend' \in {lastIsSend, lastIsSend \cup {At(c)}}
          /\ UNCHANGED air
    /\ step' = [step EXCEPT ![c] = "sending"]
    /\ UNCHANGED <<pos, paged, up, frames, pending, status, counts>>

SendReturns(c) ==
    /\ step[c] = "sending" /\ air[Current(c)] # "none"
    /\ pending' = IF At(c) \in ById /\ c \in Direct THEN pending \cup {Current(c)} ELSE pending
    /\ step' = [step EXCEPT ![c] = "store sent"]
    /\ UNCHANGED <<pos, paged, up, air, frames, last, lastIsSend, status, counts>>

\* adapter.send returns False: the write failed, or nobody has that name.
SendFails(c) ==
    /\ step[c] = "sending" /\ air[Current(c)] = "none"
    /\ step' = [step EXCEPT ![c] = "store failed"]
    /\ UNCHANGED <<pos, paged, radio, status, counts>>

Storing(c) == step[c] \in {"store sent", "store failed"}

Outcome(c) == IF step[c] = "store sent" THEN "sent_to_air" ELSE "failed"

\* _mark_tx_in_db, then the report, which send_tracked awaits.
Store(c) ==
    /\ Storing(c)
    /\ row' = [row EXCEPT ![Current(c)] = "none"]
    /\ Report(Current(c), Outcome(c), c)
    /\ step' = [step EXCEPT ![c] = "reporting"]
    /\ UNCHANGED <<pos, paged, radio, counts>>

\* The INSERT raises out of send_tracked: no further target, no page.
StoreFails(c) ==
    /\ Storing(c)
    /\ Trouble
    /\ faults' = faults + 1
    /\ step' = [step EXCEPT ![c] = "raised"]
    /\ UNCHANGED <<pos, paged, radio, status, troubles>>

\* Seeded fault: the report is a task of its own.
ReportedUnawaited(c) ==
    /\ step[c] = "reporting"
    /\ pos' = [pos EXCEPT ![c] = @ + 1]
    /\ step' = [step EXCEPT ![c] = "look"]
    /\ UNCHANGED <<paged, radio, status, counts>>

Reported(c) ==
    /\ step[c] = "reporting"
    /\ \A r \in reports : r.by # c
    /\ pos' = [pos EXCEPT ![c] = @ + 1]
    /\ step' = [step EXCEPT ![c] = "look"]
    /\ UNCHANGED <<paged, radio, status, counts>>

\* Seeded fault: every send pages.
FinishPagesAlways(c) ==
    /\ step[c] = "look" /\ pos[c] > Len(Targets[c])
    /\ step' = [step EXCEPT ![c] = "done"]
    /\ paged' = paged \cup {c}
    /\ UNCHANGED <<pos, radio, status, counts>>

\* The loop is over: an emergency pages, whatever the sends returned.  The
\* exchange is taken to be connected and opted in.
Finish(c) ==
    /\ step[c] = "look" /\ pos[c] > Len(Targets[c])
    /\ step' = [step EXCEPT ![c] = "done"]
    /\ paged' = paged \cup ({c} \cap Urgent)
    /\ UNCHANGED <<pos, radio, status, counts>>

-----------------------------------------------------------------------------
(* The radios and their links.                                              *)

Answer(r, kind, m) ==
    IF r \in up THEN [frames EXCEPT ![r] = Append(@, [kind |-> kind, msg |-> m])] ELSE frames

Room(r) == Len(frames[r]) < MaxFrames

\* A MeshCore radio accepts (MSG_SENT) or refuses (PACKET_ERROR) a message; a
\* Meshtastic radio answers a direct one with a NACK when it gives up.
Accepts(m) ==
    /\ air[m] = "air" /\ RadioOf(m) \notin ById /\ Room(RadioOf(m))
    /\ air' = [air EXCEPT ![m] = "accepted"]
    /\ frames' = Answer(RadioOf(m), "accepted", m)
    /\ UNCHANGED <<calls, up, pending, last, lastIsSend, status, counts>>

Refuses(m) ==
    /\ air[m] = "air" /\ Room(RadioOf(m))
    /\ RadioOf(m) \in ById => m[1] \in Direct
    /\ air' = [air EXCEPT ![m] = "refused"]
    /\ frames' = Answer(RadioOf(m), "refused", m)
    /\ UNCHANGED <<calls, up, pending, last, lastIsSend, status, counts>>

\* The other station has it, and its ACK comes back, once or again.
Acks(m) ==
    /\ m[1] \in Direct /\ Room(RadioOf(m))
    /\ air[m] \in {"acked", IF RadioOf(m) \in ById THEN "air" ELSE "accepted"}
    /\ air[m] = "acked" => Trouble
    /\ troubles' = IF air[m] = "acked" THEN troubles + 1 ELSE troubles
    /\ air' = [air EXCEPT ![m] = "acked"]
    /\ frames' = Answer(RadioOf(m), "acked", m)
    /\ UNCHANGED <<calls, up, pending, last, lastIsSend, status, faults>>

\* MeshCore housekeeping sends another command, which the radio rejects.
OtherCommand(r) ==
    /\ r \in up \ ById /\ Room(r)
    /\ Trouble
    /\ troubles' = troubles + 1
    /\ lastIsSend' = lastIsSend \ {r}
    /\ frames' = Answer(r, "refused", NoMsg)
    /\ UNCHANGED <<calls, up, air, pending, last, status, faults>>

LinkDrops(r) ==
    /\ r \in up
    /\ Trouble
    /\ troubles' = troubles + 1
    /\ up' = up \ {r}
    /\ frames' = [frames EXCEPT ![r] = <<>>]
    /\ UNCHANGED <<calls, air, pending, last, lastIsSend, status, faults>>

\* Meshtastic's _on_connection forgets the ACKs of the last session; MeshCore's
\* connect sends commands of its own.
LinkReturns(r) ==
    /\ r \notin up
    /\ up' = up \cup {r}
    /\ pending' = {m \in pending : RadioOf(m) # r}
    /\ lastIsSend' = lastIsSend \ {r}
    /\ UNCHANGED <<calls, air, frames, last, status, counts>>

-----------------------------------------------------------------------------
(* The adapters' handlers for an answer.                                    *)

TakeFrame(r) == frames' = [frames EXCEPT ![r] = Tail(@)]

\* Seeded fault: the last message stands for the answer's own.
AboutLast(r, f) == {last[r]} \ {NoMsg}

\* The pending message an answer of radio r is about, if it is one.
About(r, f) == {f.msg} \cap pending

\* Seeded fault: an answered message stays pending.
HandleRoutingKeeps(r) ==
    /\ r \in ById /\ frames[r] # <<>>
    /\ LET f == Head(frames[r]) IN
        IF About(r, f) = {}
        THEN UNCHANGED <<told, reports>>
        ELSE \E m \in About(r, f) :
                Report(m, IF f.kind = "acked" THEN "delivered" ELSE "failed", Device)
    /\ TakeFrame(r)
    /\ UNCHANGED <<calls, up, air, pending, last, lastIsSend, row, counts>>

\* MeshtasticAdapter._handle_routing.
HandleRouting(r) ==
    /\ r \in ById /\ frames[r] # <<>>
    /\ LET f == Head(frames[r]) IN
        /\ IF About(r, f) = {}
           THEN UNCHANGED <<told, reports>>
           ELSE \E m \in About(r, f) :
                   Report(m, IF f.kind = "acked" THEN "delivered" ELSE "failed", Device)
        /\ pending' = pending \ About(r, f)
    /\ TakeFrame(r)
    /\ UNCHANGED <<calls, up, air, last, lastIsSend, row, counts>>

\* MeshCore: MSG_SENT, SEND_CONFIRMED and PACKET_ERROR are about the message
\* sent last; an error only if the last command was a send.
HandlePush(r) ==
    /\ r \notin ById /\ frames[r] # <<>>
    /\ LET kind == Head(frames[r]).kind
           attributed == last[r] # NoMsg /\ (kind = "refused" => r \in lastIsSend)
       IN /\ IF attributed
             THEN Report(last[r], CASE kind = "accepted" -> "sent_to_air"
                                    [] kind = "acked"    -> "confirmed"
                                    [] kind = "refused"  -> "failed", Device)
             ELSE UNCHANGED <<told, reports>>
          /\ last' = IF attributed /\ kind = "refused" THEN [last EXCEPT ![r] = NoMsg] ELSE last
    /\ TakeFrame(r)
    /\ UNCHANGED <<calls, up, air, pending, lastIsSend, row, counts>>

-----------------------------------------------------------------------------
OutboundInit ==
    /\ step = [c \in Calls |-> "look"]
    /\ pos = [c \in Calls |-> 1]
    /\ up = Radios
    /\ air = [m \in Sent |-> "none"]
    /\ frames = [r \in Radios |-> <<>>]
    /\ pending = {}
    /\ last = [r \in Radios |-> NoMsg]
    /\ lastIsSend = {}
    /\ row = [m \in Sent |-> "absent"]
    /\ told = [m \in Sent |-> <<>>]
    /\ reports = {}
    /\ paged = {}
    /\ faults = 0 /\ troubles = 0

CallStep(c) ==
    \/ Skip(c) \/ Transmit(c) \/ SendReturns(c) \/ SendFails(c)
    \/ Store(c) \/ Reported(c) \/ Finish(c)

Handle(r) == HandleRouting(r) \/ HandlePush(r)

Persist == \E r \in reports : Select(r) \/ Update(r)

World ==
    \/ \E m \in Sent : Accepts(m) \/ Refuses(m) \/ Acks(m)
    \/ \E r \in Radios : OtherCommand(r) \/ LinkDrops(r) \/ LinkReturns(r)

OutboundNext ==
    \/ \E c \in Calls : CallStep(c) \/ StoreFails(c)
    \/ \E r \in Radios : Handle(r)
    \/ Persist
    \/ \E r \in reports : StatusLost(r)
    \/ World

OutboundSpec == OutboundInit /\ [][OutboundNext]_vars

\* The event loop runs every ready task, and the database answers.
OutboundFairness ==
    /\ \A c \in Calls : WF_vars(CallStep(c))
    /\ \A r \in Radios : WF_vars(Handle(r))
    /\ WF_vars(Persist)

OutboundFairSpec == OutboundSpec /\ OutboundFairness

-----------------------------------------------------------------------------
OutboundTypeOK ==
    /\ step \in [Calls -> {"look", "sending", "store sent", "store failed",
                           "reporting", "raised", "done"}]
    /\ pos \in [Calls -> Nat \ {0}]
    /\ up \subseteq Radios
    /\ air \in [Sent -> {"none", "air", "accepted", "refused", "acked"}]
    /\ frames \in [Radios -> Seq([kind : {"accepted", "refused", "acked"}, msg : Sent \cup {NoMsg}])]
    /\ pending \subseteq {m \in Sent : RadioOf(m) \in ById /\ air[m] # "none"}
    /\ last \in [Radios -> Sent \cup {NoMsg}] /\ \A r \in Radios : last[r] = NoMsg \/ RadioOf(last[r]) = r
    /\ lastIsSend \subseteq Radios
    /\ row \in [Sent -> Statuses \cup {"none", "absent"}]
    /\ told \in [Sent -> Seq(Verdicts)]
    /\ reports \subseteq [msg : Sent, status : Statuses, by : Calls \cup {Device},
                          at : {"select", "update"}]
    /\ paged \subseteq Urgent
    /\ faults \in Nat /\ troubles \in Nat

Shown(m, s) == row[m] = s \/ \E i \in DOMAIN told[m] : told[m][i] = s

\* A message the operator sees as delivered or confirmed was acknowledged by
\* the station it was sent to.  The comment at meshcore.py:2941 says the ACK
\* code of a confirmation is matched; the code attributes it to the last send.
ConfirmedWasDelivered ==
    \A m \in Sent : Shown(m, "delivered") \/ Shown(m, "confirmed") => air[m] = "acked"

\* The same on the radios that correlate by packet id, and a message shown as
\* failed was refused or never left, whatever other sends are under way and
\* whatever the link did in between.
AnswersReachTheirMessage ==
    \A m \in Keyed :
        /\ Shown(m, "delivered") => air[m] = "acked"
        /\ Shown(m, "failed") => air[m] \in {"refused", "none"}

\* On those radios the network may repeat an ACK, and the operator still hears
\* one verdict on a message.
OneVerdict ==
    \A m \in Keyed : Len(told[m]) <= 1

\* When send_tracked has moved on from a target, what it transmitted there is in
\* the log with a status, unless the database refused a write.
EverySendIsLogged ==
    \A m \in Sent : (air[m] # "none" /\ pos[m[1]] > m[2]) => (row[m] \in Statuses \/ faults > 0)

\* An emergency pages the exchange even when no radio could send it, unless the
\* database refused a write, which ends send_tracked before the page.
EmergencyPages ==
    \A c \in Urgent : (step[c] = "look") ~> (c \in paged \/ faults > 0)

\* A verdict in the log of a message whose send is reported stays: nothing that
\* was decided earlier overwrites it.  (A verdict that comes before that is lost
\* or overwritten by the send's own report.)
VerdictStays ==
    [][\A m \in Keyed :
         (pos[m[1]] > m[2] /\ row[m] \in Verdicts) => row'[m] = row[m]]_vars

-----------------------------------------------------------------------------
(* Where a message's send is, and what the clients were told of it.         *)

PhaseOf(m) ==
    IF pos[m[1]] > m[2] THEN "over"
    ELSE IF pos[m[1]] = m[2] /\ step[m[1]] # "look" THEN "under way" ELSE "due"

VerdictOn(m) ==
    IF told[m] = <<>> THEN "nothing" ELSE IF Len(told[m]) = 1 THEN told[m][1] ELSE "several"

Promised == INSTANCE DeliveryStatus WITH
    Messages <- Keyed,
    phase    <- [m \in Keyed |-> PhaseOf(m)],
    truth    <- [m \in Keyed |-> air[m]],
    verdict  <- [m \in Keyed |-> VerdictOn(m)],
    entry    <- [m \in Keyed |-> row[m]]

\* send_tracked, the status reports and the database between them do what
\* DeliveryStatus allows: whatever sends overlap, links drop and writes fail, the
\* operator is told one true verdict at most, and once the send is over the log
\* changes only to that verdict.
StatusAsPromised == Promised!StatusSpec
=============================================================================
