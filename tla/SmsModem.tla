------------------------------ MODULE SmsModem ------------------------------
(***************************************************************************)
(* The SMS adapter (ech/adapters/sms.py) on its AT command engine          *)
(* (at_engine.py): commands that take turns under a lock, a reader that    *)
(* gives each line of the modem to the command in flight or, when there is *)
(* none, to the handler of unsolicited lines; messages read when announced *)
(* or when polled, shown, and deleted from the modem.                      *)
(*                                                                         *)
(* Lines are what the adapter tells apart: an announcement (+CMTI) of a    *)
(* slot, a stored message (header and text) with its slot, as it is listed *)
(* (+CMGL) or read (+CMGR), the prompt of a send, and the end of an        *)
(* answer.  Assumption: no text is itself such an end (OK, BUSY, ...).     *)
(* In PDU mode, in which the text is decoded, Nameless and PlusTexts are   *)
(* empty.                                                                  *)
(***************************************************************************)
EXTENDS Integers, Sequences, FiniteSets, SequencesExt

CONSTANTS
    SmsMessages,      \* messages sent to the modem's number
    Nameless,         \* those stored with an empty name field (,,) in the header
    PlusTexts,        \* those whose text has only lines that begin with a plus
    Slots,            \* storage of the SIM: 1 .. n
    ReusesSlots,      \* a freed slot may hold a new message at once
    MaxSmsTimeouts,   \* bound: answers that come late although the reader works
    MaxSmsSends,      \* bound: messages sent
    Empty

ASSUME SmsAssumption ==
    /\ Slots \subseteq Nat /\ IsFiniteSet(Slots)
    /\ Nameless \subseteq SmsMessages /\ PlusTexts \subseteq SmsMessages

VARIABLES
    smsReader,     \* the task _read_loop: "running" or "ended"
    smsWire,       \* lines the modem has sent and the reader has not taken
    smsAnswers,    \* _resp_queue
    smsLock,       \* commands whose callers wait for _cmd_lock, the holder first
    smsHeld,       \* the lock is held, its command written
    modemInput,    \* what the modem has to execute
    smsStore,      \* slot -> [msg, unread], or Empty
    smsUsed,       \* slots that have held a message
    smsArrived,    \* messages the modem has accepted
    smsShown,      \* messages given to the router
    smsTimeouts, smsSends

smsVars == <<smsReader, smsWire, smsAnswers, smsLock, smsHeld, modemInput, smsStore, smsUsed,
             smsArrived, smsShown, smsTimeouts, smsSends>>

Cmd(op, slot)        == [op |-> op, slot |-> slot]
Line(kind, slot, m)  == [kind |-> kind, slot |-> slot, msg |-> m]
Final                == Line("final", 0, Empty)
ListCmd              == Cmd("list", 0)

-----------------------------------------------------------------------------
(* The modem (external).  What it sends once nobody reads is of no account.  *)

\* The lowest slot it may use for a new message.
Vacant    == {s \in Slots : smsStore[s] = Empty /\ (s \in smsUsed => ReusesSlots)}
NextSlot  == {s \in Vacant : \A r \in Vacant : s <= r}

SmsArrives(m, s) ==
    /\ m \notin smsArrived /\ s \in NextSlot
    /\ smsStore'   = [smsStore EXCEPT ![s] = [msg |-> m, unread |-> TRUE]]
    /\ smsUsed'    = smsUsed \union {s}
    /\ smsArrived' = smsArrived \union {m}
    /\ smsWire'    = IF smsReader = "running" THEN Append(smsWire, Line("cmti", s, Empty)) ELSE smsWire
    /\ UNCHANGED <<smsReader, smsAnswers, smsLock, smsHeld, modemInput, smsShown, smsTimeouts, smsSends>>

Unread == {s \in Slots : smsStore[s] # Empty /\ smsStore[s].unread}

Stored(kind, s) == Line(kind, s, smsStore[s].msg)

\* The numbers of S in ascending order.
Ascending(S) ==
    CHOOSE f \in [1 .. Cardinality(S) -> S] : \A i, j \in 1 .. Cardinality(S) : i < j => f[i] < f[j]

StoredAt(slots) == [k \in DOMAIN slots |-> Stored("cmgl", slots[k])]

AnswerOf(cmd) ==
    CASE cmd.op = "list" -> StoredAt(Ascending(Unread)) \o <<Final>>
      [] cmd.op = "read" /\ smsStore[cmd.slot] # Empty -> <<Stored("cmgr", cmd.slot), Final>>
      [] cmd.op = "send" -> <<Line("prompt", 0, Empty)>>
      [] OTHER -> <<Final>>

\* Listing and reading mark what they return as read; deleting frees the slot.
StoreAfter(cmd) ==
    [s \in Slots |->
       IF smsStore[s] = Empty \/ (cmd.op = "delete" /\ s = cmd.slot) THEN Empty
       ELSE IF cmd.op = "list" \/ (cmd.op = "read" /\ s = cmd.slot) THEN [smsStore[s] EXCEPT !.unread = FALSE]
       ELSE smsStore[s]]

ModemExecutes ==
    /\ modemInput # <<>>
    /\ modemInput' = Tail(modemInput)
    /\ smsWire'  = IF smsReader = "running" THEN smsWire \o AnswerOf(Head(modemInput)) ELSE smsWire
    /\ smsStore' = StoreAfter(Head(modemInput))
    /\ UNCHANGED <<smsReader, smsAnswers, smsLock, smsHeld, smsUsed, smsArrived, smsShown, smsTimeouts, smsSends>>

-----------------------------------------------------------------------------
(* The engine.                                                              *)

\* _dispatch_line: to the command in flight, else _on_urc, which starts a read.
ReaderTakes ==
    /\ smsReader = "running" /\ smsWire # <<>>
    /\ smsWire' = Tail(smsWire)
    /\ smsAnswers' = IF smsHeld THEN Append(smsAnswers, Head(smsWire)) ELSE smsAnswers
    /\ smsLock' = IF ~smsHeld /\ Head(smsWire).kind = "cmti"
                  THEN Append(smsLock, Cmd("read", Head(smsWire).slot)) ELSE smsLock
    /\ UNCHANGED <<smsReader, smsHeld, modemInput, smsStore, smsUsed, smsArrived, smsShown, smsTimeouts, smsSends>>

\* One second without a byte: the time-out is caught outside the loop.
ReaderEnds ==
    /\ smsReader = "running" /\ smsWire = <<>>
    /\ smsReader' = "ended"
    /\ UNCHANGED <<smsWire, smsAnswers, smsLock, smsHeld, modemInput, smsStore, smsUsed, smsArrived,
                   smsShown, smsTimeouts, smsSends>>

\* cmd: with the lock, stale lines are dropped and the command is written.
CmdStarts ==
    /\ ~smsHeld /\ smsLock # <<>>
    /\ smsHeld' = TRUE
    /\ smsAnswers' = <<>>
    /\ modemInput' = Append(modemInput, Head(smsLock))
    /\ UNCHANGED <<smsReader, smsWire, smsLock, smsStore, smsUsed, smsArrived, smsShown, smsTimeouts, smsSends>>

FinalAt == {k \in DOMAIN smsAnswers : smsAnswers[k].kind = "final"}

\* Where the answer, up to its final line, has messages with such a header.
HeadersAt(kind) ==
    {k \in DOMAIN smsAnswers : smsAnswers[k].kind = kind /\ \A j \in FinalAt : k < j}

\* RE_CMGR and RE_CMGL want a name field in quotes, be it empty.
HeaderMatches(k) == smsAnswers[k].msg \notin Nameless

Items(places) == LET at == Ascending(places) IN [n \in DOMAIN at |-> smsAnswers[at[n]]]

\* Seeded fault: the last message of a list is not flushed.
ListedButLast ==
    LET all == Items({k \in HeadersAt("cmgl") : HeaderMatches(k)})
    IN  IF all = <<>> THEN <<>> ELSE Front(all)

\* _parse_cmgl: the messages whose header it matches.  (The text of another goes
\* out at the end of the message listed before it, which nothing here tells apart.)
Listed == Items({k \in HeadersAt("cmgl") : HeaderMatches(k)})

\* _parse_cmgr_text leaves out lines that begin with a plus.
HasBody(k) == smsAnswers[k].msg \notin PlusTexts

LastHeader == {k \in HeadersAt("cmgr") : \A j \in HeadersAt("cmgr") : j <= k}

\* One message, deleted at the slot that was asked for, if it has a body; the
\* others are neither shown nor deleted, and are no longer unread.
ReadItems(slot) ==
    LET items == Items({k \in LastHeader : HeaderMatches(k) /\ HasBody(k)})
    IN  [n \in DOMAIN items |-> [items[n] EXCEPT !.slot = slot]]

Received(cmd) ==
    CASE cmd.op = "list" -> Listed
      [] cmd.op = "read" -> ReadItems(cmd.slot)
      [] OTHER -> <<>>

\* Messages are handed on, and each is deleted by a task of its own.
CmdAnswered ==
    /\ smsHeld /\ FinalAt # {}
    /\ LET got == Received(Head(smsLock))
       IN  /\ smsShown' = smsShown \union {got[k].msg : k \in DOMAIN got}
           /\ smsLock'  = Tail(smsLock) \o [k \in DOMAIN got |-> Cmd("delete", got[k].slot)]
    /\ smsHeld' = FALSE
    /\ UNCHANGED <<smsReader, smsWire, smsAnswers, modemInput, smsStore, smsUsed, smsArrived, smsTimeouts, smsSends>>

\* The time-out of a command: its caller logs it and goes on.
CmdLate ==
    /\ smsHeld /\ FinalAt = {}
    /\ IF smsReader = "running" THEN smsTimeouts < MaxSmsTimeouts ELSE modemInput = <<>>
    /\ smsTimeouts' = IF smsReader = "running" THEN smsTimeouts + 1 ELSE smsTimeouts
    /\ smsHeld' = FALSE
    /\ smsLock' = Tail(smsLock)
    /\ UNCHANGED <<smsReader, smsWire, smsAnswers, modemInput, smsStore, smsUsed, smsArrived, smsShown, smsSends>>

\* cmd_prompt: at the prompt the text is sent; its answer ends the command.
\* Assumption: the modem ends its prompt with a line feed.
PromptSeen ==
    /\ smsHeld /\ Head(smsLock).op = "send"
    /\ \E k \in DOMAIN smsAnswers :
         /\ smsAnswers[k].kind = "prompt"
         /\ smsAnswers' = SubSeq(smsAnswers, k + 1, Len(smsAnswers))
    /\ modemInput' = Append(modemInput, Cmd("text", 0))
    /\ UNCHANGED <<smsReader, smsWire, smsLock, smsHeld, smsStore, smsUsed, smsArrived, smsShown, smsTimeouts, smsSends>>

-----------------------------------------------------------------------------
(* The adapter.                                                             *)

\* _run: the list of unread messages, at every interval.
SmsPoll ==
    /\ \A k \in DOMAIN smsLock : smsLock[k].op # "list"
    /\ smsLock' = Append(smsLock, ListCmd)
    /\ UNCHANGED <<smsReader, smsWire, smsAnswers, smsHeld, modemInput, smsStore, smsUsed, smsArrived,
                   smsShown, smsTimeouts, smsSends>>

\* send: one AT+CMGS per message.
SmsSend ==
    /\ smsSends < MaxSmsSends
    /\ smsSends' = smsSends + 1
    /\ smsLock' = Append(smsLock, Cmd("send", 0))
    /\ UNCHANGED <<smsReader, smsWire, smsAnswers, smsHeld, modemInput, smsStore, smsUsed, smsArrived,
                   smsShown, smsTimeouts>>

SmsInit ==
    /\ smsReader = "running" /\ smsWire = <<>> /\ smsAnswers = <<>>
    /\ smsLock = <<>> /\ smsHeld = FALSE /\ modemInput = <<>>
    /\ smsStore = [s \in Slots |-> Empty] /\ smsUsed = {}
    /\ smsArrived = {} /\ smsShown = {}
    /\ smsTimeouts = 0 /\ smsSends = 0

SmsNext ==
    \/ \E m \in SmsMessages, s \in Slots : SmsArrives(m, s)
    \/ ModemExecutes \/ ReaderTakes \/ ReaderEnds
    \/ CmdStarts \/ CmdAnswered \/ CmdLate \/ PromptSeen
    \/ SmsPoll \/ SmsSend

\* The modem answers, the reader is scheduled while it runs, commands take
\* their turns and the poll interval passes.
SmsFairness ==
    /\ WF_smsVars(ModemExecutes)
    /\ WF_smsVars(ReaderTakes)
    /\ WF_smsVars(CmdStarts)
    /\ WF_smsVars((CmdAnswered \/ PromptSeen))
    /\ WF_smsVars(SmsPoll)

-----------------------------------------------------------------------------
(* Properties.                                                              *)

\* The lock is held by the first of those who asked, and storage and queues
\* keep their shape.
SmsTypeOK ==
    /\ smsReader \in {"running", "ended"} /\ smsHeld \in BOOLEAN
    /\ smsHeld => smsLock # <<>>
    /\ smsShown \subseteq smsArrived
    /\ \A s \in Slots : smsStore[s] # Empty => smsStore[s].msg \in smsArrived
    /\ Cardinality({k \in DOMAIN smsLock : smsLock[k].op = "list"}) <= 1

\* A message the modem has accepted, of a form that both parsers read, reaches
\* the users although announcements that arrive while a command is in flight are
\* lost, others are read and kept, and it may be read by the poll and by its
\* announcement at once -- as long as the reader runs and no command timed out.
SmsGetsThrough ==
    \A m \in SmsMessages \ (Nameless \union PlusTexts) :
        m \in smsArrived ~> (m \in smsShown \/ smsReader = "ended" \/ smsTimeouts > 0)
=============================================================================
