------------------------------- MODULE CatPtt -------------------------------
(***************************************************************************)
(* CAT control (ech/core/cat_rigctld.py): one socket to rigctld shared,    *)
(* without a lock, by the poll loop, the API requests and the watchdog     *)
(* that unkeys a transmitter left keyed.                                   *)
(*                                                                         *)
(* _cmd() writes its command and then waits for lines.  A StreamReader     *)
(* serves one waiting coroutine: a second one fails with RuntimeError      *)
(* after its command was written, and the answer it did not wait for is    *)
(* read by whoever asks next.                                              *)
(***************************************************************************)
EXTENDS Integers, Sequences, FiniteSets

CONSTANTS
    CatCallers,       \* API requests that may run at once
    MaxCatRequests,   \* bound: requests
    MaxCatTroubles,   \* bound: refusals, answers later than 3 s, a closed connection
    RigBacklog        \* bound: commands the rig still has to execute when the loop polls

ASSUME CatAssumption ==
    /\ CatCallers \intersect {"poll", "guard", "stop", "nobody"} = {}
    /\ MaxCatRequests \in Nat /\ MaxCatTroubles \in Nat /\ RigBacklog \in Nat

VARIABLES
    catConnected,   \* _connected
    catSocket,      \* "up", or "eof" once rigctld has closed it
    rigInput,       \* commands not executed yet: [cmd, live], live if its connection is
    rigKeyed,       \* the transmitter is on
    catLines,       \* lines sent by rigctld and not read yet
    catWaiter,      \* who waits in readline(), or "nobody"
    catTask,        \* task -> [pc, cmd, got]: its place in _cmd
    catPtt,         \* _ptt
    catGuard,       \* the watchdog: "none", "armed" or "fired"
    catOwed,        \* a key-down was confirmed, and no unkey written since
    catStopped,     \* stop() has begun
    catRequests, catTroubles

catVars == <<catConnected, catSocket, rigInput, rigKeyed, catLines, catWaiter, catTask,
             catPtt, catGuard, catOwed, catStopped, catRequests, catTroubles>>
catCounters == <<catRequests, catTroubles>>

CatTasks == CatCallers \union {"poll", "guard", "stop"}
Resting  == [pc |-> "rest", cmd |-> "none", got |-> 0]

-----------------------------------------------------------------------------
(* rigctld (external): executes commands in order.  A query is answered by  *)
(* its values, a setting by a report.                                       *)

Replies(cmd) ==
    CASE cmd = "m" -> <<"value", "value">>
      [] cmd = "t" -> <<IF rigKeyed THEN "1" ELSE "0">>
      [] cmd \in {"f", "_"} -> <<"value">>
      [] OTHER -> <<"RPRT">>

RigExecutes ==
    /\ rigInput # <<>>
    /\ rigInput' = Tail(rigInput)
    /\ LET next == Head(rigInput)
       IN  /\ rigKeyed' = CASE next.cmd = "T 1" -> TRUE
                            [] next.cmd = "T 0" -> FALSE
                            [] OTHER -> rigKeyed
           /\ catLines' = IF next.live /\ catSocket = "up" THEN catLines \o Replies(next.cmd) ELSE catLines
    /\ UNCHANGED <<catConnected, catSocket, catWaiter, catTask, catPtt, catGuard, catOwed,
                   catStopped, catCounters>>

\* The rig refuses the next command: "RPRT" and an error code, whatever was asked.
RigRefuses ==
    /\ rigInput # <<>> /\ catTroubles < MaxCatTroubles
    /\ rigInput' = Tail(rigInput) /\ catTroubles' = catTroubles + 1
    /\ catLines' = IF Head(rigInput).live /\ catSocket = "up" THEN Append(catLines, "refused") ELSE catLines
    /\ UNCHANGED <<catConnected, catSocket, rigKeyed, catWaiter, catTask, catPtt, catGuard,
                   catOwed, catStopped, catRequests>>

\* rigctld ends or closes the connection; what it was sent is still executed.
RigCloses ==
    /\ catSocket = "up" /\ catTroubles < MaxCatTroubles
    /\ catSocket' = "eof" /\ catTroubles' = catTroubles + 1
    /\ UNCHANGED <<catConnected, rigInput, rigKeyed, catLines, catWaiter, catTask, catPtt,
                   catGuard, catOwed, catStopped, catRequests>>

-----------------------------------------------------------------------------
(* _cmd.                                                                    *)

\* What is written after the server has closed is lost.
Sent(cmd) == IF catSocket = "up" THEN Append(rigInput, [cmd |-> cmd, live |-> TRUE]) ELSE rigInput

\* The command is written; the wait for its answer may be refused.
Write(t, cmd) ==
    /\ rigInput' = Sent(cmd)
    /\ catWaiter' = IF catWaiter = "nobody" THEN t ELSE catWaiter
    /\ catTask'  = [catTask EXCEPT ![t] =
                      [pc |-> IF catWaiter = "nobody" THEN "wait" ELSE "failed", cmd |-> cmd, got |-> 0]]
    /\ catOwed'  = (catOwed /\ ~(cmd = "T 0" /\ catSocket = "up"))

\* The line that completes an answer: its report, or enough values.
Completes(t, line) ==
    \/ line = "RPRT"
    \/ catTask[t].cmd \in {"f", "_", "t"}
    \/ catTask[t].cmd = "m" /\ catTask[t].got = 1

\* At the end of the stream readline() returns an empty line at once.
NextLine(line) ==
    \/ catLines # <<>> /\ line = Head(catLines) /\ catLines' = Tail(catLines)
    \/ catLines = <<>> /\ catSocket = "eof" /\ line = "" /\ UNCHANGED catLines

\* Reading goes on: a setting at the end of the stream never completes.
ReadsOn(t) ==
    /\ catWaiter = t
    /\ \E line \in {"value", "0", "1", ""} :
         /\ NextLine(line) /\ ~Completes(t, line)
         /\ catTask' = [catTask EXCEPT ![t].got = IF @ < 1 THEN @ + 1 ELSE @]
    /\ UNCHANGED <<catConnected, catSocket, rigInput, rigKeyed, catWaiter, catPtt, catGuard,
                   catOwed, catStopped, catCounters>>

\* No line for three seconds: the command fails, its answer may come later.
CmdTimesOut(t) ==
    /\ catWaiter = t /\ catLines = <<>> /\ catSocket = "up" /\ catTroubles < MaxCatTroubles
    /\ catTroubles' = catTroubles + 1
    /\ catWaiter' = "nobody"
    /\ catTask' = [catTask EXCEPT ![t].pc = "failed"]
    /\ UNCHANGED <<catConnected, catSocket, rigInput, rigKeyed, catLines, catPtt, catGuard,
                   catOwed, catStopped, catRequests>>

\* The line is a refusal, of this command or of one nobody waited for: it fails.
CmdRefused(t) ==
    /\ catWaiter = t
    /\ NextLine("refused")
    /\ catWaiter' = "nobody"
    /\ catTask' = [catTask EXCEPT ![t].pc = "failed"]
    /\ UNCHANGED <<catConnected, catSocket, rigInput, rigKeyed, catPtt, catGuard, catOwed,
                   catStopped, catCounters>>

\* The answer is complete, with `line` as its last.
Answered(t, line) ==
    /\ catWaiter = t
    /\ NextLine(line) /\ Completes(t, line)
    /\ catWaiter' = "nobody"

-----------------------------------------------------------------------------
(* The poll loop.  _get_freq and _get_mode return the last known value when *)
(* their command fails, so the loop goes on as if nothing had happened.     *)

\* A new connection: a wait on the old one is lost, and so are its answers.
PollConnects ==
    /\ ~catConnected /\ ~catStopped /\ catTask["poll"].pc = "rest" /\ catSocket = "up"
    /\ catConnected' = TRUE
    /\ rigInput' = Append([k \in DOMAIN rigInput |-> [rigInput[k] EXCEPT !.live = FALSE]],
                          [cmd |-> "_", live |-> TRUE])
    /\ catLines' = <<>>
    /\ catWaiter' = "poll"
    /\ catTask' = [t \in CatTasks |->
                     IF t = "poll" THEN [pc |-> "wait", cmd |-> "_", got |-> 0]
                     ELSE IF t = catWaiter THEN [catTask[t] EXCEPT !.pc = "failed"] ELSE catTask[t]]
    /\ UNCHANGED <<catSocket, rigKeyed, catPtt, catGuard, catOwed, catStopped, catCounters>>

PollAsks(cmd) ==
    /\ catConnected /\ ~catStopped /\ Len(rigInput) < RigBacklog
    /\ catLines = <<>> \/ catWaiter = "nobody"   \* lines are read long before the next poll
    /\ \/ cmd = "f" /\ catTask["poll"].pc = "rest"
       \/ cmd = "m" /\ catTask["poll"].pc = "asked" /\ catTask["poll"].cmd = "f"
    /\ Write("poll", cmd)
    /\ UNCHANGED <<catConnected, catSocket, rigKeyed, catLines, catPtt, catGuard, catStopped, catCounters>>

AfterPoll == IF catTask["poll"].cmd = "f" THEN [catTask["poll"] EXCEPT !.pc = "asked"] ELSE Resting

PollAnswered ==
    /\ \E line \in {"value", "0", "1", "RPRT", ""} : Answered("poll", line)
    /\ catTask' = [catTask EXCEPT !["poll"] = AfterPoll]
    /\ UNCHANGED <<catConnected, catSocket, rigInput, rigKeyed, catPtt, catGuard, catOwed,
                   catStopped, catCounters>>

PollFails ==
    /\ catTask["poll"].pc = "failed"
    /\ catTask' = [catTask EXCEPT !["poll"] = AfterPoll]
    /\ catConnected' = IF catTask["poll"].cmd = "_" THEN FALSE ELSE catConnected
    /\ UNCHANGED <<catSocket, rigInput, rigKeyed, catLines, catWaiter, catPtt, catGuard, catOwed,
                   catStopped, catCounters>>

-----------------------------------------------------------------------------
(* Requests and the watchdog: set_ptt, set_freq, set_mode, get_ptt.         *)

\* Seeded fault: a request to key or unkey cancels the watchdog first.
GuardAtRequestDisarmed(cmd) == IF cmd \in {"T 0", "T 1"} THEN "none" ELSE catGuard

\* The watchdog while a command is being sent.
GuardAtRequest(cmd) == catGuard

\* A request is refused without a connection.
Request(c, cmd) ==
    /\ catConnected /\ ~catStopped /\ catTask[c].pc = "rest" /\ catRequests < MaxCatRequests
    /\ catRequests' = catRequests + 1
    /\ Write(c, cmd)
    /\ catGuard' = GuardAtRequest(cmd)
    /\ UNCHANGED <<catConnected, catSocket, rigKeyed, catLines, catPtt, catStopped, catTroubles>>

\* set_ptt succeeded: the flag, and a watchdog only for a keyed transmitter.
Keyed(on) ==
    /\ catPtt' = on
    /\ catGuard' = IF on THEN "armed" ELSE "none"
    /\ catOwed' = (catOwed \/ on)

RequestAnswered(c) ==
    /\ \E line \in {"value", "0", "1", "RPRT", ""} :
         /\ Answered(c, line)
         /\ CASE catTask[c].cmd = "T 1" -> Keyed(TRUE)
              [] catTask[c].cmd = "T 0" -> Keyed(FALSE)
              [] catTask[c].cmd = "t"   -> catPtt' = (line = "1") /\ UNCHANGED <<catGuard, catOwed>>
              [] OTHER -> UNCHANGED <<catPtt, catGuard, catOwed>>
    /\ catTask' = [catTask EXCEPT ![c] = Resting]
    /\ UNCHANGED <<catConnected, catSocket, rigInput, rigKeyed, catStopped, catCounters>>

\* A failed request changes nothing; one to key or unkey then asks get_ptt().
RequestFails(c) ==
    /\ catTask[c].pc = "failed"
    /\ IF catTask[c].cmd \in {"T 0", "T 1"} /\ catConnected
       THEN Write(c, "t")
       ELSE catTask' = [catTask EXCEPT ![c] = Resting] /\ UNCHANGED <<rigInput, catWaiter, catOwed>>
    /\ UNCHANGED <<catConnected, catSocket, rigKeyed, catLines, catPtt, catGuard, catStopped, catCounters>>

\* _ptt_timeout_guard: max_ptt_seconds have passed.  It tries once.
GuardFires ==
    /\ catGuard = "armed" /\ catTask["guard"].pc = "rest"
    /\ IF catConnected
       THEN Write("guard", "T 0")
       ELSE UNCHANGED <<rigInput, catWaiter, catTask, catOwed>>
    /\ catGuard' = "fired"
    /\ UNCHANGED <<catConnected, catSocket, rigKeyed, catLines, catPtt, catStopped, catCounters>>

GuardAnswered ==
    /\ \E line \in {"value", "0", "1", "RPRT", ""} : Answered("guard", line)
    /\ catTask' = [catTask EXCEPT !["guard"] = Resting]
    /\ Keyed(FALSE)
    /\ UNCHANGED <<catConnected, catSocket, rigInput, rigKeyed, catStopped, catCounters>>

GuardFails ==
    /\ catTask["guard"].pc = "failed"
    /\ catTask' = [catTask EXCEPT !["guard"] = Resting]
    /\ UNCHANGED <<catConnected, catSocket, rigInput, rigKeyed, catLines, catWaiter, catPtt,
                   catGuard, catOwed, catStopped, catCounters>>

-----------------------------------------------------------------------------
(* stop(): the poll task and the watchdog are cancelled, a transmitter      *)
(* believed to be keyed is unkeyed, the connection is closed.               *)

CatStops ==
    /\ ~catStopped /\ catStopped' = TRUE
    /\ LET freed == IF catWaiter \in {"poll", "guard"} THEN "nobody" ELSE catWaiter
           tasks == [catTask EXCEPT !["poll"] = Resting, !["guard"] = Resting]
       IN  IF catPtt /\ catConnected
           THEN /\ rigInput'  = Sent("T 0")
                /\ catOwed'   = (catOwed /\ catSocket # "up")
                /\ catWaiter' = IF freed = "nobody" THEN "stop" ELSE freed
                /\ catTask'   = [tasks EXCEPT !["stop"] =
                                   [pc |-> IF freed = "nobody" THEN "wait" ELSE "failed", cmd |-> "T 0", got |-> 0]]
           ELSE /\ catWaiter' = freed
                /\ catTask' = [tasks EXCEPT !["stop"].pc = "failed"]
                /\ UNCHANGED <<rigInput, catOwed>>
    /\ catGuard' = "none"
    /\ UNCHANGED <<catConnected, catSocket, rigKeyed, catLines, catPtt, catCounters>>

CatDisconnects ==
    /\ catStopped /\ catConnected
    /\ \/ catTask["stop"].pc = "failed" /\ UNCHANGED <<catLines, catWaiter>>
       \/ \E line \in {"value", "0", "1", "RPRT", ""} : Answered("stop", line)
    /\ catConnected' = FALSE
    /\ catTask' = [catTask EXCEPT !["stop"] = Resting]
    /\ UNCHANGED <<catSocket, rigInput, rigKeyed, catPtt, catGuard, catOwed, catStopped, catCounters>>

-----------------------------------------------------------------------------
CatInit ==
    /\ catConnected = FALSE /\ catSocket = "up"
    /\ rigInput = <<>> /\ rigKeyed = FALSE
    /\ catLines = <<>> /\ catWaiter = "nobody"
    /\ catTask = [t \in CatTasks |-> Resting]
    /\ catPtt = FALSE /\ catGuard = "none" /\ catOwed = FALSE /\ catStopped = FALSE
    /\ catRequests = 0 /\ catTroubles = 0

CatStep ==
    \/ RigExecutes \/ PollConnects \/ PollAnswered \/ PollFails
    \/ GuardFires \/ GuardAnswered \/ GuardFails
    \/ \E cmd \in {"f", "m"} : PollAsks(cmd)
    \/ \E c \in CatCallers : RequestAnswered(c) \/ RequestFails(c)
    \/ \E t \in CatTasks : ReadsOn(t) \/ CmdRefused(t)
    \/ CatDisconnects

CatNext ==
    \/ CatStep \/ RigRefuses \/ RigCloses \/ CatStops
    \/ \E c \in CatCallers, cmd \in {"T 0", "T 1", "F"} : Request(c, cmd)
    \/ \E t \in CatTasks : CmdTimesOut(t)

\* Tasks with something to do are run, rigctld executes what it was sent, and
\* the watchdog's sleep ends.
CatFairness ==
    /\ WF_catVars(RigExecutes)
    /\ WF_catVars(GuardFires)
    /\ WF_catVars((PollConnects \/ PollAnswered \/ PollFails \/ \E cmd \in {"f", "m"} : PollAsks(cmd)))
    /\ WF_catVars((GuardAnswered \/ GuardFails))
    /\ \A c \in CatCallers : WF_catVars((RequestAnswered(c) \/ RequestFails(c)))
    /\ \A t \in CatTasks : WF_catVars((ReadsOn(t) \/ CmdRefused(t)))

CatSpec == CatInit /\ [][CatNext]_catVars /\ CatFairness

-----------------------------------------------------------------------------
(* Properties.                                                              *)

\* One coroutine waits for lines, a command belongs to its task, and an armed
\* watchdog implies a request that succeeded.
CatTypeOK ==
    /\ catConnected \in BOOLEAN /\ catPtt \in BOOLEAN /\ rigKeyed \in BOOLEAN
    /\ catWaiter \in CatTasks \union {"nobody"}
    /\ catWaiter # "nobody" => catTask[catWaiter].pc = "wait"
    /\ catGuard \in {"none", "armed", "fired"}
    /\ Len(rigInput) <= RigBacklog + 2 * MaxCatRequests + MaxCatTroubles + 2

\* A key-down that was confirmed to its caller is followed by an unkey command
\* to the rig (which may refuse it) -- the watchdog's if nobody else's -- although the poll loop and
\* other requests may be waiting on the same socket when it fires, as long as
\* the connection stands and the program is not stopping.
ConfirmedKeyIsReleased ==
    (catOwed /\ catGuard = "armed") ~>
        (~catOwed \/ ~catConnected \/ catSocket = "eof" \/ catStopped)

\* set_ptt: "a lost connection or forgotten unkey never leaves the rig
\* transmitting".
NeverLeftKeyed == rigKeyed ~> ~rigKeyed
=============================================================================
