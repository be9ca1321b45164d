--------------------------- MODULE DeliveryStatus ---------------------------
(***************************************************************************)
(* What an operator may learn of the messages sent: one verdict at most,   *)
(* and a true one; an entry in the log that follows it.  The log may fall  *)
(* behind or miss the verdict (a write is lost), and until the send is     *)
(* over its own "sent" may replace a verdict that came early; after that   *)
(* an entry changes only from no verdict to the verdict.                   *)
(*                                                                         *)
(* Outbound implements this for the radios that correlate by packet id.    *)
(***************************************************************************)
CONSTANT Messages

VARIABLES
    phase,     \* message -> "due", "under way" or "over": its send
    truth,     \* message -> "none" (not on the air), "air", "refused" or "acked"
    verdict,   \* message -> what the web clients were told: "nothing" or a verdict
    entry      \* message -> its status in the log

statusVars == <<phase, truth, verdict, entry>>

Truthful(m, v) ==
    \/ v = "delivered" /\ truth[m] = "acked"
    \/ v = "failed" /\ truth[m] \in {"none", "refused"}

StatusInit ==
    /\ phase   = [m \in Messages |-> "due"]
    /\ truth   = [m \in Messages |-> "none"]
    /\ verdict = [m \in Messages |-> "nothing"]
    /\ entry   = [m \in Messages |-> "absent"]

\* The radio cannot be reached.
Passes(m) ==
    /\ phase[m] = "due" /\ phase' = [phase EXCEPT ![m] = "over"]
    /\ UNCHANGED <<truth, verdict, entry>>

\* It is handed the message, and has it or not.
Begins(m) ==
    /\ phase[m] = "due" /\ phase' = [phase EXCEPT ![m] = "under way"]
    /\ \E has \in {"none", "air"} : truth' = [truth EXCEPT ![m] = has]
    /\ UNCHANGED <<verdict, entry>>

\* The station it was sent to has it, or the radio gave up.
IsAnswered(m) ==
    /\ phase[m] # "due" /\ truth[m] = "air"
    /\ \E is \in {"acked", "refused"} : truth' = [truth EXCEPT ![m] = is]
    /\ UNCHANGED <<phase, verdict, entry>>

Tell(m) ==
    /\ phase[m] # "due" /\ verdict[m] = "nothing"
    /\ \E v \in {"delivered", "failed"} : Truthful(m, v) /\ verdict' = [verdict EXCEPT ![m] = v]
    /\ UNCHANGED <<phase, truth, entry>>

\* The message is in the log, with no status; of a send that failed the clients
\* are told at once.
Enter(m) ==
    /\ phase[m] = "under way" /\ entry[m] = "absent"
    /\ entry' = [entry EXCEPT ![m] = "none"]
    /\ \/ UNCHANGED verdict
       \/ verdict[m] = "nothing" /\ Truthful(m, "failed") /\ verdict' = [verdict EXCEPT ![m] = "failed"]
    /\ UNCHANGED <<phase, truth>>

MarkSent(m) ==
    /\ phase[m] = "under way" /\ entry[m] # "absent"
    /\ entry' = [entry EXCEPT ![m] = "sent_to_air"]
    /\ UNCHANGED <<phase, truth, verdict>>

MarkVerdict(m) ==
    /\ entry[m] \in {"none", "sent_to_air"} /\ verdict[m] # "nothing"
    /\ entry' = [entry EXCEPT ![m] = verdict[m]]
    /\ UNCHANGED <<phase, truth, verdict>>

\* What was sent is in the log by the time the send is over.
Ends(m) ==
    /\ phase[m] = "under way" /\ entry[m] # "absent"
    /\ phase' = [phase EXCEPT ![m] = "over"]
    /\ UNCHANGED <<truth, verdict, entry>>

StatusNext ==
    \E m \in Messages :
        \/ Passes(m) \/ Begins(m) \/ Ends(m)
        \/ IsAnswered(m) \/ Tell(m)
        \/ Enter(m) \/ MarkSent(m) \/ MarkVerdict(m)

StatusSpec == StatusInit /\ [][StatusNext]_statusVars
=============================================================================
