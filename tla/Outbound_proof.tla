--------------------------- MODULE Outbound_proof ----------------------------
(***************************************************************************)
(* Proofs about Outbound, for any number of calls, targets and radios: the *)
(* types, that everything transmitted is logged, and what the operator is  *)
(* told on the radios that correlate by packet id.                         *)
(***************************************************************************)
EXTENDS Outbound, TLAPS

\* Where a message is in its call: its turn has not come, or its send has not
\* returned with success.
Begun(m) == pos[m[1]] > m[2] \/ (pos[m[1]] = m[2] /\ step[m[1]] # "look")
Early(m) == pos[m[1]] < m[2] \/ (pos[m[1]] = m[2] /\ step[m[1]] \in {"look", "sending", "store failed"})

\* A call that has a target in hand.
CallsInv ==
    \A c \in Calls :
       /\ step[c] \in {"sending", "store sent", "store failed", "reporting", "raised"} => Current(c) \in Sent
       /\ step[c] = "store failed" => air[Current(c)] = "none"

\* The radio knows nothing of a message whose turn has not come.
AirInv == \A m \in Sent : ~Begun(m) => air[m] = "none"

\* An answer on its way is about a message of that radio, and true.
FramesInv ==
    \A r \in ById : \A i \in DOMAIN frames[r] :
       /\ frames[r][i].msg \in Sent /\ frames[r][i].kind # "accepted"
       /\ frames[r][i].kind = air[frames[r][i].msg]

\* One verdict per message: it is awaited, on its way to the row, or in the row.
VerdictOf(m) ==
    /\ Early(m) => told[m] = <<>> /\ m \notin pending
    /\ Len(told[m]) <= 1
    /\ m \in pending => told[m] = <<>>
    /\ row[m] \in Verdicts => told[m] # <<>>
    /\ \A r \in reports : r.msg = m /\ r.status \in Verdicts => told[m] # <<>> /\ row[m] \notin Verdicts
    /\ \A r, s \in reports : r.msg = m /\ s.msg = m /\ r.status \in Verdicts /\ s.status \in Verdicts => r = s
    /\ \A r \in reports : r.msg = m /\ r.status = "sent_to_air" =>
          r.by = m[1] /\ pos[m[1]] = m[2] /\ step[m[1]] = "reporting"

VerdictInv == \A m \in Keyed : VerdictOf(m)

\* What is shown, or about to be.
Claimed(m, s) == Shown(m, s) \/ \E r \in reports : r.msg = m /\ r.status = s

AnswersInv ==
    \A m \in Keyed :
       /\ Claimed(m, "delivered") => air[m] = "acked"
       /\ Claimed(m, "failed") => air[m] \in {"refused", "none"}

\* While send_tracked awaits the report of a message, the row is there, and has
\* its status unless the report is still under way.
LoggedInv ==
    /\ \A c \in Calls : step[c] = "reporting" =>
          /\ row[Current(c)] # "absent"
          /\ \/ row[Current(c)] \in Statuses \/ faults > 0
             \/ \E r \in reports : r.by = c /\ r.msg = Current(c)
    /\ EverySendIsLogged

IInv == OutboundTypeOK /\ CallsInv /\ AirInv /\ FramesInv /\ VerdictInv /\ AnswersInv /\ LoggedInv

-----------------------------------------------------------------------------
(* Messages and calls.                                                      *)

FrameSet  == [kind : {"accepted", "refused", "acked"}, msg : Sent \cup {NoMsg}]
ReportSet == [msg : Sent, status : Statuses, by : Calls \cup {Device}, at : {"select", "update"}]
Steps     == {"look", "sending", "store sent", "store failed", "reporting", "raised", "done"}
Airs      == {"none", "air", "accepted", "refused", "acked"}

LEMMA MessageParts ==
    ASSUME NEW m \in Sent
    PROVE  /\ m[1] \in Calls /\ m[2] \in Nat \ {0} /\ m = <<m[1], m[2]>>
           /\ RadioOf(m) \in Radios
<1>0. PICK c \in Calls : \E i \in DOMAIN Targets[c] : m = <<c, i>>
    BY DEF Sent
<1>1. PICK i \in DOMAIN Targets[c] : m = <<c, i>>
    BY <1>0
<1>2. Targets[c] \in Seq(Radios)
    BY OutboundAssumption
<1>3. i \in 1 .. Len(Targets[c]) /\ Len(Targets[c]) \in Nat /\ Targets[c][i] \in Radios
    BY <1>2
<1> QED
    BY <1>1, <1>3 DEF RadioOf

LEMMA TargetIsMessage ==
    ASSUME NEW c \in Calls, pos[c] \in Nat \ {0}, HasTarget(c)
    PROVE  Current(c) \in Sent /\ At(c) \in Radios /\ RadioOf(Current(c)) = At(c)
<1>1. Targets[c] \in Seq(Radios)
    BY OutboundAssumption
<1>2. pos[c] \in DOMAIN Targets[c] /\ Targets[c][pos[c]] \in Radios
    BY <1>1 DEF HasTarget
<1> QED
    BY <1>2 DEF Current, Sent, At, RadioOf

\* A call's current message is the one at its position, and no other call's.
LEMMA CurrentMessage ==
    ASSUME NEW m \in Sent, NEW c \in Calls
    PROVE  m = Current(c) <=> (m[1] = c /\ m[2] = pos[c])
    BY MessageParts DEF Current

-----------------------------------------------------------------------------
(* Types.                                                                   *)

LEMMA ReportTypes ==
    ASSUME OutboundTypeOK, NEW m \in Sent, NEW s \in Statuses, NEW by \in Calls \cup {Device}, Report(m, s, by)
    PROVE  told' \in [Sent -> Seq(Verdicts)] /\ reports' \subseteq ReportSet
<1>1. [msg |-> m, status |-> s, by |-> by, at |-> "select"] \in ReportSet
    BY DEF ReportSet
<1>2. reports' \subseteq ReportSet
    BY <1>1, Zenon DEF OutboundTypeOK, Report, ReportSet
<1>3. told' \in [Sent -> Seq(Verdicts)]
  <2>1. told \in [Sent -> Seq(Verdicts)]
      BY DEF OutboundTypeOK
  <2>2. CASE s \in Verdicts
    <3>1. Append(told[m], s) \in Seq(Verdicts)
        BY <2>1, <2>2
    <3> QED
        BY <2>1, <2>2, <3>1 DEF Report
  <2>3. CASE s \notin Verdicts
      BY <2>1, <2>3 DEF Report
  <2> QED
      BY <2>2, <2>3
<1> QED
    BY <1>2, <1>3

LEMMA AnswerTypes ==
    ASSUME OutboundTypeOK, NEW r \in Radios, NEW k \in {"accepted", "refused", "acked"},
           NEW m \in Sent \cup {NoMsg}
    PROVE  Answer(r, k, m) \in [Radios -> Seq(FrameSet)]
<1>1. frames \in [Radios -> Seq(FrameSet)]
    BY DEF OutboundTypeOK, FrameSet
<1>2. [kind |-> k, msg |-> m] \in FrameSet
    BY DEF FrameSet
<1>3. Append(frames[r], [kind |-> k, msg |-> m]) \in Seq(FrameSet)
    BY <1>1, <1>2
<1> QED
    BY <1>1, <1>3 DEF Answer

LEMMA TakeTypes ==
    ASSUME OutboundTypeOK, NEW r \in Radios, frames[r] # <<>>, TakeFrame(r)
    PROVE  frames' \in [Radios -> Seq(FrameSet)] /\ Head(frames[r]) \in FrameSet
<1>1. frames \in [Radios -> Seq(FrameSet)]
    BY DEF OutboundTypeOK, FrameSet
<1>2. Tail(frames[r]) \in Seq(FrameSet) /\ Head(frames[r]) \in FrameSet
    BY <1>1
<1> QED
    BY <1>1, <1>2 DEF TakeFrame

LEMMA InitTypes == OutboundInit => OutboundTypeOK
<1> SUFFICES ASSUME OutboundInit PROVE OutboundTypeOK
    OBVIOUS
<1>1. frames \in [Radios -> Seq(FrameSet)] /\ told \in [Sent -> Seq(Verdicts)]
    BY DEF OutboundInit
<1> QED
    BY <1>1 DEF OutboundInit, OutboundTypeOK, FrameSet

\* The types of the four groups of variables.
CallTypes ==
    step \in [Calls -> Steps] /\ pos \in [Calls -> Nat \ {0}] /\ paged \subseteq Urgent

PendingTypes == pending \subseteq {m \in Sent : RadioOf(m) \in ById /\ air[m] # "none"}

RadioTypes ==
    /\ up \subseteq Radios /\ lastIsSend \subseteq Radios
    /\ air \in [Sent -> Airs] /\ frames \in [Radios -> Seq(FrameSet)] /\ PendingTypes
    /\ last \in [Radios -> Sent \cup {NoMsg}] /\ \A r \in Radios : last[r] = NoMsg \/ RadioOf(last[r]) = r

StatusTypes ==
    /\ row \in [Sent -> Statuses \cup {"none", "absent"}]
    /\ told \in [Sent -> Seq(Verdicts)] /\ reports \subseteq ReportSet

CountTypes == faults \in Nat /\ troubles \in Nat

LEMMA TypeParts ==
    /\ OutboundTypeOK <=> CallTypes /\ RadioTypes /\ StatusTypes /\ CountTypes
    /\ OutboundTypeOK' <=> CallTypes' /\ RadioTypes' /\ StatusTypes' /\ CountTypes'
    BY Zenon DEF OutboundTypeOK, CallTypes, RadioTypes, PendingTypes, StatusTypes, CountTypes, FrameSet, ReportSet,
           Steps, Airs

LEMMA Unchanged ==
    /\ UNCHANGED calls /\ CallTypes => CallTypes'
    /\ UNCHANGED radio /\ RadioTypes => RadioTypes'
    /\ UNCHANGED status /\ StatusTypes => StatusTypes'
    /\ UNCHANGED counts /\ CountTypes => CountTypes'
<1>1. UNCHANGED calls /\ CallTypes => CallTypes'
    BY Zenon DEF calls, CallTypes
<1>2. UNCHANGED radio /\ RadioTypes => RadioTypes'
    BY Zenon DEF radio, RadioTypes, PendingTypes
<1>3. UNCHANGED status /\ StatusTypes => StatusTypes'
    BY Zenon DEF status, StatusTypes
<1>4. UNCHANGED counts /\ CountTypes => CountTypes'
    BY Zenon DEF counts, CountTypes
<1> QED
    BY <1>1, <1>2, <1>3, <1>4

LEMMA StepTypes == OutboundTypeOK /\ CallsInv /\ [OutboundNext]_vars => OutboundTypeOK'
<1> SUFFICES ASSUME OutboundTypeOK, CallsInv, [OutboundNext]_vars PROVE OutboundTypeOK'
    OBVIOUS
<1>t. CallTypes /\ RadioTypes /\ StatusTypes /\ CountTypes
    BY TypeParts
<1>u. CallTypes' /\ RadioTypes' /\ StatusTypes' /\ CountTypes' => OutboundTypeOK'
    BY TypeParts
<1>a. ASSUME NEW c \in Calls,
             step[c] \in {"sending", "store sent", "store failed", "reporting"}
      PROVE  Current(c) \in Sent
    BY <1>a DEF CallsInv
<1>b. ASSUME NEW c \in Calls, HasTarget(c)
      PROVE  Current(c) \in Sent /\ At(c) \in Radios /\ RadioOf(Current(c)) = At(c)
    BY <1>b, <1>t, TargetIsMessage DEF CallTypes
<1>1. ASSUME NEW c \in Calls, Skip(c) PROVE OutboundTypeOK'
  <2>1. CallTypes'
      BY <1>1, <1>t DEF Skip, CallTypes
  <2> QED
      BY <1>1, <2>1, <1>t, <1>u, Unchanged DEF Skip
<1>2. ASSUME NEW c \in Calls, Transmit(c) PROVE OutboundTypeOK'
  <2>1. CallTypes'
      BY <1>2, <1>t DEF Transmit, CallTypes, Steps
  <2>2. RadioTypes'
    <3>1. air' \in [Sent -> Airs] /\ \A m \in Sent : air[m] # "none" => air'[m] # "none"
        BY <1>2, <1>t DEF Transmit, RadioTypes, Airs
    <3>2. PendingTypes'
        BY <1>2, <1>t, <3>1 DEF Transmit, RadioTypes, PendingTypes
    <3>3. last' \in [Radios -> Sent \cup {NoMsg}] /\ \A r \in Radios : last'[r] = NoMsg \/ RadioOf(last'[r]) = r
        BY <1>2, <1>b, <1>t DEF Transmit, RadioTypes
    <3>4. up' \subseteq Radios /\ lastIsSend' \subseteq Radios /\ frames' = frames
        BY <1>2, <1>b, <1>t DEF Transmit, RadioTypes
    <3> QED
        BY <3>1, <3>2, <3>3, <3>4, <1>t DEF RadioTypes
  <2> QED
      BY <1>2, <2>1, <2>2, <1>t, <1>u, Unchanged DEF Transmit
<1>3. ASSUME NEW c \in Calls, SendReturns(c) PROVE OutboundTypeOK'
  <2>1. CallTypes'
      BY <1>3, <1>t DEF SendReturns, CallTypes, Steps
  <2>2. PendingTypes'
    <3>1. Current(c) \in Sent /\ air[Current(c)] # "none"
        BY <1>3, <1>a DEF SendReturns
    <3>2. RadioOf(Current(c)) = At(c)
        BY DEF RadioOf, Current, At
    <3> QED
        BY <1>3, <3>1, <3>2, <1>t DEF SendReturns, RadioTypes, PendingTypes
  <2>3. RadioTypes'
      BY <1>3, <2>2, <1>t DEF SendReturns, RadioTypes
  <2> QED
      BY <1>3, <2>1, <2>3, <1>t, <1>u, Unchanged DEF SendReturns
<1>4. ASSUME NEW c \in Calls, SendFails(c) PROVE OutboundTypeOK'
  <2>1. CallTypes'
      BY <1>4, <1>t DEF SendFails, CallTypes, Steps
  <2> QED
      BY <1>4, <2>1, <1>t, <1>u, Unchanged DEF SendFails
<1>5. ASSUME NEW c \in Calls, Store(c) PROVE OutboundTypeOK'
  <2>1. Current(c) \in Sent /\ Outcome(c) \in Statuses
      BY <1>5, <1>a DEF Store, Storing, Outcome, Statuses, Verdicts
  <2>2. told' \in [Sent -> Seq(Verdicts)] /\ reports' \subseteq ReportSet
      BY <1>5, <2>1, ReportTypes DEF Store
  <2>3. StatusTypes'
      BY <1>5, <2>1, <2>2, <1>t DEF Store, StatusTypes
  <2>4. CallTypes'
      BY <1>5, <1>t DEF Store, CallTypes, Steps
  <2> QED
      BY <1>5, <2>3, <2>4, <1>t, <1>u, Unchanged DEF Store
<1>6. ASSUME NEW c \in Calls, Reported(c) PROVE OutboundTypeOK'
  <2>1. pos[c] + 1 \in Nat \ {0}
      BY <1>t DEF CallTypes
  <2>2. CallTypes'
      BY <1>6, <2>1, <1>t DEF Reported, CallTypes, Steps
  <2> QED
      BY <1>6, <2>2, <1>t, <1>u, Unchanged DEF Reported
<1>7. ASSUME NEW c \in Calls, Finish(c) PROVE OutboundTypeOK'
  <2>1. CallTypes'
      BY <1>7, <1>t DEF Finish, CallTypes, Steps
  <2> QED
      BY <1>7, <2>1, <1>t, <1>u, Unchanged DEF Finish
<1>8. ASSUME NEW c \in Calls, StoreFails(c) PROVE OutboundTypeOK'
  <2>1. CallTypes'
      BY <1>8, <1>t DEF StoreFails, CallTypes, Steps
  <2>2. CountTypes'
      BY <1>8, <1>t DEF StoreFails, CountTypes
  <2> QED
      BY <1>8, <2>1, <2>2, <1>t, <1>u, Unchanged DEF StoreFails
<1>9. ASSUME NEW r \in Radios, HandleRouting(r) PROVE OutboundTypeOK'
  <2>1. frames' \in [Radios -> Seq(FrameSet)]
      BY <1>9, TakeTypes DEF HandleRouting
  <2>2. told' \in [Sent -> Seq(Verdicts)] /\ reports' \subseteq ReportSet
    <3>1. CASE About(r, Head(frames[r])) = {}
        BY <1>9, <3>1, <1>t DEF HandleRouting, StatusTypes
    <3>2. CASE About(r, Head(frames[r])) # {}
      <4>1. PICK m \in About(r, Head(frames[r])) :
                Report(m, IF Head(frames[r]).kind = "acked" THEN "delivered" ELSE "failed", Device)
          BY <1>9, <3>2 DEF HandleRouting
      <4>2. m \in Sent
          BY <4>1, <1>t DEF About, RadioTypes, PendingTypes
      <4> QED
          BY <4>1, <4>2, ReportTypes DEF Statuses, Verdicts
    <3> QED
        BY <3>1, <3>2
  <2>3. pending' \subseteq pending
      BY <1>9 DEF HandleRouting
  <2>4. RadioTypes'
      BY <1>9, <2>1, <2>3, <1>t DEF HandleRouting, RadioTypes, PendingTypes
  <2>5. StatusTypes'
      BY <1>9, <2>2, <1>t DEF HandleRouting, StatusTypes
  <2> QED
      BY <1>9, <2>4, <2>5, <1>t, <1>u, Unchanged DEF HandleRouting
<1>10. ASSUME NEW r \in Radios, HandlePush(r) PROVE OutboundTypeOK'
  <2>1. frames' \in [Radios -> Seq(FrameSet)] /\ Head(frames[r]) \in FrameSet
      BY <1>10, TakeTypes DEF HandlePush
  <2>2. told' \in [Sent -> Seq(Verdicts)] /\ reports' \subseteq ReportSet
    <3> DEFINE kind == Head(frames[r]).kind
               s == CASE kind = "accepted" -> "sent_to_air"
                      [] kind = "acked"    -> "confirmed"
                      [] kind = "refused"  -> "failed"
    <3>1. s \in Statuses
        BY <2>1 DEF FrameSet, Statuses, Verdicts
    <3>2. \/ last[r] # NoMsg /\ Report(last[r], s, Device)
          \/ UNCHANGED <<told, reports>>
        BY <1>10 DEF HandlePush
    <3>3. last[r] # NoMsg => last[r] \in Sent
        BY <1>t DEF RadioTypes
    <3> HIDE DEF s
    <3> QED
        BY <3>1, <3>2, <3>3, <1>t, ReportTypes DEF StatusTypes
  <2>3. last' \in [Radios -> Sent \cup {NoMsg}] /\ \A q \in Radios : last'[q] = NoMsg \/ RadioOf(last'[q]) = q
      BY <1>10, <1>t DEF HandlePush, RadioTypes
  <2>4. RadioTypes'
      BY <1>10, <2>1, <2>3, <1>t DEF HandlePush, RadioTypes, PendingTypes
  <2>5. StatusTypes'
      BY <1>10, <2>2, <1>t DEF HandlePush, StatusTypes
  <2> QED
      BY <1>10, <2>4, <2>5, <1>t, <1>u, Unchanged DEF HandlePush
<1>11. ASSUME NEW r \in reports, Select(r) PROVE OutboundTypeOK'
  <2>1. [r EXCEPT !.at = "update"] \in ReportSet
      BY <1>t DEF StatusTypes, ReportSet
  <2>2. StatusTypes'
      BY <1>11, <2>1, <1>t DEF Select, StatusTypes
  <2> QED
      BY <1>11, <2>2, <1>t, <1>u, Unchanged DEF Select
<1>12. ASSUME NEW r \in reports, Update(r) PROVE OutboundTypeOK'
  <2>1. r.status \in Statuses
      BY <1>t DEF StatusTypes, ReportSet
  <2>2. StatusTypes'
      BY <1>12, <2>1, <1>t DEF Update, StatusTypes
  <2> QED
      BY <1>12, <2>2, <1>t, <1>u, Unchanged DEF Update
<1>13. ASSUME NEW r \in reports, StatusLost(r) PROVE OutboundTypeOK'
  <2>1. StatusTypes'
      BY <1>13, <1>t DEF StatusLost, StatusTypes
  <2>2. CountTypes'
      BY <1>13, <1>t DEF StatusLost, CountTypes
  <2> QED
      BY <1>13, <2>1, <2>2, <1>t, <1>u, Unchanged DEF StatusLost
<1>c. ASSUME NEW m \in Sent, NEW a \in Airs \ {"none"}, air' = [air EXCEPT ![m] = a],
             frames' \in [Radios -> Seq(FrameSet)], UNCHANGED <<up, pending, last, lastIsSend>>
      PROVE  RadioTypes'
    BY <1>c, <1>t DEF RadioTypes, PendingTypes, Airs
<1>14. ASSUME NEW m \in Sent, Accepts(m) PROVE OutboundTypeOK'
  <2>1. frames' \in [Radios -> Seq(FrameSet)]
      BY <1>14, MessageParts, AnswerTypes DEF Accepts
  <2>2. RadioTypes'
      BY <1>14, <2>1, <1>c DEF Accepts, Airs
  <2> QED
      BY <1>14, <2>2, <1>t, <1>u, Unchanged DEF Accepts
<1>15. ASSUME NEW m \in Sent, Refuses(m) PROVE OutboundTypeOK'
  <2>1. frames' \in [Radios -> Seq(FrameSet)]
      BY <1>15, MessageParts, AnswerTypes DEF Refuses
  <2>2. RadioTypes'
      BY <1>15, <2>1, <1>c DEF Refuses, Airs
  <2> QED
      BY <1>15, <2>2, <1>t, <1>u, Unchanged DEF Refuses
<1>16. ASSUME NEW m \in Sent, Acks(m) PROVE OutboundTypeOK'
  <2>1. frames' \in [Radios -> Seq(FrameSet)]
      BY <1>16, MessageParts, AnswerTypes DEF Acks
  <2>2. RadioTypes'
      BY <1>16, <2>1, <1>c DEF Acks, Airs
  <2>3. CountTypes'
      BY <1>16, <1>t DEF Acks, CountTypes
  <2> QED
      BY <1>16, <2>2, <2>3, <1>t, <1>u, Unchanged DEF Acks
<1>17. ASSUME NEW r \in Radios, OtherCommand(r) PROVE OutboundTypeOK'
  <2>1. frames' \in [Radios -> Seq(FrameSet)]
      BY <1>17, AnswerTypes DEF OtherCommand
  <2>2. RadioTypes'
      BY <1>17, <2>1, <1>t DEF OtherCommand, RadioTypes, PendingTypes
  <2>3. CountTypes'
      BY <1>17, <1>t DEF OtherCommand, CountTypes
  <2> QED
      BY <1>17, <2>2, <2>3, <1>t, <1>u, Unchanged DEF OtherCommand
<1>18. ASSUME NEW r \in Radios, LinkDrops(r) PROVE OutboundTypeOK'
  <2>1. frames' \in [Radios -> Seq(FrameSet)]
    <3>1. <<>> \in Seq(FrameSet)
        OBVIOUS
    <3> QED
        BY <1>18, <3>1, <1>t DEF LinkDrops, RadioTypes
  <2>2. RadioTypes'
      BY <1>18, <2>1, <1>t DEF LinkDrops, RadioTypes, PendingTypes
  <2>3. CountTypes'
      BY <1>18, <1>t DEF LinkDrops, CountTypes
  <2> QED
      BY <1>18, <2>2, <2>3, <1>t, <1>u, Unchanged DEF LinkDrops
<1>19. ASSUME NEW r \in Radios, LinkReturns(r) PROVE OutboundTypeOK'
  <2>1. RadioTypes'
      BY <1>19, <1>t DEF LinkReturns, RadioTypes, PendingTypes
  <2> QED
      BY <1>19, <2>1, <1>t, <1>u, Unchanged DEF LinkReturns
<1>20. CASE UNCHANGED vars
    BY <1>20, <1>t, <1>u, Unchanged DEF vars
<1> QED
    BY <1>1, <1>2, <1>3, <1>4, <1>5, <1>6, <1>7, <1>8, <1>9, <1>10, <1>11, <1>12, <1>13, <1>14, <1>15,
       <1>16, <1>17, <1>18, <1>19, <1>20
    DEF OutboundNext, CallStep, Handle, Persist, World

-----------------------------------------------------------------------------
(* The calls and the air.                                                   *)

LEMMA InitRest == OutboundInit => CallsInv /\ AirInv /\ FramesInv /\ VerdictInv /\ AnswersInv /\ LoggedInv
<1> SUFFICES ASSUME OutboundInit PROVE CallsInv /\ AirInv /\ FramesInv /\ VerdictInv /\ AnswersInv /\ LoggedInv
    OBVIOUS
<1> USE DEF OutboundInit
<1>1. CallsInv /\ AirInv
    BY DEF CallsInv, AirInv
<1>2. FramesInv
    BY OutboundAssumption DEF FramesInv
<1>3. VerdictInv
    BY DEF VerdictInv, VerdictOf, Keyed, Verdicts
<1>4. AnswersInv
    BY DEF AnswersInv, Keyed, Claimed, Shown
<1>5. LoggedInv
    BY DEF LoggedInv, EverySendIsLogged
<1> QED
    BY <1>1, <1>2, <1>3, <1>4, <1>5

\* Of a call's own steps: where the call stands, and that others stay there.
LEMMA CallMoves ==
    ASSUME CallTypes, NEW c \in Calls, CallStep(c) \/ StoreFails(c)
    PROVE  /\ \A d \in Calls \ {c} : step'[d] = step[d] /\ pos'[d] = pos[d]
           /\ \/ pos'[c] = pos[c] /\ step'[c] # "look"
              \/ pos'[c] = pos[c] + 1 /\ step'[c] = "look" /\ step[c] \in {"look", "reporting"}
           /\ step'[c] \in {"sending", "store failed"} => step[c] \in {"look", "sending"}
<1> USE DEF CallTypes
<1>1. CASE Skip(c)
    BY <1>1 DEF Skip, HasTarget
<1>2. CASE Transmit(c)
    BY <1>2 DEF Transmit, HasTarget
<1>3. CASE SendReturns(c) \/ SendFails(c) \/ Store(c) \/ Finish(c) \/ StoreFails(c)
    BY <1>3 DEF SendReturns, SendFails, Store, Finish, StoreFails
<1>4. CASE Reported(c)
    BY <1>4 DEF Reported
<1> QED
    BY <1>1, <1>2, <1>3, <1>4 DEF CallStep

LEMMA OthersRest ==
    ASSUME NEW r,
           Handle(r) \/ Select(r) \/ Update(r) \/ StatusLost(r) \/ Accepts(r) \/ Refuses(r) \/ Acks(r)
             \/ OtherCommand(r) \/ LinkDrops(r) \/ LinkReturns(r)
    PROVE  UNCHANGED <<step, pos>>
    BY DEF Handle, HandleRouting, HandlePush, Select, Update, StatusLost, Accepts, Refuses, Acks, OtherCommand,
           LinkDrops, LinkReturns, calls

\* What becomes of a message in the air is decided by its send, then by the
\* radio.
LEMMA AirMoves ==
    ASSUME [OutboundNext]_vars
    PROVE  \/ air' = air
           \/ \E c \in Calls : Transmit(c)
           \/ \E m \in Sent : Accepts(m) \/ Refuses(m) \/ Acks(m)
    BY DEF OutboundNext, CallStep, Handle, Persist, World, vars, radio,
           Skip, SendReturns, SendFails, Store, Reported, Finish, StoreFails,
           HandleRouting, HandlePush, Select, Update, StatusLost, OtherCommand, LinkDrops, LinkReturns

\* The radio's own steps are about messages it has, and an answer a radio of
\* ById gave stays.
LEMMA RadioDecides ==
    ASSUME RadioTypes, NEW m \in Sent, Accepts(m) \/ Refuses(m) \/ Acks(m)
    PROVE  /\ air[m] # "none" /\ air'[m] # "none"
           /\ \A x \in Sent \ {m} : air'[x] = air[x]
           /\ m \in Keyed => air[m] \in {"air", "acked"} /\ air'[m] \in {"refused", "acked"}
           /\ m \in Keyed /\ air[m] = "acked" => air'[m] = "acked"
    BY DEF RadioTypes, Accepts, Refuses, Acks, Keyed

LEMMA StepCalls == OutboundTypeOK /\ CallsInv /\ [OutboundNext]_vars => CallsInv'
<1> SUFFICES ASSUME OutboundTypeOK, CallsInv, [OutboundNext]_vars, NEW d \in Calls
             PROVE  /\ step'[d] \in {"sending", "store sent", "store failed", "reporting", "raised"} =>
                           <<d, pos'[d]>> \in Sent
                    /\ step'[d] = "store failed" => air'[<<d, pos'[d]>>] = "none"
    BY DEF CallsInv, Current
<1>t. CallTypes /\ RadioTypes
    BY TypeParts
<1>d. /\ step[d] \in {"sending", "store sent", "store failed", "reporting", "raised"} => <<d, pos[d]>> \in Sent
      /\ step[d] = "store failed" => air[<<d, pos[d]>>] = "none"
    BY DEF CallsInv, Current
<1>1. CASE \E c \in Calls : CallStep(c) \/ StoreFails(c)
  <2>1. PICK c \in Calls : CallStep(c) \/ StoreFails(c)
      BY <1>1
  <2>2. CASE d # c
    <3>1. step'[d] = step[d] /\ pos'[d] = pos[d]
        BY <2>1, <2>2, <1>t, CallMoves
    <3>2. step[d] = "store failed" => air'[<<d, pos[d]>>] = air[<<d, pos[d]>>]
        BY <2>1, <2>2, <1>t, <1>d DEF CallStep, Skip, Transmit, SendReturns, SendFails, Store, Reported, Finish,
              StoreFails, radio, Current, RadioTypes
    <3> QED
        BY <3>1, <3>2, <1>d
  <2>3. CASE d = c
    <3> USE <2>3, <1>t DEF CallTypes
    <3>1. CASE Skip(c) \/ Reported(c) \/ Finish(c)
        BY <3>1 DEF Skip, Reported, Finish, HasTarget
    <3>2. CASE Transmit(c)
      <4>1. <<c, pos[c]>> \in Sent
          BY <3>2, TargetIsMessage DEF Transmit, Current
      <4> QED
          BY <3>2, <4>1 DEF Transmit
    <3>3. CASE SendReturns(c) \/ SendFails(c) \/ Store(c) \/ StoreFails(c)
        BY <3>3, <1>d DEF SendReturns, SendFails, Store, StoreFails, Storing, Current, radio
    <3> QED
        BY <2>1, <3>1, <3>2, <3>3 DEF CallStep
  <2> QED
      BY <2>2, <2>3
<1>2. CASE \E m \in Sent : Accepts(m) \/ Refuses(m) \/ Acks(m)
  <2>1. PICK m \in Sent : Accepts(m) \/ Refuses(m) \/ Acks(m)
      BY <1>2
  <2>2. step' = step /\ pos' = pos
      BY <2>1, OthersRest
  <2>3. \A x \in Sent : air[x] = "none" => air'[x] = "none"
      BY <2>1, <1>t, RadioDecides
  <2> QED
      BY <2>2, <2>3, <1>d
<1>3. CASE UNCHANGED <<step, pos, air>>
    BY <1>3, <1>d
<1>4. ASSUME NEW r, Handle(r) \/ Select(r) \/ Update(r) \/ StatusLost(r) \/ OtherCommand(r) \/ LinkDrops(r) \/ LinkReturns(r)
      PROVE  UNCHANGED <<step, pos, air>>
    BY <1>4 DEF Handle, HandleRouting, HandlePush, Select, Update, StatusLost, OtherCommand,
           LinkDrops, LinkReturns, calls, radio
<1>5. UNCHANGED vars => UNCHANGED <<step, pos, air>>
    BY DEF vars, calls, radio
<1> QED
    BY <1>1, <1>2, <1>3, <1>4, <1>5 DEF OutboundNext, Persist, World

LEMMA BegunStays ==
    ASSUME CallTypes, [OutboundNext]_vars, NEW m \in Sent
    PROVE  Begun(m) => Begun(m)'
<1>p. m[1] \in Calls /\ m[2] \in Nat \ {0}
    BY MessageParts
<1>1. CASE \E c \in Calls : CallStep(c) \/ StoreFails(c)
  <2>1. PICK c \in Calls : CallStep(c) \/ StoreFails(c)
      BY <1>1
  <2>2. CASE c = m[1]
    <3> DEFINE d == m[1]
    <3>1. \/ pos'[d] = pos[d] /\ step'[d] # "look"
          \/ pos'[d] = pos[d] + 1 /\ step'[d] = "look"
        BY <2>1, <2>2, <1>p, CallMoves
    <3>2. step'[d] \in {"sending", "store failed"} => step[d] \in {"look", "sending"}
        BY <2>1, <2>2, <1>p, CallMoves
    <3>3. pos[d] \in Nat /\ m[2] \in Nat
        BY <1>p DEF CallTypes
    <3> QED
      <4>1. CASE pos'[d] = pos[d] /\ step'[d] # "look"
          BY <3>2, <3>3, <4>1 DEF Begun
      <4>2. CASE pos'[d] = pos[d] + 1 /\ step'[d] = "look"
          BY <3>3, <4>2 DEF Begun
      <4> QED
          BY <3>1, <4>1, <4>2
  <2>3. CASE c # m[1]
    <3>1. step'[m[1]] = step[m[1]] /\ pos'[m[1]] = pos[m[1]]
        BY <2>1, <2>3, <1>p, CallMoves
    <3> QED
        BY <3>1 DEF Begun
  <2> QED
      BY <2>2, <2>3
<1>2. CASE UNCHANGED <<step, pos>>
    BY <1>2 DEF Begun
<1>3. UNCHANGED vars => UNCHANGED <<step, pos>>
    BY DEF vars, calls
<1> QED
    BY <1>1, <1>2, <1>3, OthersRest DEF OutboundNext, Persist, World

LEMMA StepAir == OutboundTypeOK /\ AirInv /\ [OutboundNext]_vars => AirInv'
<1> SUFFICES ASSUME OutboundTypeOK, AirInv, [OutboundNext]_vars, NEW m \in Sent, ~Begun(m)'
             PROVE  air'[m] = "none"
    BY DEF AirInv
<1>t. CallTypes /\ RadioTypes
    BY TypeParts
<1>1. ~Begun(m) /\ air[m] = "none"
    BY <1>t, BegunStays DEF AirInv
<1>2. ASSUME NEW c \in Calls, Transmit(c) PROVE air'[m] = air[m]
  <2>1. m # Current(c)
    <3>1. pos'[c] = pos[c] /\ step'[c] = "sending"
        BY <1>2, <1>t DEF Transmit, CallTypes
    <3> QED
        BY <3>1, CurrentMessage DEF Begun
  <2> QED
      BY <1>2, <2>1, <1>t DEF Transmit, RadioTypes
<1>3. ASSUME NEW x \in Sent, Accepts(x) \/ Refuses(x) \/ Acks(x) PROVE air'[m] = air[m]
    BY <1>3, <1>1, <1>t, RadioDecides
<1> QED
    BY <1>1, <1>2, <1>3, AirMoves

\* What an answer says.
Holds(f, a) == f.msg \in Sent /\ f.kind # "accepted" /\ f.kind = a[f.msg]

LEMMA AnswersStayTrue ==
    ASSUME OutboundTypeOK, AirInv, [OutboundNext]_vars, NEW f \in FrameSet, Holds(f, air)
    PROVE  Holds(f, air')
<1>t. CallTypes /\ RadioTypes
    BY TypeParts
<1>1. f.msg \in Sent /\ air[f.msg] \in {"refused", "acked"}
    BY DEF Holds, FrameSet
<1>2. ASSUME NEW c \in Calls, Transmit(c) PROVE air'[f.msg] = air[f.msg]
  <2>1. f.msg # Current(c)
    <3>1. step[c] = "look"
        BY <1>2 DEF Transmit, HasTarget
    <3>2. pos[c] \in Nat
        BY <1>t DEF CallTypes
    <3> QED
        BY <3>1, <3>2, <1>1, CurrentMessage DEF AirInv, Begun
  <2> QED
      BY <1>2, <2>1, <1>1, <1>t DEF Transmit, RadioTypes
<1>3. ASSUME NEW m \in Sent, Accepts(m) \/ Refuses(m) \/ Acks(m) PROVE air'[f.msg] = air[f.msg]
    BY <1>3, <1>1, <1>t DEF Accepts, Refuses, Acks, RadioTypes
<1> QED
    BY <1>1, <1>2, <1>3, AirMoves DEF Holds

LEMMA AnswerAppends ==
    ASSUME OutboundTypeOK, NEW r \in Radios, NEW k \in {"accepted", "refused", "acked"},
           NEW m \in Sent \cup {NoMsg}, NEW q \in Radios, NEW i \in DOMAIN Answer(r, k, m)[q]
    PROVE  \/ i \in DOMAIN frames[q] /\ Answer(r, k, m)[q][i] = frames[q][i]
           \/ q = r /\ Answer(r, k, m)[q][i] = [kind |-> k, msg |-> m]
<1>1. frames \in [Radios -> Seq(FrameSet)] /\ [kind |-> k, msg |-> m] \in FrameSet
    BY TypeParts DEF RadioTypes, FrameSet
<1>2. CASE r \in up /\ q = r
  <2>1. Answer(r, k, m)[q] = Append(frames[q], [kind |-> k, msg |-> m])
      BY <1>1, <1>2 DEF Answer
  <2> QED
      BY <2>1, <1>1, <1>2
<1>3. CASE ~(r \in up /\ q = r)
    BY <1>1, <1>3 DEF Answer
<1> QED
    BY <1>2, <1>3

LEMMA StepFrames == OutboundTypeOK /\ AirInv /\ FramesInv /\ [OutboundNext]_vars => FramesInv'
<1> SUFFICES ASSUME OutboundTypeOK, AirInv, FramesInv, [OutboundNext]_vars,
                    NEW q \in ById, NEW i \in DOMAIN frames'[q]
             PROVE  Holds(frames'[q][i], air')
    BY DEF FramesInv, Holds
<1>t. RadioTypes /\ q \in Radios
    BY TypeParts, OutboundAssumption
<1>a. ASSUME NEW j \in DOMAIN frames[q], frames'[q][i] = frames[q][j]
      PROVE  Holds(frames'[q][i], air')
  <2>1. frames[q][j] \in FrameSet /\ Holds(frames[q][j], air)
      BY <1>t DEF RadioTypes, FramesInv, Holds
  <2> QED
      BY <2>1, <1>a, AnswersStayTrue
<1>b. ASSUME NEW r \in Radios, NEW k \in {"accepted", "refused", "acked"}, NEW m \in Sent \cup {NoMsg},
             frames' = Answer(r, k, m), q # r \/ Holds([kind |-> k, msg |-> m], air')
      PROVE  Holds(frames'[q][i], air')
  <2>1. \/ i \in DOMAIN frames[q] /\ frames'[q][i] = frames[q][i]
        \/ q = r /\ frames'[q][i] = [kind |-> k, msg |-> m]
    <3>1. i \in DOMAIN Answer(r, k, m)[q]
        BY <1>b
    <3>2. \/ i \in DOMAIN frames[q] /\ Answer(r, k, m)[q][i] = frames[q][i]
          \/ q = r /\ Answer(r, k, m)[q][i] = [kind |-> k, msg |-> m]
        BY <3>1, <1>t, AnswerAppends
    <3> QED
        BY <3>2, <1>b, Zenon
  <2>2. CASE i \in DOMAIN frames[q] /\ frames'[q][i] = frames[q][i]
      BY <2>2, <1>a
  <2>3. CASE q = r /\ frames'[q][i] = [kind |-> k, msg |-> m]
      BY <2>3, <1>b
  <2> QED
      BY <2>1, <2>2, <2>3
<1>1. CASE frames' = frames
    BY <1>1, <1>a
<1>2. ASSUME NEW r \in Radios, frames[r] # <<>>, TakeFrame(r)
      PROVE  Holds(frames'[q][i], air')
  <2>1. frames[r] \in Seq(FrameSet)
      BY <1>t DEF RadioTypes
  <2>2. CASE q = r
    <3>1. frames'[q] = Tail(frames[q])
        BY <1>2, <1>t, <2>2 DEF TakeFrame, RadioTypes
    <3>2. i + 1 \in DOMAIN frames[q] /\ frames'[q][i] = frames[q][i + 1]
        BY <3>1, <2>1, <2>2, <1>2
    <3> QED
        BY <3>2, <1>a
  <2>3. CASE q # r
      BY <1>2, <1>t, <2>3, <1>a DEF TakeFrame, RadioTypes
  <2> QED
      BY <2>2, <2>3
<1>3. ASSUME NEW m \in Sent, Accepts(m) PROVE Holds(frames'[q][i], air')
  <2>1. RadioOf(m) \in Radios /\ q # RadioOf(m) /\ frames' = Answer(RadioOf(m), "accepted", m)
      BY <1>3, MessageParts DEF Accepts
  <2> QED
      BY <2>1, <1>b
<1>4. ASSUME NEW m \in Sent, NEW k \in {"refused", "acked"}, air' = [air EXCEPT ![m] = k],
             frames' = Answer(RadioOf(m), k, m)
      PROVE  Holds(frames'[q][i], air')
  <2>1. Holds([kind |-> k, msg |-> m], air')
      BY <1>4, <1>t DEF RadioTypes, Holds
  <2> QED
      BY <2>1, <1>4, <1>b, MessageParts
<1>5. ASSUME NEW r \in Radios, OtherCommand(r) PROVE Holds(frames'[q][i], air')
  <2>1. q # r /\ frames' = Answer(r, "refused", NoMsg)
      BY <1>5 DEF OtherCommand
  <2> QED
      BY <2>1, <1>b
<1>6. ASSUME NEW r \in Radios, LinkDrops(r) PROVE Holds(frames'[q][i], air')
    BY <1>6, <1>t, <1>a DEF LinkDrops, RadioTypes
<1>7. ASSUME NEW c \in Calls, CallStep(c) \/ StoreFails(c) PROVE frames' = frames
    BY <1>7 DEF CallStep, Skip, Transmit, SendReturns, SendFails, Store, Reported, Finish, StoreFails, radio
<1>8. ASSUME NEW r, Select(r) \/ Update(r) \/ StatusLost(r) \/ LinkReturns(r) PROVE frames' = frames
    BY <1>8 DEF Select, Update, StatusLost, LinkReturns, radio
<1>9. ASSUME NEW r \in Radios, Handle(r) PROVE frames[r] # <<>> /\ TakeFrame(r)
    BY <1>9 DEF Handle, HandleRouting, HandlePush
<1>10. UNCHANGED vars => frames' = frames
    BY DEF vars, radio
<1>11. ASSUME NEW m \in Sent, Refuses(m) \/ Acks(m) PROVE Holds(frames'[q][i], air')
    BY <1>11, <1>4 DEF Refuses, Acks
<1> QED
    BY <1>1, <1>2, <1>3, <1>5, <1>6, <1>7, <1>8, <1>9, <1>10, <1>11 DEF OutboundNext, Persist, World

-----------------------------------------------------------------------------
(* Verdicts.                                                                *)

LEMMA EarlyBefore ==
    ASSUME CallTypes, [OutboundNext]_vars, NEW m \in Sent
    PROVE  Early(m)' => Early(m)
<1>p. m[1] \in Calls /\ m[2] \in Nat \ {0}
    BY MessageParts
<1>1. CASE \E c \in Calls : CallStep(c) \/ StoreFails(c)
  <2>1. PICK c \in Calls : CallStep(c) \/ StoreFails(c)
      BY <1>1
  <2>2. CASE c = m[1]
    <3> DEFINE d == m[1]
    <3>1. \/ pos'[d] = pos[d] /\ step'[d] # "look"
          \/ pos'[d] = pos[d] + 1 /\ step'[d] = "look"
        BY <2>1, <2>2, <1>p, CallMoves
    <3>2. step'[d] \in {"sending", "store failed"} => step[d] \in {"look", "sending"}
        BY <2>1, <2>2, <1>p, CallMoves
    <3>3. pos[d] \in Nat /\ m[2] \in Nat
        BY <1>p DEF CallTypes
    <3> QED
      <4>1. CASE pos'[d] = pos[d] /\ step'[d] # "look"
          BY <3>2, <3>3, <4>1 DEF Early
      <4>2. CASE pos'[d] = pos[d] + 1 /\ step'[d] = "look"
        <5>1. pos'[d] <= m[2] => pos[d] < m[2]
            BY <3>3, <4>2
        <5>2. pos'[d] < m[2] \/ pos'[d] = m[2] => pos'[d] <= m[2]
            BY <3>3, <4>2
        <5> QED
            BY <5>1, <5>2, Zenon DEF Early
      <4> QED
          BY <3>1, <4>1, <4>2
  <2>3. CASE c # m[1]
    <3>1. step'[m[1]] = step[m[1]] /\ pos'[m[1]] = pos[m[1]]
        BY <2>1, <2>3, <1>p, CallMoves
    <3> QED
        BY <3>1 DEF Early
  <2> QED
      BY <2>2, <2>3
<1>2. CASE UNCHANGED <<step, pos>>
    BY <1>2 DEF Early
<1>3. UNCHANGED vars => UNCHANGED <<step, pos>>
    BY DEF vars, calls
<1> QED
    BY <1>1, <1>2, <1>3, OthersRest DEF OutboundNext, Persist, World

\* send_tracked does not go on while its report is under way.
LEMMA AwaitsReport ==
    ASSUME CallTypes, [OutboundNext]_vars, NEW d \in Calls, step[d] = "reporting", NEW q \in reports, q.by = d
    PROVE  step'[d] = "reporting" /\ pos'[d] = pos[d]
<1>1. ASSUME NEW c \in Calls, CallStep(c) \/ StoreFails(c) PROVE c # d
    BY <1>1 DEF CallStep, Skip, Transmit, SendReturns, SendFails, Store, Storing, Reported, Finish, StoreFails, HasTarget
<1>2. ASSUME NEW c \in Calls, CallStep(c) \/ StoreFails(c) PROVE step'[d] = step[d] /\ pos'[d] = pos[d]
    BY <1>2, <1>1, CallMoves
<1>3. UNCHANGED vars => UNCHANGED <<step, pos>>
    BY DEF vars, calls
<1> QED
    BY <1>2, <1>3, OthersRest DEF OutboundNext, Persist, World

\* A step that says nothing about a message of a radio of ById.
Quiet ==
    /\ \A m \in Keyed : row'[m] = row[m] /\ told'[m] = told[m]
    /\ pending' \subseteq pending
    /\ \A r \in reports' : r.msg \in Keyed => r \in reports

\* An answer that a pending message is about.
Answered(m, s) ==
    /\ m \in pending /\ m \in Keyed /\ pending' = pending \ {m}
    /\ Report(m, s, Device)
    /\ \/ s = "delivered" /\ air[m] = "acked"
       \/ s = "failed" /\ air[m] = "refused"
    /\ row' = row /\ air' = air

LEMMA RoutingAnswers ==
    ASSUME OutboundTypeOK, FramesInv, NEW r \in Radios, HandleRouting(r)
    PROVE  Quiet \/ \E m \in Sent, s \in {"delivered", "failed"} : Answered(m, s)
<1> DEFINE f == Head(frames[r])
<1>t. frames \in [Radios -> Seq(FrameSet)] /\ PendingTypes
    BY TypeParts DEF RadioTypes
<1>1. r \in ById /\ frames[r] # <<>> /\ frames[r] \in Seq(FrameSet)
    BY <1>t DEF HandleRouting
<1>2. f = frames[r][1] /\ 1 \in DOMAIN frames[r] /\ f \in FrameSet
    BY <1>1
<1>3. f.kind \in {"refused", "acked"} /\ f.kind = air[f.msg]
    BY <1>1, <1>2 DEF FramesInv, FrameSet
<1>4. row' = row /\ air' = air
    BY DEF HandleRouting
<1>5. CASE About(r, f) = {}
    BY <1>5, <1>4 DEF HandleRouting, Quiet
<1>6. CASE About(r, f) # {}
  <2>1. PICK m \in About(r, f) : Report(m, IF f.kind = "acked" THEN "delivered" ELSE "failed", Device)
      BY <1>6 DEF HandleRouting
  <2>2. m = f.msg /\ m \in pending /\ m \in Sent /\ m \in Keyed /\ About(r, f) = {m}
      BY <2>1, <1>t DEF About, PendingTypes, Keyed
  <2>3. pending' = pending \ {m}
      BY <2>2 DEF HandleRouting
  <2>4. CASE f.kind = "acked"
      BY <2>1, <2>2, <2>3, <2>4, <1>3, <1>4 DEF Answered
  <2>5. CASE f.kind = "refused"
      BY <2>1, <2>2, <2>3, <2>5, <1>3, <1>4 DEF Answered
  <2> QED
      BY <2>4, <2>5, <1>3
<1> QED
    BY <1>5, <1>6

LEMMA PushIsQuiet ==
    ASSUME OutboundTypeOK, NEW r \in Radios, HandlePush(r)
    PROVE  Quiet
<1>t. RadioTypes /\ StatusTypes
    BY TypeParts
<1>1. row' = row /\ pending' = pending
    BY DEF HandlePush
<1>2. CASE UNCHANGED <<told, reports>>
    BY <1>1, <1>2 DEF Quiet
<1>3. ASSUME NEW s, last[r] # NoMsg, Report(last[r], s, Device) PROVE Quiet
  <2>1. last[r] \in Sent /\ last[r] \notin Keyed
      BY <1>3, <1>t DEF HandlePush, RadioTypes, Keyed
  <2>2. \A m \in Keyed : told'[m] = told[m]
      BY <1>3, <2>1, <1>t DEF Report, StatusTypes
  <2>3. \A q \in reports' : q.msg \in Keyed => q \in reports
      BY <1>3, <2>1 DEF Report
  <2> QED
      BY <1>1, <2>2, <2>3 DEF Quiet
<1> QED
    BY <1>2, <1>3 DEF HandlePush

\* Every step is quiet or one of the five that speak of a message.
LEMMA KeyedSteps ==
    ASSUME OutboundTypeOK, FramesInv, [OutboundNext]_vars
    PROVE  \/ Quiet
           \/ \E c \in Calls : SendReturns(c) \/ Store(c)
           \/ \E m \in Sent, s \in {"delivered", "failed"} : Answered(m, s)
           \/ \E r \in reports : Select(r) \/ Update(r)
<1>1. ASSUME NEW r \in Radios, Handle(r)
      PROVE  Quiet \/ \E m \in Sent, s \in {"delivered", "failed"} : Answered(m, s)
    BY <1>1, RoutingAnswers, PushIsQuiet DEF Handle
<1>2. ASSUME NEW c \in Calls, CallStep(c) \/ StoreFails(c), ~SendReturns(c), ~Store(c) PROVE Quiet
    BY <1>2 DEF CallStep, Skip, Transmit, SendFails, Reported, Finish, StoreFails, Quiet, radio, status
<1>3. ASSUME NEW r, StatusLost(r) \/ Accepts(r) \/ Refuses(r) \/ Acks(r) \/ OtherCommand(r) \/ LinkDrops(r)
                      \/ LinkReturns(r)
      PROVE  Quiet
    BY <1>3 DEF StatusLost, Accepts, Refuses, Acks, OtherCommand, LinkDrops, LinkReturns, Quiet, radio, status
<1>4. CASE UNCHANGED vars
    BY <1>4 DEF vars, radio, status, Quiet
<1> QED
    BY <1>1, <1>2, <1>3, <1>4 DEF OutboundNext, Persist, World

LEMMA QuietKeepsVerdicts ==
    ASSUME OutboundTypeOK, VerdictInv, [OutboundNext]_vars, Quiet, NEW m \in Keyed
    PROVE  VerdictOf(m)'
<1>t. CallTypes /\ m \in Sent
    BY TypeParts DEF Keyed
<1>v. VerdictOf(m)
    BY DEF VerdictInv
<1>1. Early(m)' => Early(m)
    BY <1>t, EarlyBefore
<1>2. row'[m] = row[m] /\ told'[m] = told[m] /\ pending' \subseteq pending
    BY DEF Quiet
<1>3. \A r \in reports' : r.msg = m => r \in reports
    BY DEF Quiet
<1>4. ASSUME NEW r \in reports, r.msg = m, r.status = "sent_to_air"
      PROVE  r.by = m[1] /\ pos'[m[1]] = m[2] /\ step'[m[1]] = "reporting"
  <2>1. r.by = m[1] /\ pos[m[1]] = m[2] /\ step[m[1]] = "reporting"
      BY <1>4, <1>v DEF VerdictOf
  <2> QED
      BY <2>1, <1>t, AwaitsReport, MessageParts
<1> QED
    BY <1>v, <1>1, <1>2, <1>3, <1>4, Zenon DEF VerdictOf

\* What a report does to a message, and to the others.
LEMMA ReportMoves ==
    ASSUME StatusTypes, NEW x \in Sent, NEW s, NEW by, Report(x, s, by), NEW m \in Sent
    PROVE  /\ m # x \/ s \notin Verdicts => told'[m] = told[m]
           /\ m = x /\ s \in Verdicts => told'[m] = Append(told[m], s)
           /\ \A r \in reports' : r \in reports \/ (r.msg = x /\ r.status = s /\ r.by = by)
    BY DEF Report, StatusTypes

\* ... and of two new reports that are one.
LEMMA OneNewReport ==
    ASSUME NEW x, NEW s, NEW by, Report(x, s, by), NEW q \in reports' \ reports, NEW r \in reports' \ reports
    PROVE  q = r
    BY DEF Report

LEMMA FirstVerdict ==
    ASSUME NEW s \in Verdicts
    PROVE  LET t == Append(<<>>, s) IN Len(t) = 1 /\ t # <<>> /\ \A i \in DOMAIN t : t[i] = s
    OBVIOUS

LEMMA StepVerdicts == OutboundTypeOK /\ CallsInv /\ FramesInv /\ VerdictInv /\ [OutboundNext]_vars => VerdictInv'
<1> SUFFICES ASSUME OutboundTypeOK, CallsInv, FramesInv, VerdictInv, [OutboundNext]_vars, NEW m \in Keyed
             PROVE  VerdictOf(m)'
    BY DEF VerdictInv, Keyed, RadioOf
<1>t. CallTypes /\ StatusTypes /\ PendingTypes /\ m \in Sent /\ m[1] \in Calls /\ m[2] \in Nat
    BY TypeParts, MessageParts DEF Keyed, RadioTypes
<1>v. VerdictOf(m)
    BY DEF VerdictInv
<1>e. Early(m)' => Early(m)
    BY <1>t, EarlyBefore
<1>w. ASSUME NEW r \in reports, r.msg = m, r.status = "sent_to_air"
      PROVE  r.by = m[1] /\ pos'[m[1]] = m[2] /\ step'[m[1]] = "reporting"
  <2>1. r.by = m[1] /\ pos[m[1]] = m[2] /\ step[m[1]] = "reporting"
      BY <1>w, <1>v DEF VerdictOf
  <2> QED
      BY <2>1, <1>t, AwaitsReport
<1>1. CASE Quiet
    BY <1>1, QuietKeepsVerdicts
<1>2. ASSUME NEW c \in Calls, SendReturns(c) PROVE VerdictOf(m)'
  <2>1. UNCHANGED <<row, told, reports>>
      BY <1>2 DEF SendReturns, status
  <2>2. m \in pending' => m \in pending \/ m = Current(c)
      BY <1>2 DEF SendReturns
  <2>3. m = Current(c) => told[m] = <<>> /\ ~Early(m)'
    <3> HAVE m = Current(c)
    <3>1. m[1] = c /\ m[2] = pos[c]
        BY <1>t, CurrentMessage
    <3>2. Early(m) /\ step'[c] = "store sent" /\ pos'[c] = pos[c]
        BY <3>1, <1>2, <1>t DEF SendReturns, Early, CallTypes
    <3>3. told[m] = <<>>
        BY <3>2, <1>v, Zenon DEF VerdictOf
    <3>4. pos'[m[1]] = m[2] /\ step'[m[1]] = "store sent"
        BY <3>1, <3>2, Zenon
    <3>5. ~(m[2] < m[2])
        BY <1>t
    <3>6. ~Early(m)'
      <4>1. ~(pos'[m[1]] < m[2]) /\ step'[m[1]] \notin {"look", "sending", "store failed"}
          BY <3>4, <3>5
      <4> QED
          BY <4>1, Zenon DEF Early
    <3> QED
        BY <3>3, <3>6
  <2> QED
      BY <2>1, <2>2, <2>3, <1>v, <1>e, <1>w, Zenon DEF VerdictOf
<1>3. ASSUME NEW c \in Calls, Store(c) PROVE VerdictOf(m)'
  <2>1. /\ Current(c) \in Sent /\ Report(Current(c), Outcome(c), c)
        /\ row' = [row EXCEPT ![Current(c)] = "none"] /\ pending' = pending
      BY <1>3 DEF Store, Storing, CallsInv, radio
  <2>2. CASE m # Current(c)
    <3>1. row'[m] = row[m] /\ told'[m] = told[m]
        BY <2>1, <2>2, <1>t, ReportMoves DEF StatusTypes
    <3>2. \A r \in reports' : r.msg = m => r \in reports
        BY <2>1, <2>2, <1>t, ReportMoves
    <3> QED
        BY <2>1, <3>1, <3>2, <1>v, <1>e, <1>w, Zenon DEF VerdictOf
  <2>3. CASE m = Current(c)
    <3>1. m[1] = c /\ m[2] = pos[c] /\ step'[c] = "reporting" /\ pos'[c] = pos[c]
        BY <2>3, <1>3, <1>t, CurrentMessage DEF Store, CallTypes
    <3>2. row'[m] = "none" /\ ~Early(m)' /\ "none" \notin Verdicts
        BY <2>1, <2>3, <3>1, <1>t DEF StatusTypes, Early, Verdicts
    <3>3. CASE Outcome(c) = "sent_to_air"
      <4>1. told'[m] = told[m]
          BY <2>1, <3>3, <1>t, ReportMoves DEF Verdicts
      <4>2. \A r \in reports' : r \in reports \/ (r.status = "sent_to_air" /\ r.by = c /\ r.msg = m)
          BY <2>1, <2>3, <3>3, <1>t, ReportMoves
      <4>3. "sent_to_air" \notin Verdicts
          BY DEF Verdicts
      <4> QED
          BY <2>1, <3>1, <3>2, <4>1, <4>2, <4>3, <1>v, <1>w, Zenon DEF VerdictOf
    <3>4. CASE Outcome(c) = "failed"
      <4>1. step[c] = "store failed"
          BY <3>4, <1>3 DEF Outcome, Store, Storing
      <4>2. told[m] = <<>> /\ m \notin pending
          BY <4>1, <3>1, <1>v DEF Early, VerdictOf
      <4>3. "failed" \in Verdicts /\ "failed" # "sent_to_air"
          BY DEF Verdicts
      <4>4. told'[m] = Append(<<>>, "failed")
          BY <2>1, <2>3, <3>4, <4>2, <4>3, <1>t, ReportMoves
      <4>5. Len(told'[m]) <= 1 /\ told'[m] # <<>>
          BY <4>3, <4>4, FirstVerdict
      <4>6. \A r \in reports : r.msg = m => r.status \notin Verdicts
          BY <4>2, <1>v DEF VerdictOf
      <4>7. \A r \in reports' : r \in reports \/ (r.status = "failed" /\ r.msg = m)
          BY <2>1, <2>3, <3>4, <1>t, ReportMoves
      <4>8. \A q, r \in reports' : q.msg = m /\ r.msg = m /\ q.status \in Verdicts /\ r.status \in Verdicts => q = r
          BY <2>1, <4>6, OneNewReport
      <4> QED
          BY <2>1, <3>2, <4>2, <4>3, <4>5, <4>6, <4>7, <4>8, <1>v, <1>w, Zenon DEF VerdictOf
    <3> QED
        BY <3>3, <3>4 DEF Outcome
  <2> QED
      BY <2>2, <2>3
<1>4. ASSUME NEW x \in Sent, NEW s \in {"delivered", "failed"}, Answered(x, s) PROVE VerdictOf(m)'
  <2>1. row' = row /\ Report(x, s, Device) /\ s \in Verdicts /\ s # "sent_to_air" /\ pending' = pending \ {x}
      BY <1>4 DEF Answered, Verdicts
  <2>2. CASE m # x
    <3>1. told'[m] = told[m]
        BY <2>1, <2>2, <1>t, ReportMoves
    <3>2. \A r \in reports' : r.msg = m => r \in reports
        BY <2>1, <2>2, <1>t, ReportMoves
    <3> QED
        BY <2>1, <3>1, <3>2, <1>v, <1>e, <1>w, Zenon DEF VerdictOf
  <2>3. CASE m = x
    <3>1. m \in pending /\ told[m] = <<>> /\ ~Early(m) /\ m \notin pending'
        BY <2>1, <2>3, <1>4, <1>v DEF Answered, VerdictOf
    <3>2. told'[m] = Append(<<>>, s)
        BY <2>1, <2>3, <3>1, <1>t, ReportMoves
    <3>3. Len(told'[m]) <= 1 /\ told'[m] # <<>>
        BY <2>1, <3>2, FirstVerdict
    <3>4. row[m] \notin Verdicts /\ \A r \in reports : r.msg = m => r.status \notin Verdicts
        BY <3>1, <1>v DEF VerdictOf
    <3>5. \A r \in reports' : r \in reports \/ (r.status = s /\ r.msg = m)
        BY <2>1, <2>3, <1>t, ReportMoves
    <3>6. \A q, r \in reports' : q.msg = m /\ r.msg = m /\ q.status \in Verdicts /\ r.status \in Verdicts => q = r
        BY <2>1, <3>4, OneNewReport
    <3> QED
        BY <2>1, <3>1, <3>3, <3>4, <3>5, <3>6, <1>e, <1>w, Zenon DEF VerdictOf
  <2> QED
      BY <2>2, <2>3
<1>5. ASSUME NEW x \in reports, Select(x) PROVE VerdictOf(m)'
  <2>1. UNCHANGED <<row, told, pending>>
      BY <1>5 DEF Select, radio
  <2>2. x \in ReportSet
      BY <1>t DEF StatusTypes
  <2> DEFINE y == [x EXCEPT !.at = "update"]
  <2>3. y.msg = x.msg /\ y.status = x.status /\ y.by = x.by
      BY <2>2 DEF ReportSet
  <2> HIDE DEF y
  <2>4. \A r \in reports' : (r \in reports /\ r # x) \/ r = y
      BY <1>5 DEF Select, y
  <2>5. \A r \in reports' : r.msg = m /\ r.status \in Verdicts => told[m] # <<>> /\ row[m] \notin Verdicts
      BY <2>3, <2>4, <1>v DEF VerdictOf
  <2>6. \A q, r \in reports' : q.msg = m /\ r.msg = m /\ q.status \in Verdicts /\ r.status \in Verdicts => q = r
    <3> SUFFICES ASSUME NEW q \in reports', NEW r \in reports', q.msg = m, r.msg = m,
                        q.status \in Verdicts, r.status \in Verdicts
                 PROVE  q = r
        OBVIOUS
    <3>1. CASE q # y /\ r # y
        BY <3>1, <2>4, <1>v DEF VerdictOf
    <3>2. CASE q # y /\ r = y
        BY <3>2, <2>3, <2>4, <1>v DEF VerdictOf
    <3>3. CASE q = y /\ r # y
        BY <3>3, <2>3, <2>4, <1>v DEF VerdictOf
    <3> QED
        BY <3>1, <3>2, <3>3
  <2>7. \A r \in reports' : r.msg = m /\ r.status = "sent_to_air" =>
            r.by = m[1] /\ pos'[m[1]] = m[2] /\ step'[m[1]] = "reporting"
      BY <2>3, <2>4, <1>w
  <2> QED
      BY <2>1, <2>5, <2>6, <2>7, <1>v, <1>e, Zenon DEF VerdictOf
<1>6. ASSUME NEW x \in reports, Update(x) PROVE VerdictOf(m)'
  <2>1. /\ UNCHANGED <<told, pending>> /\ row' = [row EXCEPT ![x.msg] = x.status]
        /\ reports' = reports \ {x}
      BY <1>6 DEF Update, radio
  <2>2. x.msg \in Sent
      BY <1>t DEF StatusTypes, ReportSet
  <2>3. row'[m] = IF x.msg = m THEN x.status ELSE row[m]
      BY <2>1, <2>2, <1>t DEF StatusTypes
  <2>4. row'[m] \in Verdicts => told'[m] # <<>>
      BY <2>1, <2>3, <1>v DEF VerdictOf
  <2>5. \A r \in reports' : r.msg = m /\ r.status \in Verdicts => told[m] # <<>> /\ row'[m] \notin Verdicts
      BY <2>1, <2>3, <1>v DEF VerdictOf
  <2> QED
      BY <2>1, <2>4, <2>5, <1>v, <1>e, <1>w, Zenon DEF VerdictOf
<1> QED
    BY <1>1, <1>2, <1>3, <1>4, <1>5, <1>6, KeyedSteps

-----------------------------------------------------------------------------
(* What the operator is told is true.                                       *)

LEMMA AppendIndex ==
    ASSUME NEW t \in Seq(Verdicts), NEW v \in Verdicts, NEW s, NEW i \in DOMAIN Append(t, v), Append(t, v)[i] = s
    PROVE  s = v \/ (i \in DOMAIN t /\ t[i] = s)
    OBVIOUS

\* A report adds its own status to what is claimed of its message.
LEMMA ReportClaims ==
    ASSUME StatusTypes, NEW x \in Sent, NEW v, NEW by, Report(x, v, by), row'[x] = row[x] \/ row'[x] = "none",
           NEW m \in Sent, row'[m] = row[m] \/ m = x, NEW s \in Verdicts, Claimed(m, s)'
    PROVE  Claimed(m, s) \/ (m = x /\ s = v)
<1>1. CASE row'[m] = s
    BY <1>1 DEF Claimed, Shown, Verdicts
<1>2. ASSUME NEW r \in reports', r.msg = m, r.status = s PROVE Claimed(m, s) \/ (m = x /\ s = v)
    BY <1>2, ReportMoves DEF Claimed
<1>3. ASSUME NEW i \in DOMAIN told'[m], told'[m][i] = s PROVE Claimed(m, s) \/ (m = x /\ s = v)
  <2>1. told[m] \in Seq(Verdicts)
      BY DEF StatusTypes
  <2>2. CASE told'[m] = told[m]
      BY <1>3, <2>2 DEF Claimed, Shown
  <2>3. CASE m = x /\ v \in Verdicts /\ told'[m] = Append(told[m], v)
      BY <1>3, <2>1, <2>3, AppendIndex DEF Claimed, Shown
  <2> QED
      BY <2>2, <2>3, ReportMoves
<1> QED
    BY <1>1, <1>2, <1>3 DEF Claimed, Shown

\* A claim that is new comes with a send that failed or with an answer.
LEMMA NewClaims ==
    ASSUME OutboundTypeOK, CallsInv, FramesInv, [OutboundNext]_vars,
           NEW m \in Keyed, NEW s \in Verdicts, Claimed(m, s)'
    PROVE  \/ Claimed(m, s)
           \/ s = "failed" /\ air'[m] = "none"
           \/ Answered(m, s)
<1>t. StatusTypes /\ m \in Sent
    BY TypeParts DEF Keyed
<1>1. CASE Quiet
    BY <1>1, Zenon DEF Quiet, Claimed, Shown
<1>2. ASSUME NEW c \in Calls, SendReturns(c) PROVE Claimed(m, s)
    BY <1>2 DEF SendReturns, status, Claimed, Shown
<1>3. ASSUME NEW c \in Calls, Store(c) PROVE Claimed(m, s) \/ (s = "failed" /\ air'[m] = "none")
  <2>1. /\ Current(c) \in Sent /\ Report(Current(c), Outcome(c), c)
        /\ row' = [row EXCEPT ![Current(c)] = "none"] /\ air' = air
      BY <1>3 DEF Store, Storing, CallsInv, radio
  <2>2. row'[Current(c)] = "none" /\ (m # Current(c) => row'[m] = row[m])
      BY <2>1, <1>t DEF StatusTypes
  <2>3. Claimed(m, s) \/ (m = Current(c) /\ s = Outcome(c))
      BY <2>1, <2>2, <1>t, ReportClaims
  <2>4. s = Outcome(c) => s = "failed" /\ air[Current(c)] = "none"
      BY <1>3 DEF Store, Storing, Outcome, CallsInv, Verdicts
  <2> QED
      BY <2>1, <2>3, <2>4
<1>4. ASSUME NEW x \in Sent, NEW v \in {"delivered", "failed"}, Answered(x, v) PROVE Claimed(m, s) \/ Answered(m, s)
  <2>1. row' = row /\ Report(x, v, Device)
      BY <1>4 DEF Answered
  <2>2. Claimed(m, s) \/ (m = x /\ s = v)
      BY <2>1, <1>t, ReportClaims
  <2> QED
      BY <2>2, <1>4
<1>5. ASSUME NEW x \in reports, Select(x) PROVE Claimed(m, s)
  <2>1. UNCHANGED <<row, told>>
      BY <1>5 DEF Select
  <2>2. x \in ReportSet
      BY <1>t DEF StatusTypes
  <2> DEFINE y == [x EXCEPT !.at = "update"]
  <2>3. y.msg = x.msg /\ y.status = x.status
      BY <2>2 DEF ReportSet
  <2> HIDE DEF y
  <2>4. \A r \in reports' : r \in reports \/ r = y
      BY <1>5 DEF Select, y
  <2> QED
      BY <2>1, <2>3, <2>4, Zenon DEF Claimed, Shown
<1>6. ASSUME NEW x \in reports, Update(x) PROVE Claimed(m, s)
  <2>1. told' = told /\ row' = [row EXCEPT ![x.msg] = x.status] /\ reports' \subseteq reports
      BY <1>6 DEF Update
  <2>2. row'[m] = row[m] \/ (x.msg = m /\ row'[m] = x.status)
      BY <2>1, <1>t DEF StatusTypes
  <2> QED
      BY <2>1, <2>2, Zenon DEF Claimed, Shown
<1> QED
    BY <1>1, <1>2, <1>3, <1>4, <1>5, <1>6, KeyedSteps

\* Once a verdict is out, the radio does not change its mind.
LEMMA ClaimsHold ==
    ASSUME OutboundTypeOK, VerdictInv, AnswersInv, [OutboundNext]_vars,
           NEW m \in Keyed, NEW s \in {"delivered", "failed"}, Claimed(m, s)
    PROVE  air'[m] = air[m] \/ (air[m] = "acked" /\ air'[m] = "acked")
<1>t. CallTypes /\ RadioTypes /\ m \in Sent
    BY TypeParts DEF Keyed
<1>1. told[m] # <<>>
  <2>1. s \in Verdicts /\ VerdictOf(m)
      BY DEF Verdicts, VerdictInv
  <2>2. ASSUME NEW i \in DOMAIN told[m] PROVE told[m] # <<>>
      OBVIOUS
  <2> QED
      BY <2>1, <2>2 DEF Claimed, Shown, VerdictOf
<1>2. ~Early(m)
    BY <1>1 DEF VerdictInv, VerdictOf
<1>3. ASSUME NEW c \in Calls, Transmit(c) PROVE air'[m] = air[m]
  <2>1. ASSUME m = Current(c) PROVE FALSE
    <3>1. m[1] = c /\ m[2] = pos[c] /\ step[c] = "look"
        BY <2>1, <1>3, <1>t, CurrentMessage DEF Transmit, HasTarget
    <3>2. pos[m[1]] = m[2] /\ step[m[1]] = "look"
        BY <3>1, Zenon
    <3> QED
        BY <3>2, <1>2, Zenon DEF Early
  <2> QED
      BY <1>3, <2>1, <1>t DEF Transmit, RadioTypes
<1>4. ASSUME NEW x \in Sent, Accepts(x) \/ Refuses(x) \/ Acks(x)
      PROVE  air'[m] = air[m] \/ (air[m] = "acked" /\ air'[m] = "acked")
  <2>1. CASE x # m
      BY <2>1, <1>4, <1>t, RadioDecides
  <2>2. CASE x = m
    <3>1. air[m] \in {"air", "acked"}
        BY <2>2, <1>4, <1>t, RadioDecides
    <3>2. air[m] = "acked"
        BY <3>1 DEF AnswersInv
    <3> QED
        BY <3>2, <2>2, <1>4, <1>t, RadioDecides
  <2> QED
      BY <2>1, <2>2
<1> QED
    BY <1>3, <1>4, AirMoves

LEMMA StepAnswers ==
    OutboundTypeOK /\ CallsInv /\ FramesInv /\ VerdictInv /\ AnswersInv /\ [OutboundNext]_vars => AnswersInv'
<1> SUFFICES ASSUME OutboundTypeOK, CallsInv, FramesInv, VerdictInv, AnswersInv, [OutboundNext]_vars,
                    NEW m \in Keyed, NEW s \in {"delivered", "failed"}, Claimed(m, s)'
             PROVE  IF s = "delivered" THEN air'[m] = "acked" ELSE air'[m] \in {"refused", "none"}
    BY DEF AnswersInv, Keyed, RadioOf
<1>1. CASE Claimed(m, s)
  <2>1. IF s = "delivered" THEN air[m] = "acked" ELSE air[m] \in {"refused", "none"}
      BY <1>1 DEF AnswersInv
  <2> QED
      BY <2>1, <1>1, ClaimsHold
<1>2. CASE Answered(m, s)
    BY <1>2 DEF Answered
<1>3. s \in Verdicts
    BY DEF Verdicts
<1> QED
    BY <1>1, <1>2, <1>3, NewClaims

-----------------------------------------------------------------------------
(* What was transmitted is logged.                                          *)

\* A row is written by its message's own send, then by its reports.
LEMMA RowMoves ==
    ASSUME OutboundTypeOK, [OutboundNext]_vars, NEW m \in Sent
    PROVE  \/ row'[m] = row[m]
           \/ row'[m] \in Statuses
           \/ \E c \in Calls : Storing(c) /\ m = Current(c) /\ row'[m] = "none"
<1>t. StatusTypes
    BY TypeParts
<1>1. ASSUME NEW c \in Calls, Store(c), Current(c) = m PROVE Storing(c) /\ row'[m] = "none"
    BY <1>1, <1>t DEF Store, StatusTypes
<1>2. ASSUME NEW c \in Calls, Store(c), Current(c) # m PROVE row'[m] = row[m]
    BY <1>2, <1>t DEF Store, StatusTypes
<1>3. ASSUME NEW r \in reports, Update(r) PROVE row'[m] = row[m] \/ row'[m] \in Statuses
  <2>1. r.status \in Statuses
      BY <1>t DEF StatusTypes, ReportSet
  <2> QED
      BY <1>3, <2>1, <1>t DEF Update, StatusTypes
<1>4. ASSUME NEW c \in Calls, CallStep(c) \/ StoreFails(c), ~Store(c) PROVE row' = row
    BY <1>4 DEF CallStep, Skip, Transmit, SendReturns, SendFails, Reported, Finish, StoreFails, status
<1>5. ASSUME NEW r, Handle(r) \/ Select(r) \/ StatusLost(r) \/ Accepts(r) \/ Refuses(r) \/ Acks(r)
                      \/ OtherCommand(r) \/ LinkDrops(r) \/ LinkReturns(r)
      PROVE  row' = row
    BY <1>5 DEF Handle, HandleRouting, HandlePush, Select, StatusLost, Accepts, Refuses, Acks, OtherCommand,
           LinkDrops, LinkReturns, status
<1>6. UNCHANGED vars => row' = row
    BY DEF vars, status
<1> QED
    BY <1>1, <1>2, <1>3, <1>4, <1>5, <1>6 DEF OutboundNext, Persist, World

LEMMA FaultsStay == CountTypes /\ [OutboundNext]_vars /\ faults > 0 => faults' > 0
<1> SUFFICES ASSUME CountTypes, [OutboundNext]_vars, faults > 0 PROVE faults' > 0
    OBVIOUS
<1>1. faults' = faults \/ faults' = faults + 1
    BY DEF OutboundNext, CallStep, Persist, World, vars, counts,
           Skip, Transmit, SendReturns, SendFails, Store, Reported, Finish, StoreFails, Handle,
           HandleRouting, HandlePush, Select, Update, StatusLost, Accepts, Refuses, Acks,
           OtherCommand, LinkDrops, LinkReturns
<1> QED
    BY <1>1 DEF CountTypes

\* A report ends in the row, when there is one, or in a failed write.
LEMMA ReportEnds ==
    ASSUME OutboundTypeOK, [OutboundNext]_vars, NEW q \in reports, row[q.msg] # "absent"
    PROVE  \/ row'[q.msg] \in Statuses
           \/ faults' > 0
           \/ \E r \in reports' : r.by = q.by /\ r.msg = q.msg
<1>t. StatusTypes /\ CountTypes /\ q \in ReportSet
    BY TypeParts DEF StatusTypes
<1>1. CASE q \in reports'
    BY <1>1
<1>2. ASSUME Select(q) PROVE \E r \in reports' : r.by = q.by /\ r.msg = q.msg
  <2>1. [q EXCEPT !.at = "update"] \in reports'
      BY <1>2 DEF Select
  <2>2. [q EXCEPT !.at = "update"].by = q.by /\ [q EXCEPT !.at = "update"].msg = q.msg
      BY <1>t DEF ReportSet
  <2> QED
      BY <2>1, <2>2, Zenon
<1>3. ASSUME Update(q) PROVE row'[q.msg] \in Statuses
    BY <1>3, <1>t DEF Update, StatusTypes, ReportSet
<1>4. ASSUME StatusLost(q) PROVE faults' > 0
    BY <1>4, <1>t DEF StatusLost, CountTypes
<1>5. ASSUME NEW r \in reports, r # q, Select(r) \/ Update(r) \/ StatusLost(r) PROVE q \in reports'
    BY <1>5 DEF Select, Update, StatusLost
<1>6. ASSUME NEW c \in Calls, CallStep(c) \/ StoreFails(c) PROVE q \in reports'
    BY <1>6 DEF CallStep, Skip, Transmit, SendReturns, SendFails, Store, Reported, Finish, StoreFails, Report, status
<1>7. ASSUME NEW r, HandleRouting(r) \/ HandlePush(r) PROVE q \in reports'
    BY <1>7 DEF HandleRouting, HandlePush, Report
<1>8. ASSUME NEW r, Accepts(r) \/ Refuses(r) \/ Acks(r) \/ OtherCommand(r) \/ LinkDrops(r) \/ LinkReturns(r)
      PROVE  q \in reports'
    BY <1>8 DEF Accepts, Refuses, Acks, OtherCommand, LinkDrops, LinkReturns, status
<1>9. UNCHANGED vars => q \in reports'
    BY DEF vars, status
<1> QED
    BY <1>1, <1>2, <1>3, <1>4, <1>5, <1>6, <1>7, <1>8, <1>9 DEF OutboundNext, Persist, World, Handle

\* Which steps move a call.
LEMMA CallTurns ==
    ASSUME CallTypes, [OutboundNext]_vars, NEW d \in Calls
    PROVE  /\ pos'[d] = pos[d] \/ Skip(d) \/ Reported(d)
           /\ step'[d] = "reporting" => Store(d) \/ (step[d] = "reporting" /\ pos'[d] = pos[d])
<1>1. ASSUME NEW c \in Calls, CallStep(c) \/ StoreFails(c), c = d
      PROVE  /\ pos'[d] = pos[d] \/ Skip(d) \/ Reported(d)
             /\ step'[d] = "reporting" => Store(d) \/ (step[d] = "reporting" /\ pos'[d] = pos[d])
    BY <1>1 DEF CallTypes, CallStep, Skip, Transmit, SendReturns, SendFails, Reported, Finish, StoreFails, HasTarget, Store
<1>2. ASSUME NEW c \in Calls, CallStep(c) \/ StoreFails(c), c # d PROVE step'[d] = step[d] /\ pos'[d] = pos[d]
    BY <1>2, CallMoves
<1>3. UNCHANGED vars => UNCHANGED <<step, pos>>
    BY DEF vars, calls
<1> QED
    BY <1>1, <1>2, <1>3, OthersRest DEF OutboundNext, Persist, World

LEMMA StepLogged ==
    OutboundTypeOK /\ CallsInv /\ AirInv /\ LoggedInv /\ [OutboundNext]_vars => LoggedInv'
<1> SUFFICES ASSUME OutboundTypeOK, CallsInv, AirInv, LoggedInv, [OutboundNext]_vars PROVE LoggedInv'
    OBVIOUS
<1>t. CallTypes /\ RadioTypes /\ StatusTypes /\ CountTypes
    BY TypeParts
<1>1. ASSUME NEW d \in Calls, step'[d] = "reporting"
      PROVE  LET m == <<d, pos'[d]>> IN
                /\ row'[m] # "absent"
                /\ \/ row'[m] \in Statuses \/ faults' > 0
                   \/ \E r \in reports' : r.by = d /\ r.msg = m
  <2>1. CASE Store(d)
    <3>1. /\ Current(d) \in Sent /\ pos'[d] = pos[d] /\ row'[Current(d)] = "none"
          /\ Report(Current(d), Outcome(d), d)
        BY <2>1, <1>t DEF Store, Storing, CallsInv, StatusTypes
    <3>2. \E r \in reports' : r.by = d /\ r.msg = Current(d)
      <4>1. [msg |-> Current(d), status |-> Outcome(d), by |-> d, at |-> "select"] \in reports'
          BY <3>1 DEF Report
      <4> QED
          BY <4>1
    <3> QED
        BY <3>1, <3>2 DEF Current
  <2>2. CASE step[d] = "reporting" /\ pos'[d] = pos[d]
    <3> DEFINE m == Current(d)
    <3>1. m \in Sent /\ row[m] # "absent" /\ m = <<d, pos'[d]>>
        BY <2>2 DEF CallsInv, LoggedInv, Current
    <3>2. row'[m] = row[m] \/ row'[m] \in Statuses
      <4>1. ASSUME NEW c \in Calls, Storing(c), m = Current(c) PROVE FALSE
          BY <4>1, <2>2 DEF Storing, Current
      <4> QED
          BY <3>1, <4>1, RowMoves
    <3>3. "absent" \notin Statuses
        BY DEF Statuses, Verdicts
    <3>4. CASE row[m] \in Statuses \/ faults > 0
        BY <3>1, <3>2, <3>3, <3>4, <1>t, FaultsStay
    <3>5. ASSUME NEW r \in reports, r.by = d, r.msg = m
          PROVE  row'[m] \in Statuses \/ faults' > 0 \/ \E q \in reports' : q.by = d /\ q.msg = m
        BY <3>1, <3>5, ReportEnds
    <3>6. row[m] \in Statuses \/ faults > 0 \/ \E r \in reports : r.by = d /\ r.msg = m
        BY <2>2 DEF LoggedInv
    <3> HIDE DEF m
    <3> QED
        BY <3>1, <3>2, <3>3, <3>4, <3>5, <3>6
  <2> QED
      BY <1>1, <2>1, <2>2, <1>t, CallTurns
<1>2. ASSUME NEW m \in Sent, air'[m] # "none", pos'[m[1]] > m[2]
      PROVE  row'[m] \in Statuses \/ faults' > 0
  <2>p. m[1] \in Calls /\ m[2] \in Nat /\ pos[m[1]] \in Nat
      BY <1>t, MessageParts DEF CallTypes
  <2>1. CASE pos[m[1]] > m[2]
    <3>1. ASSUME NEW c \in Calls, m = Current(c) PROVE FALSE
        BY <2>1, <2>p, <3>1, CurrentMessage
    <3>2. air[m] # "none"
      <4>1. ASSUME NEW c \in Calls, Transmit(c) PROVE air'[m] = air[m]
          BY <3>1, <4>1, <1>t DEF Transmit, RadioTypes
      <4>2. ASSUME NEW x \in Sent, Accepts(x) \/ Refuses(x) \/ Acks(x) PROVE air[m] # "none"
          BY <4>2, <1>2, <1>t, RadioDecides
      <4> QED
          BY <1>2, <4>1, <4>2, AirMoves
    <3>3. row[m] \in Statuses \/ faults > 0
        BY <2>1, <3>2 DEF LoggedInv, EverySendIsLogged
    <3>4. row'[m] = row[m] \/ row'[m] \in Statuses
        BY <3>1, RowMoves
    <3> QED
        BY <3>3, <3>4, <1>t, FaultsStay
  <2>2. CASE ~(pos[m[1]] > m[2])
    <3> DEFINE d == m[1]
    <3>1. pos'[d] # pos[d]
        BY <1>2, <2>2
    <3>2. Skip(d) \/ Reported(d)
        BY <3>1, <2>p, <1>t, CallTurns
    <3>3. pos'[d] = pos[d] + 1 /\ air' = air /\ row' = row /\ faults' = faults
        BY <3>2, <2>p, <1>t DEF Skip, Reported, CallTypes, radio, status, counts
    <3>4. pos[d] = m[2]
        BY <3>3, <1>2, <2>2, <2>p
    <3>5. m = Current(d)
        BY <3>4, <2>p, CurrentMessage
    <3>6. CASE Skip(d)
      <4>1. step[d] = "look"
          BY <3>6 DEF Skip, HasTarget
      <4>2. ~Begun(m)
          BY <4>1, <3>4, <2>p DEF Begun
      <4> QED
          BY <4>2, <3>3, <1>2 DEF AirInv
    <3>7. CASE Reported(d)
      <4>1. step[d] = "reporting" /\ \A r \in reports : r.by # d
          BY <3>7 DEF Reported
      <4>2. row[m] \in Statuses \/ faults > 0
          BY <4>1, <3>5, <2>p DEF LoggedInv
      <4> QED
          BY <4>2, <3>3
    <3> QED
        BY <3>2, <3>6, <3>7
  <2> QED
      BY <2>1, <2>2
<1> QED
    BY <1>1, <1>2 DEF LoggedInv, EverySendIsLogged, Current

-----------------------------------------------------------------------------
(* The invariant, and what follows from it.                                 *)

LEMMA StepIInv == IInv /\ [OutboundNext]_vars => IInv'
    BY StepTypes, StepCalls, StepAir, StepFrames, StepVerdicts, StepAnswers, StepLogged, Zenon DEF IInv

LEMMA Invariance == OutboundSpec => []IInv
<1>1. OutboundInit => IInv
    BY InitTypes, InitRest DEF IInv
<1> QED
    BY <1>1, StepIInv, PTL DEF OutboundSpec

\* Every variable of a send, of the radios and of the log keeps its shape; in
\* particular an ACK is awaited only of a radio that correlates by packet id and
\* for a message it took, and a radio's last message is one of its own.
THEOREM OutboundTypeCorrect == OutboundSpec => []OutboundTypeOK
<1>1. IInv => OutboundTypeOK
    BY DEF IInv
<1> QED
    BY <1>1, Invariance, PTL

\* On the radios that correlate by packet id, for any number of overlapping
\* sends and link losses, a message shown as delivered was acknowledged by its
\* station, and one shown as failed was refused or never left.
THEOREM AnswersAreTrue == OutboundSpec => []AnswersReachTheirMessage
<1>1. IInv => AnswersReachTheirMessage
    BY DEF IInv, AnswersInv, AnswersReachTheirMessage, Claimed, Keyed
<1> QED
    BY <1>1, Invariance, PTL

\* On those radios the operator hears at most one verdict on a message, however
\* often the network repeats an ACK.
THEOREM OneVerdictEach == OutboundSpec => []OneVerdict
<1>1. IInv => OneVerdict
    BY DEF IInv, VerdictInv, VerdictOf, OneVerdict, Keyed
<1> QED
    BY <1>1, Invariance, PTL

\* When send_tracked has moved on, what it transmitted is in the log with a
\* status, or the database refused a write.
THEOREM SendsAreLogged == OutboundSpec => []EverySendIsLogged
<1>1. IInv => EverySendIsLogged
    BY DEF IInv, LoggedInv
<1> QED
    BY <1>1, Invariance, PTL

LEMMA VerdictsRest ==
    ASSUME IInv, [OutboundNext]_vars, NEW m \in Keyed, pos[m[1]] > m[2], row[m] \in Verdicts
    PROVE  row'[m] = row[m]
<1>t. CallTypes /\ StatusTypes /\ m \in Sent /\ m[1] \in Calls /\ m[2] \in Nat
    BY TypeParts, MessageParts DEF IInv, Keyed
<1>v. VerdictOf(m)
    BY DEF IInv, VerdictInv
<1>p. pos[m[1]] # m[2]
    BY <1>t DEF CallTypes
<1>1. CASE Quiet
    BY <1>1 DEF Quiet
<1>2. ASSUME NEW c \in Calls, SendReturns(c) PROVE row'[m] = row[m]
    BY <1>2 DEF SendReturns, status
<1>3. ASSUME NEW c \in Calls, Store(c) PROVE row'[m] = row[m]
  <2>1. m # Current(c)
      BY <1>p, <1>t, CurrentMessage
  <2> QED
      BY <1>3, <2>1, <1>t DEF Store, StatusTypes
<1>4. ASSUME NEW x, NEW s, Answered(x, s) PROVE row'[m] = row[m]
    BY <1>4 DEF Answered
<1>5. ASSUME NEW r \in reports, Select(r) PROVE row'[m] = row[m]
    BY <1>5 DEF Select
<1>6. ASSUME NEW r \in reports, Update(r) PROVE row'[m] = row[m]
  <2>1. r.msg # m
    <3>1. r.status \in Verdicts \/ r.status = "sent_to_air"
        BY <1>t DEF StatusTypes, ReportSet, Statuses
    <3> QED
        BY <3>1, <1>v, <1>p, Zenon DEF VerdictOf
  <2> QED
      BY <1>6, <2>1, <1>t DEF Update, StatusTypes
<1> QED
    BY <1>1, <1>2, <1>3, <1>4, <1>5, <1>6, KeyedSteps DEF IInv

\* A verdict in the log of a message whose send is reported stays: no report
\* that set out earlier overwrites it.
THEOREM VerdictsStay == OutboundSpec => VerdictStays
<1>1. IInv /\ [OutboundNext]_vars =>
        [\A m \in Keyed :
           (pos[m[1]] > m[2] /\ row[m] \in Verdicts) => row'[m] = row[m]]_vars
    BY VerdictsRest DEF Keyed
<1> QED
    BY <1>1, Invariance, PTL DEF OutboundSpec, VerdictStays

-----------------------------------------------------------------------------
(* Outbound implements DeliveryStatus.                                      *)

\* A message of a radio of ById has a row from the time send_tracked stores it,
\* not before; and nobody says "confirmed" of it, which is MeshCore's verdict.
Unlogged(m) ==
    \/ pos[m[1]] < m[2]
    \/ pos[m[1]] = m[2] /\ step[m[1]] \in {"look", "sending", "store sent", "store failed"}

EntryInv ==
    \A m \in Keyed :
       /\ Unlogged(m) => row[m] = "absent"
       /\ \A r \in reports : r.msg = m /\ r.at = "update" => row[m] # "absent"
       /\ ~Claimed(m, "confirmed")

LEMMA InitEntry == OutboundInit => EntryInv
    BY DEF OutboundInit, EntryInv, Claimed, Shown, Keyed

LEMMA UnloggedBefore ==
    ASSUME CallTypes, [OutboundNext]_vars, NEW m \in Sent
    PROVE  Unlogged(m)' => Unlogged(m) /\ \A c \in Calls : Store(c) => m # Current(c)
<1>p. m[1] \in Calls /\ m[2] \in Nat \ {0} /\ pos[m[1]] \in Nat
    BY MessageParts DEF CallTypes
<1>1. ASSUME NEW c \in Calls, CallStep(c) \/ StoreFails(c), Unlogged(m)' PROVE Unlogged(m)
  <2>1. CASE c = m[1]
    <3>1. \/ pos'[c] = pos[c] /\ step'[c] # "look"
          \/ pos'[c] = pos[c] + 1
        BY <1>1, CallMoves
    <3>2. CASE pos'[c] = pos[c] + 1
      <4>1. pos'[m[1]] < m[2] \/ pos'[m[1]] = m[2] => pos[m[1]] < m[2]
          BY <1>p, <2>1, <3>2
      <4> QED
          BY <1>1, <4>1, Zenon DEF Unlogged
    <3>3. CASE pos'[c] = pos[c] /\ step'[c] # "look"
      <4>1. step'[c] \in {"sending", "store sent", "store failed"} =>
                step[c] \in {"look", "sending", "store sent", "store failed"}
          BY <1>1, <1>p, <2>1 DEF CallTypes, CallStep, Skip, Transmit, SendReturns, SendFails, Store, Reported,
                Finish, StoreFails, HasTarget
      <4> QED
          BY <1>p, <1>1, <2>1, <3>3, <4>1 DEF Unlogged
    <3> QED
        BY <3>1, <3>2, <3>3
  <2>2. CASE c # m[1]
    <3>1. step'[m[1]] = step[m[1]] /\ pos'[m[1]] = pos[m[1]]
        BY <1>1, <2>2, <1>p, CallMoves
    <3> QED
        BY <3>1, <1>1 DEF Unlogged
  <2> QED
      BY <2>1, <2>2
<1>2. UNCHANGED <<step, pos>> => (Unlogged(m)' => Unlogged(m))
    BY DEF Unlogged
<1>3. UNCHANGED vars => UNCHANGED <<step, pos>>
    BY DEF vars, calls
<1>4. ASSUME NEW c \in Calls, Store(c), m = Current(c) PROVE ~Unlogged(m)'
  <2>1. c = m[1] /\ pos'[c] = m[2] /\ step'[c] = "reporting"
      BY <1>4, CurrentMessage DEF Store, CallTypes
  <2> QED
      BY <2>1, <1>p DEF Unlogged
<1>5. Unlogged(m)' => Unlogged(m)
    BY <1>1, <1>2, <1>3, OthersRest DEF OutboundNext, Persist, World
<1> QED
    BY <1>4, <1>5

LEMMA StepEntry == IInv /\ EntryInv /\ [OutboundNext]_vars => EntryInv'
<1> SUFFICES ASSUME IInv, EntryInv, [OutboundNext]_vars, NEW m \in Keyed
             PROVE  /\ Unlogged(m)' => row'[m] = "absent"
                    /\ \A r \in reports' : r.msg = m /\ r.at = "update" => row'[m] # "absent"
                    /\ ~Claimed(m, "confirmed")'
    BY DEF EntryInv, Keyed, RadioOf
<1>t. OutboundTypeOK /\ CallTypes /\ StatusTypes /\ m \in Sent
    BY TypeParts DEF IInv, Keyed
<1>s. \/ Quiet
      \/ \E c \in Calls : SendReturns(c) \/ Store(c)
      \/ \E x \in Sent, s \in {"delivered", "failed"} : Answered(x, s)
      \/ \E r \in reports : Select(r) \/ Update(r)
    BY KeyedSteps DEF IInv
<1>1. ASSUME Unlogged(m)' PROVE row'[m] = "absent"
  <2>1. Unlogged(m) /\ row[m] = "absent" /\ \A c \in Calls : Store(c) => m # Current(c)
      BY <1>1, <1>t, UnloggedBefore DEF EntryInv
  <2>2. ASSUME NEW c \in Calls, Store(c) PROVE row'[m] = row[m]
      BY <2>1, <2>2, <1>t DEF Store, StatusTypes
  <2>3. ASSUME NEW r \in reports, Update(r) PROVE row'[m] = row[m]
    <3>1. r.msg # m
        BY <2>1, <2>3 DEF EntryInv, Update
    <3> QED
        BY <2>3, <3>1, <1>t DEF Update, StatusTypes
  <2>4. ASSUME NEW c \in Calls, SendReturns(c) PROVE row' = row
      BY <2>4 DEF SendReturns, status
  <2>5. ASSUME NEW r \in reports, Select(r) PROVE row' = row
      BY <2>5 DEF Select
  <2>6. ASSUME NEW x, NEW s, Answered(x, s) PROVE row' = row
      BY <2>6 DEF Answered
  <2> QED
      BY <1>s, <2>1, <2>2, <2>3, <2>4, <2>5, <2>6 DEF Quiet
<1>2. ASSUME NEW r \in reports', r.msg = m, r.at = "update" PROVE row'[m] # "absent"
  <2>1. row[m] # "absent" => row'[m] # "absent"
    <3>1. "absent" \notin Statuses /\ "none" # "absent"
        BY DEF Statuses, Verdicts
    <3> QED
        BY <3>1, <1>t, RowMoves
  <2>2. CASE r \in reports
      BY <2>1, <2>2, <1>2 DEF EntryInv
  <2>3. ASSUME NEW x \in reports, Select(x), r \notin reports PROVE row[m] # "absent"
    <3>1. r = [x EXCEPT !.at = "update"] /\ row[x.msg] # "absent"
        BY <2>3 DEF Select
    <3>2. [x EXCEPT !.at = "update"].msg = x.msg
        BY <1>t DEF StatusTypes, ReportSet
    <3> QED
        BY <3>1, <3>2, <1>2
  <2>4. ASSUME NEW x \in Sent, NEW s, NEW by, Report(x, s, by) PROVE r \in reports
      BY <2>4, <1>2 DEF Report
  <2>5. ASSUME NEW c \in Calls, Store(c) PROVE r \in reports
      BY <2>4, <2>5 DEF Store, Storing, IInv, CallsInv
  <2>6. ASSUME NEW x \in Sent, NEW s, Answered(x, s) PROVE r \in reports
      BY <2>4, <2>6 DEF Answered
  <2>7. ASSUME NEW c \in Calls, SendReturns(c) PROVE r \in reports
      BY <2>7 DEF SendReturns, status
  <2>8. ASSUME NEW x \in reports, Update(x) PROVE r \in reports
      BY <2>8 DEF Update
  <2>9. Quiet => r \in reports
      BY <1>2 DEF Quiet
  <2> QED
      BY <1>s, <2>1, <2>2, <2>3, <2>5, <2>6, <2>7, <2>8, <2>9
<1>3. ASSUME Claimed(m, "confirmed")' PROVE FALSE
  <2>1. "confirmed" \in Verdicts /\ ~Claimed(m, "confirmed")
      BY DEF Verdicts, EntryInv
  <2>2. Answered(m, "confirmed") \/ "confirmed" = "failed"
      BY <2>1, <1>3, <1>t, NewClaims DEF IInv
  <2> QED
      BY <2>2 DEF Answered
<1> QED
    BY <1>1, <1>2, <1>3

\* All of a message that DeliveryStatus sees, and a step that leaves it.
Rests(m) ==
    /\ PhaseOf(m)' = PhaseOf(m) /\ air'[m] = air[m]
    /\ VerdictOn(m)' = VerdictOn(m) /\ row'[m] = row[m]

\* A step that leaves every message maps to no step of DeliveryStatus.
LEMMA NoneMoves == (\A m \in Keyed : Rests(m)) => UNCHANGED Promised!statusVars
    BY DEF Rests, Promised!statusVars, Keyed, RadioOf

\* The four functions of the mapping after a step about m.
LEMMA OneMoves ==
    ASSUME NEW m \in Keyed, \A x \in Keyed \ {m} : Rests(x)
    PROVE  /\ [x \in Keyed |-> PhaseOf(x)]' = [[x \in Keyed |-> PhaseOf(x)] EXCEPT ![m] = PhaseOf(m)']
           /\ [x \in Keyed |-> air[x]]' = [[x \in Keyed |-> air[x]] EXCEPT ![m] = air'[m]]
           /\ [x \in Keyed |-> VerdictOn(x)]' = [[x \in Keyed |-> VerdictOn(x)] EXCEPT ![m] = VerdictOn(m)']
           /\ [x \in Keyed |-> row[x]]' = [[x \in Keyed |-> row[x]] EXCEPT ![m] = row'[m]]
           /\ PhaseOf(m)' = PhaseOf(m) =>
                 [x \in Keyed |-> PhaseOf(x)]' = [x \in Keyed |-> PhaseOf(x)]
           /\ air'[m] = air[m] => [x \in Keyed |-> air[x]]' = [x \in Keyed |-> air[x]]
           /\ VerdictOn(m)' = VerdictOn(m) =>
                 [x \in Keyed |-> VerdictOn(x)]' = [x \in Keyed |-> VerdictOn(x)]
           /\ row'[m] = row[m] => [x \in Keyed |-> row[x]]' = [x \in Keyed |-> row[x]]
    BY DEF Rests, Keyed, RadioOf

\* Each way a message moves is an action of DeliveryStatus.
LEMMA MovesAllowed ==
    ASSUME NEW m \in Keyed, \A x \in Keyed \ {m} : Rests(x)
    PROVE  /\ PhaseOf(m) = "due" /\ PhaseOf(m)' = "over" /\ air'[m] = air[m] /\ VerdictOn(m)' = VerdictOn(m)
                /\ row'[m] = row[m]
              => Promised!Passes(m)
           /\ PhaseOf(m) = "due" /\ PhaseOf(m)' = "under way" /\ air'[m] \in {"none", "air"}
                /\ VerdictOn(m)' = VerdictOn(m) /\ row'[m] = row[m]
              => Promised!Begins(m)
           /\ PhaseOf(m) # "due" /\ PhaseOf(m)' = PhaseOf(m) /\ air[m] = "air" /\ air'[m] \in {"acked", "refused"}
                /\ VerdictOn(m)' = VerdictOn(m) /\ row'[m] = row[m]
              => Promised!IsAnswered(m)
           /\ PhaseOf(m) # "due" /\ PhaseOf(m)' = PhaseOf(m) /\ air'[m] = air[m] /\ VerdictOn(m) = "nothing"
                /\ \/ VerdictOn(m)' = "delivered" /\ air[m] = "acked"
                   \/ VerdictOn(m)' = "failed" /\ air[m] \in {"none", "refused"}
                /\ row'[m] = row[m]
              => Promised!Tell(m)
           /\ PhaseOf(m) = "under way" /\ PhaseOf(m)' = PhaseOf(m) /\ air'[m] = air[m]
                /\ row[m] = "absent" /\ row'[m] = "none"
                /\ \/ VerdictOn(m)' = VerdictOn(m)
                   \/ VerdictOn(m) = "nothing" /\ VerdictOn(m)' = "failed" /\ air[m] \in {"none", "refused"}
              => Promised!Enter(m)
           /\ PhaseOf(m) = "under way" /\ PhaseOf(m)' = PhaseOf(m) /\ air'[m] = air[m]
                /\ VerdictOn(m)' = VerdictOn(m) /\ row[m] # "absent" /\ row'[m] = "sent_to_air"
              => Promised!MarkSent(m)
           /\ PhaseOf(m)' = PhaseOf(m) /\ air'[m] = air[m] /\ VerdictOn(m)' = VerdictOn(m)
                /\ VerdictOn(m) # "nothing" /\ row[m] \in {"none", "sent_to_air"} /\ row'[m] = VerdictOn(m)
              => Promised!MarkVerdict(m)
           /\ PhaseOf(m) = "under way" /\ PhaseOf(m)' = "over" /\ air'[m] = air[m] /\ VerdictOn(m)' = VerdictOn(m)
                /\ row[m] # "absent" /\ row'[m] = row[m]
              => Promised!Ends(m)
<1> DEFINE fp == [x \in Keyed |-> PhaseOf(x)]
           fa == [x \in Keyed |-> air[x]]
           fv == [x \in Keyed |-> VerdictOn(x)]
           fr == [x \in Keyed |-> row[x]]
<1>1. /\ fp[m] = PhaseOf(m) /\ fa[m] = air[m] /\ fv[m] = VerdictOn(m) /\ fr[m] = row[m]
    OBVIOUS
<1>2. /\ fp' = [fp EXCEPT ![m] = PhaseOf(m)'] /\ fa' = [fa EXCEPT ![m] = air'[m]]
      /\ fv' = [fv EXCEPT ![m] = VerdictOn(m)'] /\ fr' = [fr EXCEPT ![m] = row'[m]]
    BY OneMoves
<1>3. /\ PhaseOf(m)' = PhaseOf(m) => fp' = fp
      /\ air'[m] = air[m] => fa' = fa
      /\ VerdictOn(m)' = VerdictOn(m) => fv' = fv
      /\ row'[m] = row[m] => fr' = fr
    BY OneMoves
<1> DEFINE p == PhaseOf(m)
           q == PhaseOf(m)'
           v == VerdictOn(m)
           w == VerdictOn(m)'
<1> QED
    BY <1>1, <1>2, <1>3
    DEF Promised!Passes, Promised!Begins, Promised!IsAnswered, Promised!Tell, Promised!Enter, Promised!MarkSent,
        Promised!MarkVerdict, Promised!Ends, Promised!Truthful

LEMMA MoveIsNext ==
    ASSUME NEW m \in Keyed,
           \/ Promised!Passes(m) \/ Promised!Begins(m) \/ Promised!Ends(m)
           \/ Promised!IsAnswered(m) \/ Promised!Tell(m)
           \/ Promised!Enter(m) \/ Promised!MarkSent(m) \/ Promised!MarkVerdict(m)
    PROVE  Promised!StatusNext
    BY Zenon DEF Promised!StatusNext

\* The phase of the i-th message of a call that is at its p-th with step s.
Turn(p, i, s) == IF p > i THEN "over" ELSE IF p = i /\ s # "look" THEN "under way" ELSE "due"

\* A call's step moves the phase of its current message and of no other.
LEMMA PhaseMoves ==
    ASSUME CallTypes, NEW c \in Calls, CallStep(c) \/ StoreFails(c), NEW m \in Sent
    PROVE  /\ m # Current(c) => PhaseOf(m)' = PhaseOf(m)
           /\ m = Current(c) => PhaseOf(m) = IF step[c] = "look" THEN "due" ELSE "under way"
           /\ m = Current(c) => PhaseOf(m)' = IF pos'[c] = pos[c] THEN "under way" ELSE "over"
<1>p. m[1] \in Calls /\ m[2] \in Nat \ {0} /\ pos[m[1]] \in Nat
    BY MessageParts DEF CallTypes
<1>c. \/ pos'[c] = pos[c] /\ step'[c] # "look"
      \/ pos'[c] = pos[c] + 1 /\ step'[c] = "look" /\ step[c] \in {"look", "reporting"}
    BY CallMoves
<1>1. CASE m[1] # c
  <2>1. step'[m[1]] = step[m[1]] /\ pos'[m[1]] = pos[m[1]]
      BY <1>1, <1>p, CallMoves
  <2>2. m # Current(c)
      BY <1>1, CurrentMessage
  <2> QED
      BY <2>1, <2>2 DEF PhaseOf
<1>2. CASE m[1] = c
  <2> DEFINE i == m[2]
             p == pos[c]
             q == pos'[c]
             s == step[c]
             t == step'[c]
  <2>1. i \in Nat /\ p \in Nat /\ (m = Current(c) <=> i = p)
      BY <1>2, <1>p, CurrentMessage
  <2>2. PhaseOf(m) = Turn(p, i, s) /\ PhaseOf(m)' = Turn(q, i, t)
      BY <1>2, Zenon DEF PhaseOf, Turn
  <2>3. (q = p /\ t # "look") \/ (q = p + 1 /\ t = "look")
      BY <1>c
  <2>4. q \in Nat
      BY <2>1, <2>3
  <2> HIDE DEF i, p, q, s, t
  <2>5. /\ i # p => Turn(q, i, t) = Turn(p, i, s)
        /\ i = p => Turn(p, i, s) = IF s = "look" THEN "due" ELSE "under way"
        /\ i = p => Turn(q, i, t) = IF q = p THEN "under way" ELSE "over"
    <3>n. i \in Nat /\ p \in Nat /\ q \in Nat /\ ((q = p /\ t # "look") \/ (q = p + 1 /\ t = "look"))
        BY <2>1, <2>3, <2>4
    <3>g. ~(p > p)
        BY <3>n
    <3>1. ASSUME i = p PROVE Turn(p, i, s) = IF s = "look" THEN "due" ELSE "under way"
        BY <3>1, <3>g, Zenon DEF Turn
    <3>2. ASSUME i = p PROVE Turn(q, i, t) = IF q = p THEN "under way" ELSE "over"
      <4>1. CASE q = p /\ t # "look"
          BY <3>2, <4>1, <3>g, Zenon DEF Turn
      <4>2. CASE q = p + 1 /\ t = "look"
        <5>1. q > i /\ q # p
            BY <3>2, <4>2, <3>n
        <5> QED
            BY <5>1, Zenon DEF Turn
      <4> QED
          BY <3>n, <4>1, <4>2, Zenon
    <3>3. i # p => Turn(q, i, t) = Turn(p, i, s)
      <4>1. ASSUME i < p PROVE Turn(q, i, t) = Turn(p, i, s)
        <5>1. q > i /\ p > i
            BY <4>1, <3>n
        <5>2. Turn(q, i, t) = "over"
            BY <5>1, Zenon DEF Turn
        <5>3. Turn(p, i, s) = "over"
            BY <5>1, Zenon DEF Turn
        <5> QED
            BY <5>2, <5>3, Zenon
      <4>2. ASSUME i > p PROVE Turn(q, i, t) = Turn(p, i, s)
        <5>1. ~(p > i) /\ p # i /\ ~(q > i) /\ (q # i \/ t = "look")
            BY <4>2, <3>n
        <5>2. Turn(q, i, t) = "due"
            BY <5>1, Zenon DEF Turn
        <5>3. Turn(p, i, s) = "due"
            BY <5>1, Zenon DEF Turn
        <5> QED
            BY <5>2, <5>3, Zenon
      <4>3. i < p \/ i = p \/ i > p
          BY <3>n
      <4> QED
          BY <4>1, <4>2, <4>3, Zenon
    <3> QED
        BY <3>1, <3>2, <3>3, Zenon
  <2> QED
      BY <2>1, <2>2, <2>5, Zenon DEF p, q, s
<1> QED
    BY <1>1, <1>2

LEMMA PhasesRest == UNCHANGED <<step, pos>> => \A m \in Keyed : PhaseOf(m)' = PhaseOf(m)
    BY DEF PhaseOf

\* "due" is a message whose turn has not come.
LEMMA DueIsNotBegun ==
    ASSUME CallTypes, NEW m \in Sent
    PROVE  PhaseOf(m) = "due" <=> ~Begun(m)
    BY MessageParts DEF CallTypes, PhaseOf, Begun

\* What was told of a message is one verdict at most, and what it is called.
LEMMA VerdictNamed ==
    ASSUME StatusTypes, NEW m \in Keyed, VerdictOf(m)
    PROVE  /\ told[m] = <<>> <=> VerdictOn(m) = "nothing"
           /\ told[m] # <<>> => 1 \in DOMAIN told[m] /\ VerdictOn(m) = told[m][1] /\ told[m][1] \in Verdicts
<1>1. told[m] \in Seq(Verdicts) /\ Len(told[m]) <= 1
    BY DEF StatusTypes, Keyed, VerdictOf
<1>2. CASE told[m] = <<>>
    BY <1>2 DEF VerdictOn
<1>3. CASE told[m] # <<>>
  <2> DEFINE t == told[m]
  <2> HIDE DEF t
  <2>0. t \in Seq(Verdicts) /\ Len(t) <= 1 /\ t # <<>>
      BY <1>1, <1>3 DEF t
  <2> DEFINE n == Len(t)
  <2>1. n \in Nat /\ n # 0 /\ n <= 1
      BY <2>0
  <2> HIDE DEF n
  <2>2. n = 1
      BY <2>1
  <2>3. 1 \in DOMAIN t /\ t[1] \in Verdicts
      BY <2>0, <2>2 DEF n
  <2> QED
    <3>1. VerdictOn(m) = t[1]
        BY <1>3, <2>2, Zenon DEF VerdictOn, t, n
    <3>2. told[m][1] = t[1] /\ DOMAIN told[m] = DOMAIN t /\ VerdictOn(m) # "nothing"
        BY <2>3, <3>1 DEF t, Verdicts
    <3> QED
        BY <1>3, <2>3, <3>1, <3>2
<1> QED
    BY <1>2, <1>3

-----------------------------------------------------------------------------
(* One step of Outbound, one step of DeliveryStatus or none.                *)

PromiseStep == [Promised!StatusNext]_(Promised!statusVars)

\* The steps that neither speak of a message nor decide it.
LEMMA SilentSteps ==
    ASSUME \A m \in Keyed : PhaseOf(m)' = PhaseOf(m), UNCHANGED air, UNCHANGED row,
           \A m \in Keyed : told'[m] = told[m]
    PROVE  PromiseStep
    BY NoneMoves DEF Rests, PromiseStep, VerdictOn

\* A call's step that leaves log and clients alone.
LEMMA CallPromised ==
    ASSUME IInv, NEW c \in Calls, CallStep(c) \/ StoreFails(c), ~Store(c)
    PROVE  PromiseStep
<1>t. CallTypes /\ RadioTypes /\ StatusTypes
    BY TypeParts DEF IInv
<1>1. UNCHANGED <<row, told>>
    BY DEF CallStep, Skip, Transmit, SendReturns, SendFails, Reported, Finish, StoreFails, status
<1>2. \A m \in Keyed : VerdictOn(m)' = VerdictOn(m)
    BY <1>1 DEF VerdictOn
<1>3. \A m \in Keyed \ {Current(c)} : PhaseOf(m)' = PhaseOf(m)
    BY <1>t, PhaseMoves DEF Keyed
<1>4. \A m \in Sent \ {Current(c)} : air'[m] = air[m]
    BY <1>t DEF CallStep, Skip, Transmit, SendReturns, SendFails, Store, Reported, Finish, StoreFails, radio, RadioTypes
<1>5. \A m \in Keyed \ {Current(c)} : Rests(m)
    BY <1>1, <1>2, <1>3, <1>4 DEF Rests, Keyed
<1>6. CASE Current(c) \notin Keyed
    BY <1>5, <1>6, NoneMoves DEF PromiseStep
<1>7. CASE Current(c) \in Keyed
  <2>0. PICK m \in Keyed : m \in Sent /\ m = Current(c)
      BY <1>7 DEF Keyed
  <2>1. /\ PhaseOf(m) = IF step[c] = "look" THEN "due" ELSE "under way"
        /\ PhaseOf(m)' = IF pos'[c] = pos[c] THEN "under way" ELSE "over"
      BY <2>0, <1>t, PhaseMoves
  <2>2. VerdictOn(m)' = VerdictOn(m) /\ row'[m] = row[m]
      BY <2>0, <1>1, <1>2
  <2>3. \A x \in Keyed \ {m} : Rests(x)
      BY <1>5, <2>0
  <2>4. CASE Skip(c)
    <3>1. step[c] = "look" /\ pos'[c] # pos[c] /\ air' = air
        BY <2>4, <1>t DEF Skip, HasTarget, CallTypes, radio
    <3>2. Promised!Passes(m)
        BY <2>0, <2>1, <2>2, <2>3, <3>1, MovesAllowed
    <3> QED
        BY <2>0, <3>2, MoveIsNext DEF PromiseStep
  <2>5. CASE Transmit(c)
    <3>1. step[c] = "look" /\ pos'[c] = pos[c]
        BY <2>5 DEF Transmit, HasTarget
    <3>2. PhaseOf(m) = "due" /\ PhaseOf(m)' = "under way"
        BY <2>1, <3>1
    <3>3. air[m] = "none"
        BY <2>0, <3>2, <1>t, DueIsNotBegun DEF IInv, AirInv
    <3>4. air'[m] \in {"none", "air"}
        BY <2>5, <2>0, <3>3, <1>t DEF Transmit, RadioTypes
    <3>5. Promised!Begins(m)
        BY <2>0, <2>2, <2>3, <3>2, <3>4, MovesAllowed
    <3> QED
        BY <2>0, <3>5, MoveIsNext DEF PromiseStep
  <2>6. CASE Reported(c)
    <3>1. step[c] = "reporting" /\ pos'[c] # pos[c] /\ air' = air
        BY <2>6, <1>t DEF Reported, CallTypes, radio
    <3>2. row[m] # "absent"
        BY <2>0, <3>1, Zenon DEF IInv, LoggedInv
    <3>3. Promised!Ends(m)
        BY <2>0, <2>1, <2>2, <2>3, <3>1, <3>2, MovesAllowed
    <3> QED
        BY <2>0, <3>3, MoveIsNext DEF PromiseStep
  <2>7. CASE SendReturns(c) \/ SendFails(c) \/ StoreFails(c)
    <3>1. step[c] # "look" /\ pos' = pos /\ air' = air
        BY <2>7 DEF SendReturns, SendFails, StoreFails, Storing, radio
    <3>2. Rests(m)
        BY <2>0, <2>1, <2>2, <3>1 DEF Rests
    <3> QED
        BY <2>3, <3>2, NoneMoves DEF PromiseStep
  <2>8. CASE Finish(c)
    <3>1. pos[c] > Len(Targets[c])
        BY <2>8 DEF Finish
    <3>2. PICK d \in Calls : \E i \in DOMAIN Targets[d] : m = <<d, i>>
        BY <2>0 DEF Sent
    <3>3. pos[c] \in DOMAIN Targets[c] /\ Targets[c] \in Seq(Radios)
        BY <2>0, <3>2, OutboundAssumption DEF Current
    <3> QED
        BY <3>1, <3>3
  <2> QED
      BY <2>4, <2>5, <2>6, <2>7, <2>8 DEF CallStep
<1> QED
    BY <1>6, <1>7

LEMMA StorePromised ==
    ASSUME IInv, EntryInv, NEW c \in Calls, Store(c)
    PROVE  PromiseStep
<1>t. CallTypes /\ RadioTypes /\ StatusTypes
    BY TypeParts DEF IInv
<1>m. PICK m \in Sent : m = Current(c)
    BY DEF Store, Storing, IInv, CallsInv
<1>0. /\ Report(m, Outcome(c), c) /\ row' = [row EXCEPT ![m] = "none"]
      /\ air' = air /\ pos' = pos /\ step[c] \in {"store sent", "store failed"}
    BY <1>m DEF Store, Storing, radio
<1>1. \A x \in Sent \ {m} : told'[x] = told[x] /\ row'[x] = row[x] /\ PhaseOf(x)' = PhaseOf(x)
    BY <1>0, <1>m, <1>t, ReportMoves, PhaseMoves DEF CallStep, StatusTypes
<1>2. \A x \in Keyed \ {m} : Rests(x)
    BY <1>0, <1>1 DEF Rests, VerdictOn, Keyed
<1>3. CASE m \notin Keyed
    BY <1>2, <1>3, NoneMoves DEF PromiseStep
<1>4. CASE m \in Keyed
  <2>1. PhaseOf(m) = "under way" /\ PhaseOf(m)' = PhaseOf(m)
      BY <1>0, <1>m, <1>t, PhaseMoves DEF CallStep
  <2>p. m[1] = c /\ m[2] = pos[c]
      BY <1>m, CurrentMessage
  <2>2. row[m] = "absent" /\ row'[m] = "none"
      BY <1>0, <1>4, <2>p, <1>t DEF EntryInv, Unlogged, StatusTypes
  <2>v. VerdictOf(m)
      BY <1>4 DEF IInv, VerdictInv
  <2>3. CASE Outcome(c) = "sent_to_air"
    <3>1. told'[m] = told[m]
        BY <1>0, <2>3, <1>t, ReportMoves DEF Verdicts
    <3>2. VerdictOn(m)' = VerdictOn(m)
        BY <3>1 DEF VerdictOn
    <3>3. Promised!Enter(m)
        BY <1>0, <1>2, <1>4, <2>1, <2>2, <3>2, MovesAllowed
    <3> QED
        BY <1>4, <3>3, MoveIsNext DEF PromiseStep
  <2>4. CASE Outcome(c) = "failed"
    <3>1. step[c] = "store failed"
        BY <1>0, <2>4 DEF Outcome
    <3>2. air[m] = "none" /\ told[m] = <<>>
        BY <3>1, <1>m, <2>p, <2>v DEF IInv, CallsInv, VerdictOf, Early
    <3>3. told'[m] = Append(<<>>, "failed")
      <4>1. "failed" \in Verdicts /\ Report(m, "failed", c)
          BY <1>0, <2>4 DEF Verdicts
      <4> QED
          BY <3>2, <4>1, <1>t, ReportMoves
    <3>4. VerdictOn(m) = "nothing" /\ VerdictOn(m)' = "failed"
        BY <3>2, <3>3 DEF VerdictOn
    <3>5. Promised!Enter(m)
        BY <1>0, <1>2, <1>4, <2>1, <2>2, <3>2, <3>4, MovesAllowed
    <3> QED
        BY <1>4, <3>5, MoveIsNext DEF PromiseStep
  <2> QED
      BY <2>3, <2>4 DEF Outcome
<1> QED
    BY <1>3, <1>4

\* The radio's answers.
LEMMA RadioPromised ==
    ASSUME IInv, NEW m \in Sent, Accepts(m) \/ Refuses(m) \/ Acks(m)
    PROVE  PromiseStep
<1>t. CallTypes /\ RadioTypes /\ StatusTypes
    BY TypeParts DEF IInv
<1>1. UNCHANGED <<row, told, step, pos>>
    BY OthersRest DEF Accepts, Refuses, Acks, status
<1>2. \A x \in Keyed : PhaseOf(x)' = PhaseOf(x) /\ VerdictOn(x)' = VerdictOn(x)
    BY <1>1 DEF PhaseOf, VerdictOn
<1>3. /\ \A x \in Sent \ {m} : air'[x] = air[x]
      /\ air[m] # "none"
      /\ m \in Keyed => air[m] \in {"air", "acked"} /\ air'[m] \in {"refused", "acked"}
      /\ m \in Keyed /\ air[m] = "acked" => air'[m] = "acked"
    BY <1>t, RadioDecides
<1>4. \A x \in Keyed \ {m} : Rests(x)
    BY <1>1, <1>2, <1>3 DEF Rests, Keyed
<1>5. CASE m \notin Keyed \/ air'[m] = air[m]
    BY <1>1, <1>2, <1>4, <1>5, NoneMoves DEF Rests, PromiseStep
<1>6. CASE m \in Keyed /\ air'[m] # air[m]
  <2>1. air[m] = "air" /\ air'[m] \in {"refused", "acked"}
      BY <1>3, <1>6
  <2>2. PhaseOf(m) # "due"
      BY <2>1, <1>t, DueIsNotBegun DEF IInv, AirInv
  <2>3. Promised!IsAnswered(m)
      BY <1>1, <1>2, <1>4, <1>6, <2>1, <2>2, MovesAllowed
  <2> QED
      BY <1>6, <2>3, MoveIsNext DEF PromiseStep
<1> QED
    BY <1>5, <1>6

LEMMA HandlePromised ==
    ASSUME IInv, NEW r \in Radios, Handle(r)
    PROVE  PromiseStep
<1>t. CallTypes /\ RadioTypes /\ StatusTypes /\ OutboundTypeOK
    BY TypeParts DEF IInv
<1>1. UNCHANGED <<row, step, pos, air>>
    BY OthersRest DEF Handle, HandleRouting, HandlePush
<1>2. \A x \in Keyed : PhaseOf(x)' = PhaseOf(x)
    BY <1>1, PhasesRest
<1>3. CASE Quiet
    BY <1>1, <1>2, <1>3, SilentSteps DEF Quiet
<1>4. ASSUME NEW m \in Sent, NEW s \in {"delivered", "failed"}, Answered(m, s) PROVE PromiseStep
  <2>1. /\ m \in Keyed /\ m \in pending /\ Report(m, s, Device) /\ s \in Verdicts
        /\ \/ s = "delivered" /\ air[m] = "acked"
           \/ s = "failed" /\ air[m] \in {"none", "refused"}
      BY <1>4 DEF Answered, Verdicts
  <2>2. told[m] = <<>> /\ ~Early(m)
      BY <2>1 DEF IInv, VerdictInv, VerdictOf
  <2>3. PhaseOf(m) # "due"
    <3>1. m[2] \in Nat /\ pos[m[1]] \in Nat
        BY <1>t, MessageParts DEF CallTypes
    <3> QED
      <4>0. ~(pos[m[1]] < m[2])
          BY <2>2, Zenon DEF Early
      <4>1. pos[m[1]] > m[2] \/ pos[m[1]] = m[2]
          BY <3>1, <4>0
      <4>2. pos[m[1]] = m[2] => step[m[1]] # "look"
          BY <2>2 DEF Early
      <4> QED
          BY <4>1, <4>2 DEF PhaseOf
  <2>4. told'[m] = Append(<<>>, s) /\ \A x \in Sent \ {m} : told'[x] = told[x]
      BY <2>1, <2>2, <1>t, ReportMoves
  <2>5. VerdictOn(m) = "nothing" /\ VerdictOn(m)' = s
      BY <2>2, <2>4 DEF VerdictOn
  <2>6. \A x \in Keyed \ {m} : Rests(x)
      BY <1>1, <1>2, <2>4 DEF Rests, VerdictOn, Keyed
  <2>7. Promised!Tell(m)
      BY <1>1, <1>2, <2>1, <2>3, <2>5, <2>6, MovesAllowed
  <2> QED
      BY <2>1, <2>7, MoveIsNext DEF PromiseStep
<1>5. Quiet \/ \E m \in Sent, s \in {"delivered", "failed"} : Answered(m, s)
    BY <1>t, RoutingAnswers, PushIsQuiet DEF Handle, IInv
<1> QED
    BY <1>3, <1>4, <1>5

\* A report reaches the log.
LEMMA UpdatePromised ==
    ASSUME IInv, EntryInv, NEW r \in reports, Update(r)
    PROVE  PromiseStep
<1>t. CallTypes /\ RadioTypes /\ StatusTypes /\ r \in ReportSet
    BY TypeParts DEF IInv, StatusTypes
<1> DEFINE m == r.msg
<1>0. /\ m \in Sent /\ r.status \in Statuses /\ r.at = "update"
      /\ row' = [row EXCEPT ![m] = r.status] /\ UNCHANGED <<step, pos, air, told>>
    BY <1>t DEF ReportSet, Update, calls, radio
<1>1. \A x \in Keyed : PhaseOf(x)' = PhaseOf(x) /\ VerdictOn(x)' = VerdictOn(x) /\ air'[x] = air[x]
    BY <1>0 DEF PhaseOf, VerdictOn
<1>2. row'[m] = r.status /\ \A x \in Sent \ {m} : row'[x] = row[x]
    BY <1>0, <1>t DEF StatusTypes
<1>3. \A x \in Keyed \ {m} : Rests(x)
    BY <1>1, <1>2 DEF Rests, Keyed
<1>4. CASE m \notin Keyed
    BY <1>3, <1>4, NoneMoves DEF PromiseStep
<1>5. CASE m \in Keyed
  <2>v. VerdictOf(m)
      BY <1>5 DEF IInv, VerdictInv
  <2>e. row[m] # "absent" /\ ~Claimed(m, "confirmed")
      BY <1>0, <1>5 DEF EntryInv
  <2>1. CASE r.status = "sent_to_air"
    <3>1. pos[m[1]] = m[2] /\ step[m[1]] = "reporting"
        BY <2>1, <2>v DEF VerdictOf
    <3>2. m[2] \in Nat
        BY <1>0, MessageParts
    <3>3. PhaseOf(m) = "under way"
        BY <3>1, <3>2 DEF PhaseOf
    <3> HIDE DEF m
    <3>4. Promised!MarkSent(m)
        BY <1>1, <1>2, <1>3, <1>5, <2>1, <2>e, <3>3, MovesAllowed
    <3> QED
        BY <1>5, <3>4, MoveIsNext DEF PromiseStep
  <2>2. CASE r.status \in Verdicts
    <3>1. told[m] # <<>> /\ row[m] \notin Verdicts
        BY <2>2, <2>v DEF VerdictOf
    <3>2. 1 \in DOMAIN told[m] /\ VerdictOn(m) = told[m][1] /\ told[m][1] \in Verdicts /\ VerdictOn(m) # "nothing"
        BY <3>1, <1>5, <2>v, <1>t, VerdictNamed
    <3>3. Claimed(m, r.status) /\ Claimed(m, VerdictOn(m))
        BY <3>2 DEF Claimed, Shown
    <3>4. r.status \in {"delivered", "failed"} /\ VerdictOn(m) \in {"delivered", "failed"}
        BY <2>2, <3>2, <3>3, <2>e DEF Verdicts
    <3>5. r.status = VerdictOn(m)
        BY <3>3, <3>4, <1>5 DEF IInv, AnswersInv
    <3>6. row[m] \in {"none", "sent_to_air"}
        BY <3>1, <2>e, <1>0, <1>t DEF StatusTypes, Statuses
    <3> HIDE DEF m
    <3>7. Promised!MarkVerdict(m)
        BY <1>1, <1>2, <1>3, <1>5, <3>2, <3>5, <3>6, MovesAllowed
    <3> QED
        BY <1>5, <3>7, MoveIsNext DEF PromiseStep
  <2> QED
      BY <1>0, <2>1, <2>2 DEF Statuses
<1> QED
    BY <1>4, <1>5

LEMMA StepPromised == IInv /\ EntryInv /\ [OutboundNext]_vars => PromiseStep
<1> SUFFICES ASSUME IInv, EntryInv, [OutboundNext]_vars PROVE PromiseStep
    OBVIOUS
<1>1. ASSUME NEW r, Select(r) \/ StatusLost(r) \/ OtherCommand(r) \/ LinkDrops(r) \/ LinkReturns(r)
      PROVE  PromiseStep
  <2>1. UNCHANGED <<row, told, air>>
      BY <1>1 DEF Select, StatusLost, OtherCommand, LinkDrops, LinkReturns, radio, status
  <2>2. \A m \in Keyed : PhaseOf(m)' = PhaseOf(m)
      BY <1>1, OthersRest, PhasesRest
  <2> QED
      BY <2>1, <2>2, SilentSteps
<1>2. CASE UNCHANGED vars
  <2>1. UNCHANGED <<row, told, air, step, pos>>
      BY <1>2 DEF vars, calls, radio, status
  <2> QED
      BY <2>1, PhasesRest, SilentSteps
<1> QED
    BY <1>1, <1>2, CallPromised, StorePromised, RadioPromised, HandlePromised, UpdatePromised
    DEF OutboundNext, Persist, World

LEMMA InitPromised == OutboundInit => Promised!StatusInit
    BY MessageParts DEF OutboundInit, Promised!StatusInit, PhaseOf, VerdictOn, Keyed

\* Outbound implements DeliveryStatus on the radios that correlate by packet id,
\* for any number of overlapping sends, whatever links drop and writes fail: one
\* true verdict at most, and a log that, once the send is over, changes only from
\* no verdict to that verdict.
THEOREM LogIsAsPromised == OutboundSpec => StatusAsPromised
<1>1. OutboundInit => IInv /\ EntryInv
    BY InitTypes, InitRest, InitEntry DEF IInv
<1>2. IInv /\ EntryInv /\ [OutboundNext]_vars => IInv' /\ EntryInv' /\ [Promised!StatusNext]_(Promised!statusVars)
    BY StepIInv, StepEntry, StepPromised DEF PromiseStep
<1> QED
    BY <1>1, <1>2, InitPromised, PTL DEF OutboundSpec, StatusAsPromised, Promised!StatusSpec
=============================================================================
