---------------------------- MODULE AprsHub_proof ----------------------------
(***************************************************************************)
(* Proofs about AprsHub for any messages, objects, callers and paths.      *)
(*                                                                         *)
(*   AprsTypeCorrect             the type invariant;                       *)
(*   RetriesImplementDelivery    the hub's retries implement Delivery;     *)
(*   KillsAreRepeated            no killed object stays alive unnoticed;   *)
(*   MessagesShownOnce           retries of a message are not shown again. *)
(***************************************************************************)
EXTENDS AprsHub, TLAPS

MsgStates == {"unsent", "sending", "pending", "acked", "rejected", "no_ack", "failed", "lost"}

Records == ObjectNames \X (1 .. MaxVersions)

Calls == [pc: {"idle", "sending", "saving"}, op: {"none", "upsert", "kill"}, rec: Records \union {<<>>}]

Loops == [pc: {"asleep", "retry", "sending", "objects", "announcing"},
          todo: Seq(AprsMessages \union Records), objs: SUBSET Records, changed: BOOLEAN]

MessagesShape ==
    /\ aprsUp \in BOOLEAN
    /\ outgoing \in Seq(AprsMessages) /\ Len(outgoing) <= OutgoingCap
    /\ aprsMsg \in [AprsMessages -> [state: MsgStates, tries: 0 .. RetryDelays + 1, due: BOOLEAN]]
    /\ aprsCopies \in [AprsMessages -> Nat]
    /\ hubLoop \in Loops

ObjectsShape ==
    /\ ownObjects \in [ObjectNames -> 0 .. MaxVersions]
    /\ savedObjects \in [ObjectNames -> 0 .. MaxVersions]
    /\ objectDue \in SUBSET Records
    /\ hubApi \in [HubCallers -> Calls]
    /\ killRepeats \in SUBSET ObjectNames
    /\ missedKills \in SUBSET ObjectNames
    /\ lastHeard \in [ObjectNames -> -1 .. MaxVersions]
    /\ versions \in 0 .. MaxVersions

\* A call under way has the record it is about.
CallsHaveRecords == \A c \in HubCallers : hubApi[c].pc # "idle" => hubApi[c].rec \in Records

\* A message was handed to the hub: the adapter's send() has returned.
Handed(m) == aprsMsg[m].state \notin {"unsent", "sending"}

\* What the loop has to do, in each of its phases.
LoopHolds ==
    /\ hubLoop.pc \in {"retry", "sending"} =>
         \A i \in 1 .. Len(hubLoop.todo) : hubLoop.todo[i] \in AprsMessages /\ Handed(hubLoop.todo[i])
    /\ hubLoop.pc = "sending" =>
         hubLoop.todo # <<>> /\ aprsMsg[Head(hubLoop.todo)].tries <= RetryDelays
    /\ hubLoop.pc = "announcing" =>
         hubLoop.todo # <<>> /\ Head(hubLoop.todo) \in hubLoop.objs

OutgoingHanded == \A i \in 1 .. Len(outgoing) : Handed(outgoing[i])

\* A message that waits was tried as often as it was heard.
TriesAreCopies ==
    \A m \in AprsMessages :
        /\ ~Handed(m) => aprsCopies[m] = 0
        /\ aprsMsg[m].state = "pending" => aprsMsg[m].tries = aprsCopies[m]

MessagesInv == MessagesShape /\ LoopHolds /\ OutgoingHanded /\ TriesAreCopies

-----------------------------------------------------------------------------
(* The table of outgoing messages.                                          *)

\* A message that was tracked is in the table, and nobody else came in.
LEMMA TrackedTable ==
  ASSUME NEW m \in AprsMessages, outgoing \in Seq(AprsMessages), Len(outgoing) <= OutgoingCap
  PROVE  /\ Tracked(m) \in Seq(AprsMessages)
         /\ Len(Tracked(m)) <= OutgoingCap
         /\ m \in Range(Tracked(m))
         /\ Range(Tracked(m)) \subseteq Range(outgoing) \union {m}
         /\ \A i \in 1 .. Len(Tracked(m)) : Tracked(m)[i] \in Range(outgoing) \union {m}
  <1> DEFINE table == Append(outgoing, m)
  <1>1. /\ table \in Seq(AprsMessages)
        /\ Len(table) = Len(outgoing) + 1
        /\ table[Len(table)] = m
        /\ \A i \in 1 .. Len(outgoing) : table[i] = outgoing[i]
    OBVIOUS
  <1>2. \A i \in 1 .. Len(table) : table[i] \in Range(outgoing) \union {m}
    <2> SUFFICES ASSUME NEW i \in 1 .. Len(table) PROVE table[i] \in Range(outgoing) \union {m}
      OBVIOUS
    <2>1. CASE i <= Len(outgoing)
      <3>1. i \in DOMAIN outgoing /\ table[i] = outgoing[i]
        BY <1>1, <2>1
      <3> QED BY <3>1 DEF Range
    <2>2. CASE i = Len(table)
      BY <1>1, <2>2
    <2> QED BY <1>1, <2>1, <2>2
  <1>3. CASE Len(table) > OutgoingCap
    <2> DEFINE rest == SubSeq(table, EvictCount + 1, Len(table))
    <2>1. Tracked(m) = rest
      BY <1>3 DEF Tracked
    <2>2. Len(outgoing) = OutgoingCap
      BY <1>1, <1>3, AprsAssumption
    <2>3. /\ rest \in Seq(AprsMessages)
          /\ Len(rest) = Len(table) - EvictCount
          /\ \A i \in 1 .. Len(rest) : rest[i] = table[EvictCount + i]
      <3> HIDE DEF table
      <3> QED BY <1>1, <2>2, AprsAssumption
    <2>4. \A i \in 1 .. Len(rest) : rest[i] \in Range(outgoing) \union {m}
      <3> HIDE DEF table, rest
      <3> QED BY <1>1, <1>2, <2>2, <2>3, AprsAssumption
    <2>5. Len(rest) \in 1 .. OutgoingCap /\ rest[Len(rest)] = m
      <3> HIDE DEF table, rest
      <3> QED BY <1>1, <2>2, <2>3, AprsAssumption
    <2>6. Range(rest) = {rest[i] : i \in 1 .. Len(rest)}
      <3> HIDE DEF rest
      <3> QED BY <2>3 DEF Range
    <2> HIDE DEF rest
    <2> QED BY <2>1, <2>3, <2>4, <2>5, <2>6
  <1>4. CASE ~(Len(table) > OutgoingCap)
    <2>1. Tracked(m) = table
      BY <1>4 DEF Tracked
    <2>2. Range(table) = {table[i] : i \in 1 .. Len(table)}
      <3> HIDE DEF table
      <3> QED BY <1>1 DEF Range
    <2>3. Len(table) \in 1 .. OutgoingCap
      BY <1>1, <1>4, AprsAssumption
    <2> HIDE DEF table
    <2> QED BY <1>1, <1>2, <2>1, <2>2, <2>3
  <1> QED BY <1>3, <1>4
-----------------------------------------------------------------------------
(* Messages and the loop: the inductive invariant.                          *)

LEMMA MessagesInit == AprsInit => MessagesInv
  <1> SUFFICES ASSUME AprsInit PROVE MessagesInv
    OBVIOUS
  <1>1. MessagesShape
    BY AprsAssumption DEF AprsInit, MessagesShape, MsgStates, Loops, LoopAsleep
  <1>2. LoopHolds /\ OutgoingHanded /\ TriesAreCopies
    BY DEF AprsInit, LoopHolds, OutgoingHanded, TriesAreCopies, Handed, LoopAsleep
  <1> QED BY <1>1, <1>2 DEF MessagesInv

\* The parts of the invariant speak of these variables only.
LEMMA MessagesFrame ==
  ASSUME MessagesInv, UNCHANGED <<aprsUp, outgoing, aprsMsg, aprsCopies, hubLoop>>
  PROVE  MessagesInv'
  BY DEF MessagesInv, MessagesShape, LoopHolds, OutgoingHanded, TriesAreCopies, Handed

LEMMA MessagesStep ==
  ASSUME MessagesInv, AprsMessageStep
  PROVE  MessagesInv'
  <1> USE DEF MessagesInv
  <1>1. ASSUME NEW m \in AprsMessages, AprsSend(m) PROVE MessagesInv'
    <2>1. MessagesShape'
      BY <1>1 DEF AprsSend, MessagesShape, MsgStates
    <2>2. (LoopHolds /\ OutgoingHanded /\ TriesAreCopies)'
      BY <1>1 DEF AprsSend, MessagesShape, MsgStates, LoopHolds, OutgoingHanded, TriesAreCopies, Handed, Loops
    <2> QED BY <2>1, <2>2
  <1>2. ASSUME NEW m \in AprsMessages, AprsSendReturns(m) PROVE MessagesInv'
    <2>1. CASE aprsUp
      <3>1. /\ Tracked(m) \in Seq(AprsMessages)
            /\ Len(Tracked(m)) <= OutgoingCap
            /\ \A i \in 1 .. Len(Tracked(m)) : Tracked(m)[i] \in Range(outgoing) \union {m}
        BY TrackedTable DEF MessagesShape
      <3>2. outgoing' = Tracked(m) /\ hubLoop' = hubLoop /\ aprsUp' = aprsUp
        BY <1>2, <2>1 DEF AprsSendReturns
      <3>3. /\ aprsMsg' = [aprsMsg EXCEPT ![m] = [state |-> "pending", tries |-> 1, due |-> FALSE]]
            /\ aprsCopies' = [aprsCopies EXCEPT ![m] = @ + 1]
            /\ aprsMsg[m].state = "sending"
        BY <1>2, <2>1 DEF AprsSendReturns
      <3>4. MessagesShape'
        BY <3>1, <3>2, <3>3, AprsAssumption DEF MessagesShape, MsgStates
      <3>5. LoopHolds'
        BY <3>2, <3>3 DEF MessagesShape, MsgStates, LoopHolds, Handed, Loops
      <3>6. Handed(m)' /\ \A k \in AprsMessages : Handed(k) => Handed(k)'
        BY <3>3 DEF MessagesShape, MsgStates, Handed
      <3>7. \A k \in Range(outgoing) : k \in AprsMessages /\ Handed(k)
        <4>1. Range(outgoing) = {outgoing[i] : i \in 1 .. Len(outgoing)}
          BY DEF MessagesShape, Range
        <4> QED BY <4>1 DEF MessagesShape, OutgoingHanded
      <3>8. OutgoingHanded'
        BY <3>1, <3>2, <3>6, <3>7 DEF OutgoingHanded
      <3>9. TriesAreCopies'
        BY <3>3 DEF MessagesShape, MsgStates, TriesAreCopies, Handed
      <3> QED BY <3>4, <3>5, <3>8, <3>9
    <2>2. CASE ~aprsUp
      <3>1. MessagesShape'
        BY <1>2, <2>2 DEF AprsSendReturns, MessagesShape, MsgStates
      <3>2. /\ aprsMsg[m].state = "sending" /\ aprsMsg' = [aprsMsg EXCEPT ![m].state = "failed"]
            /\ UNCHANGED <<aprsUp, aprsCopies, outgoing, hubLoop>>
        BY <1>2, <2>2 DEF AprsSendReturns
      <3>3. \A k \in AprsMessages : /\ Handed(k) => Handed(k)'
                                   /\ aprsMsg'[k].tries = aprsMsg[k].tries
        BY <3>2 DEF MessagesShape, MsgStates, Handed
      <3>4. LoopHolds'
        BY <3>2, <3>3 DEF MessagesShape, LoopHolds, Loops
      <3>5. OutgoingHanded' /\ TriesAreCopies'
        BY <3>2, <3>3 DEF MessagesShape, MsgStates, OutgoingHanded, TriesAreCopies, Handed
      <3> QED BY <3>1, <3>4, <3>5
    <2> QED BY <2>1, <2>2
  <1>3. ASSUME NEW m \in AprsMessages, IngestAck(m) PROVE MessagesInv'
    <2>1. PICK verdict \in {"acked", "rejected"} : aprsMsg' = [aprsMsg EXCEPT ![m].state = verdict]
      BY <1>3 DEF IngestAck
    <2>2. MessagesShape'
      BY <1>3, <2>1 DEF IngestAck, MessagesShape, MsgStates
    <2>3. (LoopHolds /\ OutgoingHanded /\ TriesAreCopies)'
      BY <1>3, <2>1 DEF IngestAck, MessagesShape, MsgStates, LoopHolds, OutgoingHanded, TriesAreCopies, Handed, Loops
    <2> QED BY <2>2, <2>3
  <1>4. ASSUME NEW m \in AprsMessages, RetryFallsDue(m) PROVE MessagesInv'
    <2>1. MessagesShape'
      BY <1>4 DEF RetryFallsDue, MessagesShape, MsgStates
    <2>2. (LoopHolds /\ OutgoingHanded /\ TriesAreCopies)'
      BY <1>4 DEF RetryFallsDue, MessagesShape, MsgStates, LoopHolds, OutgoingHanded, TriesAreCopies, Handed, Loops
    <2> QED BY <2>1, <2>2
  <1> QED BY <1>1, <1>2, <1>3, <1>4 DEF AprsMessageStep

\* The tail of what the loop has to do.
LEMMA LoopTail ==
  ASSUME MessagesShape, LoopHolds, hubLoop.pc \in {"retry", "sending"}, hubLoop.todo # <<>>
  PROVE  /\ Head(hubLoop.todo) \in AprsMessages /\ Handed(Head(hubLoop.todo))
         /\ Tail(hubLoop.todo) \in Seq(AprsMessages \union Records)
         /\ \A i \in 1 .. Len(Tail(hubLoop.todo)) :
               Tail(hubLoop.todo)[i] \in AprsMessages /\ Handed(Tail(hubLoop.todo)[i])
  <1> DEFINE todo == hubLoop.todo
  <1>1. /\ todo \in Seq(AprsMessages \union Records)
        /\ \A i \in 1 .. Len(todo) : todo[i] \in AprsMessages /\ Handed(todo[i])
    BY DEF MessagesShape, Loops, LoopHolds
  <1>2. Head(todo) = todo[1] /\ 1 \in 1 .. Len(todo)
    BY <1>1
  <1>3. /\ Tail(todo) \in Seq(AprsMessages \union Records)
        /\ \A i \in 1 .. Len(Tail(todo)) : i + 1 \in 1 .. Len(todo) /\ Tail(todo)[i] = todo[i + 1]
    BY <1>1
  <1> HIDE DEF todo
  <1>4. QED BY <1>1, <1>2, <1>3 DEF todo

LEMMA LoopStep ==
  ASSUME MessagesInv, ObjectsShape, HubPass
  PROVE  MessagesInv'
  <1> USE DEF MessagesInv
  <1>1. CASE RetryBegins
    <2>1. hubLoop' = [hubLoop EXCEPT !.pc = "retry", !.todo = outgoing]
      BY <1>1 DEF RetryBegins, LoopTo
    <2>2. outgoing \in Seq(AprsMessages \union Records)
      BY DEF MessagesShape
    <2>3. MessagesShape'
      BY <1>1, <2>1, <2>2 DEF RetryBegins, MessagesShape, Loops, aprsMsgVars
    <2>4. LoopHolds'
      BY <1>1, <2>1 DEF RetryBegins, MessagesShape, LoopHolds, Loops, OutgoingHanded, Handed, aprsMsgVars
    <2>5. (OutgoingHanded /\ TriesAreCopies)'
      BY <1>1 DEF RetryBegins, OutgoingHanded, TriesAreCopies, Handed, aprsMsgVars
    <2> QED BY <2>3, <2>4, <2>5
  <1>2. CASE RetryPasses
    <2>1. hubLoop' = [hubLoop EXCEPT !.pc = "retry", !.todo = Tail(hubLoop.todo)]
      BY <1>2 DEF RetryPasses, LoopTo
    <2>2. MessagesShape' /\ LoopHolds'
      BY <1>2, <2>1, LoopTail DEF RetryPasses, MessagesShape, LoopHolds, Loops, Handed, aprsMsgVars
    <2>3. (OutgoingHanded /\ TriesAreCopies)'
      BY <1>2 DEF RetryPasses, OutgoingHanded, TriesAreCopies, Handed, aprsMsgVars
    <2> QED BY <2>2, <2>3
  <1>3. CASE RetryGivesUp
    <2> DEFINE m == Head(hubLoop.todo)
    <2>1. /\ hubLoop' = [hubLoop EXCEPT !.pc = "retry", !.todo = Tail(hubLoop.todo)]
          /\ aprsMsg' = [aprsMsg EXCEPT ![m].state = "no_ack"]
          /\ UNCHANGED <<aprsUp, outgoing, aprsCopies>>
      BY <1>3 DEF RetryGivesUp, LoopTo
    <2>2. m \in AprsMessages
      BY <1>3, LoopTail DEF RetryGivesUp
    <2>3. /\ Tail(hubLoop.todo) \in Seq(AprsMessages \union Records)
          /\ \A i \in 1 .. Len(Tail(hubLoop.todo)) :
               Tail(hubLoop.todo)[i] \in AprsMessages /\ Handed(Tail(hubLoop.todo)[i])
      BY <1>3, LoopTail DEF RetryGivesUp
    <2>4. \A k \in AprsMessages : Handed(k)' <=> Handed(k) \/ k = m
      BY <2>1, <2>2 DEF MessagesShape, MsgStates, Handed
    <2> HIDE DEF m
    <2>5. MessagesShape'
      BY <2>1, <2>2, <2>3 DEF MessagesShape, Loops, MsgStates
    <2>6. LoopHolds'
      BY <2>1, <2>3, <2>4 DEF MessagesShape, LoopHolds, Loops
    <2>7. OutgoingHanded'
      BY <2>1, <2>4 DEF OutgoingHanded, MessagesShape
    <2>8. TriesAreCopies'
      BY <2>1, <2>2, <2>4 DEF TriesAreCopies, MessagesShape
    <2> QED BY <2>5, <2>6, <2>7, <2>8
  <1>4. CASE RetryStarts
    <2>1. hubLoop' = [hubLoop EXCEPT !.pc = "sending", !.todo = hubLoop.todo]
      BY <1>4 DEF RetryStarts, LoopTo
    <2>2. Head(hubLoop.todo) \in AprsMessages
      BY <1>4, LoopTail DEF RetryStarts
    <2>3. aprsMsg[Head(hubLoop.todo)].tries <= RetryDelays
      BY <1>4, <2>2, AprsAssumption DEF RetryStarts, Exhausted, MessagesShape
    <2>4. MessagesShape' /\ LoopHolds'
      BY <1>4, <2>1, <2>3 DEF RetryStarts, MessagesShape, LoopHolds, Loops, Handed, aprsMsgVars
    <2>5. (OutgoingHanded /\ TriesAreCopies)'
      BY <1>4 DEF RetryStarts, OutgoingHanded, TriesAreCopies, Handed, aprsMsgVars
    <2> QED BY <2>4, <2>5
  <1>5. CASE RetryEnds
    <2> DEFINE m == Head(hubLoop.todo)
    <2>1. /\ hubLoop' = [hubLoop EXCEPT !.pc = "retry", !.todo = Tail(hubLoop.todo)]
          /\ aprsMsg' = [aprsMsg EXCEPT ![m].tries = TriesAfter(m), ![m].due = FALSE]
          /\ aprsCopies' = [aprsCopies EXCEPT ![m] = IF aprsUp THEN @ + 1 ELSE @]
          /\ UNCHANGED <<aprsUp, outgoing>>
      BY <1>5 DEF RetryEnds, LoopTo
    <2>2. hubLoop.todo # <<>> /\ aprsMsg[m].tries <= RetryDelays
      BY <1>5 DEF RetryEnds, LoopHolds
    <2>3. m \in AprsMessages /\ Handed(m)
      BY <1>5, <2>2, LoopTail DEF RetryEnds
    <2>4. /\ Tail(hubLoop.todo) \in Seq(AprsMessages \union Records)
          /\ \A i \in 1 .. Len(Tail(hubLoop.todo)) :
               Tail(hubLoop.todo)[i] \in AprsMessages /\ Handed(Tail(hubLoop.todo)[i])
      BY <1>5, <2>2, LoopTail DEF RetryEnds
    <2>5. TriesAfter(m) = aprsMsg[m].tries + (IF aprsUp THEN 1 ELSE 0)
      BY DEF TriesAfter
    <2>6. \A k \in AprsMessages : aprsMsg'[k].state = aprsMsg[k].state
      BY <2>1, <2>3 DEF MessagesShape
    <2> HIDE DEF m
    <2>7. MessagesShape'
      <3>1. TriesAfter(m) \in 0 .. RetryDelays + 1
        BY <2>2, <2>3, <2>5, AprsAssumption DEF MessagesShape
      <3>2. aprsMsg' \in [AprsMessages -> [state: MsgStates, tries: 0 .. RetryDelays + 1, due: BOOLEAN]]
        BY <2>1, <2>3, <3>1 DEF MessagesShape
      <3>3. aprsCopies' \in [AprsMessages -> Nat]
        BY <2>1, <2>3 DEF MessagesShape
      <3>4. hubLoop' \in Loops
        BY <2>1, <2>4 DEF MessagesShape, Loops
      <3> QED BY <2>1, <3>2, <3>3, <3>4 DEF MessagesShape
    <2>8. LoopHolds'
      BY <2>1, <2>4, <2>6 DEF MessagesShape, LoopHolds, Loops, Handed
    <2>9. OutgoingHanded'
      BY <2>1, <2>6 DEF OutgoingHanded, MessagesShape, Handed
    <2>10. TriesAreCopies'
      BY <2>1, <2>3, <2>5, <2>6 DEF TriesAreCopies, MessagesShape, Handed
    <2> QED BY <2>7, <2>8, <2>9, <2>10
  <1>6. ASSUME UNCHANGED <<aprsUp, aprsMsgVars>>, hubLoop' \in Loops,
               hubLoop'.pc \in {"asleep", "objects"}
        PROVE  MessagesInv'
    <2>1. MessagesShape'
      BY <1>6 DEF MessagesShape, aprsMsgVars
    <2>2. (LoopHolds /\ OutgoingHanded /\ TriesAreCopies)'
      BY <1>6 DEF LoopHolds, OutgoingHanded, TriesAreCopies, Handed, aprsMsgVars
    <2> QED BY <2>1, <2>2
  <1>7. CASE AnnouncingBegins
    <2>1. UNCHANGED <<aprsUp, aprsMsgVars>> /\ hubLoop' = [hubLoop EXCEPT !.pc = "objects", !.objs = OwnRecords]
      BY <1>7 DEF AnnouncingBegins
    <2>2. OwnRecords \in SUBSET Records
      BY DEF OwnRecords, ObjectsShape, Records
    <2>3. hubLoop' \in Loops /\ hubLoop'.pc = "objects"
      BY <2>1, <2>2 DEF MessagesShape, Loops
    <2> QED BY <1>6, <2>1, <2>3
  <1>8. CASE AnnounceEnds
    <2>1. /\ UNCHANGED <<aprsUp, aprsMsgVars>>
          /\ hubLoop' = [pc |-> "objects", todo |-> <<>>,
                         objs |-> hubLoop.objs \ {Head(hubLoop.todo)}, changed |-> TRUE]
      BY <1>8 DEF AnnounceEnds
    <2>2. hubLoop' \in Loops /\ hubLoop'.pc = "objects"
      BY <2>1 DEF MessagesShape, Loops
    <2> QED BY <1>6, <2>1, <2>2
  <1>9. CASE LoopSaves
    <2>1. UNCHANGED <<aprsUp, aprsMsgVars>> /\ hubLoop' = [hubLoop EXCEPT !.pc = "asleep", !.changed = FALSE]
      BY <1>9 DEF LoopSaves
    <2>2. hubLoop' \in Loops /\ hubLoop'.pc = "asleep"
      BY <2>1 DEF MessagesShape, Loops
    <2> QED BY <1>6, <2>1, <2>2
  <1>10. ASSUME NEW rec \in hubLoop.objs, ObjectRests(rec) PROVE MessagesInv'
    <2>1. UNCHANGED <<aprsUp, aprsMsgVars>> /\ hubLoop' = [hubLoop EXCEPT !.objs = @ \ {rec}] /\ hubLoop.pc = "objects"
      BY <1>10 DEF ObjectRests
    <2>2. hubLoop' \in Loops /\ hubLoop'.pc = "objects"
      BY <2>1 DEF MessagesShape, Loops
    <2> QED BY <1>6, <2>1, <2>2
  <1>11. ASSUME NEW rec \in hubLoop.objs, AnnounceStarts(rec) PROVE MessagesInv'
    <2>1. /\ UNCHANGED <<aprsUp, aprsMsgVars>>
          /\ hubLoop' = [hubLoop EXCEPT !.pc = "announcing", !.objs = {rec} \union @, !.todo = <<rec>>]
      BY <1>11 DEF AnnounceStarts
    <2>2. rec \in Records
      BY DEF MessagesShape, Loops
    <2>3. <<rec>> \in Seq(AprsMessages \union Records) /\ Head(<<rec>>) = rec /\ <<rec>> # <<>>
      BY <2>2
    <2>4. hubLoop' \in Loops
      BY <2>1, <2>2, <2>3 DEF MessagesShape, Loops
    <2>5. /\ hubLoop'.pc = "announcing" /\ hubLoop'.todo = <<rec>>
          /\ hubLoop'.objs = {rec} \union hubLoop.objs
      BY <2>1 DEF MessagesShape, Loops
    <2>6. MessagesShape'
      BY <2>1, <2>4 DEF MessagesShape, aprsMsgVars
    <2>7. LoopHolds'
      BY <2>3, <2>5 DEF LoopHolds
    <2>8. (OutgoingHanded /\ TriesAreCopies)'
      BY <2>1 DEF OutgoingHanded, TriesAreCopies, Handed, aprsMsgVars
    <2> QED BY <2>6, <2>7, <2>8
  <1> QED BY <1>1, <1>2, <1>3, <1>4, <1>5, <1>7, <1>8, <1>9, <1>10, <1>11 DEF HubPass

\* Requests, intervals and hearings leave the messages alone.
LEMMA OthersStep ==
  ASSUME MessagesInv, AprsObjectStep \/ AprsReceiveStep
  PROVE  UNCHANGED <<aprsUp, aprsMsgVars, hubLoop>>
  <1>1. CASE AprsObjectStep
    BY <1>1 DEF AprsObjectStep, CallSent, CallEnds, UpsertObject, KillObject, KillRepeated, IntervalPasses, Saves, Heard
  <1>2. CASE AprsReceiveStep
    BY <1>2 DEF AprsReceiveStep, HearMessage, MessageAcked, CopyDropped, TimePasses
  <1> QED BY <1>1, <1>2

LEMMA RestartStep ==
  ASSUME MessagesInv, HubRestarts
  PROVE  MessagesInv'
  <1> USE DEF MessagesInv
  <1>1. /\ aprsUp' = aprsUp /\ outgoing' = <<>> /\ aprsCopies' = aprsCopies
        /\ aprsMsg' = [m \in AprsMessages |-> IF aprsMsg[m].state = "unsent" THEN aprsMsg[m]
                                              ELSE [aprsMsg[m] EXCEPT !.state = "lost"]]
        /\ hubLoop' = LoopAsleep
    BY DEF HubRestarts
  <1>2. MessagesShape'
    <2>1. aprsMsg' \in [AprsMessages -> [state: MsgStates, tries: 0 .. RetryDelays + 1, due: BOOLEAN]]
      BY <1>1 DEF MessagesShape, MsgStates
    <2>2. hubLoop' \in Loops
      BY <1>1 DEF Loops, LoopAsleep
    <2>3. outgoing' \in Seq(AprsMessages) /\ Len(outgoing') <= OutgoingCap
      BY <1>1, AprsAssumption
    <2> QED BY <1>1, <2>1, <2>2, <2>3 DEF MessagesShape
  <1>3. (LoopHolds /\ OutgoingHanded /\ TriesAreCopies)'
    BY <1>1 DEF MessagesShape, MsgStates, LoopHolds, OutgoingHanded, TriesAreCopies, Handed, LoopAsleep
  <1> QED BY <1>2, <1>3

LEMMA MessagesNext ==
  ASSUME MessagesInv, ObjectsShape, [AprsNext]_aprsVars
  PROVE  MessagesInv'
  <1>1. CASE AprsObjectStep \/ AprsReceiveStep
    BY <1>1, OthersStep, MessagesFrame DEF aprsMsgVars
  <1>2. CASE Flap
    <2>1. aprsUp' \in BOOLEAN /\ UNCHANGED <<aprsMsgVars, hubLoop>>
      BY <1>2 DEF Flap
    <2> QED BY <2>1 DEF MessagesInv, MessagesShape, LoopHolds, OutgoingHanded, TriesAreCopies, Handed, aprsMsgVars
  <1>3. CASE UNCHANGED aprsVars
    BY <1>3, MessagesFrame DEF aprsVars, aprsMsgVars
  <1> QED BY <1>1, <1>2, <1>3, MessagesStep, LoopStep, RestartStep DEF AprsNext
-----------------------------------------------------------------------------
(* The retries implement Delivery.                                          *)

\* What a step leaves of the sender's standing if messages and loop stay.
LEMMA DeliveryStutters ==
  ASSUME UNCHANGED aprsMsgVars, Flying' = Flying
  PROVE  UNCHANGED Abstract!deliveryVars
  BY DEF Abstract!deliveryVars, FateOf, aprsMsgVars

LEMMA DeliveryInitial == AprsInit => Abstract!DeliveryInit
  BY DEF AprsInit, Abstract!DeliveryInit, FateOf, Flying, LoopAsleep

LEMMA MessagesStepDelivers ==
  ASSUME MessagesInv, AprsMessageStep
  PROVE  [Abstract!DeliveryNext]_(Abstract!deliveryVars)
  <1> USE DEF MessagesInv
  <1>a. hubLoop.pc = "sending" => Head(hubLoop.todo) \in AprsMessages /\ Handed(Head(hubLoop.todo))
    BY LoopTail DEF LoopHolds
  <1>1. ASSUME NEW m \in AprsMessages, AprsSend(m) PROVE Abstract!Launch(m)
    <2>1. /\ aprsMsg[m].state = "unsent" /\ aprsMsg' = [aprsMsg EXCEPT ![m].state = "sending"]
          /\ UNCHANGED <<outgoing, aprsCopies, hubLoop>>
      BY <1>1 DEF AprsSend
    <2>2. aprsCopies[m] = 0 /\ ~Handed(m)
      BY <2>1 DEF TriesAreCopies, Handed
    <2>3. m \notin Flying
      BY <1>a, <2>1, <2>2 DEF Flying
    <2>4. Flying' = Flying \union {m}
      BY <2>1 DEF Flying, MessagesShape
    <2>5. \A k \in AprsMessages : FateOf(k)' = FateOf(k)
      BY <2>1 DEF FateOf, MessagesShape
    <2>6. FateOf(m) = "new"
      BY <2>1 DEF FateOf
    <2> QED BY <2>1, <2>2, <2>3, <2>4, <2>5, <2>6, AprsAssumption DEF Abstract!Launch, Abstract!Open
  <1>2. ASSUME NEW m \in AprsMessages, AprsSendReturns(m) PROVE Abstract!Land(m)
    <2>1. aprsMsg[m].state = "sending" /\ hubLoop' = hubLoop
      BY <1>2 DEF AprsSendReturns
    <2>2. m \in Flying /\ FateOf(m) = "new" /\ (hubLoop.pc = "sending" => Head(hubLoop.todo) # m)
      BY <1>a, <2>1 DEF Flying, FateOf, Handed
    <2>3. CASE aprsUp
      <3>1. /\ outgoing' = Tracked(m) /\ aprsCopies' = [aprsCopies EXCEPT ![m] = @ + 1]
            /\ aprsMsg' = [aprsMsg EXCEPT ![m] = [state |-> "pending", tries |-> 1, due |-> FALSE]]
        BY <1>2, <2>3 DEF AprsSendReturns
      <3>2. m \in Range(outgoing') /\ Range(outgoing') \subseteq Range(outgoing) \union {m}
        BY <3>1, TrackedTable DEF MessagesShape
      <3>3. Flying' = Flying \ {m}
        BY <2>1, <2>2, <3>1 DEF Flying, MessagesShape
      <3>4. FateOf(m)' = "waiting"
        BY <3>1, <3>2 DEF FateOf, MessagesShape
      <3> DEFINE forgotten == {k \in AprsMessages \ {m} : k \notin Range(outgoing')}
      <3>5. \A k \in AprsMessages \ {m} :
               FateOf(k)' = IF k \in forgotten /\ FateOf(k) = "waiting" THEN "forgotten" ELSE FateOf(k)
        BY <3>1, <3>2 DEF FateOf, MessagesShape, MsgStates
      <3>6. [k \in AprsMessages |-> FateOf(k)]' =
              [k \in AprsMessages |-> IF k = m /\ FateOf(k) = "new" THEN "waiting"
                 ELSE IF k \in forgotten /\ FateOf(k) = "waiting" THEN "forgotten" ELSE FateOf(k)]
        <4> HIDE DEF forgotten
        <4> QED BY <2>2, <3>4, <3>5
      <3>7. forgotten \in SUBSET (AprsMessages \ {m})
        OBVIOUS
      <3> HIDE DEF forgotten
      <3> QED BY <2>2, <3>1, <3>3, <3>6, <3>7 DEF Abstract!Land
    <2>4. CASE ~aprsUp
      <3>1. aprsMsg' = [aprsMsg EXCEPT ![m].state = "failed"] /\ UNCHANGED <<aprsCopies, outgoing>>
        BY <1>2, <2>4 DEF AprsSendReturns
      <3>2. Flying' = Flying \ {m}
        BY <2>1, <2>2, <3>1 DEF Flying, MessagesShape
      <3>3. \A k \in AprsMessages : FateOf(k)' = IF k = m THEN "failed" ELSE FateOf(k)
        BY <3>1 DEF FateOf, MessagesShape
      <3>4. aprsCopies' = [aprsCopies EXCEPT ![m] = @]
        BY <3>1 DEF MessagesShape
      <3>5. {} \in SUBSET (AprsMessages \ {m})
        OBVIOUS
      <3> QED BY <2>2, <3>2, <3>3, <3>4, <3>5 DEF Abstract!Land
    <2> QED BY <2>3, <2>4
  <1>3. ASSUME NEW m \in AprsMessages, IngestAck(m) PROVE Abstract!Settle(m)
    <2>1. PICK verdict \in {"acked", "rejected"} : aprsMsg' = [aprsMsg EXCEPT ![m].state = verdict]
      BY <1>3 DEF IngestAck
    <2>2. /\ m \in Range(outgoing) /\ aprsMsg[m].state = "pending"
          /\ UNCHANGED <<outgoing, aprsCopies, hubLoop>>
      BY <1>3 DEF IngestAck
    <2>3. Flying' = Flying
      BY <2>1, <2>2 DEF Flying, MessagesShape
    <2>4. FateOf(m) = "waiting" /\ \A k \in AprsMessages : FateOf(k)' = IF k = m THEN verdict ELSE FateOf(k)
      BY <2>1, <2>2 DEF FateOf, MessagesShape
    <2>5. [k \in AprsMessages |-> FateOf(k)]' = [[k \in AprsMessages |-> FateOf(k)] EXCEPT ![m] = verdict]
      BY <2>4
    <2> QED BY <2>2, <2>3, <2>4, <2>5 DEF Abstract!Settle, Abstract!Verdicts
  <1>4. ASSUME NEW m \in AprsMessages, RetryFallsDue(m) PROVE UNCHANGED Abstract!deliveryVars
    <2>1. aprsMsg' = [aprsMsg EXCEPT ![m].due = TRUE] /\ UNCHANGED <<outgoing, aprsCopies, hubLoop>>
      BY <1>4 DEF RetryFallsDue
    <2>2. \A k \in AprsMessages : aprsMsg'[k].state = aprsMsg[k].state
      BY <2>1 DEF MessagesShape
    <2>3. Flying' = Flying /\ \A k \in AprsMessages : FateOf(k)' = FateOf(k)
      BY <2>1, <2>2 DEF Flying, FateOf
    <2> QED BY <2>1, <2>3 DEF Abstract!deliveryVars
  <1> QED BY <1>1, <1>2, <1>3, <1>4 DEF AprsMessageStep, Abstract!DeliveryNext

LEMMA LoopStepDelivers ==
  ASSUME MessagesInv, HubPass
  PROVE  [Abstract!DeliveryNext]_(Abstract!deliveryVars)
  <1> USE DEF MessagesInv
  <1>1. CASE RetryBegins \/ RetryPasses \/ AnnouncingBegins \/ AnnounceEnds \/ LoopSaves
             \/ \E rec \in hubLoop.objs : ObjectRests(rec) \/ AnnounceStarts(rec)
    <2>1. UNCHANGED aprsMsgVars /\ hubLoop.pc # "sending"
      BY <1>1 DEF RetryBegins, RetryPasses, AnnouncingBegins, AnnounceEnds, LoopSaves, ObjectRests, AnnounceStarts
    <2>2. hubLoop'.pc # "sending"
      <3>1. CASE RetryBegins \/ RetryPasses
        BY <3>1 DEF RetryBegins, RetryPasses, LoopTo, MessagesShape, Loops
      <3>2a. CASE AnnouncingBegins
        BY <3>2a DEF AnnouncingBegins, MessagesShape, Loops
      <3>2b. CASE AnnounceEnds
        BY <3>2b DEF AnnounceEnds
      <3>2c. CASE LoopSaves
        BY <3>2c DEF LoopSaves, MessagesShape, Loops
      <3>3. ASSUME NEW rec \in hubLoop.objs, ObjectRests(rec) \/ AnnounceStarts(rec) PROVE hubLoop'.pc # "sending"
        BY <3>3 DEF ObjectRests, AnnounceStarts, MessagesShape, Loops
      <3> QED BY <1>1, <3>1, <3>2a, <3>2b, <3>2c, <3>3
    <2>3. Flying' = Flying
      BY <2>1, <2>2 DEF Flying, aprsMsgVars
    <2> QED BY <2>1, <2>3, DeliveryStutters
  <1>2. CASE RetryGivesUp
    <2> DEFINE m == Head(hubLoop.todo)
    <2>1. /\ hubLoop.pc = "retry" /\ hubLoop'.pc = "retry"
          /\ aprsMsg' = [aprsMsg EXCEPT ![m].state = "no_ack"]
          /\ aprsMsg[m].state = "pending" /\ aprsMsg[m].tries > RetryDelays
          /\ UNCHANGED <<outgoing, aprsCopies>>
      BY <1>2 DEF RetryGivesUp, LoopTo, WantsRetry, Exhausted, MessagesShape, Loops
    <2>2. m \in AprsMessages
      BY <1>2, LoopTail DEF RetryGivesUp
    <2> HIDE DEF m
    <2>3. aprsCopies[m] = RetryDelays + 1
      BY <2>1, <2>2, AprsAssumption DEF MessagesShape, TriesAreCopies
    <2>4. Flying' = Flying /\ m \notin Flying
      BY <2>1, <2>2 DEF Flying, MessagesShape
    <2>5. FateOf(m) \in {"waiting", "forgotten"} /\ \A k \in AprsMessages : FateOf(k)' = IF k = m THEN "no_ack" ELSE FateOf(k)
      BY <2>1, <2>2 DEF FateOf, MessagesShape
    <2>6. [k \in AprsMessages |-> FateOf(k)]' = [[k \in AprsMessages |-> FateOf(k)] EXCEPT ![m] = "no_ack"]
      BY <2>5
    <2>7. Abstract!GiveUp(m)
      BY <2>1, <2>2, <2>3, <2>4, <2>5, <2>6 DEF Abstract!GiveUp
    <2> QED BY <2>2, <2>7 DEF Abstract!DeliveryNext
  <1>3. CASE RetryStarts
    <2> DEFINE m == Head(hubLoop.todo)
    <2>1. /\ hubLoop.pc = "retry" /\ hubLoop'.pc = "sending" /\ hubLoop'.todo = hubLoop.todo
          /\ aprsMsg[m].state = "pending" /\ ~(aprsMsg[m].tries > RetryDelays)
          /\ UNCHANGED aprsMsgVars
      BY <1>3 DEF RetryStarts, LoopTo, WantsRetry, Exhausted, MessagesShape, Loops
    <2>2. m \in AprsMessages
      BY <1>3, LoopTail DEF RetryStarts
    <2>3. Flying' = Flying \union {m} /\ m \notin Flying
      BY <2>1 DEF Flying, aprsMsgVars
    <2> HIDE DEF m
    <2>4. aprsCopies[m] < RetryDelays + 1
      BY <2>1, <2>2, AprsAssumption DEF MessagesShape, TriesAreCopies
    <2>5. FateOf(m) \in {"waiting", "forgotten"} /\ \A k \in AprsMessages : FateOf(k)' = FateOf(k)
      BY <2>1, <2>2 DEF FateOf, aprsMsgVars
    <2>6. Abstract!Launch(m)
      BY <2>1, <2>2, <2>3, <2>4, <2>5 DEF Abstract!Launch, Abstract!Open, aprsMsgVars
    <2> QED BY <2>2, <2>6 DEF Abstract!DeliveryNext
  <1>4. CASE RetryEnds
    <2> DEFINE m == Head(hubLoop.todo)
    <2>1. /\ hubLoop.pc = "sending" /\ hubLoop'.pc = "retry"
          /\ aprsMsg' = [aprsMsg EXCEPT ![m].tries = TriesAfter(m), ![m].due = FALSE]
          /\ aprsCopies' = [aprsCopies EXCEPT ![m] = IF aprsUp THEN @ + 1 ELSE @]
          /\ UNCHANGED outgoing
      BY <1>4 DEF RetryEnds, LoopTo, MessagesShape, Loops
    <2>2. m \in AprsMessages /\ Handed(m)
      BY <2>1, LoopTail DEF LoopHolds
    <2>3. m \in Flying /\ \A k \in AprsMessages : aprsMsg'[k].state = aprsMsg[k].state
      BY <2>1, <2>2 DEF Flying, MessagesShape
    <2>4. Flying' = Flying \ {m}
      BY <2>1, <2>2, <2>3 DEF Flying, Handed
    <2>5. \A k \in AprsMessages : FateOf(k)' = FateOf(k)
      BY <2>1, <2>3 DEF FateOf
    <2>6. FateOf(m) # "new"
      BY <2>2 DEF FateOf, Handed, MessagesShape, MsgStates
    <2> HIDE DEF m
    <2>7. {} \in SUBSET (AprsMessages \ {m})
      OBVIOUS
    <2>8. Abstract!Land(m)
      BY <2>1, <2>2, <2>3, <2>4, <2>5, <2>6, <2>7 DEF Abstract!Land
    <2> QED BY <2>2, <2>8 DEF Abstract!DeliveryNext
  <1> QED BY <1>1, <1>2, <1>3, <1>4 DEF HubPass

LEMMA RestartDelivers ==
  ASSUME MessagesInv, HubRestarts
  PROVE  Abstract!Lose
  <1> USE DEF MessagesInv
  <1>1. /\ aprsCopies' = aprsCopies
        /\ aprsMsg' = [m \in AprsMessages |-> IF aprsMsg[m].state = "unsent" THEN aprsMsg[m]
                                              ELSE [aprsMsg[m] EXCEPT !.state = "lost"]]
        /\ hubLoop'.pc = "asleep"
    BY DEF HubRestarts, LoopAsleep
  <1>2. Flying' = {}
    BY <1>1 DEF Flying, MessagesShape
  <1>3. ASSUME NEW m \in AprsMessages
        PROVE  FateOf(m)' = IF FateOf(m) = "new" /\ m \notin Flying THEN "new" ELSE "lost"
    <2>1. CASE aprsMsg[m].state = "unsent"
      <3>1. m \notin Flying
        BY <2>1, LoopTail DEF Flying, LoopHolds, Handed
      <3> QED BY <1>1, <2>1, <3>1 DEF FateOf
    <2>2. CASE aprsMsg[m].state # "unsent"
      <3>1. ~(FateOf(m) = "new" /\ m \notin Flying)
        BY <2>2 DEF FateOf, Flying, MessagesShape, MsgStates
      <3>2. FateOf(m)' = "lost"
        BY <1>1, <2>2 DEF FateOf, MessagesShape
      <3> QED BY <3>1, <3>2
    <2> QED BY <2>1, <2>2
  <1> QED BY <1>1, <1>2, <1>3 DEF Abstract!Lose

-----------------------------------------------------------------------------
(* Objects: every step keeps their shape.                                   *)

LEMMA OwnRecordsShape == ASSUME ObjectsShape PROVE OwnRecords \in SUBSET Records
  BY DEF OwnRecords, ObjectsShape, Records

LEMMA ObjectsInit == AprsInit => ObjectsShape /\ CallsHaveRecords
  BY AprsAssumption DEF AprsInit, ObjectsShape, CallsHaveRecords, Calls, IdleCall

ObjectsInv == ObjectsShape /\ CallsHaveRecords

LEMMA ObjectsStep ==
  ASSUME ObjectsInv, AprsObjectStep
  PROVE  ObjectsInv'
  <1> USE DEF ObjectsInv
  <1>1. ASSUME NEW c \in HubCallers, CallSent(c) PROVE ObjectsInv'
    <2> DEFINE rec == hubApi[c].rec
    <2>1. rec \in Records /\ rec[1] \in ObjectNames /\ rec[2] \in 1 .. MaxVersions
      BY <1>1 DEF CallSent, CallsHaveRecords, Records
    <2>2. hubApi' = [hubApi EXCEPT ![c].pc = "saving"]
      BY <1>1 DEF CallSent
    <2>3. hubApi' \in [HubCallers -> Calls] /\ CallsHaveRecords'
      BY <2>1, <2>2 DEF ObjectsShape, CallsHaveRecords, Calls
    <2>4. lastHeard' \in [ObjectNames -> -1 .. MaxVersions]
      <3>1. PICK what \in -1 .. MaxVersions : Heard(rec[1], what)
        BY <1>1, <2>1, AprsAssumption DEF CallSent, Killed
      <3> QED BY <2>1, <3>1 DEF Heard, ObjectsShape
    <2>5. objectDue' \in SUBSET Records /\ killRepeats' \in SUBSET ObjectNames
      BY <1>1, <2>1 DEF CallSent, Repeats, ObjectsShape
    <2>6. UNCHANGED <<ownObjects, savedObjects, missedKills, versions>>
      BY <1>1 DEF CallSent
    <2> QED BY <2>3, <2>4, <2>5, <2>6 DEF ObjectsShape
  <1>2. ASSUME NEW c \in HubCallers, CallEnds(c) PROVE ObjectsInv'
    <2>1. hubApi' \in [HubCallers -> Calls] /\ CallsHaveRecords'
      BY <1>2 DEF CallEnds, ObjectsShape, CallsHaveRecords, Calls, IdleCall
    <2>2. savedObjects' \in [ObjectNames -> 0 .. MaxVersions]
      BY <1>2 DEF CallEnds, Saves, ObjectsShape
    <2>3. UNCHANGED <<ownObjects, objectDue, killRepeats, lastHeard, missedKills, versions>>
      BY <1>2 DEF CallEnds
    <2> QED BY <2>1, <2>2, <2>3 DEF ObjectsShape
  <1>3. ASSUME NEW c \in HubCallers, NEW n \in ObjectNames, UpsertObject(c, n) PROVE ObjectsInv'
    <2>1. versions' \in 1 .. MaxVersions /\ <<n, versions'>> \in Records
      BY <1>3, AprsAssumption DEF UpsertObject, ObjectsShape, Records
    <2>2. hubApi' = [hubApi EXCEPT ![c] = [pc |-> "sending", op |-> "upsert", rec |-> <<n, versions'>>]]
      BY <1>3 DEF UpsertObject
    <2>3. hubApi' \in [HubCallers -> Calls] /\ CallsHaveRecords'
      BY <2>1, <2>2 DEF ObjectsShape, CallsHaveRecords, Calls
    <2>4. ownObjects' \in [ObjectNames -> 0 .. MaxVersions] /\ objectDue' \in SUBSET Records
      BY <1>3, <2>1 DEF UpsertObject, ObjectsShape
    <2>5. missedKills' \in SUBSET ObjectNames /\ UNCHANGED <<savedObjects, killRepeats, lastHeard>>
      BY <1>3 DEF UpsertObject, ObjectsShape
    <2>6. versions' \in 0 .. MaxVersions
      BY <2>1
    <2> QED BY <2>3, <2>4, <2>5, <2>6 DEF ObjectsShape
  <1>4. ASSUME NEW c \in HubCallers, NEW n \in ObjectNames, KillObject(c, n) PROVE ObjectsInv'
    <2>1. <<n, ownObjects[n]>> \in Records
      BY <1>4 DEF KillObject, ObjectsShape, Records
    <2>2. hubApi' = [hubApi EXCEPT ![c] = [pc |-> "sending", op |-> "kill", rec |-> <<n, ownObjects[n]>>]]
      BY <1>4 DEF KillObject
    <2>3. hubApi' \in [HubCallers -> Calls] /\ CallsHaveRecords'
      BY <2>1, <2>2 DEF ObjectsShape, CallsHaveRecords, Calls
    <2>4. ownObjects' \in [ObjectNames -> 0 .. MaxVersions]
      BY <1>4, AprsAssumption DEF KillObject, ObjectsShape
    <2>5. UNCHANGED <<savedObjects, objectDue, killRepeats, lastHeard, missedKills, versions>>
      BY <1>4 DEF KillObject
    <2> QED BY <2>3, <2>4, <2>5 DEF ObjectsShape
  <1>5. ASSUME NEW n \in ObjectNames, KillRepeated(n) PROVE ObjectsInv'
    <2>1. lastHeard' \in [ObjectNames -> -1 .. MaxVersions]
      BY <1>5, AprsAssumption DEF KillRepeated, Heard, Killed, ObjectsShape
    <2>2. killRepeats' \in SUBSET ObjectNames /\ missedKills' \in SUBSET ObjectNames
      BY <1>5 DEF KillRepeated, ObjectsShape
    <2>3. UNCHANGED <<ownObjects, savedObjects, objectDue, hubApi, versions>>
      BY <1>5 DEF KillRepeated
    <2> QED BY <2>1, <2>2, <2>3 DEF ObjectsShape, CallsHaveRecords
  <1>6. ASSUME NEW rec \in OwnRecords, IntervalPasses(rec) PROVE ObjectsInv'
    <2>1. objectDue' \in SUBSET Records
      BY <1>6, OwnRecordsShape DEF IntervalPasses, ObjectsShape
    <2>2. UNCHANGED <<ownObjects, savedObjects, hubApi, killRepeats, lastHeard, missedKills, versions>>
      BY <1>6 DEF IntervalPasses
    <2> QED BY <2>1, <2>2 DEF ObjectsShape, CallsHaveRecords
  <1> QED BY <1>1, <1>2, <1>3, <1>4, <1>5, <1>6 DEF AprsObjectStep

LEMMA ObjectsLoopStep ==
  ASSUME ObjectsInv, MessagesShape, LoopHolds, HubPass
  PROVE  ObjectsInv'
  <1> USE DEF ObjectsInv
  <1>1. CASE RetryBegins \/ RetryPasses \/ RetryGivesUp \/ RetryStarts \/ RetryEnds
             \/ \E rec \in hubLoop.objs : ObjectRests(rec) \/ AnnounceStarts(rec)
    <2>1. UNCHANGED aprsObjectVars
      BY <1>1 DEF RetryBegins, RetryPasses, RetryGivesUp, RetryStarts, RetryEnds, ObjectRests, AnnounceStarts
    <2> QED BY <2>1 DEF aprsObjectVars, ObjectsShape, CallsHaveRecords
  <1>2. CASE AnnouncingBegins
    <2>1. objectDue' \in SUBSET Records
      BY <1>2 DEF AnnouncingBegins, ObjectsShape
    <2>2. UNCHANGED <<ownObjects, savedObjects, hubApi, killRepeats, lastHeard, missedKills, versions>>
      BY <1>2 DEF AnnouncingBegins
    <2> QED BY <2>1, <2>2 DEF ObjectsShape, CallsHaveRecords
  <1>3. CASE AnnounceEnds
    <2> DEFINE rec == Head(hubLoop.todo)
    <2>1. rec \in Records
      BY <1>3 DEF AnnounceEnds, LoopHolds, MessagesShape, Loops
    <2>2. rec[1] \in ObjectNames /\ rec[2] \in 1 .. MaxVersions
      BY <2>1 DEF Records
    <2>3. lastHeard' \in [ObjectNames -> -1 .. MaxVersions]
      BY <1>3, <2>2 DEF AnnounceEnds, Heard, ObjectsShape
    <2>4. objectDue' \in SUBSET Records
      BY <1>3 DEF AnnounceEnds, ObjectsShape
    <2>5. UNCHANGED <<ownObjects, savedObjects, hubApi, killRepeats, missedKills, versions>>
      BY <1>3 DEF AnnounceEnds
    <2> QED BY <2>3, <2>4, <2>5 DEF ObjectsShape, CallsHaveRecords
  <1>4. CASE LoopSaves
    <2>1. savedObjects' \in [ObjectNames -> 0 .. MaxVersions]
      BY <1>4 DEF LoopSaves, Saves, ObjectsShape
    <2>2. UNCHANGED <<ownObjects, objectDue, hubApi, killRepeats, lastHeard, missedKills, versions>>
      BY <1>4 DEF LoopSaves
    <2> QED BY <2>1, <2>2 DEF ObjectsShape, CallsHaveRecords
  <1> QED BY <1>1, <1>2, <1>3, <1>4 DEF HubPass

LEMMA ObjectsRestart ==
  ASSUME ObjectsInv, HubRestarts
  PROVE  ObjectsInv'
  <1> USE DEF ObjectsInv
  <1>1. ownObjects' = savedObjects /\ UNCHANGED <<savedObjects, lastHeard, versions>>
    BY DEF HubRestarts
  <1>2. objectDue' \in SUBSET Records
    BY DEF HubRestarts, ObjectsShape, Records
  <1>3. hubApi' \in [HubCallers -> Calls] /\ CallsHaveRecords'
    BY DEF HubRestarts, IdleCall, Calls, CallsHaveRecords
  <1>4. killRepeats' \in SUBSET ObjectNames /\ missedKills' \in SUBSET ObjectNames
    BY DEF HubRestarts, ObjectsShape
  <1> QED BY <1>1, <1>2, <1>3, <1>4 DEF ObjectsShape
-----------------------------------------------------------------------------
(* Objects: what was killed and is alive elsewhere has a kill to come.      *)

Covered(n) ==
    \/ n \in missedKills \/ n \in killRepeats
    \/ \E c \in HubCallers : hubApi[c].op = "kill" /\ hubApi[c].rec[1] = n /\ hubApi[c].pc = "sending"

\* The name is alive on others' maps, or a record of it may still be sent.
Aloft(n) ==
    \/ lastHeard[n] \notin {0, Killed}
    \/ \E rec \in hubLoop.objs : rec[1] = n
    \/ \E c \in HubCallers : hubApi[c].op = "upsert" /\ hubApi[c].rec[1] = n /\ hubApi[c].pc = "sending"

KillsInv == \A n \in ObjectNames : ownObjects[n] = 0 /\ Aloft(n) => Covered(n)

LEMMA KillsInit == AprsInit => KillsInv
  BY DEF AprsInit, KillsInv, Aloft, Covered, LoopAsleep, IdleCall

LEMMA KillsObjectStep ==
  ASSUME ObjectsInv, MessagesShape, KillsInv, AprsObjectStep
  PROVE  KillsInv'
  <1> USE DEF ObjectsInv
  <1> SUFFICES ASSUME NEW k \in ObjectNames, ownObjects'[k] = 0, Aloft(k)'
               PROVE  Covered(k)'
    BY DEF KillsInv
  <1>1. ASSUME NEW c \in HubCallers, CallSent(c) PROVE Covered(k)'
    <2> DEFINE n == hubApi[c].rec[1]
    <2>1. /\ hubApi[c].pc = "sending" /\ hubApi' = [hubApi EXCEPT ![c].pc = "saving"]
          /\ UNCHANGED <<ownObjects, missedKills, hubLoop>>
      BY <1>1 DEF CallSent
    <2>2. n \in ObjectNames /\ hubApi[c].op \in {"none", "upsert", "kill"}
      BY <2>1 DEF CallsHaveRecords, Records, ObjectsShape, Calls
    <2>3. \A d \in HubCallers : /\ d # c => hubApi'[d] = hubApi[d]
                                /\ hubApi'[c].pc = "saving"
      BY <2>1 DEF ObjectsShape
    <2>4. CASE hubApi[c].op = "upsert"
      <3>1. killRepeats' = killRepeats /\ (k # n => lastHeard'[k] = lastHeard[k])
        BY <1>1, <2>2, <2>4 DEF CallSent, Heard, ObjectsShape
      <3>2. Aloft(k)
        BY <2>1, <2>2, <2>3, <2>4, <3>1 DEF Aloft
      <3>3. Covered(k)
        BY <2>1, <3>2 DEF KillsInv
      <3> QED BY <2>1, <2>3, <2>4, <3>1, <3>3 DEF Covered
    <2>5. CASE hubApi[c].op # "upsert"
      <3>1. killRepeats' = killRepeats \union {n} /\ (k # n => lastHeard'[k] = lastHeard[k])
        BY <1>1, <2>2, <2>5 DEF CallSent, Heard, Repeats, ObjectsShape
      <3>2. CASE k = n
        BY <3>1, <3>2 DEF Covered
      <3>3. CASE k # n
        <4>1. Aloft(k)
          BY <2>1, <2>3, <3>1, <3>3 DEF Aloft
        <4>2. Covered(k)
          BY <2>1, <4>1 DEF KillsInv
        <4> QED BY <2>1, <2>3, <3>1, <3>3, <4>2 DEF Covered
      <3> QED BY <3>2, <3>3
    <2> QED BY <2>4, <2>5
  <1>2. ASSUME NEW c \in HubCallers, CallEnds(c) PROVE Covered(k)'
    <2>1. /\ hubApi[c].pc = "saving" /\ hubApi' = [hubApi EXCEPT ![c] = IdleCall]
          /\ UNCHANGED <<ownObjects, missedKills, killRepeats, lastHeard, hubLoop>>
      BY <1>2 DEF CallEnds
    <2>2. \A d \in HubCallers : /\ d # c => hubApi'[d] = hubApi[d]
                                /\ hubApi'[c].pc = "idle"
      BY <2>1 DEF ObjectsShape, IdleCall
    <2>3. Aloft(k)
      BY <2>1, <2>2 DEF Aloft
    <2>4. Covered(k)
      BY <2>1, <2>3 DEF KillsInv
    <2> QED BY <2>1, <2>2, <2>4 DEF Covered
  <1>3. ASSUME NEW c \in HubCallers, NEW n \in ObjectNames, UpsertObject(c, n) PROVE Covered(k)'
    <2>1. /\ hubApi[c].pc = "idle" /\ versions' = versions + 1
          /\ hubApi' = [hubApi EXCEPT ![c] = [pc |-> "sending", op |-> "upsert", rec |-> <<n, versions'>>]]
          /\ ownObjects' = [ownObjects EXCEPT ![n] = versions']
          /\ missedKills' = missedKills \ {n}
          /\ UNCHANGED <<killRepeats, lastHeard, hubLoop>>
      BY <1>3 DEF UpsertObject
    <2>2. k # n /\ ownObjects'[k] = ownObjects[k]
      BY <2>1 DEF ObjectsShape
    <2>3. \A d \in HubCallers : /\ d # c => hubApi'[d] = hubApi[d]
                                /\ hubApi'[c].op = "upsert" /\ hubApi'[c].rec[1] = n
      BY <2>1 DEF ObjectsShape
    <2>4. Aloft(k)
      BY <2>1, <2>2, <2>3 DEF Aloft
    <2>5. Covered(k)
      BY <2>2, <2>4 DEF KillsInv
    <2> QED BY <2>1, <2>2, <2>3, <2>5 DEF Covered
  <1>4. ASSUME NEW c \in HubCallers, NEW n \in ObjectNames, KillObject(c, n) PROVE Covered(k)'
    <2>1. /\ hubApi[c].pc = "idle"
          /\ hubApi' = [hubApi EXCEPT ![c] = [pc |-> "sending", op |-> "kill", rec |-> <<n, ownObjects[n]>>]]
          /\ ownObjects' = [ownObjects EXCEPT ![n] = 0]
          /\ UNCHANGED <<missedKills, killRepeats, lastHeard, hubLoop>>
      BY <1>4 DEF KillObject
    <2>2. \A d \in HubCallers : /\ d # c => hubApi'[d] = hubApi[d]
                                /\ hubApi'[c].op = "kill" /\ hubApi'[c].rec[1] = n /\ hubApi'[c].pc = "sending"
      BY <2>1 DEF ObjectsShape
    <2>3. CASE k = n
      BY <2>2, <2>3 DEF Covered
    <2>4. CASE k # n
      <3>1. ownObjects[k] = 0 /\ Aloft(k)
        BY <2>1, <2>2, <2>4 DEF Aloft, ObjectsShape
      <3>2. Covered(k)
        BY <3>1 DEF KillsInv
      <3> QED BY <2>1, <2>2, <3>2 DEF Covered
    <2> QED BY <2>3, <2>4
  <1>5. ASSUME NEW n \in ObjectNames, KillRepeated(n) PROVE Covered(k)'
    <2>1. /\ killRepeats' = killRepeats \ {n} /\ Heard(n, Killed) /\ RepeatIsLate(n)
          /\ missedKills' = IF aprsUp \/ ownObjects[n] # 0 THEN missedKills ELSE missedKills \union {n}
          /\ UNCHANGED <<ownObjects, hubApi, hubLoop>>
      BY <1>5 DEF KillRepeated
    <2>2. CASE k # n
      <3>1. lastHeard'[k] = lastHeard[k]
        BY <2>1, <2>2 DEF Heard, ObjectsShape
      <3>2. Aloft(k)
        BY <2>1, <3>1 DEF Aloft
      <3>3. Covered(k)
        BY <2>1, <3>2 DEF KillsInv
      <3> QED BY <2>1, <2>2, <3>3 DEF Covered
    <2>3. CASE k = n /\ aprsUp
      <3>1. lastHeard'[n] = Killed
        BY <2>1, <2>3 DEF Heard, ObjectsShape
      <3>2. \A rec \in hubLoop.objs : rec[1] # n
        BY <2>1, <2>3 DEF RepeatIsLate, MessagesShape, Loops, Records
      <3>3. \A c \in HubCallers : hubApi[c].pc = "sending" => hubApi[c].rec[1] # n
        BY <2>1 DEF RepeatIsLate, CallsHaveRecords, Records
      <3>4. ~Aloft(n)'
        BY <2>1, <3>1, <3>2, <3>3 DEF Aloft
      <3> QED BY <2>3, <3>4
    <2>4. CASE k = n /\ ~aprsUp
      BY <2>1, <2>4 DEF Covered
    <2> QED BY <2>2, <2>3, <2>4
  <1>6. ASSUME NEW rec \in OwnRecords, IntervalPasses(rec) PROVE Covered(k)'
    <2>1. UNCHANGED <<ownObjects, hubApi, hubLoop, killRepeats, lastHeard, missedKills>>
      BY <1>6 DEF IntervalPasses
    <2> QED BY <2>1 DEF KillsInv, Aloft, Covered
  <1> QED BY <1>1, <1>2, <1>3, <1>4, <1>5, <1>6 DEF AprsObjectStep

LEMMA KillsLoopStep ==
  ASSUME ObjectsInv, MessagesShape, LoopHolds, KillsInv, HubPass
  PROVE  KillsInv'
  <1> USE DEF ObjectsInv
  <1> SUFFICES ASSUME NEW k \in ObjectNames, ownObjects'[k] = 0, Aloft(k)'
               PROVE  Covered(k)'
    BY DEF KillsInv
  <1>1. UNCHANGED <<ownObjects, hubApi, killRepeats, missedKills>>
    BY DEF HubPass, RetryBegins, RetryPasses, RetryGivesUp, RetryStarts, RetryEnds, AnnouncingBegins,
           AnnounceEnds, LoopSaves, ObjectRests, AnnounceStarts, aprsObjectVars
  <1>2. Aloft(k)
    <2>1. CASE AnnounceEnds
      <3> DEFINE rec == Head(hubLoop.todo)
      <3>1. rec \in hubLoop.objs /\ hubLoop'.objs \subseteq hubLoop.objs
        BY <2>1 DEF AnnounceEnds, LoopHolds
      <3>2. rec[1] # k => lastHeard'[k] = lastHeard[k]
        BY <2>1 DEF AnnounceEnds, Heard, ObjectsShape
      <3> HIDE DEF rec
      <3> QED BY <1>1, <3>1, <3>2 DEF Aloft
    <2>2. CASE AnnouncingBegins
      <3>1. hubLoop'.objs = OwnRecords /\ lastHeard' = lastHeard
        BY <2>2 DEF AnnouncingBegins, MessagesShape, Loops
      <3>2. \A rec \in OwnRecords : rec[1] # k
        BY <1>1 DEF OwnRecords
      <3> QED BY <1>1, <3>1, <3>2 DEF Aloft
    <2>3. CASE RetryBegins \/ RetryPasses \/ RetryGivesUp \/ RetryStarts \/ RetryEnds
      <3>1. lastHeard' = lastHeard /\ hubLoop'.objs = hubLoop.objs
        BY <2>3 DEF RetryBegins, RetryPasses, RetryGivesUp, RetryStarts, RetryEnds, LoopTo, aprsObjectVars,
                    MessagesShape, Loops
      <3> QED BY <1>1, <3>1 DEF Aloft
    <2>4. CASE LoopSaves
      <3>1. lastHeard' = lastHeard /\ hubLoop'.objs = hubLoop.objs
        BY <2>4 DEF LoopSaves, MessagesShape, Loops
      <3> QED BY <1>1, <3>1 DEF Aloft
    <2>5. ASSUME NEW rec \in hubLoop.objs, ObjectRests(rec) \/ AnnounceStarts(rec) PROVE Aloft(k)
      <3>1. lastHeard' = lastHeard /\ hubLoop'.objs \subseteq hubLoop.objs
        BY <2>5 DEF ObjectRests, AnnounceStarts, aprsObjectVars, MessagesShape, Loops
      <3> QED BY <1>1, <3>1 DEF Aloft
    <2> QED BY <2>1, <2>2, <2>3, <2>4, <2>5 DEF HubPass
  <1>3. Covered(k)
    BY <1>1, <1>2 DEF KillsInv
  <1> QED BY <1>1, <1>3 DEF Covered

LEMMA KillsRestart ==
  ASSUME ObjectsInv, HubRestarts
  PROVE  KillsInv'
  BY DEF HubRestarts, KillsInv, Covered

-----------------------------------------------------------------------------
(* Messages addressed to this station.                                      *)

IsTime(t) == t \in Nat /\ t <= ticks

Lookup == [msg: AprsIncoming, heard: Nat, shown: BOOLEAN]

\* A copy that was looked up is remembered, or more than half an hour old.
Remembered(x) ==
  /\ IsTime(x.heard)
  /\ \/ x.heard + SeenWindow < ticks
     \/ \E e \in seenIncoming : e.msg = x.msg /\ x.heard <= e.t

ReceiveInv ==
  /\ ticks \in Nat /\ lookups \in Seq(Lookup)
  /\ \A c \in acking : c.msg \in AprsIncoming /\ IsTime(c.heard) /\ ticks <= c.heard + AckWithin
  /\ \A e \in seenIncoming : IsTime(e.t)
  /\ \A e, f \in seenIncoming : e.msg = f.msg => e = f
  /\ \A j \in DOMAIN lookups : Remembered(lookups[j])
  /\ ShownOnce

\* What is forgotten is older than half an hour, and what is looked up is young.
LEMMA LookupStep ==
  ASSUME ReceiveInv, NEW c, MessageAcked(c)
  PROVE  ReceiveInv'
  <1> DEFINE new == [msg |-> c.msg, heard |-> c.heard, shown |-> ~IsRetry(c.msg)]
  <1>1. /\ c \in acking /\ acking' = acking \ {c} /\ ticks' = ticks /\ ticks \in Nat
        /\ lookups' = Append(lookups, new) /\ lookups \in Seq(Lookup)
        /\ seenIncoming' = {e \in FreshIncoming : e.msg # c.msg} \union {[msg |-> c.msg, t |-> ticks]}
    BY DEF MessageAcked, SeenWith, ReceiveInv
  <1>2. /\ c.msg \in AprsIncoming /\ c.heard \in Nat /\ c.heard <= ticks /\ ticks <= c.heard + AckWithin
        /\ SeenWindow \in Nat /\ AckWithin \in Nat
    BY <1>1, AprsAssumption DEF ReceiveInv, IsTime
  <1>3. new \in Lookup
    BY <1>2 DEF Lookup
  <1>4. /\ lookups' \in Seq(Lookup) /\ DOMAIN lookups' = 1 .. Len(lookups) + 1
        /\ DOMAIN lookups = 1 .. Len(lookups) /\ Len(lookups) \in Nat
        /\ \A j \in DOMAIN lookups : lookups'[j] = lookups[j]
        /\ lookups'[Len(lookups) + 1] = new
    <2> HIDE DEF new
    <2> QED BY <1>1, <1>3
  <1>5. new.msg = c.msg /\ new.heard = c.heard /\ new.shown = ~IsRetry(c.msg)
    OBVIOUS
  <1> HIDE DEF new
  <1>6. \A e \in seenIncoming' : e = [msg |-> c.msg, t |-> ticks] \/ (e \in seenIncoming /\ e.msg # c.msg)
    BY <1>1 DEF FreshIncoming
  <1>7. ASSUME NEW j \in DOMAIN lookups PROVE Remembered(lookups[j])'
    <2> DEFINE x == lookups[j]
    <2>1. IsTime(x.heard) /\ Remembered(x)
      BY DEF ReceiveInv, Remembered
    <2>2. CASE x.heard + SeenWindow < ticks
      BY <1>1, <1>4, <2>1, <2>2 DEF Remembered, IsTime
    <2>3. CASE \E e \in seenIncoming : e.msg = x.msg /\ x.heard <= e.t
      <3>1. PICK e \in seenIncoming : e.msg = x.msg /\ x.heard <= e.t
        BY <2>3
      <3>2. e.t \in Nat /\ e.t <= ticks /\ x.heard \in Nat
        BY <2>1 DEF ReceiveInv, IsTime
      <3>3. CASE e \in FreshIncoming
        <4>1. \E f \in seenIncoming' : f.msg = e.msg /\ e.t <= f.t
          <5>1. CASE e.msg = c.msg
            <6>1. [msg |-> c.msg, t |-> ticks] \in seenIncoming'
              BY <1>1
            <6> QED BY <3>2, <5>1, <6>1
          <5>2. CASE e.msg # c.msg
            <6>1. e \in seenIncoming'
              BY <1>1, <3>3, <5>2
            <6> QED BY <3>2, <6>1
          <5> QED BY <5>1, <5>2
        <4>2. \E f \in seenIncoming' : f.msg = x.msg /\ x.heard <= f.t
          <5>1. PICK f \in seenIncoming' : f.msg = e.msg /\ e.t <= f.t
            BY <4>1
          <5>2. f.t \in Nat
            BY <1>1, <1>6 DEF ReceiveInv, IsTime
          <5> QED BY <3>1, <3>2, <5>1, <5>2
        <4> QED BY <1>1, <1>4, <2>1, <4>2 DEF Remembered, IsTime
      <3>4. CASE e \notin FreshIncoming
        <4>1. x.heard + SeenWindow < ticks
          BY <1>1, <1>2, <3>1, <3>2, <3>4 DEF FreshIncoming
        <4> QED BY <1>1, <1>4, <2>1, <4>1 DEF Remembered, IsTime
      <3> QED BY <3>3, <3>4
    <2> QED BY <2>1, <2>2, <2>3 DEF Remembered
  <1>8. IsTime(c.heard)' /\ \E e \in seenIncoming' : e.msg = c.msg /\ c.heard <= e.t
    <2>1. [msg |-> c.msg, t |-> ticks] \in seenIncoming'
      BY <1>1
    <2>2. \E e \in seenIncoming' : e.msg = c.msg /\ c.heard <= e.t
      BY <1>2, <2>1
    <2>3. IsTime(c.heard)'
      BY <1>1, <1>2 DEF IsTime
    <2> QED BY <2>2, <2>3
  <1>9. ASSUME NEW j \in DOMAIN lookups, lookups[j].msg = c.msg, ~IsRetry(c.msg)
        PROVE  c.heard > lookups[j].heard + SeenWindow - AckWithin
    <2>1. Remembered(lookups[j]) /\ lookups[j].heard \in Nat
      BY DEF ReceiveInv, Remembered, IsTime
    <2>2. lookups[j].heard + SeenWindow < ticks
      <3>1. ASSUME NEW e \in seenIncoming, e.msg = c.msg, lookups[j].heard <= e.t
            PROVE  lookups[j].heard + SeenWindow < ticks
        <4>1. e.t \in Nat /\ ~ (ticks - e.t <= SeenWindow)
          BY <1>9, <3>1 DEF ReceiveInv, IsTime, IsRetry, FreshIncoming
        <4> QED BY <1>1, <1>2, <2>1, <3>1, <4>1
      <3> QED BY <1>9, <2>1, <3>1 DEF Remembered
    <2> QED BY <1>1, <1>2, <2>1, <2>2
  <1>10. ShownOnce'
    <2> SUFFICES ASSUME NEW j \in DOMAIN lookups', NEW k \in DOMAIN lookups', j < k,
                        lookups'[j].msg = lookups'[k].msg, lookups'[k].shown
                 PROVE  lookups'[k].heard > lookups'[j].heard + SeenWindow - AckWithin
      BY DEF ShownOnce
    <2>1. j \in DOMAIN lookups /\ (k \in DOMAIN lookups \/ k = Len(lookups) + 1)
      BY <1>4
    <2>2. CASE k \in DOMAIN lookups
      BY <1>4, <2>1, <2>2 DEF ReceiveInv, ShownOnce
    <2>3. CASE k = Len(lookups) + 1
      BY <1>4, <1>5, <1>9, <2>1, <2>3
    <2> QED BY <2>1, <2>2, <2>3
  <1>11. ASSUME NEW j \in DOMAIN lookups' PROVE Remembered(lookups[j])'
    <2>1. CASE j = Len(lookups) + 1
      BY <1>4, <1>5, <1>8, <2>1 DEF Remembered, IsTime
    <2> QED BY <1>4, <1>7, <2>1
  <1>12. /\ \A e \in seenIncoming' : IsTime(e.t)'
         /\ \A e, f \in seenIncoming' : e.msg = f.msg => e = f
    <2>1. IsTime(ticks)'
      BY <1>1 DEF IsTime
    <2> QED BY <1>1, <1>6, <2>1 DEF ReceiveInv, IsTime
  <1>13. \A d \in acking' : d.msg \in AprsIncoming /\ IsTime(d.heard)' /\ ticks' <= d.heard + AckWithin
    BY <1>1 DEF ReceiveInv, IsTime
  <1> QED BY <1>1, <1>4, <1>10, <1>11, <1>12, <1>13 DEF ReceiveInv

LEMMA ReceiveRests ==
  ASSUME ReceiveInv, UNCHANGED aprsRxVars
  PROVE  ReceiveInv'
  BY DEF ReceiveInv, Remembered, IsTime, ShownOnce, aprsRxVars

LEMMA ReceiveNext ==
  ASSUME ReceiveInv, [AprsNext]_aprsVars
  PROVE  ReceiveInv'
  <1>1. ASSUME NEW p \in Paths, NEW i \in AprsIncoming, HearMessage(p, i) PROVE ReceiveInv'
    <2>1. /\ UNCHANGED <<ticks, seenIncoming, lookups>> /\ ticks \in Nat /\ AckWithin \in Nat
          /\ acking' = acking \union {[nth |-> hearings', path |-> p, msg |-> i, heard |-> ticks]}
      BY <1>1, AprsAssumption DEF HearMessage, ReceiveInv
    <2>2. \A c \in acking' : c.msg \in AprsIncoming /\ IsTime(c.heard)' /\ ticks' <= c.heard + AckWithin
      BY <2>1 DEF ReceiveInv, IsTime
    <2> QED BY <2>1, <2>2 DEF ReceiveInv, Remembered, IsTime, ShownOnce
  <1>2. ASSUME NEW c \in acking, CopyDropped(c) PROVE ReceiveInv'
    <2>1. UNCHANGED <<ticks, seenIncoming, lookups>> /\ acking' \subseteq acking
      BY <1>2 DEF CopyDropped
    <2> QED BY <2>1 DEF ReceiveInv, Remembered, IsTime, ShownOnce
  <1>3. CASE TimePasses
    <2>1. /\ UNCHANGED <<acking, seenIncoming, lookups>> /\ ticks \in Nat /\ ticks' = ticks + 1
          /\ \A c \in acking : ticks < c.heard + AckWithin
          /\ SeenWindow \in Nat /\ AckWithin \in Nat
      BY <1>3, AprsAssumption DEF TimePasses, ReceiveInv
    <2>3. \A c \in acking : IsTime(c.heard)' /\ ticks' <= c.heard + AckWithin
      <3> SUFFICES ASSUME NEW c \in acking PROVE IsTime(c.heard)' /\ ticks' <= c.heard + AckWithin
        OBVIOUS
      <3>1. c.heard \in Nat /\ c.heard <= ticks /\ ticks < c.heard + AckWithin
        BY <2>1 DEF ReceiveInv, IsTime
      <3> QED BY <2>1, <3>1 DEF IsTime
    <2>4. \A e \in seenIncoming : IsTime(e.t)'
      BY <2>1 DEF ReceiveInv, IsTime
    <2>5. ASSUME NEW j \in DOMAIN lookups PROVE Remembered(lookups[j])'
      <3>1. Remembered(lookups[j])
        BY DEF ReceiveInv
      <3> QED BY <2>1, <3>1 DEF Remembered, IsTime
    <2> QED BY <2>1, <2>3, <2>4, <2>5 DEF ReceiveInv, ShownOnce
  <1>4. CASE HubRestarts
    <2>1. ticks' = ticks /\ acking' = {} /\ seenIncoming' = {} /\ lookups' = <<>> /\ ticks \in Nat
      BY <1>4 DEF HubRestarts, ReceiveInv
    <2>2. lookups' \in Seq(Lookup) /\ DOMAIN lookups' = {}
      BY <2>1
    <2> QED BY <2>1, <2>2 DEF ReceiveInv, ShownOnce
  <1>5. CASE AprsMessageStep
    BY <1>5, ReceiveRests DEF AprsMessageStep, AprsSend, AprsSendReturns, IngestAck, RetryFallsDue
  <1>6. CASE AprsObjectStep
    BY <1>6, ReceiveRests DEF AprsObjectStep, CallSent, CallEnds, UpsertObject, KillObject, KillRepeated,
                IntervalPasses
  <1>7. CASE HubPass
    BY <1>7, ReceiveRests DEF HubPass, RetryBegins, RetryPasses, RetryGivesUp, RetryStarts, RetryEnds,
                AnnouncingBegins, AnnounceEnds, LoopSaves, ObjectRests, AnnounceStarts
  <1>8. CASE Flap \/ UNCHANGED aprsVars
    BY <1>8, ReceiveRests DEF Flap, aprsVars
  <1> QED BY <1>1, <1>2, <1>3, <1>4, <1>5, <1>6, <1>7, <1>8, LookupStep DEF AprsNext, AprsReceiveStep

-----------------------------------------------------------------------------
(* The theorems.                                                            *)

AprsInv == MessagesInv /\ ObjectsInv /\ KillsInv /\ ReceiveInv

\* The parts of the invariant that other steps leave alone.
LEMMA ObjectsFrame ==
  ASSUME ObjectsInv, KillsInv, UNCHANGED <<aprsObjectVars, hubLoop>>
  PROVE  ObjectsInv' /\ KillsInv'
  <1>1. ObjectsInv'
    BY DEF ObjectsInv, ObjectsShape, CallsHaveRecords, aprsObjectVars
  <1>2. KillsInv'
    BY DEF KillsInv, Aloft, Covered, aprsObjectVars
  <1> QED BY <1>1, <1>2

LEMMA AprsInvAlways == AprsSpec => []AprsInv
  <1>1. AprsInit => AprsInv
    <2>1. AprsInit => ReceiveInv
      <3> SUFFICES ASSUME AprsInit PROVE ReceiveInv
        OBVIOUS
      <3>1. ticks = 0 /\ acking = {} /\ seenIncoming = {} /\ lookups = <<>>
        BY DEF AprsInit
      <3>2. lookups \in Seq(Lookup) /\ DOMAIN lookups = {}
        BY <3>1
      <3> QED BY <3>1, <3>2 DEF ReceiveInv, ShownOnce
    <2> QED BY <2>1, MessagesInit, ObjectsInit, KillsInit DEF AprsInv, ObjectsInv
  <1>2. AprsInv /\ [AprsNext]_aprsVars => AprsInv'
    <2> SUFFICES ASSUME AprsInv, [AprsNext]_aprsVars PROVE AprsInv'
      OBVIOUS
    <2>1. MessagesInv'
      BY MessagesNext DEF AprsInv, ObjectsInv
    <2>2. ReceiveInv'
      BY ReceiveNext DEF AprsInv
    <2>3. ObjectsInv' /\ KillsInv'
      <3>1. CASE AprsObjectStep
        BY <3>1, ObjectsStep, KillsObjectStep DEF AprsInv, MessagesInv
      <3>2. CASE HubPass
        BY <3>2, ObjectsLoopStep, KillsLoopStep DEF AprsInv, MessagesInv
      <3>3. CASE HubRestarts
        BY <3>3, ObjectsRestart, KillsRestart DEF AprsInv
      <3>4. CASE AprsMessageStep \/ AprsReceiveStep \/ Flap \/ UNCHANGED aprsVars
        <4>1. UNCHANGED <<aprsObjectVars, hubLoop>>
          BY <3>4 DEF AprsMessageStep, AprsSend, AprsSendReturns, IngestAck, RetryFallsDue, AprsReceiveStep,
                      HearMessage, MessageAcked, CopyDropped, TimePasses, Flap, aprsVars
        <4> QED BY <4>1, ObjectsFrame DEF AprsInv
      <3> QED BY <3>1, <3>2, <3>3, <3>4 DEF AprsNext
    <2> QED BY <2>1, <2>2, <2>3 DEF AprsInv
  <1> QED BY <1>1, <1>2, PTL DEF AprsSpec

\* Every variable of the hub keeps its shape, and a table of outgoing messages
\* over its limit was cut down.
THEOREM AprsTypeCorrect == AprsSpec => []AprsTypeOK
  <1>1. AprsInv => AprsTypeOK
    BY DEF AprsInv, MessagesInv, MessagesShape, MsgStates, Loops, ObjectsInv, ObjectsShape, ReceiveInv,
           AprsTypeOK
  <1> QED BY <1>1, AprsInvAlways, PTL

\* An object that was killed is not left alive on other stations' maps: a kill
\* is on its way or still to be repeated, unless one found the link down.
THEOREM KillsAreRepeated == AprsSpec => []NoZombies
  <1>1. AprsInv => NoZombies
    BY DEF AprsInv, KillsInv, Aloft, Covered, NoZombies
  <1> QED BY <1>1, AprsInvAlways, PTL

\* A message addressed to this station is shown again only after half an hour of
\* silence, less the time its acknowledgement takes, over however many paths its
\* copies come and however the awaits of their acknowledgements overlap.
THEOREM MessagesShownOnce == AprsSpec => []ShownOnce
  <1>1. AprsInv => ShownOnce
    BY DEF AprsInv, ReceiveInv, ShownOnce
  <1> QED BY <1>1, AprsInvAlways, PTL

\* The retry loop, which works on copies of a table that answers, evictions and
\* restarts change meanwhile, does what Delivery promises of each message.
THEOREM RetriesImplementDelivery == AprsSpec => RetriesAreDelivery
  <1>1. AprsInv /\ [AprsNext]_aprsVars => [Abstract!DeliveryNext]_(Abstract!deliveryVars)
    <2> SUFFICES ASSUME AprsInv, [AprsNext]_aprsVars
                 PROVE  [Abstract!DeliveryNext]_(Abstract!deliveryVars)
      OBVIOUS
    <2>1. CASE AprsObjectStep \/ AprsReceiveStep
      <3>1. UNCHANGED aprsMsgVars /\ Flying' = Flying
        BY <2>1, OthersStep DEF AprsInv, Flying, aprsMsgVars
      <3> QED BY <3>1, DeliveryStutters
    <2>2. CASE Flap \/ UNCHANGED aprsVars
      <3>1. UNCHANGED aprsMsgVars /\ Flying' = Flying
        BY <2>2 DEF Flap, aprsVars, Flying, aprsMsgVars
      <3> QED BY <3>1, DeliveryStutters
    <2>3. CASE HubRestarts
      BY <2>3, RestartDelivers DEF AprsInv, Abstract!DeliveryNext
    <2> QED BY <2>1, <2>2, <2>3, MessagesStepDelivers, LoopStepDelivers DEF AprsInv, AprsNext
  <1> QED BY <1>1, AprsInvAlways, DeliveryInitial, PTL DEF AprsSpec, RetriesAreDelivery, Abstract!DeliverySpec
=============================================================================
