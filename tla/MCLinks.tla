------------------------------ MODULE MCLinks ------------------------------
(***************************************************************************)
(* The APRS hub, the CAT socket, the SMS modem, a MeshCore radio's link    *)
(* and the mesh bot's games share no variable, so that one behaviour moves *)
(* one of them: "focus" says which, and of some which part.  Each keeps    *)
(* the fairness its own module states, restricted to its focus.            *)
(***************************************************************************)
EXTENDS AprsHub, CatPtt, SmsModem, MeshBot, Companion

VARIABLE focus

HubFoci == {"messages", "objects", "received"}
CatFoci == {"cat", "catLost"}
LinkFoci == {"mail", "contacts"}
Foci    == HubFoci \union CatFoci \union LinkFoci \union {"sms", "games"}

Init ==
    /\ focus \in Foci /\ AprsInit /\ CatInit /\ SmsInit /\ BotInit /\ CompanionInit
    /\ (onRadio # {}) = (focus = "contacts")

AprsRest == UNCHANGED aprsVars
CatRest  == UNCHANGED catVars
SmsRest  == UNCHANGED smsVars
BotRest  == UNCHANGED botVars
LinkRest == UNCHANGED companionVars

HubMoves ==
    \/ focus = "messages" /\ (AprsMessageStep \/ HubPass \/ Flap \/ HubRestarts)
    \/ focus = "objects"  /\ (AprsObjectStep \/ HubPass \/ Flap)
    \/ focus = "received" /\ (AprsReceiveStep \/ HubRestarts)

\* Two requests on a good connection, or one and trouble.
CatMoves ==
    \/ focus = "cat" /\ CatNext /\ catTroubles' = 0
    \/ focus = "catLost" /\ CatNext /\ catRequests' < MaxCatRequests

\* A message and no stale contact, or a stale contact on a good connection.
LinkMoves ==
    \/ focus = "mail" /\ CompanionNext
    \/ focus = "contacts" /\ CompanionNext /\ mail' = mail /\ drops' = 0

Next ==
    /\ UNCHANGED focus
    /\ \/ HubMoves /\ CatRest /\ SmsRest /\ BotRest /\ LinkRest
       \/ CatMoves /\ AprsRest /\ SmsRest /\ BotRest /\ LinkRest
       \/ LinkMoves /\ AprsRest /\ CatRest /\ SmsRest /\ BotRest
       \/ focus = "sms" /\ SmsNext /\ AprsRest /\ CatRest /\ BotRest /\ LinkRest
       \/ focus = "games" /\ (BotHears(GameWords) \/ BotTask \/ GamesAge)
          /\ AprsRest /\ CatRest /\ SmsRest /\ LinkRest

Fairness ==
    /\ WF_aprsVars(focus = "objects" /\ HubPass)
    /\ \A m \in AprsMessages : WF_aprsVars(focus = "objects" /\ RetryFallsDue(m))
    /\ \A c \in HubCallers : WF_aprsVars(focus = "objects" /\ (CallSent(c) \/ CallEnds(c)))
    /\ \A n \in ObjectNames :
         WF_aprsVars(focus = "objects" /\ \E rec \in OwnRecords : rec[1] = n /\ IntervalPasses(rec))
    /\ WF_catVars(focus \in CatFoci /\ RigExecutes)
    /\ WF_catVars(focus \in CatFoci /\ GuardFires)
    /\ WF_catVars(focus \in CatFoci /\ (PollConnects \/ PollAnswered \/ PollFails \/ \E cmd \in {"f", "m"} : PollAsks(cmd)))
    /\ WF_catVars(focus \in CatFoci /\ (GuardAnswered \/ GuardFails))
    /\ \A c \in CatCallers : WF_catVars(focus \in CatFoci /\ (RequestAnswered(c) \/ RequestFails(c)))
    /\ \A t \in CatTasks : WF_catVars(focus \in CatFoci /\ (ReadsOn(t) \/ CmdRefused(t)))
    /\ WF_smsVars(focus = "sms" /\ ModemExecutes)
    /\ WF_smsVars(focus = "sms" /\ ReaderTakes)
    /\ WF_smsVars(focus = "sms" /\ CmdStarts)
    /\ WF_smsVars(focus = "sms" /\ (CmdAnswered \/ PromptSeen))
    /\ WF_smsVars(focus = "sms" /\ SmsPoll)
    /\ \A k \in Contexts : WF_botVars(focus = "games" /\ GameGoesIdle(k))
    /\ WF_botVars(focus = "games" /\ Sweep)
    /\ WF_companionVars(focus = "mail" /\ \E requesters \in SUBSET Requesters : LoopTurn(requesters))
    /\ WF_companionVars(focus = "mail" /\ (ReadTimesOut \/ FrameRead))
    /\ WF_companionVars(focus = "mail" /\ RadioExecutes)
    /\ WF_companionVars(focus = "mail" /\ ListEnds)
    /\ WF_companionVars(focus = "mail" /\ InitSends)
    /\ WF_companionVars(focus = "mail" /\ PollFallsDue)
    /\ WF_companionVars(focus = "mail" /\ HalfMinutePasses)
    /\ WF_companionVars(focus = "mail" /\ Connects)

Spec == Init /\ [][Next]_<<focus, aprsVars, catVars, smsVars, botVars, companionVars>> /\ Fairness

LinksTypeOK ==
    focus \in Foci /\ AprsTypeOK /\ CatTypeOK /\ SmsTypeOK /\ MeshBotTypeOK /\ CompanionTypeOK
=============================================================================
