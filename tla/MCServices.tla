----------------------------- MODULE MCServices ------------------------------
(***************************************************************************)
(* The mesh bot, the message store, the automatic broadcasts and the       *)
(* self-update share no variable, so that one behaviour moves one of them: *)
(* "focus" says which.                                                     *)
(***************************************************************************)
EXTENDS MeshBot, MessageStore, Broadcasts, SelfUpdate, TLC

CONSTANTS storm, flood, loop, main, added, dropped

\* The loop is one of those who may poll.
ASSUME LoopPolls == loop \in Polls

VARIABLE focus

mcSortOf == (storm :> "wind") @@ (flood :> "water")

mcShips  == <<{main, dropped}, {main, added}>>

Foci == {"trivia", "forms", "store", "polls", "restarts", "update"}

Init ==
    /\ focus \in Foci /\ BotInit /\ StoreInit /\ AirInit /\ UpdateInit
    /\ focus \in {"polls", "restarts"} \/ service = "weather"

BotRest   == UNCHANGED botVars
StoreRest == UNCHANGED storeVars
AirRest   == UNCHANGED airVars
TreeRest  == UNCHANGED updateVars

Next ==
    /\ UNCHANGED focus
    /\ \/ /\ focus = "trivia" /\ (BotHears(TriviaWords) \/ BotTask)
          /\ StoreRest /\ AirRest /\ TreeRest
       \/ /\ focus = "forms" /\ (BotHears(FormWords \union {"other"}) \/ BotTask)
          /\ StoreRest /\ AirRest /\ TreeRest
       \/ /\ focus = "store" /\ StoreNext
          /\ BotRest /\ AirRest /\ TreeRest
       \/ /\ focus = "polls" /\ (ClockTicks \/ \E p \in Polls : AirStep(p))
          /\ BotRest /\ StoreRest /\ TreeRest
       \/ /\ focus = "restarts" /\ (ClockTicks \/ ServiceRestarts \/ AirStep(loop))
          /\ BotRest /\ StoreRest /\ TreeRest
       \/ focus = "update" /\ UpdateNext /\ BotRest /\ StoreRest /\ AirRest

Spec == Init /\ [][Next]_<<focus, botVars, storeVars, airVars, updateVars>>

ServicesTypeOK == focus \in Foci /\ MeshBotTypeOK /\ StoreTypeOK /\ AirTypeOK /\ UpdateTypeOK
=============================================================================
