------------------------------ MODULE MeshBot -------------------------------
(***************************************************************************)
(* The mesh bot (ech/core/mesh_bot.py): its trivia rounds, its guided      *)
(* SKYWARN and strip report forms and its text games.                      *)
(*                                                                         *)
(* handle() decides, from the sessions that exist when a message arrives,  *)
(* who it is for, and leaves the rest to a task of its own.  Tasks begin   *)
(* in the order of the messages and then interleave at every await of the  *)
(* database, the web or a radio, so that what handle() saw may be gone.    *)
(* The cooldowns only drop commands, as if they had never been sent.       *)
(***************************************************************************)
EXTENDS Integers, Sequences, FiniteSets, SequencesExt

CONSTANTS
    BotUsers,       \* senders of direct messages; a direct context is its user
    BotChannels,    \* channels the bot listens on
    Talkative,      \* channels where it answers only if mentioned
    Fields,         \* questions of a form: 0 .. Fields - 1
    GameItems,      \* what lies about in the rooms of a game
    MaxBotMessages, \* bound: messages received
    MaxUnstarted,   \* bound: tasks made and not begun; they begin at the loop's next turn
    MaxForms,       \* bound: forms begun
    MaxQuestions    \* bound: trivia questions posed

ASSUME MeshBotAssumption ==
    /\ Fields \in Nat \ {0} /\ {MaxBotMessages, MaxForms, MaxQuestions} \subseteq Nat
    /\ Talkative \subseteq BotChannels

VARIABLES
    botTasks,       \* the tasks under way, in the order of their messages
    received,       \* messages so far
    \* trivia, per context
    choosing, paused, chosen, pending,
    judged,         \* question -> answers it was judged by
    late,           \* context -> questions asked for that may still follow its "stop"
    \* forms
    skywarn, strip, \* user -> the form it fills in, 0 if none
    form,           \* form -> [step, answers, phase, owner]
    cancelled, filed, sentOut,
    \* games, per context
    game, idleGame, carried,
    roomItems       \* the items in the rooms, which are one module constant

triviaVars == <<choosing, paused, chosen, pending, judged, late>>
formVars   == <<skywarn, strip, form, cancelled, filed, sentOut>>
gameVars   == <<game, idleGame, carried, roomItems>>
botVars    == <<botTasks, received, triviaVars, formVars, gameVars>>

Contexts  == BotUsers \union BotChannels
Forms     == 1 .. MaxForms
Questions == 1 .. MaxQuestions

TriviaWords == {"trivia", "trivia any", "trivia named", "trivia stop", "letter"}
FormWords   == {"skywarn", "strip", "strip named", "strip pasted", "cancel"}
GameWords   == {"mud", "quit", "take", "drop", "win"}
Words       == TriviaWords \union FormWords \union GameWords \union {"other"}

Unstarted == {"pick", "answer", "game", "skywarn", "strip", "command"}

\* Tasks start in the order they were made.
Starts(n, pc) ==
    /\ botTasks[n].pc = pc
    /\ \A k \in 1 .. n - 1 : botTasks[k].pc \notin Unstarted

GoesWith(n, pc, ob) ==
    /\ botTasks' = [botTasks EXCEPT ![n].pc = pc, ![n].obj = ob, ![n].word = "other"]
    /\ UNCHANGED received

Goes(n, pc) == GoesWith(n, pc, botTasks[n].obj)
Ends(n)     == botTasks' = RemoveAt(botTasks, n) /\ UNCHANGED received

-----------------------------------------------------------------------------
(* handle(): who a message is for.                                          *)

InDM(k) == k \in BotUsers

\* Sessions first; an answer to a question only if it is a letter.
Claim(k, w) ==
    IF InDM(k) /\ game[k] # "none" THEN "game"
    ELSE IF InDM(k) /\ skywarn[k] # 0 THEN "skywarn"
    ELSE IF InDM(k) /\ strip[k] # 0 THEN "strip"
    ELSE IF k \in choosing THEN "pick"
    ELSE IF w = "letter" /\ pending[k] # 0 THEN "answer"
    ELSE IF game[k] # "none" THEN "game"
    ELSE "command"

Handle(u, k, w) ==
    /\ received < MaxBotMessages
    /\ Cardinality({n \in DOMAIN botTasks : botTasks[n].pc \in Unstarted}) < MaxUnstarted
    /\ received' = received + 1
    /\ botTasks' = Append(botTasks, [pc |-> Claim(k, w), word |-> w, user |-> u, place |-> k, obj |-> 0])
    /\ UNCHANGED <<triviaVars, formVars, gameVars>>

\* A word that is no command is answered, or not, and nothing else.
NotACommand(n) ==
    /\ Starts(n, "command")
    /\ botTasks[n].word \in {"letter", "cancel", "quit", "take", "drop", "win", "other"}
    /\ Ends(n)
    /\ UNCHANGED <<triviaVars, formVars, gameVars>>

-----------------------------------------------------------------------------
(* Trivia.                                                                  *)

\* Tasks of a context on the way to a question.
MayAsk(k) == Cardinality({n \in DOMAIN botTasks :
                 botTasks[n].place = k /\ botTasks[n].pc \in {"categories", "picked", "question"}})

TriviaStop(n) ==
    /\ Starts(n, "command") /\ botTasks[n].word = "trivia stop"
    /\ LET k == botTasks[n].place
       IN  /\ paused'  = paused \union {k}
           /\ pending' = [pending EXCEPT ![k] = 0, ![botTasks[n].user] = 0]
           /\ late'    = [late EXCEPT ![k] = MayAsk(k)]
    /\ Ends(n)
    /\ UNCHANGED <<choosing, chosen, judged, formVars, gameVars>>

TriviaBegins(n) ==
    LET k == botTasks[n].place
        w == botTasks[n].word
    IN  /\ Starts(n, "command") /\ w \in {"trivia", "trivia any", "trivia named"}
        /\ paused' = paused \ {k}
        /\ \/ /\ pending[k] # 0
              /\ Ends(n) /\ UNCHANGED <<choosing, chosen>>
           \/ /\ pending[k] = 0 /\ w = "trivia any"
              /\ chosen' = chosen \ {k}
              /\ Goes(n, "question") /\ UNCHANGED choosing
           \/ /\ pending[k] = 0 /\ w = "trivia named"
              /\ Goes(n, "categories") /\ UNCHANGED <<choosing, chosen>>
           \/ /\ pending[k] = 0 /\ w = "trivia" /\ k \in chosen
              /\ Goes(n, "question") /\ UNCHANGED <<choosing, chosen>>
           \/ /\ pending[k] = 0 /\ w = "trivia" /\ k \notin chosen
              /\ choosing' = choosing \union {k}
              /\ Ends(n) /\ UNCHANGED chosen
        /\ UNCHANGED <<pending, judged, late, formVars, gameVars>>

\* _dispatch_trivia_category_pick: any message, a command too, is a pick.
PickBegins(n) ==
    LET k == botTasks[n].place
    IN  /\ Starts(n, "pick")
        /\ choosing' = choosing \ {k}
        /\ \/ chosen' = chosen \ {k} /\ Goes(n, "question")     \* "any"
           \/ UNCHANGED chosen /\ Goes(n, "picked")
        /\ late' = [late EXCEPT ![k] = IF k \in paused THEN @ + 1 ELSE @]
        /\ UNCHANGED <<paused, pending, judged, formVars, gameVars>>

\* The list of categories arrived, or could not be loaded.
CategoriesArrive(n) ==
    LET k == botTasks[n].place
    IN  /\ botTasks[n].pc \in {"categories", "picked"}
        /\ \/ chosen' = chosen \union {k} /\ Goes(n, "question") /\ UNCHANGED choosing
           \/ /\ choosing' = IF botTasks[n].pc = "picked" THEN choosing \union {k} ELSE choosing
              /\ Ends(n) /\ UNCHANGED chosen
        /\ UNCHANGED <<paused, pending, judged, late, formVars, gameVars>>

Posed == Cardinality({q \in Questions : judged[q] # -1})

\* _next_trivia_question: a question that arrives replaces an open one.
QuestionArrives(n) ==
    LET k == botTasks[n].place
    IN  /\ botTasks[n].pc = "question"
        /\ \/ UNCHANGED <<pending, judged, late>>               \* none arrived
           \/ /\ Posed < MaxQuestions
              /\ pending' = [pending EXCEPT ![k] = Posed + 1]
              /\ judged'  = [judged EXCEPT ![Posed + 1] = 0]
              /\ late'    = [late EXCEPT ![k] = IF k \in paused THEN @ - 1 ELSE @]
        /\ Ends(n)
        /\ UNCHANGED <<choosing, paused, chosen, formVars, gameVars>>

\* Seeded fault: the question stays open after its answer.
LeftOpen(k) == pending

Closed(k) == [pending EXCEPT ![k] = 0]

\* _dispatch_trivia_answer: the question is closed before anything is awaited.
AnswerBegins(n) ==
    LET k == botTasks[n].place
    IN  /\ Starts(n, "answer")
        /\ IF pending[k] = 0
           THEN Ends(n) /\ UNCHANGED pending
           ELSE /\ pending' = Closed(k)
                /\ \/ Ends(n)                                   \* it had expired
                   \/ GoesWith(n, "scoring", pending[k])
        /\ UNCHANGED <<choosing, paused, chosen, judged, late, formVars, gameVars>>

\* The verdict is sent, after the table of scores was read and written.
Judge(n) ==
    /\ botTasks[n].pc = "scoring"
    /\ judged' = [judged EXCEPT ![botTasks[n].obj] = @ + 1]
    /\ Goes(n, "judged")
    /\ UNCHANGED <<choosing, paused, chosen, pending, late, formVars, gameVars>>

\* Seeded fault: the round goes on whatever was said meanwhile.
GoesOnRegardless(k) == TRUE

GoesOn(k) == k \notin paused

NextInRound(n) ==
    /\ botTasks[n].pc = "judged"
    /\ IF GoesOn(botTasks[n].place) THEN GoesWith(n, "question", 0) ELSE Ends(n)
    /\ UNCHANGED <<triviaVars, formVars, gameVars>>

-----------------------------------------------------------------------------
(* Guided forms.  A form is an object that tasks hold on to after it was    *)
(* replaced or removed from its table.                                      *)

Begun   == {f \in Forms : form[f].phase # "unused"}
NewForm == Cardinality(Begun) + 1

AllFields == 0 .. Fields - 1

\* "pasted" is the code's "dest" for a strip that was pasted: it waits for its
\* destination, and what it lacks is never asked for.
Fresh(u, phase) ==
    [step |-> 0, answers |-> IF phase = "dest" THEN AllFields ELSE {}, phase |-> phase, owner |-> u]

\* Forms are offered in direct messages only; there too no form begins for
\* "skywarn <call> <report>", saved at once, and an unknown template's name.
NoFormBegins(n) ==
    /\ Starts(n, "command") /\ botTasks[n].word \in {"skywarn", "strip", "strip named", "strip pasted"}
    /\ ~InDM(botTasks[n].place) \/ botTasks[n].word \in {"skywarn", "strip named"}
    /\ Ends(n)
    /\ UNCHANGED <<triviaVars, formVars, gameVars>>

SkywarnBegins(n) ==
    LET u == botTasks[n].user
    IN  /\ Starts(n, "command") /\ botTasks[n].word = "skywarn" /\ InDM(botTasks[n].place)
        /\ NewForm \in Forms
        /\ form'    = [form EXCEPT ![NewForm] = Fresh(u, "skywarn")]
        /\ skywarn' = [skywarn EXCEPT ![u] = NewForm]
        /\ Ends(n)
        /\ UNCHANGED <<strip, cancelled, filed, sentOut, triviaVars, gameVars>>

StripBegins(n) ==
    LET u == botTasks[n].user
        w == botTasks[n].word
    IN  /\ Starts(n, "command") /\ InDM(botTasks[n].place)
        /\ w \in {"strip", "strip named", "strip pasted"}
        /\ IF w = "strip named"
           THEN Goes(n, "prefill") /\ UNCHANGED <<form, strip>>
           ELSE /\ NewForm \in Forms
                /\ form'  = [form EXCEPT ![NewForm] = Fresh(u, IF w = "strip" THEN "picking" ELSE "pasted")]
                /\ strip' = [strip EXCEPT ![u] = NewForm]
                /\ Ends(n)
        /\ UNCHANGED <<skywarn, cancelled, filed, sentOut, triviaVars, gameVars>>

\* _start_strip_session: what the node is known to be is looked up first;
\* the session is made when that is back, even if it was cancelled meanwhile.
PrefillArrives(n) ==
    LET u == botTasks[n].user
    IN  /\ botTasks[n].pc = "prefill" /\ NewForm \in Forms
        /\ \E phase \in {"fields", "dest"} : form' = [form EXCEPT ![NewForm] = Fresh(u, phase)]
        /\ strip' = [strip EXCEPT ![u] = NewForm]
        /\ Ends(n)
        /\ UNCHANGED <<skywarn, cancelled, filed, sentOut, triviaVars, gameVars>>

\* "cancel" takes effect at once, every other answer after its message was
\* relabelled in the database -- but for the destination of a strip.
SkywarnAnswer(n) ==
    LET u == botTasks[n].user
        f == skywarn[u]
    IN  /\ Starts(n, "skywarn")
        /\ IF f # 0 /\ botTasks[n].word = "cancel"
           THEN /\ skywarn'   = [skywarn EXCEPT ![u] = 0]
                /\ cancelled' = cancelled \union {f}
                /\ Ends(n)
           ELSE /\ \/ (f = 0 \/ botTasks[n].word = "other") /\ Ends(n)     \* "repeat"
                   \/ f # 0 /\ GoesWith(n, "relabel", f)
                /\ UNCHANGED <<skywarn, cancelled>>
        /\ UNCHANGED <<strip, form, filed, sentOut, triviaVars, gameVars>>

\* Relabellings return in the order of their calls: the database has one queue.
Relabelled(n) ==
    /\ botTasks[n].pc = "relabel"
    /\ \A k \in 1 .. n - 1 : botTasks[k].pc # "relabel"

\* Seeded fault: pop(..., None) for del: the session need not be there.
SessionMayBeGone(u) == TRUE

SessionThere(u) == skywarn[u] # 0

\* The answer goes to the question that is open now.  After the last one a
\* further answer is an IndexError, and a report whose session is gone a
\* KeyError: either ends the task.
SkywarnStep(n) ==
    LET f == botTasks[n].obj
        u == botTasks[n].user
    IN  /\ Relabelled(n) /\ form[f].phase = "skywarn"
        /\ IF form[f].step >= Fields
           THEN Ends(n) /\ UNCHANGED <<form, skywarn>>
           ELSE /\ form' = [form EXCEPT ![f].answers = @ \union {form[f].step}, ![f].step = @ + 1]
                /\ IF form[f].step + 1 = Fields /\ SessionThere(u)
                   THEN skywarn' = [skywarn EXCEPT ![u] = 0] /\ Goes(n, "filing")
                   ELSE Ends(n) /\ UNCHANGED skywarn
        /\ UNCHANGED <<strip, cancelled, filed, sentOut, triviaVars, gameVars>>

\* _save_skywarn, which may fail.
ReportFiled(n) ==
    /\ botTasks[n].pc = "filing"
    /\ \/ filed' = [filed EXCEPT ![botTasks[n].obj] = @ + 1]
       \/ UNCHANGED filed
    /\ Ends(n)
    /\ UNCHANGED <<skywarn, strip, form, cancelled, sentOut, triviaVars, gameVars>>

AtDestination(f) == form[f].phase \in {"dest", "pasted"}

\* The text is the destination: the session is removed (a KeyError if it is
\* not there), then the report is saved and sent.
TakeDestination(n, u, f) ==
    IF strip[u] = 0
    THEN Ends(n) /\ UNCHANGED strip
    ELSE strip' = [strip EXCEPT ![u] = 0] /\ GoesWith(n, "saving", f)

StripAnswer(n) ==
    LET u == botTasks[n].user
        f == strip[u]
    IN  /\ Starts(n, "strip")
        /\ \/ /\ f = 0 \/ botTasks[n].word = "other"               \* "repeat"
              /\ Ends(n) /\ UNCHANGED <<strip, cancelled>>
           \/ /\ f # 0 /\ botTasks[n].word = "cancel"
              /\ strip'     = [strip EXCEPT ![u] = 0]
              /\ cancelled' = cancelled \union {f}
              /\ Ends(n)
           \/ /\ f # 0 /\ botTasks[n].word # "cancel"
              /\ IF AtDestination(f) THEN TakeDestination(n, u, f)
                 ELSE GoesWith(n, "relabel", f) /\ UNCHANGED strip
              /\ UNCHANGED cancelled
        /\ UNCHANGED <<skywarn, form, filed, sentOut, triviaVars, gameVars>>

\* Seeded fault: the form never asks for its destination.
AsksOn(f) == "fields"

PhaseAfter(f) == IF form[f].step + 1 = Fields THEN "dest" ELSE "fields"

\* The phase is read again: an answer overtaken by the last one is a destination.
StripStep(n) ==
    LET f == botTasks[n].obj
        u == botTasks[n].user
    IN  /\ Relabelled(n)
        /\ \/ /\ form[f].phase = "picking"
              /\ \/ Goes(n, "prefill")
                 \/ Ends(n)                                     \* unknown template
              /\ UNCHANGED <<form, strip>>
           \/ /\ form[f].phase = "fields"
              /\ form' = [form EXCEPT ![f].answers = @ \union {form[f].step}, ![f].step = @ + 1,
                                      ![f].phase = PhaseAfter(f)]
              /\ Ends(n) /\ UNCHANGED strip
           \/ /\ AtDestination(f)
              /\ TakeDestination(n, u, f) /\ UNCHANGED form
        /\ UNCHANGED <<skywarn, cancelled, filed, sentOut, triviaVars, gameVars>>

StripSaved(n) ==
    /\ botTasks[n].pc = "saving"
    /\ Goes(n, "winlink")
    /\ UNCHANGED <<triviaVars, formVars, gameVars>>

\* _send_strip_via_winlink, if there is such an adapter.
StripGoesOut(n) ==
    /\ botTasks[n].pc = "winlink"
    /\ \/ sentOut' = [sentOut EXCEPT ![botTasks[n].obj] = @ + 1]
       \/ UNCHANGED sentOut
    /\ Ends(n)
    /\ UNCHANGED <<skywarn, strip, form, cancelled, filed, triviaVars, gameVars>>

-----------------------------------------------------------------------------
(* Games: a session per context, of the rooms only the items.               *)

GameEnds(k) == game' = [game EXCEPT ![k] = "none"] /\ carried' = [carried EXCEPT ![k] = {}]

\* Seeded fault: a session that is choosing has no last_active, which counts as now.
IdleOnceChosen(k) == game[k] = "playing" /\ idleGame[k]

Idle(k) == game[k] # "none" /\ idleGame[k]

\* A new session takes the place of the old, whose items are gone.
GameOffered(n) ==
    LET k == botTasks[n].place
    IN  /\ Starts(n, "command") /\ botTasks[n].word = "mud"
        /\ IF k \in Talkative
           THEN UNCHANGED <<game, idleGame, carried>>
           ELSE /\ game'     = [game EXCEPT ![k] = "choose"]
                /\ idleGame' = [idleGame EXCEPT ![k] = FALSE]
                /\ carried'  = [carried EXCEPT ![k] = {}]
        /\ Ends(n)
        /\ UNCHANGED <<roomItems, triviaVars, formVars>>

\* The way out is behind a lock.
Leaves(k, w) == w = "quit" \/ (w = "win" /\ carried[k] # {})

\* One message of the context's players; moves that lead nowhere included.
GameMove(n) ==
    LET k == botTasks[n].place
        w == botTasks[n].word
    IN  /\ Starts(n, "game")
        /\ Ends(n)
        /\ idleGame' = [idleGame EXCEPT ![k] = IF game[k] = "none" THEN @ ELSE FALSE]
        /\ \/ /\ game[k] = "choose"
              /\ \E g \in {"choose", "playing", "none"} : game' = [game EXCEPT ![k] = g]
              /\ UNCHANGED <<carried, roomItems>>
           \/ /\ game[k] = "playing" /\ Leaves(k, w)
              /\ GameEnds(k) /\ UNCHANGED roomItems
           \/ /\ game[k] = "playing" /\ w = "take"
              /\ \E i \in roomItems :
                   /\ roomItems' = roomItems \ {i}
                   /\ carried'   = [carried EXCEPT ![k] = @ \union {i}]
              /\ UNCHANGED game
           \/ /\ game[k] = "playing" /\ w = "drop"
              /\ \E i \in carried[k] :
                   /\ roomItems' = roomItems \union {i}
                   /\ carried'   = [carried EXCEPT ![k] = @ \ {i}]
              /\ UNCHANGED game
           \/ /\ game[k] # "choose" /\ (game[k] = "playing" => ~Leaves(k, w))
              /\ UNCHANGED <<game, carried, roomItems>>
        /\ UNCHANGED <<triviaVars, formVars>>

GameGoesIdle(k) ==
    /\ game[k] # "none" /\ ~idleGame[k]
    /\ idleGame' = [idleGame EXCEPT ![k] = TRUE]
    /\ UNCHANGED <<botTasks, received, game, carried, roomItems, triviaVars, formVars>>

\* _sweep_mud_sessions
Sweep ==
    /\ \E k \in Contexts : Idle(k)
    /\ game'    = [k \in Contexts |-> IF Idle(k) THEN "none" ELSE game[k]]
    /\ carried' = [k \in Contexts |-> IF Idle(k) THEN {} ELSE carried[k]]
    /\ UNCHANGED <<botTasks, received, idleGame, roomItems, triviaVars, formVars>>

-----------------------------------------------------------------------------
BotInit ==
    /\ botTasks = <<>> /\ received = 0
    /\ choosing = {} /\ paused = {} /\ chosen = {}
    /\ pending = [k \in Contexts |-> 0]
    /\ judged  = [q \in Questions |-> -1]
    /\ late    = [k \in Contexts |-> 0]
    /\ skywarn = [u \in BotUsers |-> 0] /\ strip = skywarn
    /\ form    = [f \in Forms |-> Fresh(CHOOSE u \in BotUsers : TRUE, "unused")]
    /\ cancelled = {}
    /\ filed   = [f \in Forms |-> 0] /\ sentOut = filed
    /\ game    = [k \in Contexts |-> "none"]
    /\ idleGame = [k \in Contexts |-> FALSE]
    /\ carried = [k \in Contexts |-> {}]
    /\ roomItems = GameItems

TriviaTask(n) ==
    \/ TriviaStop(n) \/ TriviaBegins(n) \/ PickBegins(n) \/ CategoriesArrive(n)
    \/ QuestionArrives(n) \/ AnswerBegins(n) \/ Judge(n) \/ NextInRound(n)

FormTask(n) ==
    \/ NoFormBegins(n) \/ SkywarnBegins(n) \/ SkywarnAnswer(n) \/ SkywarnStep(n) \/ ReportFiled(n)
    \/ StripBegins(n) \/ PrefillArrives(n) \/ StripAnswer(n) \/ StripStep(n) \/ StripSaved(n)
    \/ StripGoesOut(n)

GameTask(n) == GameOffered(n) \/ GameMove(n)

BotTask == \E n \in DOMAIN botTasks : NotACommand(n) \/ TriviaTask(n) \/ FormTask(n) \/ GameTask(n)

BotHears(words) ==
    \E u \in BotUsers, w \in words : \E k \in {u} \union BotChannels : Handle(u, k, w)

GamesAge == Sweep \/ \E k \in Contexts : GameGoesIdle(k)

BotNext == BotHears(Words) \/ BotTask \/ GamesAge

BotSpec == BotInit /\ [][BotNext]_botVars

\* Time passes and the sweep runs once a minute.
BotFairness ==
    /\ \A k \in Contexts : WF_botVars(GameGoesIdle(k))
    /\ WF_botVars(Sweep)

-----------------------------------------------------------------------------
(* Properties.                                                              *)

MeshBotTypeOK ==
    /\ Len(botTasks) <= received /\ received <= MaxBotMessages
    /\ \A n \in DOMAIN botTasks :
         /\ botTasks[n].user \in BotUsers /\ botTasks[n].place \in Contexts
         /\ botTasks[n].word \in Words /\ botTasks[n].obj \in Nat
    /\ choosing \union paused \union chosen \subseteq Contexts
    /\ pending \in [Contexts -> 0 .. MaxQuestions]
    /\ skywarn \in [BotUsers -> 0 .. MaxForms] /\ strip \in [BotUsers -> 0 .. MaxForms]
    /\ \A f \in Forms : form[f].step \in 0 .. Fields /\ form[f].answers \subseteq AllFields
    /\ game \in [Contexts -> {"none", "choose", "playing"}]
    /\ roomItems \subseteq GameItems /\ carried \in [Contexts -> SUBSET GameItems]

\* The sender has begun another form since.
Superseded(f) == \E g \in Begun : g > f /\ form[g].owner = form[f].owner

\* What a message uses up is used once, however many arrived before the first
\* of them was served: a question is judged once, a strip sent once.  (Of three
\* overlapping answers the last may send an old strip in place of a new form.)
UsedOnce ==
    /\ \A q \in Questions : judged[q] <= 1
    /\ \A f \in Forms : sentOut[f] <= 1 \/ Superseded(f)

\* A report on file, or sent, has an answer to every field although answers
\* overtake each other at the database; it is filed once, and not after the
\* spotter cancelled it -- unless a new form took its place in the table.  A
\* pasted strip is sent as it came, with or without an answer to every field.
FiledReportsAreWhole ==
    \A f \in Forms :
        filed[f] + sentOut[f] > 0 =>
            /\ form[f].phase # "pasted" => form[f].answers = AllFields
            /\ filed[f] <= 1
            /\ f \in cancelled => Superseded(f)

\* "trivia stop" stops: what follows is at most one question for each task that
\* was then on its way to one, and one for each category picked since (a prompt
\* outlives the stop).
StopStops == \A k \in paused : late[k] >= 0

\* A game nobody plays any more is reclaimed, also one whose player never chose
\* between the games (_sweep_mud_sessions).
AbandonedGamesEnd == \A k \in Contexts : game[k] # "none" ~> game[k] = "none"
=============================================================================
