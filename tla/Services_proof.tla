--------------------------- MODULE Services_proof ---------------------------
(***************************************************************************)
(* Theorems about the mesh bot (MeshBot) and the automatic broadcasts      *)
(* (Broadcasts), which share nothing.                                      *)
(***************************************************************************)
EXTENDS MeshBot, Broadcasts, FiniteSetTheorems, TLAPS

-----------------------------------------------------------------------------
(* The mesh bot's tasks.                                                    *)

AtQuestion  == {"categories", "picked", "question"}
GoingOut == {"saving", "winlink"}
AtForm  == {"relabel", "filing"} \union GoingOut
Pcs     == Unstarted \union AtQuestion \union {"scoring", "judged", "prefill"} \union AtForm

Tasks == [pc : Pcs, word : Words, user : BotUsers, place : Contexts, obj : Nat]

TasksOK == botTasks \in Seq(Tasks)

\* Task n ends, or goes on at one of the places pcs.
Moves(n, pcs) == Ends(n) \/ \E pc \in pcs : \E ob \in Nat : GoesWith(n, pc, ob)

\* What has become of the tasks: i was was[i], and only n has changed.
Reindexed(was, n) ==
    /\ was \in [DOMAIN botTasks' -> DOMAIN botTasks]
    /\ \A i, j \in DOMAIN botTasks' : was[i] = was[j] => i = j
    /\ \A i \in DOMAIN botTasks' :
          /\ was[i] # n => botTasks'[i] = botTasks[was[i]]
          /\ was[i] = n => /\ botTasks'[i].user = botTasks[n].user
                           /\ botTasks'[i].place = botTasks[n].place

\* Removing an element moves those behind it up by one.
LEMMA Removed ==
    ASSUME NEW S, NEW s \in Seq(S), NEW n \in DOMAIN s
    PROVE  /\ RemoveAt(s, n) \in Seq(S)
           /\ Len(RemoveAt(s, n)) = Len(s) - 1
           /\ \A i \in 1 .. Len(s) - 1 : RemoveAt(s, n)[i] = s[IF i < n THEN i ELSE i + 1]
<1> DEFINE a == SubSeq(s, 1, n - 1)
           b == SubSeq(s, n + 1, Len(s))
<1>1. n \in 1 .. Len(s) /\ Len(s) \in Nat
    OBVIOUS
<1>2. a \in Seq(S) /\ Len(a) = n - 1 /\ \A i \in 1 .. n - 1 : a[i] = s[i]
    BY <1>1
<1>3. b \in Seq(S) /\ Len(b) = Len(s) - n /\ \A i \in 1 .. Len(s) - n : b[i] = s[n + i]
    BY <1>1
<1>4. RemoveAt(s, n) = a \o b
    BY DEF RemoveAt
<1> HIDE DEF a, b
<1>5. RemoveAt(s, n) \in Seq(S) /\ Len(RemoveAt(s, n)) = Len(s) - 1
    BY <1>1, <1>2, <1>3, <1>4
<1>6. ASSUME NEW i \in 1 .. Len(s) - 1
      PROVE  RemoveAt(s, n)[i] = s[IF i < n THEN i ELSE i + 1]
    <2>1. CASE i < n
        BY <2>1, <1>1, <1>2, <1>3, <1>4
    <2>2. CASE ~(i < n)
        <3>0. /\ Len(a) = n - 1 /\ Len(b) = Len(s) - n
              /\ n \in Int /\ 1 <= n /\ n <= Len(s) /\ Len(s) \in Int
              /\ i \in Int /\ n <= i /\ i <= Len(s) - 1
            BY <2>2, <1>1, <1>2, <1>3
        <3>1. i - Len(a) \in 1 .. Len(b) /\ ~(i \in 1 .. Len(a)) /\ i \in 1 .. Len(a) + Len(b)
            <4> DEFINE la == Len(a)  lb == Len(b)  ls == Len(s)
            <4>1. la = n - 1 /\ lb = ls - n /\ n \in Int /\ 1 <= n /\ n <= ls /\ ls \in Int
                  /\ i \in Int /\ n <= i /\ i <= ls - 1
                BY <3>0
            <4> HIDE DEF la, lb, ls
            <4>2. i - la \in 1 .. lb
                BY <4>1
            <4>3. ~(i \in 1 .. la)
                BY <4>1
            <4>4. i \in 1 .. la + lb
                BY <4>1
            <4> QED  BY <4>2, <4>3, <4>4 DEF la, lb
        <3>2. a \in Seq(S) /\ b \in Seq(S)
            BY <1>2, <1>3
        <3>3. (a \o b)[i] = b[i - Len(a)]
            BY <3>1, <3>2
        <3>4. i - Len(a) \in 1 .. Len(s) - n /\ n + (i - Len(a)) = i + 1
            BY <3>0
        <3>5. \A k \in 1 .. Len(s) - n : b[k] = s[n + k]
            BY <1>3
        <3> HIDE DEF a, b
        <3>6. b[i - Len(a)] = s[n + (i - Len(a))]
            BY <3>4, <3>5
        <3> QED  BY <2>2, <3>3, <3>4, <3>6, <1>4
    <2> QED  BY <2>1, <2>2
<1> QED
    BY <1>5, <1>6

\* A task that ends leaves the others as they are.
LEMMA EndsMap ==
    ASSUME TasksOK, NEW n \in DOMAIN botTasks, Ends(n)
    PROVE  /\ TasksOK'
           /\ Len(botTasks') = Len(botTasks) - 1
           /\ \E was : Reindexed(was, n) /\ \A i \in DOMAIN botTasks' : was[i] # n
<1> DEFINE was == [i \in DOMAIN botTasks' |-> IF i < n THEN i ELSE i + 1]
<1>1. /\ botTasks' \in Seq(Tasks)
      /\ Len(botTasks') = Len(botTasks) - 1
      /\ \A i \in 1 .. Len(botTasks) - 1 : botTasks'[i] = botTasks[IF i < n THEN i ELSE i + 1]
    BY Removed DEF TasksOK, Ends
<1>2. /\ DOMAIN botTasks' = 1 .. Len(botTasks) - 1
      /\ DOMAIN botTasks = 1 .. Len(botTasks)
      /\ Len(botTasks) \in Nat
    BY <1>1 DEF TasksOK
<1>3. was \in [DOMAIN botTasks' -> DOMAIN botTasks]
    BY <1>2
<1>4. \A i \in DOMAIN botTasks' : was[i] # n /\ botTasks'[i] = botTasks[was[i]]
    BY <1>1, <1>2
<1>5. \A i, j \in DOMAIN botTasks' : was[i] = was[j] => i = j
    BY <1>2
<1>6. Reindexed(was, n)
    BY <1>3, <1>4, <1>5 DEF Reindexed
<1> QED
    BY <1>1, <1>4, <1>6 DEF TasksOK

\* A task that goes on stays where it is among the others.
LEMMA GoesMap ==
    ASSUME TasksOK, NEW n \in DOMAIN botTasks, NEW pc \in Pcs, NEW ob \in Nat, GoesWith(n, pc, ob)
    PROVE  /\ TasksOK'
           /\ Len(botTasks') = Len(botTasks)
           /\ DOMAIN botTasks' = DOMAIN botTasks
           /\ \A i \in DOMAIN botTasks : i # n => botTasks'[i] = botTasks[i]
           /\ botTasks'[n] = [pc |-> pc, word |-> "other", user |-> botTasks[n].user,
                              place |-> botTasks[n].place, obj |-> ob]
           /\ Reindexed([i \in DOMAIN botTasks |-> i], n)
<1> DEFINE t == botTasks[n]
           u == [pc |-> pc, word |-> "other", user |-> t.user, place |-> t.place, obj |-> ob]
<1>1. t \in Tasks
    BY DEF TasksOK
<1>2. botTasks' = [botTasks EXCEPT ![n] = [[[t EXCEPT !.pc = pc] EXCEPT !.obj = ob] EXCEPT !.word = "other"]]
    BY DEF GoesWith, TasksOK
<1>3. [[[t EXCEPT !.pc = pc] EXCEPT !.obj = ob] EXCEPT !.word = "other"] = u
    <2>1. DOMAIN t = {"pc", "word", "user", "place", "obj"}
        BY <1>1 DEF Tasks
    <2>2. [[[t EXCEPT !.pc = pc] EXCEPT !.obj = ob] EXCEPT !.word = "other"] =
             [f \in DOMAIN t |-> IF f = "word" THEN "other" ELSE IF f = "obj" THEN ob
                                 ELSE IF f = "pc" THEN pc ELSE t[f]]
        OBVIOUS
    <2> HIDE DEF t
    <2>3. [f \in DOMAIN t |-> IF f = "word" THEN "other" ELSE IF f = "obj" THEN ob
                                 ELSE IF f = "pc" THEN pc ELSE t[f]] = u
        BY <2>1
    <2> QED  BY <2>2, <2>3
<1>4. u \in Tasks
    BY <1>1 DEF Tasks, Words
<1>5. botTasks' = [botTasks EXCEPT ![n] = u]
    BY <1>2, <1>3
<1> HIDE DEF u
<1>6. /\ botTasks' \in Seq(Tasks) /\ Len(botTasks') = Len(botTasks)
      /\ DOMAIN botTasks' = DOMAIN botTasks
      /\ \A i \in DOMAIN botTasks : i # n => botTasks'[i] = botTasks[i]
      /\ botTasks'[n] = u
    BY <1>4, <1>5 DEF TasksOK
<1>7. u.user = t.user /\ u.place = t.place
    BY DEF u
<1>8. Reindexed([i \in DOMAIN botTasks |-> i], n)
    BY <1>6, <1>7 DEF Reindexed
<1> QED
    BY <1>6, <1>8 DEF TasksOK, u

\* A task that ends or goes on: what a lemma needs of either.
LEMMA MovesMap ==
    ASSUME TasksOK, NEW pcs \in SUBSET Pcs, NEW n \in DOMAIN botTasks, Moves(n, pcs)
    PROVE  /\ TasksOK'
           /\ Len(botTasks') <= Len(botTasks)
           /\ received' = received
           /\ \E was : /\ Reindexed(was, n)
                       /\ \A i \in DOMAIN botTasks' : was[i] = n => botTasks'[i].pc \in pcs
<1>1. CASE Ends(n)
    <2>1. received' = received
        BY <1>1 DEF Ends
    <2>2. Len(botTasks) \in Nat
        BY DEF TasksOK
    <2> QED  BY <1>1, <2>1, <2>2, EndsMap
<1>2. ASSUME NEW pc \in pcs, NEW ob \in Nat, GoesWith(n, pc, ob)
      PROVE  /\ TasksOK'
             /\ Len(botTasks') <= Len(botTasks)
             /\ received' = received
             /\ \E was : /\ Reindexed(was, n)
                         /\ \A i \in DOMAIN botTasks' : was[i] = n => botTasks'[i].pc \in pcs
    <2>1. /\ TasksOK' /\ Len(botTasks') = Len(botTasks) /\ DOMAIN botTasks' = DOMAIN botTasks
          /\ botTasks'[n].pc = pc
          /\ Reindexed([i \in DOMAIN botTasks |-> i], n)
        <3>1. pc \in Pcs
            OBVIOUS
        <3>2. /\ TasksOK' /\ Len(botTasks') = Len(botTasks) /\ DOMAIN botTasks' = DOMAIN botTasks
              /\ Reindexed([i \in DOMAIN botTasks |-> i], n)
            BY <1>2, <3>1, GoesMap
        <3>3. botTasks'[n] = [pc |-> pc, word |-> "other", user |-> botTasks[n].user,
                              place |-> botTasks[n].place, obj |-> ob]
            BY <1>2, <3>1, GoesMap
        <3> QED  BY <3>2, <3>3
    <2>2. received' = received
        BY <1>2 DEF GoesWith
    <2>3. Len(botTasks) \in Nat
        BY DEF TasksOK
    <2>4. \A i \in DOMAIN botTasks' : [j \in DOMAIN botTasks |-> j][i] = n => botTasks'[i].pc \in pcs
        BY <2>1
    <2> QED  BY <2>1, <2>2, <2>3, <2>4
<1> QED  BY <1>1, <1>2 DEF Moves

-----------------------------------------------------------------------------
(* Trivia.  A question is open in one context, or a task scores its answer,  *)
(* or it was judged; and it is one of these at a time.                       *)

TriviaTypes ==
    /\ choosing \union paused \union chosen \subseteq Contexts
    /\ pending \in [Contexts -> 0 .. MaxQuestions]
    /\ judged \in [Questions -> Int]
    /\ late \in [Contexts -> Int]

Scoring(n) == botTasks[n].pc = "scoring"

QuestionInv ==
    /\ \E p \in 0 .. MaxQuestions : \A q \in Questions : judged[q] # -1 <=> q <= p
    /\ \A q \in Questions : judged[q] \in {-1, 0, 1}
    /\ \A k \in Contexts : pending[k] # 0 => judged[pending[k]] = 0
    /\ \A k, l \in Contexts : pending[k] # 0 /\ pending[k] = pending[l] => k = l
    /\ \A n \in DOMAIN botTasks : Scoring(n) =>
          /\ botTasks[n].obj \in Questions /\ judged[botTasks[n].obj] = 0
          /\ \A k \in Contexts : pending[k] # botTasks[n].obj
    /\ \A m, n \in DOMAIN botTasks :
          Scoring(m) /\ Scoring(n) /\ botTasks[m].obj = botTasks[n].obj => m = n

\* The tasks of a context that are on their way to a question.
AskingAt(k) == {n \in DOMAIN botTasks : botTasks[n].place = k /\ botTasks[n].pc \in AtQuestion}

\* What a paused context may still ask covers the tasks on their way.
PauseInv == \A k \in paused : Cardinality(AskingAt(k)) <= late[k]

LEMMA AskingFinite ==
    ASSUME TasksOK, NEW k
    PROVE  /\ IsFiniteSet(AskingAt(k)) /\ Cardinality(AskingAt(k)) \in Nat
           /\ MayAsk(k) = Cardinality(AskingAt(k))
<1>1. AskingAt(k) \in SUBSET (1 .. Len(botTasks)) /\ Len(botTasks) \in Nat
    BY DEF AskingAt, TasksOK
<1>2. IsFiniteSet(AskingAt(k))
    <2>1. IsFiniteSet(1 .. Len(botTasks))
        BY <1>1, FS_Interval
    <2> QED  BY <1>1, <2>1, FS_Subset
<1>3. MayAsk(k) = Cardinality(AskingAt(k))
    BY DEF MayAsk, AskingAt, AtQuestion
<1> QED  BY <1>2, <1>3, FS_CardinalityType

\* If every task on its way was on its way before, there are no more of them.
LEMMA NoMoreAsking ==
    ASSUME TasksOK, TasksOK', NEW n, NEW was, Reindexed(was, n), NEW k, NEW A, IsFiniteSet(A),
           \A i \in DOMAIN botTasks' : i \in AskingAt(k)' => was[i] \in A
    PROVE  /\ Cardinality(AskingAt(k)') <= Cardinality(A)
           /\ Cardinality(AskingAt(k)') \in Nat
<1> DEFINE f == [i \in AskingAt(k)' |-> was[i]]
<1>1. AskingAt(k)' \subseteq DOMAIN botTasks'
    BY DEF AskingAt
<1>2. f \in [AskingAt(k)' -> A]
    BY <1>1
<1>3. \A i, j \in AskingAt(k)' : f[i] = f[j] => i = j
    BY <1>1 DEF Reindexed
<1>4. f \in Injection(AskingAt(k)', A)
    BY <1>2, <1>3 DEF Injection, IsInjective
<1>5. IsFiniteSet(AskingAt(k)') /\ Cardinality(AskingAt(k)') <= Cardinality(A)
    BY <1>4, FS_Injection
<1> QED  BY <1>5, FS_CardinalityType

\* A task that leaves its questions, or is of another context, asks no more.
LEMMA AsksNoMore ==
    ASSUME TasksOK, NEW k, NEW pcs \in SUBSET Pcs, NEW n \in DOMAIN botTasks, Moves(n, pcs),
           botTasks[n].place # k \/ pcs \intersect AtQuestion = {}
    PROVE  /\ Cardinality(AskingAt(k)') \in Nat
           /\ Cardinality(AskingAt(k)') <= Cardinality(AskingAt(k))
           /\ n \in AskingAt(k) => Cardinality(AskingAt(k)') <= Cardinality(AskingAt(k)) - 1
<1>1. PICK was : /\ Reindexed(was, n) /\ TasksOK'
                 /\ \A i \in DOMAIN botTasks' : was[i] = n => botTasks'[i].pc \in pcs
    BY MovesMap
<1>2. \A i \in DOMAIN botTasks' : i \in AskingAt(k)' => was[i] \in AskingAt(k) \ {n}
    BY <1>1 DEF Reindexed, AskingAt
<1>3. /\ IsFiniteSet(AskingAt(k)) /\ Cardinality(AskingAt(k)) \in Nat
      /\ IsFiniteSet(AskingAt(k) \ {n})
      /\ Cardinality(AskingAt(k) \ {n}) =
            IF n \in AskingAt(k) THEN Cardinality(AskingAt(k)) - 1 ELSE Cardinality(AskingAt(k))
    BY AskingFinite, FS_RemoveElement
<1>4. Cardinality(AskingAt(k)') <= Cardinality(AskingAt(k) \ {n}) /\ Cardinality(AskingAt(k)') \in Nat
    BY <1>1, <1>2, <1>3, NoMoreAsking
<1> QED  BY <1>3, <1>4

\* A task that goes on to ask is one more, unless it was one already.
LEMMA AsksOneMore ==
    ASSUME TasksOK, NEW k, NEW pcs \in SUBSET Pcs, NEW n \in DOMAIN botTasks, Moves(n, pcs)
    PROVE  /\ Cardinality(AskingAt(k)') \in Nat
           /\ Cardinality(AskingAt(k)') <= Cardinality(AskingAt(k)) + 1
           /\ n \in AskingAt(k) => Cardinality(AskingAt(k)') <= Cardinality(AskingAt(k))
<1>1. PICK was : /\ Reindexed(was, n) /\ TasksOK'
                 /\ \A i \in DOMAIN botTasks' : was[i] = n => botTasks'[i].pc \in pcs
    BY MovesMap
<1>2. \A i \in DOMAIN botTasks' : i \in AskingAt(k)' => was[i] \in AskingAt(k) \union {n}
    BY <1>1 DEF Reindexed, AskingAt
<1>3. /\ IsFiniteSet(AskingAt(k)) /\ Cardinality(AskingAt(k)) \in Nat
      /\ IsFiniteSet(AskingAt(k) \union {n})
      /\ Cardinality(AskingAt(k) \union {n}) =
            IF n \in AskingAt(k) THEN Cardinality(AskingAt(k)) ELSE Cardinality(AskingAt(k)) + 1
    BY AskingFinite, FS_AddElement
<1>4. Cardinality(AskingAt(k)') <= Cardinality(AskingAt(k) \union {n}) /\ Cardinality(AskingAt(k)') \in Nat
    BY <1>1, <1>2, <1>3, NoMoreAsking
<1> QED  BY <1>3, <1>4

\* Closing questions, and whatever no scoring begins with, keeps QuestionInv.
LEMMA QuestionsRest ==
    ASSUME TasksOK, TriviaTypes, QuestionInv, judged' = judged,
           \A k \in Contexts : pending'[k] \in {0, pending[k]},
           NEW n \in DOMAIN botTasks, Moves(n, Pcs \ {"scoring"})
    PROVE  QuestionInv'
<1>1. PICK was : /\ Reindexed(was, n) /\ TasksOK'
                 /\ \A i \in DOMAIN botTasks' : was[i] = n => botTasks'[i].pc \in Pcs \ {"scoring"}
    BY MovesMap
<1>2. \A i \in DOMAIN botTasks' : Scoring(i)' =>
         was[i] \in DOMAIN botTasks /\ botTasks'[i] = botTasks[was[i]] /\ Scoring(was[i])
    BY <1>1 DEF Reindexed, Scoring
<1>3. \A i \in DOMAIN botTasks' : Scoring(i)' =>
         /\ botTasks'[i].obj \in Questions /\ judged[botTasks'[i].obj] = 0
         /\ \A k \in Contexts : pending[k] # botTasks'[i].obj
    BY <1>2 DEF QuestionInv
<1>4. \A i, j \in DOMAIN botTasks' :
         Scoring(i)' /\ Scoring(j)' /\ botTasks'[i].obj = botTasks'[j].obj => i = j
    <2>1. \A i, j \in DOMAIN botTasks' :
             Scoring(i)' /\ Scoring(j)' /\ botTasks'[i].obj = botTasks'[j].obj => was[i] = was[j]
        BY <1>2 DEF QuestionInv
    <2> QED  BY <2>1, <1>1 DEF Reindexed
<1>5. \A i \in DOMAIN botTasks' : Scoring(i)' =>
         \A k \in Contexts : pending'[k] # botTasks'[i].obj
    BY <1>3 DEF Questions
<1>6. /\ \A k \in Contexts : pending'[k] # 0 => judged[pending'[k]] = 0
      /\ \A k, l \in Contexts : pending'[k] # 0 /\ pending'[k] = pending'[l] => k = l
    BY DEF QuestionInv
<1> QED  BY <1>3, <1>4, <1>5, <1>6 DEF QuestionInv

\* Where nothing asks more and what may still be asked is the same, PauseInv holds.
LEMMA PauseRests ==
    ASSUME TasksOK, TriviaTypes, PauseInv, late' = late, paused' \subseteq paused,
           NEW pcs \in SUBSET Pcs, NEW n \in DOMAIN botTasks, Moves(n, pcs),
           pcs \intersect AtQuestion = {} \/ botTasks[n].place \notin paused'
    PROVE  PauseInv'
<1> SUFFICES ASSUME NEW k \in paused'
             PROVE  Cardinality(AskingAt(k)') <= late'[k]
    BY DEF PauseInv
<1>1. Cardinality(AskingAt(k)') \in Nat /\ Cardinality(AskingAt(k)') <= Cardinality(AskingAt(k))
    BY AsksNoMore
<1>2. Cardinality(AskingAt(k)) <= late[k] /\ late[k] \in Int
    BY DEF PauseInv, TriviaTypes
<1>3. Cardinality(AskingAt(k)) \in Nat
    BY AskingFinite
<1> QED  BY <1>1, <1>2, <1>3

\* A step that leaves trivia alone keeps what is known of it.
LEMMA TriviaRests ==
    ASSUME TasksOK, TriviaTypes, QuestionInv, PauseInv, UNCHANGED triviaVars,
           NEW n \in DOMAIN botTasks, Moves(n, Pcs \ (AtQuestion \union {"scoring"}))
    PROVE  TriviaTypes' /\ QuestionInv' /\ PauseInv'
<1>1. UNCHANGED <<choosing, paused, chosen, pending, judged, late>>
    BY DEF triviaVars
<1>2. TriviaTypes'
    BY <1>1 DEF TriviaTypes
<1>3. Moves(n, Pcs \ {"scoring"})
    BY DEF Moves
<1>4. QuestionInv'
    BY <1>1, <1>3, QuestionsRest
<1>5. PauseInv'
    <2>1. (Pcs \ (AtQuestion \union {"scoring"})) \intersect AtQuestion = {}
        OBVIOUS
    <2> QED  BY <2>1, <1>1, PauseRests
<1> QED  BY <1>2, <1>4, <1>5

LEMMA TaskIs ==
    ASSUME TasksOK, NEW n \in DOMAIN botTasks
    PROVE  /\ botTasks[n].pc \in Pcs /\ botTasks[n].word \in Words
           /\ botTasks[n].user \in BotUsers /\ botTasks[n].user \in Contexts
           /\ botTasks[n].place \in Contexts /\ botTasks[n].obj \in Nat
<1>1. botTasks[n] \in Tasks
    BY DEF TasksOK
<1> QED  BY <1>1 DEF Tasks, Contexts

LEMMA GoesMoves ==
    ASSUME TasksOK, NEW n \in DOMAIN botTasks, NEW pcs, NEW pc \in pcs, Goes(n, pc)
    PROVE  Moves(n, pcs)
BY TaskIs DEF Moves, Goes

TriviaInv == TriviaTypes /\ QuestionInv /\ PauseInv

LEMMA TriviaStopKeeps ==
    ASSUME TasksOK, TriviaInv, NEW n \in DOMAIN botTasks, TriviaStop(n)
    PROVE  TriviaInv' /\ Moves(n, {})
<1> DEFINE k == botTasks[n].place
<1>1. Moves(n, {}) /\ Moves(n, Pcs \ {"scoring"})
    BY DEF TriviaStop, Moves
<1>2. k \in Contexts /\ botTasks[n].user \in Contexts
    BY TaskIs
<1>3. /\ paused' = paused \union {k} /\ choosing' = choosing /\ chosen' = chosen /\ judged' = judged
      /\ pending' = [pending EXCEPT ![k] = 0, ![botTasks[n].user] = 0]
      /\ late' = [late EXCEPT ![k] = MayAsk(k)]
    BY DEF TriviaStop
<1> HIDE DEF k
<1>4. Cardinality(AskingAt(k)) \in Nat /\ MayAsk(k) = Cardinality(AskingAt(k))
    BY AskingFinite
<1>5. TriviaTypes'
    <2>1. choosing' \union paused' \union chosen' \subseteq Contexts /\ judged' \in [Questions -> Int]
        BY <1>2, <1>3 DEF TriviaInv, TriviaTypes
    <2>2. pending' \in [Contexts -> 0 .. MaxQuestions]
        BY <1>2, <1>3, MeshBotAssumption DEF TriviaInv, TriviaTypes
    <2>3. late' \in [Contexts -> Int]
        BY <1>2, <1>3, <1>4 DEF TriviaInv, TriviaTypes
    <2> QED  BY <2>1, <2>2, <2>3 DEF TriviaTypes
<1>6. \A l \in Contexts : pending'[l] \in {0, pending[l]}
    BY <1>2, <1>3 DEF TriviaInv, TriviaTypes
<1>7. QuestionInv'
    BY <1>1, <1>3, <1>6, QuestionsRest DEF TriviaInv
<1>8. PauseInv'
    <2> SUFFICES ASSUME NEW l \in paused'
                 PROVE  Cardinality(AskingAt(l)') <= late'[l]
        BY DEF PauseInv
    <2>1. Cardinality(AskingAt(l)') \in Nat /\ Cardinality(AskingAt(l)') <= Cardinality(AskingAt(l))
        BY <1>1, AsksNoMore
    <2>2. Cardinality(AskingAt(l)) <= late'[l] /\ late'[l] \in Int
        BY <1>2, <1>3, <1>4 DEF TriviaInv, PauseInv, TriviaTypes
    <2>3. Cardinality(AskingAt(l)) \in Nat
        BY AskingFinite
    <2> QED  BY <2>1, <2>2, <2>3
<1> QED  BY <1>1, <1>5, <1>7, <1>8 DEF TriviaInv

LEMMA TriviaBeginsKeeps ==
    ASSUME TasksOK, TriviaInv, NEW n \in DOMAIN botTasks, TriviaBegins(n)
    PROVE  TriviaInv' /\ Moves(n, AtQuestion)
<1>1. Ends(n) \/ Goes(n, "question") \/ Goes(n, "categories")
    BY DEF TriviaBegins
<1>2. Moves(n, AtQuestion) /\ Moves(n, Pcs \ {"scoring"})
    <2>1. AtQuestion \subseteq Pcs \ {"scoring"}
        BY DEF AtQuestion, Pcs
    <2>2. CASE Ends(n)
        BY <2>1, <2>2 DEF Moves
    <2>3. CASE ~Ends(n)
        <3>1. Moves(n, AtQuestion)
            BY <2>3, <1>1, GoesMoves DEF AtQuestion
        <3> QED  BY <3>1, <2>1 DEF Moves
    <2> QED  BY <2>1, <2>2, <2>3
<1>3. /\ botTasks[n].place \in Contexts /\ paused' = paused \ {botTasks[n].place}
      /\ UNCHANGED <<pending, judged, late>>
      /\ choosing' \subseteq choosing \union {botTasks[n].place}
      /\ chosen' \subseteq chosen
    BY TaskIs DEF TriviaBegins
<1>4. TriviaTypes'
    BY <1>3 DEF TriviaInv, TriviaTypes
<1>5. QuestionInv'
    BY <1>2, <1>3, QuestionsRest DEF TriviaInv
<1>6. PauseInv'
    <2>1. AtQuestion \in SUBSET Pcs
        BY DEF Pcs
    <2> QED  BY <2>1, <1>2, <1>3, PauseRests DEF TriviaInv
<1> QED  BY <1>2, <1>4, <1>5, <1>6 DEF TriviaInv

LEMMA PickBeginsKeeps ==
    ASSUME TasksOK, TriviaInv, NEW n \in DOMAIN botTasks, PickBegins(n)
    PROVE  TriviaInv' /\ Moves(n, AtQuestion)
<1> DEFINE k == botTasks[n].place
<1>1. Goes(n, "question") \/ Goes(n, "picked")
    BY DEF PickBegins
<1>2. Moves(n, AtQuestion) /\ Moves(n, Pcs \ {"scoring"}) /\ AtQuestion \in SUBSET Pcs
    <2>1. AtQuestion \subseteq Pcs \ {"scoring"}
        BY DEF AtQuestion, Pcs
    <2>2. Moves(n, AtQuestion)
        BY <1>1, GoesMoves DEF AtQuestion
    <2> QED  BY <2>1, <2>2 DEF Moves
<1>3. /\ k \in Contexts /\ UNCHANGED <<paused, pending, judged>>
      /\ choosing' \subseteq choosing /\ chosen' \subseteq chosen
      /\ late' = [late EXCEPT ![k] = IF k \in paused THEN late[k] + 1 ELSE late[k]]
    BY TaskIs DEF PickBegins, TriviaInv, TriviaTypes
<1>4. TriviaTypes'
    BY <1>3 DEF TriviaInv, TriviaTypes
<1>5. QuestionInv'
    BY <1>2, <1>3, QuestionsRest DEF TriviaInv
<1>6. PauseInv'
    <2> SUFFICES ASSUME NEW l \in paused
                 PROVE  Cardinality(AskingAt(l)') <= late'[l]
        BY <1>3 DEF PauseInv
    <2>1. Cardinality(AskingAt(l)) \in Nat /\ Cardinality(AskingAt(l)) <= late[l] /\ late[l] \in Int
        BY AskingFinite DEF TriviaInv, PauseInv, TriviaTypes
    <2>2. CASE l = k
        <3>1. Cardinality(AskingAt(l)') \in Nat /\ Cardinality(AskingAt(l)') <= Cardinality(AskingAt(l)) + 1
            BY <1>2, AsksOneMore
        <3>2. late'[l] = late[l] + 1
            BY <2>2, <1>3 DEF TriviaInv, TriviaTypes
        <3> QED  BY <3>1, <3>2, <2>1
    <2>3. CASE l # k
        <3>1. Cardinality(AskingAt(l)') \in Nat /\ Cardinality(AskingAt(l)') <= Cardinality(AskingAt(l))
            BY <2>3, <1>2, AsksNoMore
        <3>2. late'[l] = late[l]
            BY <2>3, <1>3 DEF TriviaInv, TriviaTypes
        <3> QED  BY <3>1, <3>2, <2>1
    <2> QED  BY <2>2, <2>3
<1> QED  BY <1>2, <1>4, <1>5, <1>6 DEF TriviaInv

LEMMA CategoriesArriveKeeps ==
    ASSUME TasksOK, TriviaInv, NEW n \in DOMAIN botTasks, CategoriesArrive(n)
    PROVE  TriviaInv' /\ Moves(n, AtQuestion)
<1>1. Ends(n) \/ Goes(n, "question")
    BY DEF CategoriesArrive
<1>2. Moves(n, AtQuestion) /\ Moves(n, Pcs \ {"scoring"}) /\ AtQuestion \in SUBSET Pcs
    <2>1. AtQuestion \subseteq Pcs \ {"scoring"}
        BY DEF AtQuestion, Pcs
    <2>2. CASE Ends(n)
        BY <2>1, <2>2 DEF Moves
    <2>3. CASE ~Ends(n)
        <3>1. Moves(n, AtQuestion)
            BY <2>3, <1>1, GoesMoves DEF AtQuestion
        <3> QED  BY <3>1, <2>1 DEF Moves
    <2> QED  BY <2>1, <2>2, <2>3
<1>3. /\ botTasks[n].place \in Contexts /\ UNCHANGED <<paused, pending, judged, late>>
      /\ choosing' \subseteq choosing \union {botTasks[n].place}
      /\ chosen' \subseteq chosen \union {botTasks[n].place}
    BY TaskIs DEF CategoriesArrive
<1>4. TriviaTypes'
    BY <1>3 DEF TriviaInv, TriviaTypes
<1>5. QuestionInv'
    BY <1>2, <1>3, QuestionsRest DEF TriviaInv
<1>6. PauseInv'
    <2> SUFFICES ASSUME NEW l \in paused
                 PROVE  Cardinality(AskingAt(l)') <= late[l]
        BY <1>3 DEF PauseInv
    <2>1. Cardinality(AskingAt(l)) \in Nat /\ Cardinality(AskingAt(l)) <= late[l] /\ late[l] \in Int
        BY AskingFinite DEF TriviaInv, PauseInv, TriviaTypes
    <2>2. botTasks[n].place # l \/ n \in AskingAt(l)
        BY DEF CategoriesArrive, AskingAt, AtQuestion
    <2>3. Cardinality(AskingAt(l)') \in Nat /\ Cardinality(AskingAt(l)') <= Cardinality(AskingAt(l))
        BY <2>2, <1>2, AsksNoMore, AsksOneMore
    <2> QED  BY <2>1, <2>3
<1> QED  BY <1>2, <1>4, <1>5, <1>6 DEF TriviaInv

\* The questions posed are the first ones.
LEMMA PosedIs ==
    ASSUME QuestionInv
    PROVE  /\ Posed \in 0 .. MaxQuestions
           /\ \A q \in Questions : judged[q] # -1 <=> q <= Posed
<1>1. PICK p \in 0 .. MaxQuestions : \A q \in Questions : judged[q] # -1 <=> q <= p
    BY DEF QuestionInv
<1>2. {q \in Questions : judged[q] # -1} = 1 .. p
    BY <1>1, MeshBotAssumption DEF Questions
<1>3. Cardinality(1 .. p) = p
    <2>1. p \in Int /\ 1 \in Int /\ p >= 0
        BY MeshBotAssumption
    <2>2. Cardinality(1 .. p) = IF 1 > p THEN 0 ELSE p - 1 + 1
        BY <2>1, FS_Interval
    <2> QED  BY <2>1, <2>2
<1>4. Posed = p
    BY <1>2, <1>3 DEF Posed
<1> QED  BY <1>1, <1>4

LEMMA QuestionArrivesKeeps ==
    ASSUME TasksOK, TriviaInv, NEW n \in DOMAIN botTasks, QuestionArrives(n)
    PROVE  TriviaInv' /\ Moves(n, {})
<1> DEFINE k == botTasks[n].place
           q == Posed + 1
<1>1. Moves(n, {}) /\ Moves(n, Pcs \ {"scoring"})
    BY DEF QuestionArrives, Moves
<1>2. k \in Contexts /\ n \in AskingAt(k)
    BY TaskIs DEF QuestionArrives, AskingAt, AtQuestion
<1>3. UNCHANGED <<choosing, paused, chosen>>
    BY DEF QuestionArrives
<1>4. \A l \in Contexts : /\ Cardinality(AskingAt(l)) \in Nat /\ Cardinality(AskingAt(l)') \in Nat
                          /\ Cardinality(AskingAt(l)') <= Cardinality(AskingAt(l))
                          /\ l = k => Cardinality(AskingAt(l)') <= Cardinality(AskingAt(l)) - 1
    BY <1>1, <1>2, AskingFinite, AsksNoMore
<1>5. \A l \in paused : l \in Contexts /\ Cardinality(AskingAt(l)) <= late[l] /\ late[l] \in Int
    BY DEF TriviaInv, PauseInv, TriviaTypes
<1>6. CASE UNCHANGED <<pending, judged, late>>
    <2>1. TriviaTypes'
        BY <1>3, <1>6 DEF TriviaInv, TriviaTypes
    <2>2. QuestionInv'
        BY <1>1, <1>6, QuestionsRest DEF TriviaInv
    <2>3. PauseInv'
        BY <1>3, <1>4, <1>5, <1>6 DEF PauseInv
    <2> QED  BY <1>1, <2>1, <2>2, <2>3 DEF TriviaInv
<1>7. CASE /\ Posed < MaxQuestions
           /\ pending' = [pending EXCEPT ![k] = q]
           /\ judged'  = [judged EXCEPT ![q] = 0]
           /\ late'    = [late EXCEPT ![k] = IF k \in paused THEN late[k] - 1 ELSE late[k]]
    <2>1. /\ Posed \in Nat /\ q \in Questions /\ q \in 1 .. MaxQuestions
          /\ \A r \in Questions : judged[r] # -1 <=> r <= Posed
        BY <1>7, PosedIs, MeshBotAssumption DEF TriviaInv, Questions
    <2> HIDE DEF k, q
    <2>2. /\ pending'[k] = q /\ \A l \in Contexts : l # k => pending'[l] = pending[l]
          /\ judged'[q] = 0 /\ \A r \in Questions : r # q => judged'[r] = judged[r]
        BY <1>2, <1>7, <2>1 DEF TriviaInv, TriviaTypes
    <2>3. TriviaTypes'
        <3>1. pending' \in [Contexts -> 0 .. MaxQuestions]
            <4>1. q \in 0 .. MaxQuestions
                BY <2>1
            <4> QED  BY <1>7, <4>1 DEF TriviaInv, TriviaTypes
        <3>2. judged' \in [Questions -> Int]
            BY <1>7, <2>1 DEF TriviaInv, TriviaTypes
        <3>3. late' \in [Contexts -> Int]
            BY <1>7, <1>2 DEF TriviaInv, TriviaTypes
        <3> QED  BY <3>1, <3>2, <3>3, <1>3 DEF TriviaInv, TriviaTypes
    <2>4. judged[q] = -1
        BY <2>1 DEF q
    <2>5. PICK was : /\ Reindexed(was, n) /\ TasksOK'
                     /\ \A i \in DOMAIN botTasks' : was[i] = n => botTasks'[i].pc \in {}
        <3>1. {} \in SUBSET Pcs
            OBVIOUS
        <3> QED  BY <3>1, <1>1, MovesMap
    <2>6. \A i \in DOMAIN botTasks' : Scoring(i)' =>
             was[i] \in DOMAIN botTasks /\ botTasks'[i] = botTasks[was[i]] /\ Scoring(was[i])
        BY <2>5 DEF Reindexed, Scoring
    <2>7. \A i \in DOMAIN botTasks' : Scoring(i)' =>
             /\ botTasks'[i].obj \in Questions /\ botTasks'[i].obj # q
             /\ judged[botTasks'[i].obj] = 0
             /\ \A l \in Contexts : pending[l] # botTasks'[i].obj
        BY <2>4, <2>6 DEF TriviaInv, QuestionInv
    <2>8. \A i, j \in DOMAIN botTasks' :
             Scoring(i)' /\ Scoring(j)' /\ botTasks'[i].obj = botTasks'[j].obj => i = j
        <3>1. \A i, j \in DOMAIN botTasks' :
                 Scoring(i)' /\ Scoring(j)' /\ botTasks'[i].obj = botTasks'[j].obj => was[i] = was[j]
            BY <2>6 DEF TriviaInv, QuestionInv
        <3> QED  BY <3>1, <2>5 DEF Reindexed
    <2>9. \A i \in DOMAIN botTasks' : Scoring(i)' =>
             /\ botTasks'[i].obj \in Questions /\ judged'[botTasks'[i].obj] = 0
             /\ \A l \in Contexts : pending'[l] # botTasks'[i].obj
        BY <2>2, <2>7
    <2>10. /\ \A l \in Contexts : pending'[l] # 0 => judged'[pending'[l]] = 0
           /\ \A l, m \in Contexts : pending'[l] # 0 /\ pending'[l] = pending'[m] => l = m
        <3>1. \A l \in Contexts : l # k /\ pending[l] # 0 =>
                 pending[l] \in Questions /\ judged[pending[l]] = 0 /\ pending[l] # q
            BY <2>4 DEF TriviaInv, TriviaTypes, QuestionInv, Questions
        <3> QED  BY <3>1, <2>2 DEF TriviaInv, QuestionInv
    <2>11. \E p \in 0 .. MaxQuestions : \A r \in Questions : judged'[r] # -1 <=> r <= p
        <3>1. \A r \in Questions : judged'[r] # -1 <=> r <= q
            BY <2>1, <2>2 DEF q, Questions
        <3> QED  BY <3>1, <2>1
    <2>12. \A r \in Questions : judged'[r] \in {-1, 0, 1}
        BY <2>2 DEF TriviaInv, QuestionInv
    <2>13. QuestionInv'
        BY <2>8, <2>9, <2>10, <2>11, <2>12 DEF QuestionInv
    <2>14. PauseInv'
        <3> SUFFICES ASSUME NEW l \in paused
                     PROVE  Cardinality(AskingAt(l)') <= late'[l]
            BY <1>3 DEF PauseInv
        <3>1. late'[l] = IF l = k THEN late[l] - 1 ELSE late[l]
            BY <1>2, <1>5, <1>7 DEF TriviaInv, TriviaTypes
        <3> QED  BY <3>1, <1>4, <1>5
    <2> QED  BY <1>1, <2>3, <2>13, <2>14 DEF TriviaInv
<1> QED
    BY <1>6, <1>7 DEF QuestionArrives

LEMMA AnswerBeginsKeeps ==
    ASSUME TasksOK, TriviaInv, NEW n \in DOMAIN botTasks, AnswerBegins(n)
    PROVE  TriviaInv' /\ Moves(n, {"scoring"})
<1> DEFINE k == botTasks[n].place
<1>1. k \in Contexts /\ UNCHANGED <<choosing, paused, chosen, judged, late>>
    BY TaskIs DEF AnswerBegins
<1>2. CASE Ends(n) /\ (pending' = pending \/ pending' = Closed(k))
    <2>1. Moves(n, {"scoring"}) /\ Moves(n, Pcs \ {"scoring"})
        BY <1>2 DEF Moves
    <2>2. /\ pending' \in [Contexts -> 0 .. MaxQuestions]
          /\ \A l \in Contexts : pending'[l] \in {0, pending[l]}
        BY <1>1, <1>2, MeshBotAssumption DEF TriviaInv, TriviaTypes, Closed
    <2>3. TriviaTypes'
        BY <1>1, <2>2 DEF TriviaInv, TriviaTypes
    <2>4. QuestionInv'
        BY <1>1, <2>1, <2>2, QuestionsRest DEF TriviaInv
    <2>5. PauseInv'
        <3>1. {"scoring"} \in SUBSET Pcs /\ {"scoring"} \intersect AtQuestion = {}
            BY DEF Pcs, AtQuestion
        <3> QED  BY <3>1, <1>1, <2>1, PauseRests DEF TriviaInv
    <2> QED  BY <2>1, <2>3, <2>4, <2>5 DEF TriviaInv
<1>3. CASE pending[k] # 0 /\ pending' = Closed(k) /\ GoesWith(n, "scoring", pending[k])
    <2>1. /\ pending[k] \in Questions /\ pending[k] \in Nat
          /\ pending' \in [Contexts -> 0 .. MaxQuestions]
          /\ pending'[k] = 0 /\ \A l \in Contexts : l # k => pending'[l] = pending[l]
        BY <1>1, <1>3, MeshBotAssumption DEF TriviaInv, TriviaTypes, Closed, Questions
    <2>2. Moves(n, {"scoring"})
        BY <1>3, <2>1 DEF Moves
    <2>3. TriviaTypes'
        BY <1>1, <2>1 DEF TriviaInv, TriviaTypes
    <2>4. PauseInv'
        <3>1. {"scoring"} \in SUBSET Pcs /\ {"scoring"} \intersect AtQuestion = {}
            BY DEF Pcs, AtQuestion
        <3> QED  BY <3>1, <1>1, <2>2, PauseRests DEF TriviaInv
    <2>5. /\ DOMAIN botTasks' = DOMAIN botTasks
          /\ \A i \in DOMAIN botTasks : i # n => botTasks'[i] = botTasks[i]
          /\ botTasks'[n].obj = pending[k]
        <3>1. "scoring" \in Pcs
            BY DEF Pcs
        <3>2. /\ DOMAIN botTasks' = DOMAIN botTasks
              /\ \A i \in DOMAIN botTasks : i # n => botTasks'[i] = botTasks[i]
              /\ botTasks'[n] = [pc |-> "scoring", word |-> "other", user |-> botTasks[n].user,
                                 place |-> botTasks[n].place, obj |-> pending[k]]
            BY <1>3, <2>1, <3>1, GoesMap
        <3> QED  BY <3>2
    <2>6. judged[pending[k]] = 0 /\ \A l \in Contexts : l # k => pending[l] # pending[k]
        BY <1>1, <1>3 DEF TriviaInv, QuestionInv
    <2>7. \A i \in DOMAIN botTasks : i # n /\ Scoring(i) =>
             /\ botTasks[i].obj \in Questions /\ judged[botTasks[i].obj] = 0
             /\ \A l \in Contexts : pending[l] # botTasks[i].obj
        BY DEF TriviaInv, QuestionInv
    <2> HIDE DEF k
    <2>8. \A i \in DOMAIN botTasks' : Scoring(i)' =>
             /\ botTasks'[i].obj \in Questions /\ judged[botTasks'[i].obj] = 0
             /\ \A l \in Contexts : pending'[l] # botTasks'[i].obj
        <3> SUFFICES ASSUME NEW i \in DOMAIN botTasks', Scoring(i)'
                     PROVE  /\ botTasks'[i].obj \in Questions /\ judged[botTasks'[i].obj] = 0
                            /\ \A l \in Contexts : pending'[l] # botTasks'[i].obj
            OBVIOUS
        <3>1. CASE i = n
            <4>1. botTasks'[i].obj = pending[k] /\ pending[k] # 0
                BY <3>1, <2>5, <1>3
            <4> QED  BY <4>1, <2>1, <2>6
        <3>2. CASE i # n
            <4>1. botTasks'[i] = botTasks[i] /\ Scoring(i) /\ i \in DOMAIN botTasks
                BY <3>2, <2>5 DEF Scoring
            <4>2. /\ botTasks[i].obj \in Questions /\ judged[botTasks[i].obj] = 0
                  /\ \A l \in Contexts : pending[l] # botTasks[i].obj
                BY <3>2, <4>1, <2>7
            <4>3. botTasks[i].obj # 0
                BY <4>2, MeshBotAssumption DEF Questions
            <4> QED  BY <4>1, <4>2, <4>3, <2>1
        <3> QED  BY <3>1, <3>2
    <2>9. \A i, j \in DOMAIN botTasks' :
             Scoring(i)' /\ Scoring(j)' /\ botTasks'[i].obj = botTasks'[j].obj => i = j
        <3>1. \A i \in DOMAIN botTasks : i # n /\ Scoring(i)' => Scoring(i) /\ botTasks'[i].obj # pending[k]
            BY <1>1, <2>5, <2>7 DEF Scoring
        <3>2. ASSUME NEW i \in DOMAIN botTasks, NEW j \in DOMAIN botTasks,
                     Scoring(i)', Scoring(j)', botTasks'[i].obj = botTasks'[j].obj, i # n, j # n
              PROVE  i = j
            <4>1. Scoring(i) /\ Scoring(j) /\ botTasks[i].obj = botTasks[j].obj
                BY <3>1, <3>2, <2>5
            <4> QED  BY <4>1 DEF TriviaInv, QuestionInv
        <3> QED  BY <3>1, <3>2, <2>5
    <2>10. /\ \A l \in Contexts : pending'[l] # 0 => judged[pending'[l]] = 0
           /\ \A l, m \in Contexts : pending'[l] # 0 /\ pending'[l] = pending'[m] => l = m
        BY <2>1 DEF TriviaInv, QuestionInv
    <2>11. QuestionInv'
        BY <1>1, <2>8, <2>9, <2>10 DEF TriviaInv, QuestionInv
    <2> QED  BY <2>2, <2>3, <2>4, <2>11 DEF TriviaInv
<1> QED
    BY <1>2, <1>3 DEF AnswerBegins

LEMMA JudgeKeeps ==
    ASSUME TasksOK, TriviaInv, NEW n \in DOMAIN botTasks, Judge(n)
    PROVE  TriviaInv' /\ Moves(n, {"judged"})
<1> DEFINE q == botTasks[n].obj
<1>1. /\ UNCHANGED <<choosing, paused, chosen, pending, late>> /\ Scoring(n)
      /\ judged' = [judged EXCEPT ![q] = judged[q] + 1]
      /\ Goes(n, "judged")
    BY DEF Judge, Scoring
<1>2. Moves(n, {"judged"})
    BY <1>1, GoesMoves
<1>3. q \in Questions /\ judged[q] = 0 /\ \A k \in Contexts : pending[k] # q
    BY <1>1 DEF TriviaInv, QuestionInv
<1>4. {"judged"} \in SUBSET Pcs
    BY DEF Pcs
<1>5. PICK was : /\ Reindexed(was, n) /\ TasksOK'
                 /\ \A i \in DOMAIN botTasks' : was[i] = n => botTasks'[i].pc \in {"judged"}
    BY <1>2, <1>4, MovesMap
<1>6. \A i \in DOMAIN botTasks' : Scoring(i)' =>
         /\ was[i] \in DOMAIN botTasks /\ was[i] # n
         /\ botTasks'[i] = botTasks[was[i]] /\ Scoring(was[i])
    BY <1>5 DEF Reindexed, Scoring
<1> HIDE DEF q
<1>7. judged'[q] = 1 /\ \A r \in Questions : r # q => judged'[r] = judged[r]
    BY <1>1, <1>3 DEF TriviaInv, TriviaTypes
<1>8. TriviaTypes'
    BY <1>1, <1>3 DEF TriviaInv, TriviaTypes
<1>9. QuestionInv'
    <2>1. \A i \in DOMAIN botTasks' : Scoring(i)' =>
             /\ botTasks'[i].obj \in Questions /\ judged'[botTasks'[i].obj] = 0
             /\ \A k \in Contexts : pending[k] # botTasks'[i].obj
        <3>1. \A i \in DOMAIN botTasks : Scoring(i) /\ i # n => botTasks[i].obj # q
            BY <1>1 DEF TriviaInv, QuestionInv, q
        <3>2. \A i \in DOMAIN botTasks : Scoring(i) =>
                 /\ botTasks[i].obj \in Questions /\ judged[botTasks[i].obj] = 0
                 /\ \A k \in Contexts : pending[k] # botTasks[i].obj
            BY DEF TriviaInv, QuestionInv
        <3> QED  BY <3>1, <3>2, <1>6, <1>7
    <2>2. ASSUME NEW i \in DOMAIN botTasks', NEW j \in DOMAIN botTasks',
                 Scoring(i)', Scoring(j)', botTasks'[i].obj = botTasks'[j].obj
          PROVE  i = j
        <3>1. was[i] = was[j]
            BY <1>6, <2>2 DEF TriviaInv, QuestionInv
        <3> QED  BY <3>1, <1>5 DEF Reindexed
    <2>3. \A k \in Contexts : pending[k] # 0 => judged'[pending[k]] = 0
        <3>1. \A k \in Contexts : pending[k] # 0 => pending[k] \in Questions /\ pending[k] # q
            BY <1>3, MeshBotAssumption DEF TriviaInv, TriviaTypes, Questions
        <3> QED  BY <3>1, <1>7 DEF TriviaInv, QuestionInv
    <2>4. /\ \A r \in Questions : judged'[r] \in {-1, 0, 1} /\ (judged'[r] # -1 <=> judged[r] # -1)
        BY <1>3, <1>7 DEF TriviaInv, QuestionInv
    <2>5. \A k, l \in Contexts : pending[k] # 0 /\ pending[k] = pending[l] => k = l
        BY DEF TriviaInv, QuestionInv
    <2>6. \E p \in 0 .. MaxQuestions : \A r \in Questions : judged'[r] # -1 <=> r <= p
        BY <2>4 DEF TriviaInv, QuestionInv
    <2> QED  BY <1>1, <2>1, <2>2, <2>3, <2>4, <2>5, <2>6 DEF QuestionInv
<1>10. PauseInv'
    <2>1. {"judged"} \intersect AtQuestion = {}
        BY DEF AtQuestion
    <2> QED  BY <2>1, <1>1, <1>2, <1>4, PauseRests DEF TriviaInv
<1> QED  BY <1>2, <1>8, <1>9, <1>10 DEF TriviaInv

LEMMA NextInRoundKeeps ==
    ASSUME TasksOK, TriviaInv, NEW n \in DOMAIN botTasks, NextInRound(n)
    PROVE  TriviaInv' /\ Moves(n, AtQuestion)
<1>1. UNCHANGED <<choosing, paused, chosen, pending, judged, late>>
    BY DEF NextInRound, triviaVars
<1>2. TriviaTypes'
    BY <1>1 DEF TriviaInv, TriviaTypes
<1>3. AtQuestion \subseteq Pcs \ {"scoring"} /\ AtQuestion \in SUBSET Pcs /\ "question" \in AtQuestion
    BY DEF AtQuestion, Pcs
<1>4. /\ Ends(n) \/ GoesWith(n, "question", 0)
      /\ Ends(n) \/ botTasks[n].place \notin paused
    BY DEF NextInRound, GoesOn
<1>5. Moves(n, AtQuestion) /\ Moves(n, Pcs \ {"scoring"})
    BY <1>3, <1>4 DEF Moves
<1>6. QuestionInv'
    BY <1>1, <1>5, QuestionsRest DEF TriviaInv
<1>7. PauseInv'
    <2>1. CASE Ends(n)
        <3>1. Moves(n, {}) /\ {} \in SUBSET Pcs
            BY <2>1 DEF Moves
        <3> QED  BY <3>1, <1>1, PauseRests DEF TriviaInv
    <2>2. CASE botTasks[n].place \notin paused
        BY <2>2, <1>1, <1>3, <1>5, PauseRests DEF TriviaInv
    <2> QED  BY <1>4, <2>1, <2>2
<1> QED  BY <1>2, <1>5, <1>6, <1>7 DEF TriviaInv

LEMMA TriviaTaskKeeps ==
    ASSUME TasksOK, TriviaInv, NEW n \in DOMAIN botTasks, TriviaTask(n)
    PROVE  TriviaInv' /\ Moves(n, AtQuestion \union {"scoring", "judged"})
<1>1. ASSUME NEW pcs \in {{}, AtQuestion, {"scoring"}, {"judged"}}, Moves(n, pcs)
      PROVE  Moves(n, AtQuestion \union {"scoring", "judged"})
    BY <1>1 DEF Moves
<1>2. CASE TriviaStop(n) \/ QuestionArrives(n)
    BY <1>2, <1>1, TriviaStopKeeps, QuestionArrivesKeeps
<1>3. CASE TriviaBegins(n) \/ PickBegins(n) \/ CategoriesArrive(n) \/ NextInRound(n)
    BY <1>3, <1>1, TriviaBeginsKeeps, PickBeginsKeeps, CategoriesArriveKeeps, NextInRoundKeeps
<1>4. CASE AnswerBegins(n) \/ Judge(n)
    BY <1>4, <1>1, AnswerBeginsKeeps, JudgeKeeps
<1> QED  BY <1>2, <1>3, <1>4 DEF TriviaTask

-----------------------------------------------------------------------------
(* A message makes a task, which has begun nothing.                         *)

LEMMA HandleMap ==
    ASSUME TasksOK, NEW u \in BotUsers, NEW k \in Contexts, NEW w \in Words, Handle(u, k, w)
    PROVE  /\ TasksOK' /\ Len(botTasks') = Len(botTasks) + 1
           /\ DOMAIN botTasks' = DOMAIN botTasks \union {Len(botTasks) + 1}
           /\ Len(botTasks) + 1 \notin DOMAIN botTasks
           /\ \A i \in DOMAIN botTasks : botTasks'[i] = botTasks[i]
           /\ botTasks'[Len(botTasks) + 1].pc \in Unstarted
<1> DEFINE t == [pc |-> Claim(k, w), word |-> w, user |-> u, place |-> k, obj |-> 0]
<1>1. Claim(k, w) \in Unstarted
    BY DEF Claim, Unstarted
<1>2. t \in Tasks /\ t.pc \in Unstarted
    BY <1>1 DEF Tasks, Pcs
<1>3. botTasks' = Append(botTasks, t)
    BY DEF Handle
<1> HIDE DEF t
<1> QED
    BY <1>2, <1>3 DEF TasksOK

LEMMA TriviaHears ==
    ASSUME TasksOK, TriviaInv, NEW u \in BotUsers, NEW k \in Contexts, NEW w \in Words, Handle(u, k, w)
    PROVE  TriviaInv'
<1>1. UNCHANGED <<choosing, paused, chosen, pending, judged, late>>
    BY DEF Handle, triviaVars
<1>2. PICK z :
      /\ DOMAIN botTasks' = DOMAIN botTasks \union {z} /\ z \notin DOMAIN botTasks
      /\ \A i \in DOMAIN botTasks : botTasks'[i] = botTasks[i]
      /\ botTasks'[z].pc \in Unstarted
    BY HandleMap
<1>3. botTasks'[z].pc \notin AtQuestion /\ botTasks'[z].pc # "scoring"
    BY <1>2 DEF Unstarted, AtQuestion
<1>4. TriviaTypes'
    BY <1>1 DEF TriviaInv, TriviaTypes
<1>5. \A i \in DOMAIN botTasks' : Scoring(i)' => i \in DOMAIN botTasks /\ botTasks'[i] = botTasks[i] /\ Scoring(i)
    BY <1>2, <1>3 DEF Scoring
<1>6. QuestionInv'
    <2>1. \A i \in DOMAIN botTasks' : Scoring(i)' =>
             /\ botTasks'[i].obj \in Questions /\ judged[botTasks'[i].obj] = 0
             /\ \A l \in Contexts : pending[l] # botTasks'[i].obj
        BY <1>5 DEF TriviaInv, QuestionInv
    <2>2. \A i, j \in DOMAIN botTasks' :
             Scoring(i)' /\ Scoring(j)' /\ botTasks'[i].obj = botTasks'[j].obj => i = j
        BY <1>5 DEF TriviaInv, QuestionInv
    <2> QED  BY <2>1, <2>2, <1>1 DEF TriviaInv, QuestionInv
<1>7. \A l : AskingAt(l)' = AskingAt(l)
    BY <1>2, <1>3 DEF AskingAt
<1>8. PauseInv'
    BY <1>1, <1>7 DEF TriviaInv, PauseInv
<1> QED  BY <1>4, <1>6, <1>8 DEF TriviaInv

-----------------------------------------------------------------------------
(* Forms.                                                                   *)

StripPhases == {"picking", "fields", "dest", "pasted"}
FormPhases  == {"unused", "skywarn"} \union StripPhases
Owners      == BotUsers \union {CHOOSE u \in BotUsers : TRUE}

FormRecords == [step : 0 .. Fields, answers : SUBSET AllFields, phase : FormPhases, owner : Owners]

IsUsed(f) == form[f].phase # "unused"

FormTypes ==
    /\ skywarn \in [BotUsers -> 0 .. MaxForms] /\ strip \in [BotUsers -> 0 .. MaxForms]
    /\ form \in [Forms -> FormRecords]
    /\ cancelled \subseteq Forms
    /\ filed \in [Forms -> Nat] /\ sentOut \in [Forms -> Nat]

\* The forms begun are the first ones.
Numbered == \E p \in 0 .. MaxForms : \A f \in Forms : IsUsed(f) <=> f <= p

\* A form's answers are those to the questions put so far.
Shapes ==
    \A f \in Forms :
       /\ IsUsed(f) => form[f].owner \in BotUsers
       /\ form[f].phase \in {"skywarn", "fields"} => form[f].answers = 0 .. form[f].step - 1
       /\ form[f].phase = "fields" => form[f].step < Fields
       /\ form[f].phase = "dest" => form[f].answers = AllFields

\* A table holds its user's last form of the kind, if it was not taken out.
Tables ==
    \A u \in BotUsers :
       /\ skywarn[u] # 0 => form[skywarn[u]].phase = "skywarn" /\ form[skywarn[u]].owner = u
       /\ strip[u] # 0 => form[strip[u]].phase \in StripPhases /\ form[strip[u]].owner = u
       /\ \A f \in Forms : form[f].owner = u =>
             /\ form[f].phase = "skywarn" /\ skywarn[u] # 0 => f <= skywarn[u]
             /\ form[f].phase \in StripPhases /\ strip[u] # 0 => f <= strip[u]

\* Begun, and taken out of its table or replaced there.
Out(f) == IsUsed(f) /\ skywarn[form[f].owner] # f /\ strip[form[f].owner] # f

ReportOK(f) ==
    /\ Out(f) /\ form[f].phase = "skywarn" /\ form[f].step = Fields
    /\ f \in cancelled => Superseded(f)

StripOK(f) ==
    /\ Out(f) /\ AtDestination(f)
    /\ f \in cancelled => Superseded(f)

Outcomes ==
    /\ \A f \in cancelled : Out(f)
    /\ \A f \in Forms : filed[f] > 0 => ReportOK(f) /\ filed[f] = 1
    /\ \A f \in Forms : sentOut[f] > 0 => StripOK(f) /\ (sentOut[f] = 1 \/ Superseded(f))

\* A task with a form: it files a report that was not filed, sends a strip that
\* was not sent or whose user has begun another.
FormTasks ==
    \A n \in DOMAIN botTasks :
       LET f == botTasks[n].obj
       IN  /\ botTasks[n].pc \in AtForm =>
                 f \in Forms /\ IsUsed(f) /\ form[f].owner = botTasks[n].user
           /\ botTasks[n].pc = "filing" => ReportOK(f) /\ filed[f] = 0
           /\ botTasks[n].pc \in GoingOut => StripOK(f) /\ (sentOut[f] = 0 \/ Superseded(f))

OneTaskEach ==
    \A m, n \in DOMAIN botTasks :
       botTasks[m].obj = botTasks[n].obj =>
          /\ botTasks[m].pc = "filing" /\ botTasks[n].pc = "filing" => m = n
          /\ botTasks[m].pc \in GoingOut /\ botTasks[n].pc \in GoingOut =>
                m = n \/ Superseded(botTasks[m].obj)

FormTables == FormTypes /\ Numbered /\ Shapes /\ Tables
FormUse    == Outcomes /\ FormTasks /\ OneTaskEach
FormInv    == FormTables /\ FormUse

\* What a step must do with the forms for the tasks not to notice.
FormsGrow ==
    \A f \in Forms : IsUsed(f) =>
       /\ IsUsed(f)' /\ form'[f].owner = form[f].owner
       /\ Out(f) => Out(f)'
       /\ Superseded(f) => Superseded(f)'
       /\ form[f].phase \in {"skywarn", "dest", "pasted"} => form'[f].phase = form[f].phase
       /\ form[f].step = Fields => form'[f].step = Fields
       /\ f \in cancelled' => f \in cancelled \/ ~Out(f)

LEMMA StaysOK ==
    ASSUME FormsGrow, NEW f \in Forms
    PROVE  /\ ReportOK(f) => ReportOK(f)'
           /\ StripOK(f) => StripOK(f)'
<1>1. CASE IsUsed(f)
    BY <1>1 DEF FormsGrow, ReportOK, StripOK, AtDestination
<1>2. CASE ~IsUsed(f)
    BY <1>2 DEF ReportOK, StripOK, Out
<1> QED  BY <1>1, <1>2

\* A task that is not about to file or send leaves the others' forms alone.
Quietly(n) ==
    \/ Moves(n, Pcs \ AtForm)
    \/ \E f \in Forms : /\ GoesWith(n, "relabel", f)
                        /\ IsUsed(f) /\ form[f].owner = botTasks[n].user

LEMMA QuietlyMap ==
    ASSUME TasksOK, NEW n \in DOMAIN botTasks, Quietly(n)
    PROVE  \E was : /\ Reindexed(was, n) /\ TasksOK'
                    /\ \A i \in DOMAIN botTasks' : was[i] = n =>
                          \/ botTasks'[i].pc \in Pcs \ AtForm
                          \/ /\ botTasks'[i].pc = "relabel" /\ botTasks'[i].obj \in Forms
                             /\ IsUsed(botTasks'[i].obj)
                             /\ form[botTasks'[i].obj].owner = botTasks'[i].user
<1>1. CASE Moves(n, Pcs \ AtForm)
    BY <1>1, MovesMap
<1>2. ASSUME NEW f \in Forms, GoesWith(n, "relabel", f),
             IsUsed(f), form[f].owner = botTasks[n].user
      PROVE  \E was : /\ Reindexed(was, n) /\ TasksOK'
                      /\ \A i \in DOMAIN botTasks' : was[i] = n =>
                            /\ botTasks'[i].pc = "relabel" /\ botTasks'[i].obj \in Forms
                            /\ IsUsed(botTasks'[i].obj)
                            /\ form[botTasks'[i].obj].owner = botTasks'[i].user
    <2>1. "relabel" \in Pcs /\ f \in Nat
        BY DEF Pcs, AtForm, Forms
    <2>2. /\ TasksOK' /\ DOMAIN botTasks' = DOMAIN botTasks
          /\ botTasks'[n] = [pc |-> "relabel", word |-> "other", user |-> botTasks[n].user,
                             place |-> botTasks[n].place, obj |-> f]
          /\ Reindexed([i \in DOMAIN botTasks |-> i], n)
        BY <1>2, <2>1, GoesMap
    <2>3. botTasks'[n].pc = "relabel" /\ botTasks'[n].obj = f /\ botTasks'[n].user = botTasks[n].user
        BY <2>2
    <2>4. \A i \in DOMAIN botTasks' : [j \in DOMAIN botTasks |-> j][i] = n => i = n
        BY <2>2
    <2>5. \A i \in DOMAIN botTasks' : [j \in DOMAIN botTasks |-> j][i] = n =>
                            /\ botTasks'[i].pc = "relabel" /\ botTasks'[i].obj \in Forms
                            /\ IsUsed(botTasks'[i].obj)
                            /\ form[botTasks'[i].obj].owner = botTasks'[i].user
        BY <1>2, <2>3, <2>4
    <2> QED  BY <2>2, <2>5
<1> QED  BY <1>1, <1>2 DEF Quietly

LEMMA UseStays ==
    ASSUME TasksOK, FormInv, FormsGrow, NEW n \in DOMAIN botTasks, Quietly(n),
           filed' = filed, sentOut' = sentOut, \A f \in cancelled' : Out(f)'
    PROVE  FormUse' /\ TasksOK'
<1>1. PICK was : /\ Reindexed(was, n) /\ TasksOK'
                 /\ \A i \in DOMAIN botTasks' : was[i] = n =>
                       \/ botTasks'[i].pc \in Pcs \ AtForm
                       \/ /\ botTasks'[i].pc = "relabel" /\ botTasks'[i].obj \in Forms
                          /\ IsUsed(botTasks'[i].obj)
                          /\ form[botTasks'[i].obj].owner = botTasks'[i].user
    BY QuietlyMap
<1>2. Outcomes'
    <2>1. \A f \in Forms : filed[f] > 0 => ReportOK(f)' /\ filed[f] = 1
        BY StaysOK DEF FormInv, FormUse, Outcomes
    <2>2. ASSUME NEW f \in Forms, sentOut[f] > 0
          PROVE  StripOK(f)' /\ (sentOut[f] = 1 \/ Superseded(f)')
        <3>1. StripOK(f) /\ (sentOut[f] = 1 \/ Superseded(f)) /\ IsUsed(f)
            BY <2>2 DEF FormInv, FormUse, Outcomes, StripOK, Out
        <3> QED  BY <3>1, StaysOK DEF FormsGrow
    <2> QED  BY <2>1, <2>2 DEF Outcomes
<1>3. ASSUME NEW i \in DOMAIN botTasks', botTasks'[i].pc \in AtForm
      PROVE  /\ botTasks'[i].obj \in Forms /\ IsUsed(botTasks'[i].obj)
             /\ form[botTasks'[i].obj].owner = botTasks'[i].user
             /\ botTasks'[i].pc # "relabel" =>
                   was[i] \in DOMAIN botTasks /\ was[i] # n /\ botTasks'[i] = botTasks[was[i]]
    <2>1. CASE was[i] = n
        BY <2>1, <1>1, <1>3
    <2>2. CASE was[i] # n
        <3>1. was[i] \in DOMAIN botTasks /\ botTasks'[i] = botTasks[was[i]]
            BY <2>2, <1>1 DEF Reindexed
        <3> QED  BY <3>1, <2>2, <1>3 DEF FormInv, FormUse, FormTasks
    <2> QED  BY <2>1, <2>2
<1>4. FormTasks'
    <2> SUFFICES ASSUME NEW i \in DOMAIN botTasks', botTasks'[i].pc \in AtForm
                 PROVE  \E f \in Forms :
                           /\ f = botTasks'[i].obj /\ IsUsed(f)' /\ form'[f].owner = botTasks'[i].user
                           /\ botTasks'[i].pc = "filing" => ReportOK(f)' /\ filed'[f] = 0
                           /\ botTasks'[i].pc \in GoingOut =>
                                 StripOK(f)' /\ (sentOut'[f] = 0 \/ Superseded(f)')
        BY DEF FormTasks, AtForm
    <2>1. PICK f \in Forms : f = botTasks'[i].obj /\ IsUsed(f) /\ form[f].owner = botTasks'[i].user
        BY <1>3
    <2>2. IsUsed(f)' /\ form'[f].owner = botTasks'[i].user
        BY <2>1 DEF FormsGrow
    <2>3. ASSUME botTasks'[i].pc = "filing" PROVE ReportOK(f)' /\ filed'[f] = 0
        <3>1. ReportOK(f) /\ filed[f] = 0
            BY <1>3, <2>1, <2>3 DEF FormInv, FormUse, FormTasks
        <3> QED  BY <3>1, StaysOK
    <2>4. ASSUME botTasks'[i].pc \in GoingOut PROVE StripOK(f)' /\ (sentOut'[f] = 0 \/ Superseded(f)')
        <3>1. botTasks'[i].pc # "relabel"
            BY <2>4 DEF GoingOut
        <3>2. StripOK(f) /\ (sentOut[f] = 0 \/ Superseded(f))
            BY <1>3, <2>1, <2>4, <3>1 DEF FormInv, FormUse, FormTasks
        <3> QED  BY <3>2, <2>1, StaysOK DEF FormsGrow
    <2> QED  BY <2>1, <2>2, <2>3, <2>4
<1>5. OneTaskEach'
    <2> SUFFICES ASSUME NEW i \in DOMAIN botTasks', NEW j \in DOMAIN botTasks',
                        botTasks'[i].obj = botTasks'[j].obj
                 PROVE  /\ botTasks'[i].pc = "filing" /\ botTasks'[j].pc = "filing" => i = j
                        /\ botTasks'[i].pc \in GoingOut /\ botTasks'[j].pc \in GoingOut =>
                              i = j \/ \E f \in Forms : f = botTasks'[i].obj /\ Superseded(f)'
        BY DEF OneTaskEach
    <2>1. was[i] = was[j] => i = j
        BY <1>1 DEF Reindexed
    <2>2. ASSUME botTasks'[i].pc = "filing", botTasks'[j].pc = "filing" PROVE i = j
        <3>1. botTasks'[i].pc \in AtForm /\ botTasks'[j].pc \in AtForm
            BY <2>2 DEF AtForm
        <3>2. was[i] = was[j]
            BY <3>1, <2>2, <1>3 DEF FormInv, FormUse, OneTaskEach
        <3> QED  BY <3>2, <2>1
    <2>3. ASSUME botTasks'[i].pc \in GoingOut, botTasks'[j].pc \in GoingOut, i # j
          PROVE  \E f \in Forms : f = botTasks'[i].obj /\ Superseded(f)'
        <3>1. /\ botTasks'[i].pc \in AtForm /\ botTasks'[j].pc \in AtForm
              /\ botTasks'[i].pc # "relabel" /\ botTasks'[j].pc # "relabel"
            BY <2>3 DEF AtForm, GoingOut
        <3>2. PICK f \in Forms : f = botTasks'[i].obj /\ IsUsed(f)
            BY <1>3, <3>1
        <3>3. was[i] = was[j] \/ Superseded(f)
            BY <3>1, <3>2, <2>3, <1>3 DEF FormInv, FormUse, OneTaskEach
        <3> QED  BY <3>2, <3>3, <2>1, <2>3 DEF FormsGrow
    <2> QED  BY <2>2, <2>3
<1> QED  BY <1>1, <1>2, <1>4, <1>5 DEF FormUse

LEMMA NewFormIs ==
    ASSUME FormInv
    PROVE  /\ NewForm \in Nat
           /\ \A f \in Forms : IsUsed(f) <=> f < NewForm
<1>1. PICK p \in 0 .. MaxForms : \A f \in Forms : IsUsed(f) <=> f <= p
    BY DEF FormInv, FormTables, Numbered
<1>2. Begun = 1 .. p
    BY <1>1, MeshBotAssumption DEF Begun, IsUsed, Forms
<1>3. Cardinality(1 .. p) = p
    <2>1. p \in Int /\ 1 \in Int /\ p >= 0
        BY MeshBotAssumption
    <2>2. Cardinality(1 .. p) = IF 1 > p THEN 0 ELSE p - 1 + 1
        BY <2>1, FS_Interval
    <2> QED  BY <2>1, <2>2
<1>4. NewForm = p + 1 /\ p \in Nat
    BY <1>2, <1>3, MeshBotAssumption DEF NewForm
<1> QED  BY <1>1, <1>4 DEF Forms

LEMMA SupersededGrows ==
    ASSUME \A f \in Forms : IsUsed(f) => IsUsed(f)' /\ form'[f].owner = form[f].owner
    PROVE  \A f \in Forms : IsUsed(f) /\ Superseded(f) => Superseded(f)'
BY DEF Superseded, Begun, IsUsed

\* Beginning a form: it is entered into its table, in place of an older one.
Begins(u, phase) ==
    /\ NewForm \in Forms
    /\ form' = [form EXCEPT ![NewForm] = Fresh(u, phase)]
    /\ IF phase = "skywarn"
       THEN skywarn' = [skywarn EXCEPT ![u] = NewForm] /\ strip' = strip
       ELSE strip' = [strip EXCEPT ![u] = NewForm] /\ skywarn' = skywarn
    /\ UNCHANGED <<cancelled, filed, sentOut>>

LEMMA FormCreated ==
    ASSUME FormInv, NEW u \in BotUsers, NEW phase \in FormPhases \ {"unused"}, Begins(u, phase)
    PROVE  FormTables' /\ FormsGrow /\ \A f \in cancelled' : Out(f)'
<1>1. PICK z \in Forms : z = NewForm
    BY DEF Begins
<1>2. \A f \in Forms : IsUsed(f) <=> f < z
    BY <1>1, NewFormIs
<1>3. /\ form' = [form EXCEPT ![z] = Fresh(u, phase)]
      /\ IF phase = "skywarn"
         THEN skywarn' = [skywarn EXCEPT ![u] = z] /\ strip' = strip
         ELSE strip' = [strip EXCEPT ![u] = z] /\ skywarn' = skywarn
      /\ cancelled' = cancelled /\ filed' = filed /\ sentOut' = sentOut
    BY <1>1 DEF Begins
<1>4. z \in Nat /\ z # 0 /\ z \in 0 .. MaxForms /\ z <= MaxForms
    BY MeshBotAssumption DEF Forms
<1>5. /\ Fresh(u, phase) \in FormRecords
      /\ Fresh(u, phase).phase = phase /\ Fresh(u, phase).owner = u /\ Fresh(u, phase).step = 0
      /\ Fresh(u, phase).answers = IF phase = "dest" THEN AllFields ELSE {}
    BY MeshBotAssumption DEF Fresh, FormRecords, Owners
<1>6. FormTypes
    BY DEF FormInv, FormTables
<1>7. /\ form'[z] = Fresh(u, phase)
      /\ \A f \in Forms : f # z => form'[f] = form[f]
    BY <1>3, <1>6 DEF FormTypes
<1>8. FormTypes'
    <2>1. form' \in [Forms -> FormRecords]
        BY <1>3, <1>5, <1>6 DEF FormTypes
    <2>2. skywarn' \in [BotUsers -> 0 .. MaxForms] /\ strip' \in [BotUsers -> 0 .. MaxForms]
        BY <1>3, <1>4, <1>6 DEF FormTypes
    <2> QED  BY <2>1, <2>2, <1>3, <1>6 DEF FormTypes
<1>9. Numbered'
    <2>1. \A f \in Forms : IsUsed(f)' <=> f <= z
        BY <1>2, <1>4, <1>5, <1>7 DEF IsUsed, Forms
    <2> QED  BY <2>1, <1>4 DEF Numbered
<1>10. Shapes'
    <2>1. 0 .. 0 - 1 = {}
        OBVIOUS
    <2> QED  BY <2>1, <1>5, <1>7, MeshBotAssumption DEF Shapes, FormInv, FormTables, IsUsed
<1>11. \A f \in Forms : f # z => (IsUsed(f)' <=> IsUsed(f))
    BY <1>7 DEF IsUsed
<1>12. \A v \in BotUsers : /\ skywarn[v] # z /\ strip[v] # z
                           /\ skywarn[v] # 0 => skywarn[v] \in Forms
                           /\ strip[v] # 0 => strip[v] \in Forms
    <2>1. \A v \in BotUsers : /\ skywarn[v] # 0 => skywarn[v] \in Forms /\ IsUsed(skywarn[v])
                              /\ strip[v] # 0 => strip[v] \in Forms /\ IsUsed(strip[v])
        <3>1. \A v \in BotUsers : skywarn[v] \in 0 .. MaxForms /\ strip[v] \in 0 .. MaxForms
            BY <1>6 DEF FormTypes
        <3>2. \A v \in BotUsers : /\ skywarn[v] # 0 => skywarn[v] \in Forms
                                  /\ strip[v] # 0 => strip[v] \in Forms
            BY <3>1, MeshBotAssumption DEF Forms
        <3>3. \A v \in BotUsers : /\ skywarn[v] # 0 => form[skywarn[v]].phase = "skywarn"
                                  /\ strip[v] # 0 => form[strip[v]].phase \in StripPhases
            BY DEF FormInv, FormTables, Tables
        <3> QED  BY <3>2, <3>3 DEF IsUsed, StripPhases
    <2>2. ~IsUsed(z)
        BY <1>2, <1>4
    <2> QED  BY <2>1, <2>2, <1>4
<1>13. Tables'
    <2> SUFFICES ASSUME NEW v \in BotUsers
                 PROVE  /\ skywarn'[v] # 0 => form'[skywarn'[v]].phase = "skywarn" /\ form'[skywarn'[v]].owner = v
                        /\ strip'[v] # 0 => form'[strip'[v]].phase \in StripPhases /\ form'[strip'[v]].owner = v
                        /\ \A f \in Forms : form'[f].owner = v =>
                              /\ form'[f].phase = "skywarn" /\ skywarn'[v] # 0 => f <= skywarn'[v]
                              /\ form'[f].phase \in StripPhases /\ strip'[v] # 0 => f <= strip'[v]
        BY DEF Tables
    <2>1. /\ skywarn'[v] = IF phase = "skywarn" /\ v = u THEN z ELSE skywarn[v]
          /\ strip'[v] = IF phase # "skywarn" /\ v = u THEN z ELSE strip[v]
        BY <1>3, <1>6 DEF FormTypes
    <2>2. skywarn'[v] # 0 => form'[skywarn'[v]].phase = "skywarn" /\ form'[skywarn'[v]].owner = v
        BY <2>1, <1>5, <1>7, <1>12 DEF FormInv, FormTables, Tables
    <2>3. strip'[v] # 0 => form'[strip'[v]].phase \in StripPhases /\ form'[strip'[v]].owner = v
        BY <2>1, <1>5, <1>7, <1>12 DEF FormInv, FormTables, Tables, FormPhases
    <2>4. ASSUME NEW f \in Forms, form'[f].owner = v
          PROVE  /\ form'[f].phase = "skywarn" /\ skywarn'[v] # 0 => f <= skywarn'[v]
                 /\ form'[f].phase \in StripPhases /\ strip'[v] # 0 => f <= strip'[v]
        <3>1. CASE f = z
            BY <2>1, <2>4, <3>1, <1>4, <1>5, <1>7 DEF StripPhases
        <3>2. CASE f # z
            <4>1. form[f].owner = v /\ form'[f].phase = form[f].phase
                BY <2>4, <3>2, <1>7
            <4>2. form[f].phase # "unused" => f <= z
                BY <1>2, <1>4 DEF IsUsed, Forms
            <4>3. /\ form[f].phase = "skywarn" /\ skywarn[v] # 0 => f <= skywarn[v]
                  /\ form[f].phase \in StripPhases /\ strip[v] # 0 => f <= strip[v]
                BY <4>1 DEF FormInv, FormTables, Tables
            <4> QED  BY <4>1, <4>2, <4>3, <2>1 DEF StripPhases
        <3> QED  BY <3>1, <3>2
    <2> QED  BY <2>2, <2>3, <2>4
<1>14. ASSUME NEW f \in Forms, IsUsed(f)
       PROVE  f # z /\ IsUsed(f)' /\ form'[f] = form[f] /\ (Out(f) => Out(f)')
    <2>1. f # z /\ IsUsed(f)' /\ form'[f] = form[f]
        BY <1>2, <1>4, <1>7, <1>11, <1>14
    <2>2. form[f].owner \in BotUsers
        BY <1>14 DEF FormInv, FormTables, Shapes
    <2>3. skywarn'[form[f].owner] \in {z, skywarn[form[f].owner]} /\ strip'[form[f].owner] \in {z, strip[form[f].owner]}
        BY <2>2, <1>3, <1>6 DEF FormTypes
    <2> QED  BY <2>1, <2>3 DEF Out
<1>15. FormsGrow
    <2>1. \A f \in Forms : IsUsed(f) /\ Superseded(f) => Superseded(f)'
        BY <1>14, SupersededGrows
    <2> QED  BY <2>1, <1>3, <1>14 DEF FormsGrow
<1>16. \A f \in cancelled' : Out(f)'
    BY <1>3, <1>6, <1>14 DEF FormInv, FormUse, Outcomes, FormTypes, Out
<1> QED  BY <1>8, <1>9, <1>10, <1>13, <1>15, <1>16 DEF FormTables

\* The open question of form f is answered; after the last one a strip asks
\* for its destination.
AnswerTaken(f) ==
    /\ form[f].phase \in {"skywarn", "fields"} /\ form[f].step < Fields
    /\ form'[f].owner = form[f].owner
    /\ form'[f].step = form[f].step + 1
    /\ form'[f].answers = form[f].answers \union {form[f].step}
    /\ form'[f].phase = IF form[f].phase = "skywarn" THEN "skywarn"
                        ELSE IF form[f].step + 1 = Fields THEN "dest" ELSE "fields"

\* Answers to forms, and forms taken out of their tables.
Onward ==
    /\ form' \in [Forms -> FormRecords]
    /\ \A f \in Forms : form'[f] = form[f] \/ AnswerTaken(f)
    /\ skywarn' \in [BotUsers -> 0 .. MaxForms] /\ strip' \in [BotUsers -> 0 .. MaxForms]
    /\ \A u \in BotUsers : skywarn'[u] \in {0, skywarn[u]} /\ strip'[u] \in {0, strip[u]}
    /\ cancelled' \subseteq Forms
    /\ \A f \in cancelled' : \/ f \in cancelled
                             \/ /\ IsUsed(f) /\ ~Out(f)
                                /\ skywarn'[form[f].owner] # f /\ strip'[form[f].owner] # f

LEMMA FormsOnward ==
    ASSUME FormInv, Onward, filed' \in [Forms -> Nat], sentOut' \in [Forms -> Nat]
    PROVE  FormTables' /\ FormsGrow /\ \A f \in cancelled' : Out(f)'
<1>1. FormTypes /\ FormTypes'
    BY DEF FormInv, FormTables, FormTypes, Onward
<1>2. \A f \in Forms : /\ IsUsed(f)' <=> IsUsed(f)
                       /\ form'[f].owner = form[f].owner
                       /\ form'[f].phase = "skywarn" <=> form[f].phase = "skywarn"
                       /\ form'[f].phase \in StripPhases <=> form[f].phase \in StripPhases
                       /\ form[f].phase \in {"dest", "pasted"} => form'[f].phase = form[f].phase
                       /\ form[f].step = Fields => form'[f].step = Fields
    <2> SUFFICES ASSUME NEW f \in Forms, AnswerTaken(f)
                 PROVE  /\ IsUsed(f)' <=> IsUsed(f)
                        /\ form'[f].owner = form[f].owner
                        /\ form'[f].phase = "skywarn" <=> form[f].phase = "skywarn"
                        /\ form'[f].phase \in StripPhases <=> form[f].phase \in StripPhases
                        /\ form[f].phase \notin {"dest", "pasted"} /\ form[f].step # Fields
        BY DEF Onward, IsUsed
    <2>1. form[f].phase \in {"skywarn", "fields"} /\ form[f].step < Fields /\ form[f].step \in Nat
        BY <1>1 DEF AnswerTaken, FormTypes, FormRecords
    <2>2. form'[f].owner = form[f].owner
        BY DEF AnswerTaken
    <2>3. CASE form[f].phase = "skywarn"
        <3>1. form'[f].phase = "skywarn"
            BY <2>3 DEF AnswerTaken
        <3> QED  BY <2>1, <2>2, <2>3, <3>1, MeshBotAssumption DEF IsUsed, StripPhases
    <2>4. CASE form[f].phase = "fields"
        <3>1. form'[f].phase \in {"dest", "fields"}
            BY <2>4 DEF AnswerTaken
        <3> QED  BY <2>1, <2>2, <2>4, <3>1, MeshBotAssumption DEF IsUsed, StripPhases
    <2> QED  BY <2>1, <2>3, <2>4
<1>3. Numbered'
    BY <1>2 DEF FormInv, FormTables, Numbered
<1>4. Shapes'
    <2> SUFFICES ASSUME NEW f \in Forms
                 PROVE  /\ IsUsed(f)' => form'[f].owner \in BotUsers
                        /\ form'[f].phase \in {"skywarn", "fields"} => form'[f].answers = 0 .. form'[f].step - 1
                        /\ form'[f].phase = "fields" => form'[f].step < Fields
                        /\ form'[f].phase = "dest" => form'[f].answers = AllFields
        BY DEF Shapes
    <2>1. IsUsed(f)' => form'[f].owner \in BotUsers
        BY <1>2 DEF FormInv, FormTables, Shapes
    <2>2. CASE form'[f] = form[f]
        BY <2>1, <2>2 DEF FormInv, FormTables, Shapes
    <2>3. CASE AnswerTaken(f)
        <3> DEFINE s == form[f].step
        <3>1. s \in Nat /\ s < Fields /\ Fields \in Nat
            BY <2>3, <1>1, MeshBotAssumption DEF AnswerTaken, FormTypes, FormRecords
        <3>2. form[f].answers = 0 .. s - 1
            BY <2>3 DEF AnswerTaken, FormInv, FormTables, Shapes
        <3>3. form'[f].answers = 0 .. s /\ form'[f].step = s + 1
            BY <2>3, <3>1, <3>2 DEF AnswerTaken
        <3>4. form'[f].phase = "dest" => s + 1 = Fields
            BY <2>3 DEF AnswerTaken
        <3>5. form'[f].phase = "fields" => s + 1 # Fields
            BY <2>3 DEF AnswerTaken
        <3> HIDE DEF s
        <3>6. form'[f].answers = 0 .. form'[f].step - 1
            BY <3>1, <3>3
        <3>7. form'[f].phase = "fields" => form'[f].step < Fields
            BY <3>1, <3>3, <3>5
        <3>8. form'[f].phase = "dest" => form'[f].answers = AllFields
            BY <3>1, <3>3, <3>4 DEF AllFields
        <3> QED  BY <2>1, <3>6, <3>7, <3>8
    <2> QED  BY <2>2, <2>3 DEF Onward
<1>5. \A u \in BotUsers : /\ skywarn[u] # 0 => skywarn[u] \in Forms
                          /\ strip[u] # 0 => strip[u] \in Forms
    BY <1>1, MeshBotAssumption DEF FormTypes, Forms
<1>6. Tables'
    <2> SUFFICES ASSUME NEW u \in BotUsers
                 PROVE  /\ skywarn'[u] # 0 => form'[skywarn'[u]].phase = "skywarn" /\ form'[skywarn'[u]].owner = u
                        /\ strip'[u] # 0 => form'[strip'[u]].phase \in StripPhases /\ form'[strip'[u]].owner = u
                        /\ \A f \in Forms : form'[f].owner = u =>
                              /\ form'[f].phase = "skywarn" /\ skywarn'[u] # 0 => f <= skywarn'[u]
                              /\ form'[f].phase \in StripPhases /\ strip'[u] # 0 => f <= strip'[u]
        BY DEF Tables
    <2>1. skywarn'[u] \in {0, skywarn[u]} /\ strip'[u] \in {0, strip[u]}
        BY DEF Onward
    <2> QED  BY <2>1, <1>2, <1>5 DEF FormInv, FormTables, Tables
<1>7. \A f \in Forms : Out(f) => Out(f)'
    <2> SUFFICES ASSUME NEW f \in Forms, Out(f) PROVE Out(f)'
        OBVIOUS
    <2>1. form[f].owner \in BotUsers /\ f # 0
        BY MeshBotAssumption DEF FormInv, FormTables, Shapes, Out, Forms
    <2>2. /\ skywarn'[form[f].owner] \in {0, skywarn[form[f].owner]}
          /\ strip'[form[f].owner] \in {0, strip[form[f].owner]}
        BY <2>1 DEF Onward
    <2> QED  BY <1>2, <2>1, <2>2 DEF Out
<1>8. \A f \in cancelled' : Out(f)'
    <2> SUFFICES ASSUME NEW f \in cancelled' PROVE Out(f)'
        OBVIOUS
    <2>1. f \in Forms
        BY DEF Onward
    <2>2. CASE f \in cancelled
        BY <2>1, <2>2, <1>7 DEF FormInv, FormUse, Outcomes
    <2>3. CASE f \notin cancelled
        BY <2>1, <2>3, <1>2 DEF Onward, Out
    <2> QED  BY <2>2, <2>3
<1>9. FormsGrow
    <2>1. \A f \in Forms : IsUsed(f) /\ Superseded(f) => Superseded(f)'
        BY <1>2, SupersededGrows
    <2>2. \A f \in cancelled' : f \in cancelled \/ ~Out(f)
        BY DEF Onward
    <2> QED  BY <2>1, <2>2, <1>2, <1>7 DEF FormsGrow
<1> QED  BY <1>1, <1>3, <1>4, <1>6, <1>8, <1>9 DEF FormTables

\* A step that leaves the forms alone.
LEMMA FormsRest ==
    ASSUME TasksOK, FormInv, UNCHANGED formVars, NEW n \in DOMAIN botTasks, Quietly(n)
    PROVE  FormInv' /\ TasksOK'
<1>1. UNCHANGED <<skywarn, strip, form, cancelled, filed, sentOut>>
    BY DEF formVars
<1>2. Onward /\ filed' \in [Forms -> Nat] /\ sentOut' \in [Forms -> Nat]
    BY <1>1 DEF Onward, FormInv, FormTables, FormTypes
<1>3. FormTables' /\ FormsGrow /\ \A f \in cancelled' : Out(f)'
    BY <1>2, FormsOnward
<1>4. FormUse' /\ TasksOK'
    BY <1>1, <1>3, UseStays
<1> QED  BY <1>3, <1>4 DEF FormInv

\* A form that is out of its table while another is in it has been superseded.
LEMMA OutIsSuperseded ==
    ASSUME FormInv, NEW f \in Forms, Out(f)
    PROVE  /\ form[f].phase = "skywarn" /\ skywarn[form[f].owner] # 0 => Superseded(f)
           /\ form[f].phase \in StripPhases /\ strip[form[f].owner] # 0 => Superseded(f)
<1> DEFINE u == form[f].owner
<1>1. u \in BotUsers /\ skywarn[u] # f /\ strip[u] # f
    BY DEF FormInv, FormTables, Shapes, Out
<1>2. /\ skywarn[u] \in Nat /\ strip[u] \in Nat
      /\ skywarn[u] # 0 => skywarn[u] \in Forms
      /\ strip[u] # 0 => strip[u] \in Forms
    BY <1>1, MeshBotAssumption DEF FormInv, FormTables, FormTypes, Forms
<1>3. /\ skywarn[u] # 0 => form[skywarn[u]].phase = "skywarn" /\ form[skywarn[u]].owner = u
      /\ strip[u] # 0 => form[strip[u]].phase \in StripPhases /\ form[strip[u]].owner = u
    BY <1>1 DEF FormInv, FormTables, Tables
<1>4. ASSUME form[f].phase = "skywarn", skywarn[u] # 0 PROVE Superseded(f)
    <2>1. f <= skywarn[u]
        BY <1>1, <1>4 DEF FormInv, FormTables, Tables
    <2>2. skywarn[u] \in Begun /\ skywarn[u] > f /\ form[skywarn[u]].owner = form[f].owner
        BY <2>1, <1>1, <1>2, <1>3, <1>4 DEF Begun, Forms
    <2> QED  BY <2>2 DEF Superseded
<1>5. ASSUME form[f].phase \in StripPhases, strip[u] # 0 PROVE Superseded(f)
    <2>1. f <= strip[u]
        BY <1>1, <1>5 DEF FormInv, FormTables, Tables
    <2>2. strip[u] \in Begun /\ strip[u] > f /\ form[strip[u]].owner = form[f].owner
        BY <2>1, <1>1, <1>2, <1>3, <1>5 DEF Begun, Forms, StripPhases
    <2> QED  BY <2>2 DEF Superseded
<1> QED  BY <1>4, <1>5

\* A task that goes on to file or to send form f.
LEMMA UseGoesOn ==
    ASSUME TasksOK, FormInv, FormsGrow, \A g \in cancelled' : Out(g)',
           filed' = filed, sentOut' = sentOut,
           NEW n \in DOMAIN botTasks, NEW f \in Forms, NEW pc \in {"filing"} \union GoingOut,
           GoesWith(n, pc, f), IsUsed(f), form[f].owner = botTasks[n].user,
           pc = "filing" => /\ ReportOK(f)' /\ filed[f] = 0
                            /\ \A i \in DOMAIN botTasks :
                                  i # n => botTasks[i].pc # "filing" \/ botTasks[i].obj # f,
           pc \in GoingOut => /\ StripOK(f)' /\ (sentOut[f] = 0 \/ Superseded(f)')
                             /\ \A i \in DOMAIN botTasks :
                                   \/ i = n \/ botTasks[i].pc \notin GoingOut \/ botTasks[i].obj # f
                                   \/ Superseded(f)'
    PROVE  FormUse' /\ TasksOK'
<1>1. pc \in Pcs /\ pc \in AtForm /\ f \in Nat
    BY DEF Pcs, AtForm, Forms
<1>2. /\ TasksOK' /\ DOMAIN botTasks' = DOMAIN botTasks
      /\ \A i \in DOMAIN botTasks : i # n => botTasks'[i] = botTasks[i]
    BY <1>1, GoesMap
<1>3. botTasks'[n].pc = pc /\ botTasks'[n].obj = f /\ botTasks'[n].user = botTasks[n].user
    <2>1. botTasks'[n] = [pc |-> pc, word |-> "other", user |-> botTasks[n].user,
                          place |-> botTasks[n].place, obj |-> f]
        BY <1>1, GoesMap
    <2> QED  BY <2>1
<1>4. Outcomes'
    <2>1. \A g \in Forms : filed[g] > 0 => ReportOK(g)' /\ filed[g] = 1
        BY StaysOK DEF FormInv, FormUse, Outcomes
    <2>2. ASSUME NEW g \in Forms, sentOut[g] > 0
          PROVE  StripOK(g)' /\ (sentOut[g] = 1 \/ Superseded(g)')
        <3>1. StripOK(g) /\ (sentOut[g] = 1 \/ Superseded(g)) /\ IsUsed(g)
            BY <2>2 DEF FormInv, FormUse, Outcomes, StripOK, Out
        <3> QED  BY <3>1, StaysOK DEF FormsGrow
    <2> QED  BY <2>1, <2>2 DEF Outcomes
<1>5. FormTasks'
    <2> SUFFICES ASSUME NEW i \in DOMAIN botTasks', botTasks'[i].pc \in AtForm
                 PROVE  \E g \in Forms :
                           /\ g = botTasks'[i].obj /\ IsUsed(g)' /\ form'[g].owner = botTasks'[i].user
                           /\ botTasks'[i].pc = "filing" => ReportOK(g)' /\ filed'[g] = 0
                           /\ botTasks'[i].pc \in GoingOut =>
                                 StripOK(g)' /\ (sentOut'[g] = 0 \/ Superseded(g)')
        BY DEF FormTasks, AtForm
    <2>1. CASE i = n
        BY <2>1, <1>3 DEF FormsGrow
    <2>2. CASE i # n
        <3>1. PICK g \in Forms : g = botTasks[i].obj /\ IsUsed(g) /\ form[g].owner = botTasks[i].user
            BY <2>2, <1>2 DEF FormInv, FormUse, FormTasks
        <3>2. botTasks'[i] = botTasks[i] /\ i \in DOMAIN botTasks
            BY <2>2, <1>2
        <3>3. botTasks[i].pc = "filing" => ReportOK(g)' /\ filed[g] = 0
            BY <3>1, <3>2, StaysOK DEF FormInv, FormUse, FormTasks
        <3>4. ASSUME botTasks[i].pc \in GoingOut PROVE StripOK(g)' /\ (sentOut[g] = 0 \/ Superseded(g)')
            <4>1. StripOK(g) /\ (sentOut[g] = 0 \/ Superseded(g))
                BY <3>1, <3>2, <3>4 DEF FormInv, FormUse, FormTasks
            <4> QED  BY <4>1, <3>1, StaysOK DEF FormsGrow
        <3> QED  BY <3>1, <3>2, <3>3, <3>4 DEF FormsGrow
    <2> QED  BY <2>1, <2>2
<1>6. OneTaskEach'
    <2> SUFFICES ASSUME NEW i \in DOMAIN botTasks', NEW j \in DOMAIN botTasks',
                        botTasks'[i].obj = botTasks'[j].obj, i # j
                 PROVE  /\ ~(botTasks'[i].pc = "filing" /\ botTasks'[j].pc = "filing")
                        /\ botTasks'[i].pc \in GoingOut /\ botTasks'[j].pc \in GoingOut =>
                              \E g \in Forms : g = botTasks'[i].obj /\ Superseded(g)'
        BY DEF OneTaskEach
    <2>1. CASE i = n \/ j = n
        <3>1. PICK k \in DOMAIN botTasks : /\ k # n /\ botTasks[k].obj = f
                                           /\ {botTasks'[i].pc, botTasks'[j].pc} = {pc, botTasks[k].pc}
            BY <2>1, <1>2, <1>3
        <3>2. botTasks'[i].obj = f
            BY <2>1, <1>3
        <3>3. ~(pc = "filing" /\ botTasks[k].pc = "filing")
            BY <3>1
        <3>4. pc \in GoingOut /\ botTasks[k].pc \in GoingOut => Superseded(f)'
            BY <3>1
        <3>5. /\ botTasks'[i].pc = "filing" /\ botTasks'[j].pc = "filing" => pc = "filing" /\ botTasks[k].pc = "filing"
              /\ botTasks'[i].pc \in GoingOut /\ botTasks'[j].pc \in GoingOut => pc \in GoingOut /\ botTasks[k].pc \in GoingOut
            BY <3>1
        <3> QED  BY <3>2, <3>3, <3>4, <3>5
    <2>2. CASE i # n /\ j # n
        <3>1. /\ botTasks'[i] = botTasks[i] /\ botTasks'[j] = botTasks[j]
              /\ i \in DOMAIN botTasks /\ j \in DOMAIN botTasks
            BY <2>2, <1>2
        <3>2. ~(botTasks[i].pc = "filing" /\ botTasks[j].pc = "filing")
            BY <3>1 DEF FormInv, FormUse, OneTaskEach
        <3>3. ASSUME botTasks[i].pc \in GoingOut, botTasks[j].pc \in GoingOut
              PROVE  \E g \in Forms : g = botTasks[i].obj /\ Superseded(g)'
            <4>1. PICK g \in Forms : g = botTasks[i].obj /\ IsUsed(g)
                BY <3>1, <3>3 DEF FormInv, FormUse, FormTasks, AtForm
            <4>2. Superseded(g)
                BY <3>1, <3>3, <4>1 DEF FormInv, FormUse, OneTaskEach
            <4> QED  BY <4>1, <4>2 DEF FormsGrow
        <3> QED  BY <3>1, <3>2, <3>3
    <2> QED  BY <2>1, <2>2
<1> QED  BY <1>2, <1>4, <1>5, <1>6 DEF FormUse

\* A step that begins a form, or moves forms onward, with a quiet task.
LEMMA FormSteps ==
    ASSUME TasksOK, FormInv, NEW n \in DOMAIN botTasks, Quietly(n), filed' = filed, sentOut' = sentOut,
           Onward \/ \E u \in BotUsers : \E phase \in FormPhases \ {"unused"} : Begins(u, phase)
    PROVE  FormInv' /\ TasksOK'
<1>1. FormTables' /\ FormsGrow /\ \A f \in cancelled' : Out(f)'
    <2>1. CASE Onward
        <3>1. filed' \in [Forms -> Nat] /\ sentOut' \in [Forms -> Nat]
            BY DEF FormInv, FormTables, FormTypes
        <3> QED  BY <2>1, <3>1, FormsOnward
    <2>2. CASE \E u \in BotUsers : \E phase \in FormPhases \ {"unused"} : Begins(u, phase)
        BY <2>2, FormCreated
    <2> QED  BY <2>1, <2>2
<1>2. FormUse' /\ TasksOK'
    BY <1>1, UseStays
<1> QED  BY <1>1, <1>2 DEF FormInv

LEMMA QuietMoves ==
    ASSUME NEW n, NEW pcs \in SUBSET (Pcs \ AtForm), Moves(n, pcs)
    PROVE  Quietly(n)
BY DEF Moves, Quietly

LEMMA FormBegins ==
    ASSUME TasksOK, FormInv, NEW n \in DOMAIN botTasks,
           SkywarnBegins(n) \/ StripBegins(n) \/ PrefillArrives(n)
    PROVE  FormInv' /\ TasksOK' /\ UNCHANGED triviaVars /\ Moves(n, {"prefill"})
<1> DEFINE u == botTasks[n].user
<1>1. u \in BotUsers
    BY TaskIs
<1>2. "prefill" \in Pcs \ AtForm
    BY DEF Pcs, AtForm, GoingOut
<1>3. \/ Ends(n) /\ \E phase \in FormPhases \ {"unused"} : Begins(u, phase)
      \/ Goes(n, "prefill") /\ UNCHANGED <<skywarn, strip, form, cancelled, filed, sentOut>>
    <2>1. CASE SkywarnBegins(n)
        BY <2>1 DEF SkywarnBegins, Begins, FormPhases
    <2>2. CASE StripBegins(n)
        BY <2>2 DEF StripBegins, Begins, FormPhases, StripPhases
    <2>3. CASE PrefillArrives(n)
        BY <2>3 DEF PrefillArrives, Begins, FormPhases, StripPhases
    <2> QED  BY <2>1, <2>2, <2>3
<1>4. UNCHANGED triviaVars
    BY DEF SkywarnBegins, StripBegins, PrefillArrives
<1>5. Moves(n, {"prefill"})
    <2>1. CASE Ends(n)
        BY <2>1 DEF Moves
    <2>2. CASE Goes(n, "prefill")
        BY <2>2, GoesMoves
    <2> QED  BY <1>3, <2>1, <2>2
<1>6. Quietly(n)
    BY <1>2, <1>5, QuietMoves
<1>7. CASE \E phase \in FormPhases \ {"unused"} : Begins(u, phase)
    <2>1. filed' = filed /\ sentOut' = sentOut
        BY <1>7 DEF Begins
    <2> QED  BY <2>1, <1>1, <1>4, <1>5, <1>6, <1>7, FormSteps
<1>8. CASE UNCHANGED <<skywarn, strip, form, cancelled, filed, sentOut>>
    BY <1>4, <1>5, <1>6, <1>8, FormsRest DEF formVars
<1> QED  BY <1>3, <1>7, <1>8

LEMMA SkywarnAnswerKeeps ==
    ASSUME TasksOK, FormInv, NEW n \in DOMAIN botTasks, SkywarnAnswer(n)
    PROVE  FormInv' /\ TasksOK' /\ UNCHANGED triviaVars /\ Moves(n, {"relabel"})
<1> DEFINE u == botTasks[n].user
           f == skywarn[u]
<1>1. u \in BotUsers /\ FormTypes
    BY TaskIs DEF FormInv, FormTables
<1>2. UNCHANGED triviaVars /\ filed' = filed /\ sentOut' = sentOut /\ form' = form /\ strip' = strip
    BY DEF SkywarnAnswer
<1>3. f # 0 => f \in Forms /\ f \in Nat /\ form[f].phase = "skywarn" /\ form[f].owner = u /\ IsUsed(f)
    <2>1. f \in 0 .. MaxForms
        BY <1>1 DEF FormTypes
    <2>2. f # 0 => form[f].phase = "skywarn" /\ form[f].owner = u
        BY <1>1 DEF FormInv, FormTables, Tables
    <2> QED  BY <2>1, <2>2, MeshBotAssumption DEF Forms, IsUsed
<1>4. CASE f # 0 /\ skywarn' = [skywarn EXCEPT ![u] = 0] /\ cancelled' = cancelled \union {f} /\ Ends(n)
    <2>1. Moves(n, {"relabel"}) /\ Quietly(n)
        BY <1>4 DEF Moves, Quietly
    <2>2. f \in Forms /\ IsUsed(f) /\ ~Out(f) /\ form[f].owner = u /\ strip[u] # f
        BY <1>1, <1>3, <1>4 DEF Out, FormInv, FormTables, Tables, StripPhases
    <2>3. /\ skywarn' \in [BotUsers -> 0 .. MaxForms]
          /\ \A v \in BotUsers : skywarn'[v] = IF v = u THEN 0 ELSE skywarn[v]
        BY <1>1, <1>4, MeshBotAssumption DEF FormTypes
    <2> HIDE DEF u, f
    <2>4. /\ \A v \in BotUsers : skywarn'[v] \in {0, skywarn[v]} /\ strip'[v] \in {0, strip[v]}
          /\ cancelled' \subseteq Forms
        BY <1>1, <1>2, <1>4, <2>2, <2>3 DEF FormTypes
    <2>5. \A g \in cancelled' : \/ g \in cancelled
                                \/ /\ IsUsed(g) /\ ~Out(g)
                                   /\ skywarn'[form[g].owner] # g /\ strip'[form[g].owner] # g
        <3>1. skywarn'[u] # f
            BY <1>1, <1>4, <2>3
        <3> QED  BY <3>1, <1>2, <1>4, <2>2
    <2>6. Onward
        BY <1>1, <1>2, <2>3, <2>4, <2>5 DEF Onward, FormTypes
    <2> QED  BY <1>2, <2>1, <2>6, FormSteps
<1>5. CASE UNCHANGED <<skywarn, cancelled>> /\ (Ends(n) \/ (f # 0 /\ GoesWith(n, "relabel", f)))
    <2>1. Moves(n, {"relabel"}) /\ Quietly(n)
        BY <1>3, <1>5 DEF Moves, Quietly
    <2> QED  BY <1>2, <1>5, <2>1, FormsRest DEF formVars
<1> QED  BY <1>4, <1>5 DEF SkywarnAnswer

LEMMA SkywarnStepKeeps ==
    ASSUME TasksOK, FormInv, NEW n \in DOMAIN botTasks, SkywarnStep(n)
    PROVE  FormInv' /\ TasksOK' /\ UNCHANGED triviaVars /\ Moves(n, {"filing"})
<1>0. botTasks[n].user \in BotUsers /\ botTasks[n].obj \in Nat /\ FormTypes
    BY TaskIs DEF FormInv, FormTables
<1>u. PICK u \in BotUsers : u = botTasks[n].user
    BY <1>0
<1>f. PICK f \in Nat : f = botTasks[n].obj
    BY <1>0
<1>1. u \in BotUsers /\ f \in Nat /\ FormTypes
    BY <1>0
<1>2. /\ f \in Forms /\ IsUsed(f) /\ form[f].owner = u /\ form[f].phase = "skywarn"
      /\ form[f].step \in 0 .. Fields
    BY <1>1, <1>u, <1>f DEF SkywarnStep, Relabelled, FormInv, FormUse, FormTasks, AtForm, FormTypes, FormRecords
<1>3. UNCHANGED triviaVars /\ UNCHANGED <<strip, cancelled, filed, sentOut>>
    BY DEF SkywarnStep
<1>4. CASE Ends(n) /\ UNCHANGED <<form, skywarn>>
    <2>1. Moves(n, {"filing"}) /\ Quietly(n)
        BY <1>4 DEF Moves, Quietly
    <2> QED  BY <1>3, <1>4, <2>1, FormsRest DEF formVars
<1>5. CASE /\ form[f].step < Fields
           /\ form' = [form EXCEPT ![f].answers = form[f].answers \union {form[f].step},
                                   ![f].step = form[f].step + 1]
           /\ IF form[f].step + 1 = Fields /\ SessionThere(u)
              THEN skywarn' = [skywarn EXCEPT ![u] = 0] /\ Goes(n, "filing")
              ELSE Ends(n) /\ UNCHANGED skywarn
    <2>1. /\ form'[f].owner = form[f].owner /\ form'[f].phase = form[f].phase
          /\ form'[f].step = form[f].step + 1
          /\ form'[f].answers = form[f].answers \union {form[f].step}
          /\ form'[f] \in FormRecords
          /\ \A g \in Forms : g # f => form'[g] = form[g]
          /\ form' \in [Forms -> FormRecords]
        <3> DEFINE r == form[f]
                   s == [step |-> r.step + 1, answers |-> r.answers \union {r.step},
                         phase |-> r.phase, owner |-> r.owner]
        <3>1. r \in FormRecords /\ r.step < Fields /\ DOMAIN r = {"step", "answers", "phase", "owner"}
            BY <1>1, <1>2, <1>5 DEF FormTypes, FormRecords
        <3>2. form' = [form EXCEPT ![f] = [[r EXCEPT !.answers = r.answers \union {r.step}]
                                             EXCEPT !.step = r.step + 1]]
            BY <1>1, <1>2, <1>5 DEF FormTypes
        <3> HIDE DEF r
        <3>3. [[r EXCEPT !.answers = r.answers \union {r.step}] EXCEPT !.step = r.step + 1] =
                [k \in DOMAIN r |-> IF k = "step" THEN r.step + 1
                                    ELSE IF k = "answers" THEN r.answers \union {r.step} ELSE r[k]]
            BY <3>1
        <3>4. [k \in DOMAIN r |-> IF k = "step" THEN r.step + 1
                                    ELSE IF k = "answers" THEN r.answers \union {r.step} ELSE r[k]] = s
            BY <3>1
        <3>5. s \in FormRecords
            BY <3>1, MeshBotAssumption DEF FormRecords, AllFields
        <3>6. form' = [form EXCEPT ![f] = s]
            BY <3>2, <3>3, <3>4
        <3>7. /\ s.owner = r.owner /\ s.phase = r.phase /\ s.step = r.step + 1
              /\ s.answers = r.answers \union {r.step}
            OBVIOUS
        <3> HIDE DEF s
        <3>8. form'[f] = s /\ form' \in [Forms -> FormRecords] /\ \A g \in Forms : g # f => form'[g] = form[g]
            BY <3>5, <3>6, <1>1, <1>2 DEF FormTypes
        <3> QED  BY <3>5, <3>7, <3>8 DEF r
    <2>2. AnswerTaken(f)
        BY <1>2, <1>5, <2>1 DEF AnswerTaken
    <2>3. /\ skywarn' \in [BotUsers -> 0 .. MaxForms]
          /\ \A v \in BotUsers : skywarn'[v] \in {0, skywarn[v]}
        BY <1>1, <1>5, MeshBotAssumption DEF FormTypes
    <2>4. Onward
        BY <1>1, <1>3, <2>1, <2>2, <2>3 DEF Onward, FormTypes
    <2>5. CASE Ends(n)
        <3>1. Moves(n, {"filing"}) /\ Quietly(n)
            BY <2>5 DEF Moves, Quietly
        <3> QED  BY <1>3, <2>4, <3>1, FormSteps
    <2>6. CASE /\ form[f].step + 1 = Fields /\ SessionThere(u)
               /\ skywarn' = [skywarn EXCEPT ![u] = 0] /\ Goes(n, "filing")
        <3>1. Moves(n, {"filing"}) /\ GoesWith(n, "filing", f)
            BY <2>6, <1>f, GoesMoves DEF Goes
        <3>2. FormTables' /\ FormsGrow /\ \A g \in cancelled' : Out(g)'
            <4>1. filed' \in [Forms -> Nat] /\ sentOut' \in [Forms -> Nat]
                BY <1>1, <1>3 DEF FormTypes
            <4> QED  BY <2>4, <4>1, FormsOnward
        <3>3. /\ form'[f].phase = "skywarn" /\ form'[f].step = Fields /\ form'[f].owner = u
              /\ skywarn'[u] = 0 /\ strip'[u] # f /\ f # 0
            <4>1. f \in Nat \ {0}
                BY <1>2, MeshBotAssumption DEF Forms
            <4>2. strip[u] # f
                BY <1>2, <2>1, <4>1 DEF FormInv, FormTables, Tables, StripPhases
            <4>3. skywarn'[u] = 0 /\ strip' = strip
                BY <1>1, <1>2, <1>3, <2>6 DEF FormTypes
            <4> QED  BY <1>2, <2>1, <2>6, <4>1, <4>2, <4>3
        <3>4. f \in cancelled => Superseded(f)
            <4>1. f \in cancelled => Out(f)
                BY DEF FormInv, FormUse, Outcomes
            <4>2. skywarn[form[f].owner] # 0
                BY <1>2, <2>6 DEF SessionThere
            <4> QED  BY <4>1, <4>2, <1>2, OutIsSuperseded
        <3>5. ReportOK(f)'
            <4>1. Out(f)'
                BY <3>3 DEF Out, IsUsed
            <4>2. f \in cancelled' => Superseded(f)'
                BY <1>2, <1>3, <3>2, <3>4 DEF FormsGrow
            <4> QED  BY <3>3, <4>1, <4>2 DEF ReportOK
        <3>6. /\ filed[f] = 0
              /\ \A i \in DOMAIN botTasks : i # n => botTasks[i].pc # "filing" \/ botTasks[i].obj # f
            <4>1. form[f].step # Fields
                BY <1>2, <1>5, MeshBotAssumption
            <4>2. ~ReportOK(f)
                BY <4>1 DEF ReportOK
            <4>3. ~(filed[f] > 0) /\ filed[f] \in Nat
                BY <4>2, <1>1, <1>2 DEF FormInv, FormUse, Outcomes, FormTypes
            <4>4. \A i \in DOMAIN botTasks : botTasks[i].pc # "filing" \/ botTasks[i].obj # f
                BY <4>2 DEF FormInv, FormUse, FormTasks
            <4> QED  BY <4>3, <4>4
        <3>7. "filing" \notin GoingOut
            BY DEF GoingOut
        <3>8. FormUse' /\ TasksOK'
            BY <1>2, <1>3, <1>u, <3>1, <3>2, <3>5, <3>6, <3>7, UseGoesOn
        <3> QED  BY <1>3, <3>1, <3>2, <3>8 DEF FormInv
    <2> QED  BY <1>5, <2>5, <2>6
<1>6. \/ Ends(n) /\ UNCHANGED <<form, skywarn>>
      \/ /\ ~(form[f].step >= Fields)
         /\ form' = [form EXCEPT ![f].answers = form[f].answers \union {form[f].step},
                                 ![f].step = form[f].step + 1]
         /\ IF form[f].step + 1 = Fields /\ SessionThere(u)
            THEN skywarn' = [skywarn EXCEPT ![u] = 0] /\ Goes(n, "filing")
            ELSE Ends(n) /\ UNCHANGED skywarn
    BY <1>u, <1>f DEF SkywarnStep
<1>7. form[f].step \in Nat /\ Fields \in Nat
    BY <1>2, MeshBotAssumption
<1>8. CASE Ends(n) /\ UNCHANGED <<form, skywarn>>
    BY <1>4, <1>8
<1>9. CASE ~(Ends(n) /\ UNCHANGED <<form, skywarn>>)
    <2>1. form[f].step < Fields
        BY <1>6, <1>7, <1>9
    <2> QED  BY <1>5, <1>6, <1>9, <2>1
<1> QED  BY <1>8, <1>9

\* When a task ends, each of the others still has its form to itself.
LEMMA OthersAlone ==
    ASSUME FormInv, FormsGrow, NEW n \in DOMAIN botTasks, NEW was, Reindexed(was, n),
           \A i \in DOMAIN botTasks' : was[i] # n
    PROVE  OneTaskEach'
<1> SUFFICES ASSUME NEW i \in DOMAIN botTasks', NEW j \in DOMAIN botTasks',
                    botTasks'[i].obj = botTasks'[j].obj, i # j
             PROVE  /\ ~(botTasks'[i].pc = "filing" /\ botTasks'[j].pc = "filing")
                    /\ botTasks'[i].pc \in GoingOut /\ botTasks'[j].pc \in GoingOut =>
                          \E g \in Forms : g = botTasks'[i].obj /\ Superseded(g)'
    BY DEF OneTaskEach
<1>1. PICK k \in DOMAIN botTasks, l \in DOMAIN botTasks :
         k # l /\ botTasks'[i] = botTasks[k] /\ botTasks'[j] = botTasks[l]
    BY DEF Reindexed
<1>2. ~(botTasks[k].pc = "filing" /\ botTasks[l].pc = "filing")
    BY <1>1 DEF FormInv, FormUse, OneTaskEach
<1>3. ASSUME botTasks[k].pc \in GoingOut, botTasks[l].pc \in GoingOut
      PROVE  \E g \in Forms : g = botTasks[k].obj /\ Superseded(g)'
    <2>1. PICK g \in Forms : g = botTasks[k].obj /\ IsUsed(g)
        BY <1>3 DEF FormInv, FormUse, FormTasks, AtForm
    <2>2. Superseded(g)
        BY <1>1, <1>3, <2>1 DEF FormInv, FormUse, OneTaskEach
    <2> QED  BY <2>1, <2>2 DEF FormsGrow
<1> QED  BY <1>1, <1>2, <1>3

\* A report is filed once, the task's hold on it ends.
LEMMA ReportFiledKeeps ==
    ASSUME TasksOK, FormInv, NEW n \in DOMAIN botTasks, ReportFiled(n)
    PROVE  FormInv' /\ TasksOK' /\ UNCHANGED triviaVars /\ Moves(n, {})
<1>1. /\ UNCHANGED <<skywarn, strip, form, cancelled, sentOut, triviaVars>>
      /\ Ends(n) /\ botTasks[n].pc = "filing"
    BY DEF ReportFiled
<1>2. Moves(n, {}) /\ Quietly(n)
    BY <1>1 DEF Moves, Quietly
<1>3. CASE UNCHANGED filed
    BY <1>1, <1>2, <1>3, FormsRest DEF formVars
<1>4. CASE filed' = [filed EXCEPT ![botTasks[n].obj] = filed[botTasks[n].obj] + 1]
    <2>1. PICK f \in Forms : f = botTasks[n].obj /\ ReportOK(f) /\ filed[f] = 0
        BY <1>1 DEF FormInv, FormUse, FormTasks, AtForm
    <2>2. /\ filed' \in [Forms -> Nat] /\ filed'[f] = 1
          /\ \A g \in Forms : g # f => filed'[g] = filed[g]
        BY <1>4, <2>1 DEF FormInv, FormTables, FormTypes
    <2>3. Onward /\ sentOut' \in [Forms -> Nat]
        BY <1>1 DEF Onward, FormInv, FormTables, FormTypes
    <2>4. FormTables' /\ FormsGrow /\ \A g \in cancelled' : Out(g)'
        BY <2>2, <2>3, FormsOnward
    <2>5. PICK was : /\ Reindexed(was, n) /\ TasksOK' /\ \A i \in DOMAIN botTasks' : was[i] # n
        BY <1>1, EndsMap
    <2>6. \A i \in DOMAIN botTasks' : was[i] \in DOMAIN botTasks /\ was[i] # n /\ botTasks'[i] = botTasks[was[i]]
        BY <2>5 DEF Reindexed
    <2>7. Outcomes'
        <3>1. ReportOK(f)'
            BY <2>1, <2>4, StaysOK
        <3>2. \A g \in Forms : filed'[g] > 0 => ReportOK(g)' /\ filed'[g] = 1
            BY <2>1, <2>2, <2>4, <3>1, StaysOK DEF FormInv, FormUse, Outcomes
        <3>3. ASSUME NEW g \in Forms, sentOut[g] > 0
              PROVE  StripOK(g)' /\ (sentOut[g] = 1 \/ Superseded(g)')
            <4>1. StripOK(g) /\ (sentOut[g] = 1 \/ Superseded(g)) /\ IsUsed(g)
                BY <3>3 DEF FormInv, FormUse, Outcomes, StripOK, Out
            <4> QED  BY <2>4, <4>1, StaysOK DEF FormsGrow
        <3> QED  BY <1>1, <2>4, <3>2, <3>3 DEF Outcomes
    <2>8. FormTasks'
        <3> SUFFICES ASSUME NEW i \in DOMAIN botTasks', botTasks'[i].pc \in AtForm
                     PROVE  \E g \in Forms :
                               /\ g = botTasks'[i].obj /\ IsUsed(g)' /\ form'[g].owner = botTasks'[i].user
                               /\ botTasks'[i].pc = "filing" => ReportOK(g)' /\ filed'[g] = 0
                               /\ botTasks'[i].pc \in GoingOut =>
                                     StripOK(g)' /\ (sentOut'[g] = 0 \/ Superseded(g)')
            BY DEF FormTasks, AtForm
        <3>1. PICK k \in DOMAIN botTasks : k # n /\ botTasks'[i] = botTasks[k]
            BY <2>6
        <3>2. PICK g \in Forms : g = botTasks[k].obj /\ IsUsed(g) /\ form[g].owner = botTasks[k].user
            BY <3>1 DEF FormInv, FormUse, FormTasks
        <3>3. IsUsed(g)' /\ form'[g].owner = botTasks[k].user
            BY <2>4, <3>2 DEF FormsGrow
        <3>4. ASSUME botTasks[k].pc = "filing" PROVE ReportOK(g)' /\ filed'[g] = 0
            <4>1. ReportOK(g) /\ filed[g] = 0
                BY <3>2, <3>4 DEF FormInv, FormUse, FormTasks
            <4>2. g # f
                BY <1>1, <2>1, <3>1, <3>2, <3>4 DEF FormInv, FormUse, OneTaskEach
            <4> QED  BY <2>2, <2>4, <4>1, <4>2, StaysOK
        <3>5. ASSUME botTasks[k].pc \in GoingOut PROVE StripOK(g)' /\ (sentOut'[g] = 0 \/ Superseded(g)')
            <4>1. StripOK(g) /\ (sentOut[g] = 0 \/ Superseded(g))
                BY <3>2, <3>5 DEF FormInv, FormUse, FormTasks
            <4> QED  BY <1>1, <2>4, <3>2, <4>1, StaysOK DEF FormsGrow
        <3> QED  BY <3>1, <3>2, <3>3, <3>4, <3>5
    <2>9. OneTaskEach'
        BY <2>4, <2>5, <2>6, OthersAlone
    <2> QED  BY <1>1, <1>2, <2>4, <2>5, <2>7, <2>8, <2>9 DEF FormInv, FormUse
<1> QED  BY <1>1, <1>3, <1>4 DEF ReportFiled

LEMMA StripSavedKeeps ==
    ASSUME TasksOK, FormInv, NEW n \in DOMAIN botTasks, StripSaved(n)
    PROVE  FormInv' /\ TasksOK' /\ UNCHANGED triviaVars /\ Moves(n, {"winlink"})
<1>1. /\ UNCHANGED <<skywarn, strip, form, cancelled, filed, sentOut>> /\ UNCHANGED triviaVars
      /\ botTasks[n].pc = "saving" /\ Goes(n, "winlink")
    BY DEF StripSaved, formVars
<1>2. PICK f \in Forms : /\ f = botTasks[n].obj /\ IsUsed(f) /\ form[f].owner = botTasks[n].user
                         /\ StripOK(f) /\ (sentOut[f] = 0 \/ Superseded(f))
    BY <1>1 DEF FormInv, FormUse, FormTasks, AtForm, GoingOut
<1>3. GoesWith(n, "winlink", f) /\ Moves(n, {"winlink"})
    BY <1>1, <1>2, GoesMoves DEF Goes
<1>4. Onward /\ filed' \in [Forms -> Nat] /\ sentOut' \in [Forms -> Nat]
    BY <1>1 DEF Onward, FormInv, FormTables, FormTypes
<1>5. FormTables' /\ FormsGrow /\ \A g \in cancelled' : Out(g)'
    BY <1>4, FormsOnward
<1>6. StripOK(f)' /\ (sentOut[f] = 0 \/ Superseded(f)')
    BY <1>2, <1>5, StaysOK DEF FormsGrow
<1>7. ASSUME NEW i \in DOMAIN botTasks, i # n, botTasks[i].pc \in GoingOut, botTasks[i].obj = f
      PROVE  Superseded(f)'
    <2>1. Superseded(f)
        BY <1>1, <1>2, <1>7 DEF FormInv, FormUse, OneTaskEach, GoingOut
    <2> QED  BY <2>1, <1>2, <1>5 DEF FormsGrow
<1>8. "winlink" \in GoingOut /\ "winlink" # "filing"
    BY DEF GoingOut
<1>9. FormUse' /\ TasksOK'
    BY <1>1, <1>2, <1>3, <1>5, <1>6, <1>7, <1>8, UseGoesOn
<1> QED  BY <1>1, <1>3, <1>5, <1>9 DEF FormInv

LEMMA StripGoesOutKeeps ==
    ASSUME TasksOK, FormInv, NEW n \in DOMAIN botTasks, StripGoesOut(n)
    PROVE  FormInv' /\ TasksOK' /\ UNCHANGED triviaVars /\ Moves(n, {})
<1>1. /\ UNCHANGED <<skywarn, strip, form, cancelled, filed>> /\ UNCHANGED triviaVars
      /\ Ends(n) /\ botTasks[n].pc = "winlink" /\ botTasks[n].pc \in GoingOut
    BY DEF StripGoesOut, GoingOut
<1>2. Moves(n, {}) /\ Quietly(n)
    BY <1>1 DEF Moves, Quietly
<1>3. CASE UNCHANGED sentOut
    BY <1>1, <1>2, <1>3, FormsRest DEF formVars
<1>4. CASE sentOut' = [sentOut EXCEPT ![botTasks[n].obj] = sentOut[botTasks[n].obj] + 1]
    <2>1. PICK f \in Forms : f = botTasks[n].obj /\ StripOK(f) /\ (sentOut[f] = 0 \/ Superseded(f))
        BY <1>1 DEF FormInv, FormUse, FormTasks, AtForm
    <2>2. /\ sentOut' \in [Forms -> Nat] /\ sentOut'[f] = sentOut[f] + 1
          /\ \A g \in Forms : g # f => sentOut'[g] = sentOut[g]
        BY <1>4, <2>1 DEF FormInv, FormTables, FormTypes
    <2>3. Onward /\ filed' \in [Forms -> Nat]
        BY <1>1 DEF Onward, FormInv, FormTables, FormTypes
    <2>4. FormTables' /\ FormsGrow /\ \A g \in cancelled' : Out(g)'
        BY <2>2, <2>3, FormsOnward
    <2>5. PICK was : /\ Reindexed(was, n) /\ TasksOK' /\ \A i \in DOMAIN botTasks' : was[i] # n
        BY <1>1, EndsMap
    <2>6. \A i \in DOMAIN botTasks' : was[i] \in DOMAIN botTasks /\ was[i] # n /\ botTasks'[i] = botTasks[was[i]]
        BY <2>5 DEF Reindexed
    <2>7. Outcomes'
        <3>1. StripOK(f)' /\ (sentOut'[f] = 1 \/ Superseded(f)')
            BY <2>1, <2>2, <2>4, StaysOK DEF FormsGrow, StripOK, Out
        <3>2. \A g \in Forms : filed[g] > 0 => ReportOK(g)' /\ filed[g] = 1
            BY <2>4, StaysOK DEF FormInv, FormUse, Outcomes
        <3>3. ASSUME NEW g \in Forms, sentOut'[g] > 0
              PROVE  StripOK(g)' /\ (sentOut'[g] = 1 \/ Superseded(g)')
            <4>1. CASE g = f
                BY <3>1, <4>1
            <4>2. CASE g # f
                <5>1. StripOK(g) /\ (sentOut[g] = 1 \/ Superseded(g)) /\ IsUsed(g) /\ sentOut'[g] = sentOut[g]
                    BY <2>2, <3>3, <4>2 DEF FormInv, FormUse, Outcomes, StripOK, Out
                <5> QED  BY <2>4, <5>1, StaysOK DEF FormsGrow
            <4> QED  BY <4>1, <4>2
        <3> QED  BY <1>1, <2>4, <3>2, <3>3 DEF Outcomes
    <2>8. FormTasks'
        <3> SUFFICES ASSUME NEW i \in DOMAIN botTasks', botTasks'[i].pc \in AtForm
                     PROVE  \E g \in Forms :
                               /\ g = botTasks'[i].obj /\ IsUsed(g)' /\ form'[g].owner = botTasks'[i].user
                               /\ botTasks'[i].pc = "filing" => ReportOK(g)' /\ filed'[g] = 0
                               /\ botTasks'[i].pc \in GoingOut =>
                                     StripOK(g)' /\ (sentOut'[g] = 0 \/ Superseded(g)')
            BY DEF FormTasks, AtForm
        <3>1. PICK k \in DOMAIN botTasks : k # n /\ botTasks'[i] = botTasks[k]
            BY <2>6
        <3>2. PICK g \in Forms : g = botTasks[k].obj /\ IsUsed(g) /\ form[g].owner = botTasks[k].user
            BY <3>1 DEF FormInv, FormUse, FormTasks
        <3>3. IsUsed(g)' /\ form'[g].owner = botTasks[k].user
            BY <2>4, <3>2 DEF FormsGrow
        <3>4. ASSUME botTasks[k].pc = "filing" PROVE ReportOK(g)' /\ filed'[g] = 0
            <4>1. ReportOK(g) /\ filed[g] = 0
                BY <3>2, <3>4 DEF FormInv, FormUse, FormTasks
            <4> QED  BY <1>1, <2>4, <4>1, StaysOK
        <3>5. ASSUME botTasks[k].pc \in GoingOut PROVE StripOK(g)' /\ (sentOut'[g] = 0 \/ Superseded(g)')
            <4>1. StripOK(g) /\ (sentOut[g] = 0 \/ Superseded(g))
                BY <3>2, <3>5 DEF FormInv, FormUse, FormTasks
            <4>2. StripOK(g)' /\ (Superseded(g) => Superseded(g)')
                BY <2>4, <3>2, <4>1, StaysOK DEF FormsGrow
            <4>3. g = f => Superseded(g)
                BY <1>1, <2>1, <3>1, <3>2, <3>5 DEF FormInv, FormUse, OneTaskEach
            <4> QED  BY <2>2, <4>1, <4>2, <4>3
        <3> QED  BY <3>1, <3>2, <3>3, <3>4, <3>5
    <2>9. OneTaskEach'
        BY <2>4, <2>5, OthersAlone
    <2> QED  BY <1>1, <1>2, <2>4, <2>5, <2>7, <2>8, <2>9 DEF FormInv, FormUse
<1> QED  BY <1>1, <1>3, <1>4 DEF StripGoesOut

\* The text is taken for the destination of form f, which may have left the table.
LEMMA DestinationTaken ==
    ASSUME TasksOK, FormInv, NEW n \in DOMAIN botTasks, NEW u \in BotUsers, NEW f \in Forms,
           u = botTasks[n].user, IsUsed(f), form[f].owner = u, AtDestination(f),
           TakeDestination(n, u, f), UNCHANGED <<skywarn, form, cancelled, filed, sentOut>>
    PROVE  FormInv' /\ TasksOK' /\ Moves(n, {"saving"})
<1>1. CASE Ends(n) /\ UNCHANGED strip
    <2>1. Moves(n, {"saving"}) /\ Quietly(n)
        BY <1>1 DEF Moves, Quietly
    <2> QED  BY <1>1, <2>1, FormsRest DEF formVars
<1>2. CASE strip[u] # 0 /\ strip' = [strip EXCEPT ![u] = 0] /\ GoesWith(n, "saving", f)
    <2>1. f \in Nat /\ f # 0
        BY DEF Forms
    <2>2. Moves(n, {"saving"})
        BY <1>2, <2>1 DEF Moves
    <2>3. /\ strip' \in [BotUsers -> 0 .. MaxForms] /\ strip'[u] = 0
          /\ \A v \in BotUsers : strip'[v] \in {0, strip[v]}
        BY <1>2, MeshBotAssumption DEF FormInv, FormTables, FormTypes
    <2>4. Onward /\ filed' \in [Forms -> Nat] /\ sentOut' \in [Forms -> Nat]
        BY <2>3 DEF Onward, FormInv, FormTables, FormTypes
    <2>5. FormTables' /\ FormsGrow /\ \A g \in cancelled' : Out(g)'
        BY <2>4, FormsOnward
    <2>6. Out(f)'
        <3>1. skywarn[u] # f
            BY <2>1 DEF FormInv, FormTables, Tables, AtDestination
        <3> QED  BY <2>1, <2>3, <3>1 DEF Out, IsUsed
    <2>7. Out(f) => Superseded(f) /\ Superseded(f)'
        <3>1. Out(f) => Superseded(f)
            BY <1>2, OutIsSuperseded DEF StripPhases, AtDestination
        <3> QED  BY <3>1, <2>5 DEF FormsGrow
    <2>8. StripOK(f)'
        <3>1. f \in cancelled' => Superseded(f)'
            BY <2>7 DEF FormInv, FormUse, Outcomes
        <3> QED  BY <2>6, <3>1 DEF StripOK, AtDestination
    <2>9. sentOut[f] = 0 \/ Superseded(f)'
        <3>1. sentOut[f] \in Nat
            BY DEF FormInv, FormTables, FormTypes
        <3> QED  BY <2>7, <3>1 DEF FormInv, FormUse, Outcomes, StripOK
    <2>10. \A i \in DOMAIN botTasks : \/ i = n \/ botTasks[i].pc \notin GoingOut \/ botTasks[i].obj # f
                                      \/ Superseded(f)'
        BY <2>7 DEF FormInv, FormUse, FormTasks, StripOK
    <2>11. "saving" \in GoingOut /\ "saving" # "filing"
        BY DEF GoingOut
    <2>12. FormUse' /\ TasksOK'
        BY <1>2, <2>5, <2>8, <2>9, <2>10, <2>11, UseGoesOn
    <2> QED  BY <2>2, <2>5, <2>12 DEF FormInv
<1> QED  BY <1>1, <1>2 DEF TakeDestination

LEMMA StripAnswerKeeps ==
    ASSUME TasksOK, FormInv, NEW n \in DOMAIN botTasks, StripAnswer(n)
    PROVE  FormInv' /\ TasksOK' /\ UNCHANGED triviaVars /\ Moves(n, {"relabel", "saving"})
<1>1. PICK u \in BotUsers : u = botTasks[n].user
    BY TaskIs
<1>2. PICK f : f = strip[u]
    OBVIOUS
<1>3. UNCHANGED triviaVars /\ UNCHANGED <<skywarn, form, filed, sentOut>> /\ FormTypes
    BY DEF StripAnswer, FormInv, FormTables
<1>4. f # 0 => f \in Forms /\ f \in Nat /\ form[f].phase \in StripPhases /\ form[f].owner = u /\ IsUsed(f)
    <2>1. f \in 0 .. MaxForms
        BY <1>2, <1>3 DEF FormTypes
    <2>2. f # 0 => form[f].phase \in StripPhases /\ form[f].owner = u
        BY <1>2 DEF FormInv, FormTables, Tables
    <2> QED  BY <2>1, <2>2, MeshBotAssumption DEF Forms, IsUsed, StripPhases
<1>5. \/ Ends(n) /\ UNCHANGED <<strip, cancelled>>
      \/ f # 0 /\ strip' = [strip EXCEPT ![u] = 0] /\ cancelled' = cancelled \union {f} /\ Ends(n)
      \/ f # 0 /\ AtDestination(f) /\ TakeDestination(n, u, f) /\ UNCHANGED cancelled
      \/ f # 0 /\ GoesWith(n, "relabel", f) /\ UNCHANGED <<strip, cancelled>>
    BY <1>1, <1>2 DEF StripAnswer
<1>6. CASE Ends(n) /\ UNCHANGED <<strip, cancelled>>
    <2>1. Moves(n, {"relabel", "saving"}) /\ Quietly(n)
        BY <1>6 DEF Moves, Quietly
    <2> QED  BY <1>3, <1>6, <2>1, FormsRest DEF formVars
<1>7. CASE f # 0 /\ GoesWith(n, "relabel", f) /\ UNCHANGED <<strip, cancelled>>
    <2>1. Moves(n, {"relabel", "saving"}) /\ Quietly(n)
        BY <1>1, <1>4, <1>7 DEF Moves, Quietly
    <2> QED  BY <1>3, <1>7, <2>1, FormsRest DEF formVars
<1>8. CASE f # 0 /\ AtDestination(f) /\ TakeDestination(n, u, f) /\ UNCHANGED cancelled
    <2>1. FormInv' /\ TasksOK' /\ Moves(n, {"saving"})
        BY <1>1, <1>3, <1>4, <1>8, DestinationTaken
    <2>2. Moves(n, {"relabel", "saving"})
        BY <2>1 DEF Moves
    <2> QED  BY <1>3, <2>1, <2>2
<1>9. CASE f # 0 /\ strip' = [strip EXCEPT ![u] = 0] /\ cancelled' = cancelled \union {f} /\ Ends(n)
    <2>1. Moves(n, {"relabel", "saving"}) /\ Quietly(n)
        BY <1>9 DEF Moves, Quietly
    <2>2. f \in Forms /\ IsUsed(f) /\ ~Out(f) /\ form[f].owner = u /\ skywarn[u] # f
        BY <1>2, <1>4, <1>9 DEF Out, FormInv, FormTables, Tables, StripPhases
    <2>3. /\ strip' \in [BotUsers -> 0 .. MaxForms]
          /\ \A v \in BotUsers : strip'[v] = IF v = u THEN 0 ELSE strip[v]
        BY <1>3, <1>9, MeshBotAssumption DEF FormTypes
    <2>4. /\ \A v \in BotUsers : skywarn'[v] \in {0, skywarn[v]} /\ strip'[v] \in {0, strip[v]}
          /\ cancelled' \subseteq Forms
        BY <1>3, <1>9, <2>2, <2>3 DEF FormTypes
    <2>5. \A g \in cancelled' : \/ g \in cancelled
                                \/ /\ IsUsed(g) /\ ~Out(g)
                                   /\ skywarn'[form[g].owner] # g /\ strip'[form[g].owner] # g
        <3>1. strip'[u] # f
            BY <1>9, <2>3
        <3> QED  BY <3>1, <1>3, <1>9, <2>2
    <2>6. Onward
        BY <1>3, <2>3, <2>4, <2>5 DEF Onward, FormTypes
    <2> QED  BY <1>3, <2>1, <2>6, FormSteps
<1> QED  BY <1>5, <1>6, <1>7, <1>8, <1>9

LEMMA StripStepKeeps ==
    ASSUME TasksOK, FormInv, NEW n \in DOMAIN botTasks, StripStep(n)
    PROVE  FormInv' /\ TasksOK' /\ UNCHANGED triviaVars /\ Moves(n, {"prefill", "saving"})
<1>1. PICK u \in BotUsers : u = botTasks[n].user
    BY TaskIs
<1>2. PICK f \in Forms : f = botTasks[n].obj /\ IsUsed(f) /\ form[f].owner = u
    BY <1>1 DEF StripStep, Relabelled, FormInv, FormUse, FormTasks, AtForm
<1>3. UNCHANGED triviaVars /\ UNCHANGED <<skywarn, cancelled, filed, sentOut>> /\ FormTypes
    BY DEF StripStep, FormInv, FormTables
<1>4. \/ (Goes(n, "prefill") \/ Ends(n)) /\ UNCHANGED <<form, strip>>
      \/ /\ form[f].phase = "fields"
         /\ form' = [form EXCEPT ![f].answers = form[f].answers \union {form[f].step},
                                 ![f].step = form[f].step + 1, ![f].phase = PhaseAfter(f)]
         /\ Ends(n) /\ UNCHANGED strip
      \/ AtDestination(f) /\ TakeDestination(n, u, f) /\ UNCHANGED form
    BY <1>1, <1>2 DEF StripStep
<1>5. CASE (Goes(n, "prefill") \/ Ends(n)) /\ UNCHANGED <<form, strip>>
    <2>1. Moves(n, {"prefill"})
        <3>1. CASE Ends(n)
            BY <3>1 DEF Moves
        <3>2. CASE Goes(n, "prefill")
            BY <3>2, GoesMoves
        <3> QED  BY <1>5, <3>1, <3>2
    <2>2. Moves(n, {"prefill", "saving"})
        BY <2>1 DEF Moves
    <2>3. {"prefill"} \in SUBSET (Pcs \ AtForm)
        BY DEF Pcs, AtForm, GoingOut
    <2>4. Quietly(n)
        BY <2>1, <2>3, QuietMoves
    <2> QED  BY <1>3, <1>5, <2>2, <2>4, FormsRest DEF formVars
<1>6. CASE AtDestination(f) /\ TakeDestination(n, u, f) /\ UNCHANGED form
    <2>1. FormInv' /\ TasksOK' /\ Moves(n, {"saving"})
        BY <1>1, <1>2, <1>3, <1>6, DestinationTaken
    <2>2. Moves(n, {"prefill", "saving"})
        BY <2>1 DEF Moves
    <2> QED  BY <1>3, <2>1, <2>2
<1>7. CASE /\ form[f].phase = "fields"
           /\ form' = [form EXCEPT ![f].answers = form[f].answers \union {form[f].step},
                                   ![f].step = form[f].step + 1, ![f].phase = PhaseAfter(f)]
           /\ Ends(n) /\ UNCHANGED strip
    <2>1. Moves(n, {"prefill", "saving"}) /\ Quietly(n)
        BY <1>7 DEF Moves, Quietly
    <2>2. AnswerTaken(f) /\ form' \in [Forms -> FormRecords] /\ \A g \in Forms : g # f => form'[g] = form[g]
        <3> DEFINE r == form[f]
                   p == PhaseAfter(f)
                   s == [step |-> r.step + 1, answers |-> r.answers \union {r.step},
                         phase |-> p, owner |-> r.owner]
        <3>1. /\ r \in FormRecords /\ r.step < Fields /\ DOMAIN r = {"step", "answers", "phase", "owner"}
              /\ p \in FormPhases /\ p = IF r.step + 1 = Fields THEN "dest" ELSE "fields"
            BY <1>2, <1>3, <1>7
               DEF FormTypes, FormRecords, FormInv, FormTables, Shapes, PhaseAfter, FormPhases, StripPhases
        <3>2. form' = [form EXCEPT ![f] = [[[r EXCEPT !.answers = r.answers \union {r.step}]
                                             EXCEPT !.step = r.step + 1] EXCEPT !.phase = p]]
            BY <1>3, <1>7 DEF FormTypes
        <3> HIDE DEF r, p
        <3>3. [[[r EXCEPT !.answers = r.answers \union {r.step}] EXCEPT !.step = r.step + 1] EXCEPT !.phase = p] =
                [k \in DOMAIN r |-> IF k = "phase" THEN p ELSE IF k = "step" THEN r.step + 1
                                    ELSE IF k = "answers" THEN r.answers \union {r.step} ELSE r[k]]
            BY <3>1
        <3>4. [k \in DOMAIN r |-> IF k = "phase" THEN p ELSE IF k = "step" THEN r.step + 1
                                    ELSE IF k = "answers" THEN r.answers \union {r.step} ELSE r[k]] = s
            BY <3>1
        <3>5. s \in FormRecords
            BY <3>1, MeshBotAssumption DEF FormRecords, AllFields
        <3>6. form' = [form EXCEPT ![f] = s]
            BY <3>2, <3>3, <3>4
        <3>7. /\ s.owner = r.owner /\ s.phase = p /\ s.step = r.step + 1
              /\ s.answers = r.answers \union {r.step}
            OBVIOUS
        <3> HIDE DEF s
        <3>8. form'[f] = s /\ form' \in [Forms -> FormRecords] /\ \A g \in Forms : g # f => form'[g] = form[g]
            BY <3>5, <3>6, <1>3 DEF FormTypes
        <3>9. r = form[f]
            BY DEF r
        <3> QED  BY <1>7, <3>1, <3>7, <3>8, <3>9 DEF AnswerTaken
    <2>3. Onward
        BY <1>3, <1>7, <2>2 DEF Onward, FormTypes
    <2> QED  BY <1>3, <2>1, <2>3, FormSteps
<1> QED  BY <1>4, <1>5, <1>6, <1>7

LEMMA MovesWider ==
    ASSUME NEW n, NEW qcs, NEW pcs \in SUBSET qcs, Moves(n, pcs)
    PROVE  Moves(n, qcs)
BY DEF Moves

\* What a form's task does, and what it leaves to the trivia rounds.
LEMMA FormTaskKeeps ==
    ASSUME TasksOK, FormInv, NEW n \in DOMAIN botTasks, FormTask(n)
    PROVE  FormInv' /\ TasksOK' /\ UNCHANGED triviaVars /\ Moves(n, Pcs \ (AtQuestion \union {"scoring"}))
<1> DEFINE Rest == Pcs \ (AtQuestion \union {"scoring"})
<1>1. /\ {} \in SUBSET Rest /\ {"prefill"} \in SUBSET Rest /\ {"relabel"} \in SUBSET Rest
      /\ {"filing"} \in SUBSET Rest /\ {"relabel", "saving"} \in SUBSET Rest
      /\ {"prefill", "saving"} \in SUBSET Rest /\ {"winlink"} \in SUBSET Rest
    BY DEF Pcs, AtForm, GoingOut, AtQuestion
<1>2. CASE NoFormBegins(n)
    <2>1. Ends(n) /\ UNCHANGED <<triviaVars, formVars>>
        BY <1>2 DEF NoFormBegins
    <2>2. Moves(n, {}) /\ Quietly(n)
        BY <2>1 DEF Moves, Quietly
    <2> QED  BY <1>1, <2>1, <2>2, MovesWider, FormsRest
<1>3. CASE SkywarnBegins(n) \/ StripBegins(n) \/ PrefillArrives(n)
    BY <1>1, <1>3, FormBegins, MovesWider
<1>4. CASE SkywarnAnswer(n)
    BY <1>1, <1>4, SkywarnAnswerKeeps, MovesWider
<1>5. CASE SkywarnStep(n)
    BY <1>1, <1>5, SkywarnStepKeeps, MovesWider
<1>6. CASE ReportFiled(n)
    BY <1>1, <1>6, ReportFiledKeeps, MovesWider
<1>7. CASE StripAnswer(n)
    BY <1>1, <1>7, StripAnswerKeeps, MovesWider
<1>8. CASE StripStep(n)
    BY <1>1, <1>8, StripStepKeeps, MovesWider
<1>9. CASE StripSaved(n)
    BY <1>1, <1>9, StripSavedKeeps, MovesWider
<1>10. CASE StripGoesOut(n)
    BY <1>1, <1>10, StripGoesOutKeeps, MovesWider
<1> QED  BY <1>2, <1>3, <1>4, <1>5, <1>6, <1>7, <1>8, <1>9, <1>10 DEF FormTask

\* A message that arrives has no form yet.
LEMMA FormsHear ==
    ASSUME TasksOK, FormInv, NEW u \in BotUsers, NEW k \in Contexts, NEW w \in Words, Handle(u, k, w)
    PROVE  FormInv'
<1>1. UNCHANGED <<skywarn, strip, form, cancelled, filed, sentOut>>
    BY DEF Handle, formVars
<1>2. PICK z :
      /\ DOMAIN botTasks' = DOMAIN botTasks \union {z} /\ z \notin DOMAIN botTasks
      /\ \A i \in DOMAIN botTasks : botTasks'[i] = botTasks[i]
      /\ botTasks'[z].pc \in Unstarted
    BY HandleMap
<1>3. botTasks'[z].pc \notin AtForm
    BY <1>2 DEF Unstarted, AtForm, GoingOut
<1>4. Onward /\ filed' \in [Forms -> Nat] /\ sentOut' \in [Forms -> Nat]
    BY <1>1 DEF Onward, FormInv, FormTables, FormTypes
<1>5. FormTables' /\ FormsGrow /\ \A f \in cancelled' : Out(f)'
    BY <1>4, FormsOnward
<1>6. \A f \in Forms : /\ ReportOK(f)' <=> ReportOK(f)
                       /\ StripOK(f)' <=> StripOK(f)
                       /\ Superseded(f)' <=> Superseded(f)
                       /\ IsUsed(f)' <=> IsUsed(f)
    BY <1>1 DEF ReportOK, StripOK, AtDestination, Superseded, Begun, Out, IsUsed
<1>7. Outcomes'
    BY <1>1, <1>5, <1>6 DEF FormInv, FormUse, Outcomes
<1>8. \A i \in DOMAIN botTasks' : botTasks'[i].pc \in AtForm => i \in DOMAIN botTasks /\ botTasks'[i] = botTasks[i]
    BY <1>2, <1>3
<1>9. FormTasks'
    <2> SUFFICES ASSUME NEW i \in DOMAIN botTasks', botTasks'[i].pc \in AtForm
                 PROVE  \E g \in Forms :
                           /\ g = botTasks'[i].obj /\ IsUsed(g)' /\ form'[g].owner = botTasks'[i].user
                           /\ botTasks'[i].pc = "filing" => ReportOK(g)' /\ filed'[g] = 0
                           /\ botTasks'[i].pc \in GoingOut =>
                                 StripOK(g)' /\ (sentOut'[g] = 0 \/ Superseded(g)')
        BY DEF FormTasks, AtForm
    <2>1. i \in DOMAIN botTasks /\ botTasks'[i] = botTasks[i]
        BY <1>8
    <2>2. PICK g \in Forms : /\ g = botTasks[i].obj /\ IsUsed(g) /\ form[g].owner = botTasks[i].user
                             /\ botTasks[i].pc = "filing" => ReportOK(g) /\ filed[g] = 0
                             /\ botTasks[i].pc \in GoingOut => StripOK(g) /\ (sentOut[g] = 0 \/ Superseded(g))
        BY <2>1 DEF FormInv, FormUse, FormTasks
    <2> QED  BY <1>1, <1>6, <2>1, <2>2
<1>10. OneTaskEach'
    <2> SUFFICES ASSUME NEW i \in DOMAIN botTasks', NEW j \in DOMAIN botTasks',
                        botTasks'[i].obj = botTasks'[j].obj, i # j
                 PROVE  /\ ~(botTasks'[i].pc = "filing" /\ botTasks'[j].pc = "filing")
                        /\ botTasks'[i].pc \in GoingOut /\ botTasks'[j].pc \in GoingOut =>
                              \E g \in Forms : g = botTasks'[i].obj /\ Superseded(g)'
        BY DEF OneTaskEach
    <2>1. ASSUME botTasks'[i].pc \in AtForm, botTasks'[j].pc \in AtForm
          PROVE  /\ ~(botTasks'[i].pc = "filing" /\ botTasks'[j].pc = "filing")
                 /\ botTasks'[i].pc \in GoingOut /\ botTasks'[j].pc \in GoingOut =>
                       \E g \in Forms : g = botTasks'[i].obj /\ Superseded(g)'
        <3>1. /\ i \in DOMAIN botTasks /\ botTasks'[i] = botTasks[i]
              /\ j \in DOMAIN botTasks /\ botTasks'[j] = botTasks[j]
            BY <1>8, <2>1
        <3>2. botTasks[i].obj \in Forms
            BY <2>1, <3>1 DEF FormInv, FormUse, FormTasks
        <3> QED  BY <1>6, <3>1, <3>2 DEF FormInv, FormUse, OneTaskEach
    <2> QED  BY <2>1 DEF AtForm
<1> QED  BY <1>5, <1>7, <1>9, <1>10 DEF FormInv, FormUse

-----------------------------------------------------------------------------
(* The bot as a whole.                                                      *)

BotInv == TasksOK /\ TriviaInv /\ FormInv

LEMMA BotInvInit == BotInit => BotInv
<1> SUFFICES ASSUME BotInit PROVE BotInv
    OBVIOUS
<1>1. botTasks = <<>> /\ DOMAIN botTasks = {}
    BY DEF BotInit
<1>2. TasksOK
    BY <1>1 DEF TasksOK
<1>3. TriviaInv
    <2>1. TriviaTypes
        BY MeshBotAssumption DEF BotInit, TriviaTypes
    <2>2. QuestionInv
        <3>1. 0 \in 0 .. MaxQuestions /\ \A q \in Questions : judged[q] = -1 /\ ~(q <= 0)
            BY MeshBotAssumption DEF BotInit, Questions
        <3>2. \E p \in 0 .. MaxQuestions : \A q \in Questions : judged[q] # -1 <=> q <= p
            BY <3>1
        <3>3. \A k \in Contexts : pending[k] = 0
            BY DEF BotInit
        <3> QED  BY <1>1, <3>1, <3>2, <3>3 DEF QuestionInv
    <2>3. PauseInv
        BY DEF BotInit, PauseInv
    <2> QED  BY <2>1, <2>2, <2>3 DEF TriviaInv
<1>4. FormTables
    <2> DEFINE o == CHOOSE u \in BotUsers : TRUE
    <2>1. \A f \in Forms : form[f] = Fresh(o, "unused")
        BY DEF BotInit
    <2>2. /\ Fresh(o, "unused").phase = "unused" /\ Fresh(o, "unused") \in FormRecords
        BY MeshBotAssumption DEF Fresh, FormRecords, FormPhases, Owners
    <2> HIDE DEF o
    <2>3. /\ \A u \in BotUsers : skywarn[u] = 0 /\ strip[u] = 0
          /\ skywarn \in [BotUsers -> 0 .. MaxForms] /\ strip \in [BotUsers -> 0 .. MaxForms]
          /\ filed \in [Forms -> Nat] /\ sentOut \in [Forms -> Nat] /\ cancelled = {}
        BY MeshBotAssumption DEF BotInit
    <2>4. form \in [Forms -> FormRecords]
        BY <2>1, <2>2 DEF BotInit, o
    <2>5. \A f \in Forms : ~IsUsed(f) /\ form[f].phase = "unused" /\ ~(f <= 0)
        BY <2>1, <2>2 DEF IsUsed, Forms
    <2>6. Numbered
        BY <2>5, MeshBotAssumption DEF Numbered
    <2> QED  BY <2>3, <2>4, <2>5, <2>6 DEF FormTables, FormTypes, Shapes, Tables, StripPhases
<1>5. FormUse
    <2>1. \A f \in Forms : filed[f] = 0 /\ sentOut[f] = 0
        BY DEF BotInit
    <2>2. cancelled = {}
        BY DEF BotInit
    <2> QED  BY <1>1, <2>1, <2>2 DEF FormUse, Outcomes, FormTasks, OneTaskEach
<1> QED  BY <1>2, <1>3, <1>4, <1>5 DEF BotInv, FormInv

LEMMA BotInvRests ==
    ASSUME BotInv, UNCHANGED <<botTasks, triviaVars, formVars>>
    PROVE  BotInv'
<1>1. UNCHANGED <<botTasks, choosing, paused, chosen, pending, judged, late,
                  skywarn, strip, form, cancelled, filed, sentOut>>
    BY DEF triviaVars, formVars
<1>2. TasksOK' /\ TriviaTypes' /\ QuestionInv'
    BY <1>1 DEF BotInv, TasksOK, TriviaInv, TriviaTypes, QuestionInv, Scoring
<1>3. PauseInv'
    BY <1>1 DEF BotInv, TriviaInv, PauseInv, AskingAt
<1>4. FormTables'
    BY <1>1 DEF BotInv, FormInv, FormTables, FormTypes, Numbered, Shapes, Tables, IsUsed
<1>5. FormUse'
    <2>1. \A f : /\ ReportOK(f)' <=> ReportOK(f)
                 /\ StripOK(f)' <=> StripOK(f)
                 /\ Superseded(f)' <=> Superseded(f)
                 /\ IsUsed(f)' <=> IsUsed(f)
                 /\ Out(f)' <=> Out(f)
        BY <1>1 DEF ReportOK, StripOK, AtDestination, Superseded, Begun, Out, IsUsed
    <2>2. Outcomes'
        BY <1>1, <2>1 DEF BotInv, FormInv, FormUse, Outcomes
    <2>3. FormTasks' /\ OneTaskEach'
        BY <1>1 DEF BotInv, FormInv, FormUse, FormTasks, OneTaskEach, ReportOK, StripOK, AtDestination,
               Superseded, Begun, Out, IsUsed
    <2> QED  BY <2>2, <2>3 DEF FormUse
<1> QED  BY <1>2, <1>3, <1>4, <1>5 DEF BotInv, TriviaInv, FormInv

LEMMA BotInvStep == BotInv /\ [BotNext]_botVars => BotInv'
<1> SUFFICES ASSUME BotInv, [BotNext]_botVars PROVE BotInv'
    OBVIOUS
<1> USE DEF BotInv
<1>1. ASSUME NEW u \in BotUsers, NEW k \in Contexts, NEW w \in Words, Handle(u, k, w)
      PROVE  BotInv'
    BY <1>1, HandleMap, TriviaHears, FormsHear
<1>2. CASE BotHears(Words)
    BY <1>1, <1>2 DEF BotHears, Contexts
<1>3. ASSUME NEW n \in DOMAIN botTasks, TriviaTask(n)
      PROVE  BotInv'
    <2>1. UNCHANGED formVars
        BY <1>3 DEF TriviaTask, TriviaStop, TriviaBegins, PickBegins, CategoriesArrive,
                    QuestionArrives, AnswerBegins, Judge, NextInRound
    <2>2. TriviaInv' /\ Moves(n, AtQuestion \union {"scoring", "judged"})
        BY <1>3, TriviaTaskKeeps
    <2>3. AtQuestion \union {"scoring", "judged"} \in SUBSET (Pcs \ AtForm)
        BY DEF Pcs, AtForm, GoingOut, AtQuestion
    <2> QED  BY <2>1, <2>2, <2>3, QuietMoves, FormsRest
<1>4. ASSUME NEW n \in DOMAIN botTasks, FormTask(n)
      PROVE  BotInv'
    BY <1>4, FormTaskKeeps, TriviaRests DEF TriviaInv
<1>5. ASSUME NEW n \in DOMAIN botTasks, NotACommand(n) \/ GameTask(n)
      PROVE  BotInv'
    <2>1. Ends(n) /\ UNCHANGED <<triviaVars, formVars>>
        BY <1>5 DEF NotACommand, GameTask, GameOffered, GameMove
    <2>2. Moves(n, Pcs \ (AtQuestion \union {"scoring"})) /\ Quietly(n)
        BY <2>1 DEF Moves, Quietly
    <2> QED  BY <2>1, <2>2, FormsRest, TriviaRests DEF TriviaInv
<1>6. CASE BotTask
    BY <1>3, <1>4, <1>5, <1>6 DEF BotTask
<1>7. CASE GamesAge \/ UNCHANGED botVars
    <2>1. UNCHANGED <<botTasks, triviaVars, formVars>>
        BY <1>7 DEF GamesAge, Sweep, GameGoesIdle, botVars
    <2> QED  BY <2>1, BotInvRests
<1> QED  BY <1>2, <1>6, <1>7 DEF BotNext

THEOREM BotKeeps == BotSpec => []BotInv
BY BotInvInit, BotInvStep, PTL DEF BotSpec

\* A question is judged once and a strip sent once, unless its sender has begun
\* another form since, however many messages came in before the first of them
\* was served (_dispatch_trivia_answer, the destination of a strip), for any
\* number of users, channels and messages.
THEOREM QuestionsAndStripsAreUsedOnce == BotSpec => []UsedOnce
<1>1. BotInv => UsedOnce
    <2> SUFFICES ASSUME BotInv PROVE UsedOnce
        OBVIOUS
    <2>1. \A q \in Questions : judged[q] <= 1
        BY DEF BotInv, TriviaInv, QuestionInv
    <2>2. ASSUME NEW f \in Forms PROVE sentOut[f] <= 1 \/ Superseded(f)
        <3>1. sentOut[f] \in Nat
            BY DEF BotInv, FormInv, FormTables, FormTypes
        <3> QED  BY <3>1 DEF BotInv, FormInv, FormUse, Outcomes
    <2> QED  BY <2>1, <2>2 DEF UsedOnce
<1> QED  BY <1>1, BotKeeps, PTL

\* A report on file, or a strip sent that was not pasted, has all its answers,
\* is filed once and not after it was cancelled (_save_skywarn,
\* _send_strip_via_winlink), for forms of any length and any interleaving of
\* the answers at the database.
THEOREM ReportsAreWhole == BotSpec => []FiledReportsAreWhole
<1>1. BotInv => FiledReportsAreWhole
    <2> SUFFICES ASSUME BotInv, NEW f \in Forms, filed[f] + sentOut[f] > 0
                 PROVE  /\ form[f].phase # "pasted" => form[f].answers = AllFields
                        /\ filed[f] <= 1
                        /\ f \in cancelled => Superseded(f)
        BY DEF FiledReportsAreWhole
    <2>1. filed[f] \in Nat /\ sentOut[f] \in Nat
        BY DEF BotInv, FormInv, FormTables, FormTypes
    <2>2. filed[f] > 0 => ReportOK(f) /\ filed[f] = 1
        BY DEF BotInv, FormInv, FormUse, Outcomes
    <2>3. sentOut[f] > 0 => StripOK(f)
        BY DEF BotInv, FormInv, FormUse, Outcomes
    <2>4. ReportOK(f) => form[f].answers = AllFields
        BY DEF BotInv, FormInv, FormTables, Shapes, ReportOK, AllFields
    <2>5. StripOK(f) /\ form[f].phase # "pasted" => form[f].answers = AllFields
        BY DEF BotInv, FormInv, FormTables, Shapes, StripOK, AtDestination
    <2> QED  BY <2>1, <2>2, <2>3, <2>4, <2>5 DEF ReportOK, StripOK
<1> QED  BY <1>1, BotKeeps, PTL

\* After "trivia stop" no more questions follow than there were tasks on their
\* way to one, and categories picked since (_next_trivia_question).
THEOREM RoundsStop == BotSpec => []StopStops
<1>1. BotInv => StopStops
    <2> SUFFICES ASSUME BotInv, NEW k \in paused PROVE late[k] >= 0
        BY DEF StopStops
    <2>1. Cardinality(AskingAt(k)) <= late[k]
        BY DEF BotInv, TriviaInv, PauseInv
    <2>2. Cardinality(AskingAt(k)) \in Nat
        BY AskingFinite DEF BotInv
    <2>3. late[k] \in Int
        BY DEF BotInv, TriviaInv, TriviaTypes
    <2> QED  BY <2>1, <2>2, <2>3
<1> QED  BY <1>1, BotKeeps, PTL

-----------------------------------------------------------------------------
(* The bot's types: those of its games, and the number of its tasks.        *)

GameTypes ==
    /\ game \in [Contexts -> {"none", "choose", "playing"}]
    /\ roomItems \subseteq GameItems /\ carried \in [Contexts -> SUBSET GameItems]

Counted == received \in Nat /\ Len(botTasks) <= received /\ received <= MaxBotMessages

LEMMA GamesKeep ==
    ASSUME TasksOK, GameTypes, NEW n \in DOMAIN botTasks, GameTask(n)
    PROVE  GameTypes'
<1>1. PICK k \in Contexts : k = botTasks[n].place
    BY TaskIs
<1>2. CASE GameOffered(n)
    BY <1>1, <1>2 DEF GameOffered, GameTypes
<1>3. CASE GameMove(n)
    <2>1. CASE \E g \in {"choose", "playing", "none"} :
                  game' = [game EXCEPT ![k] = g] /\ UNCHANGED <<carried, roomItems>>
        BY <2>1 DEF GameTypes
    <2>2. CASE GameEnds(k) /\ UNCHANGED roomItems
        BY <2>2 DEF GameEnds, GameTypes
    <2>3. CASE \E i \in roomItems : /\ roomItems' = roomItems \ {i} /\ UNCHANGED game
                                    /\ carried' = [carried EXCEPT ![k] = carried[k] \union {i}]
        BY <1>1, <2>3 DEF GameTypes
    <2>4. CASE \E i \in carried[k] : /\ roomItems' = roomItems \union {i} /\ UNCHANGED game
                                     /\ carried' = [carried EXCEPT ![k] = carried[k] \ {i}]
        BY <1>1, <2>4 DEF GameTypes
    <2>5. CASE UNCHANGED <<game, carried, roomItems>>
        BY <2>5 DEF GameTypes
    <2> QED  BY <1>1, <1>3, <2>1, <2>2, <2>3, <2>4, <2>5 DEF GameMove
<1> QED  BY <1>2, <1>3 DEF GameTask

LEMMA GamesStep == BotInv /\ GameTypes /\ [BotNext]_botVars => GameTypes'
<1> SUFFICES ASSUME BotInv, GameTypes, [BotNext]_botVars PROVE GameTypes'
    OBVIOUS
<1>1. CASE UNCHANGED gameVars
    BY <1>1 DEF gameVars, GameTypes
<1>2. CASE \E n \in DOMAIN botTasks : GameTask(n)
    BY <1>2, GamesKeep DEF BotInv
<1>3. CASE GamesAge
    BY <1>3 DEF GamesAge, Sweep, GameGoesIdle, GameTypes
<1>4. CASE BotHears(Words)
    <2>1. UNCHANGED gameVars
        BY <1>4 DEF BotHears, Handle
    <2> QED  BY <1>1, <2>1
<1>5. ASSUME NEW n \in DOMAIN botTasks, NotACommand(n) \/ TriviaTask(n) \/ FormTask(n)
      PROVE  UNCHANGED gameVars
    <2>1. CASE NotACommand(n)
        BY <2>1 DEF NotACommand
    <2>2. CASE TriviaTask(n)
        BY <2>2 DEF TriviaTask, TriviaStop, TriviaBegins, PickBegins, CategoriesArrive,
                    QuestionArrives, AnswerBegins, Judge, NextInRound
    <2>3. CASE FormTask(n)
        BY <2>3 DEF FormTask, NoFormBegins, SkywarnBegins, SkywarnAnswer, SkywarnStep, ReportFiled,
                    StripBegins, PrefillArrives, StripAnswer, StripStep, StripSaved, StripGoesOut
    <2> QED  BY <1>5, <2>1, <2>2, <2>3
<1>6. CASE UNCHANGED botVars
    BY <1>1, <1>6 DEF botVars
<1> QED  BY <1>1, <1>2, <1>3, <1>4, <1>5, <1>6 DEF BotNext, BotTask

LEMMA CountStep == BotInv /\ Counted /\ [BotNext]_botVars => Counted'
<1> SUFFICES ASSUME BotInv, Counted, [BotNext]_botVars PROVE Counted'
    OBVIOUS
<1>1. Len(botTasks) \in Nat /\ received \in Nat /\ MaxBotMessages \in Nat
    BY MeshBotAssumption DEF BotInv, TasksOK, Counted
<1>2. ASSUME NEW n \in DOMAIN botTasks, NEW pcs \in SUBSET Pcs, Moves(n, pcs)
      PROVE  Counted'
    <2>1. Len(botTasks') <= Len(botTasks) /\ received' = received /\ TasksOK'
        BY <1>2, MovesMap DEF BotInv
    <2>2. Len(botTasks') \in Nat
        BY <2>1 DEF TasksOK
    <2> QED  BY <1>1, <2>1, <2>2 DEF Counted
<1>3. CASE BotHears(Words)
    <2>1. PICK u \in BotUsers, w \in Words, k \in Contexts : Handle(u, k, w)
        BY <1>3 DEF BotHears, Contexts
    <2>2. Len(botTasks') = Len(botTasks) + 1
        BY <2>1, HandleMap DEF BotInv
    <2>3. received' = received + 1 /\ received < MaxBotMessages
        BY <2>1 DEF Handle
    <2> QED  BY <1>1, <2>2, <2>3 DEF Counted
<1>4. CASE BotTask
    <2>1. PICK n \in DOMAIN botTasks : NotACommand(n) \/ TriviaTask(n) \/ FormTask(n) \/ GameTask(n)
        BY <1>4 DEF BotTask
    <2>2. CASE NotACommand(n) \/ GameTask(n)
        <3>1. Ends(n)
            BY <2>2 DEF NotACommand, GameTask, GameOffered, GameMove
        <3>2. Moves(n, {}) /\ {} \in SUBSET Pcs
            BY <3>1 DEF Moves
        <3> QED  BY <1>2, <3>2
    <2>3. CASE TriviaTask(n)
        <3>1. AtQuestion \union {"scoring", "judged"} \in SUBSET Pcs
            BY DEF Pcs
        <3> QED  BY <1>2, <2>3, <3>1, TriviaTaskKeeps DEF BotInv
    <2>4. CASE FormTask(n)
        <3>1. Pcs \ (AtQuestion \union {"scoring"}) \in SUBSET Pcs
            OBVIOUS
        <3> QED  BY <1>2, <2>4, <3>1, FormTaskKeeps DEF BotInv
    <2> QED  BY <2>1, <2>2, <2>3, <2>4
<1>5. CASE GamesAge \/ UNCHANGED botVars
    BY <1>5 DEF GamesAge, Sweep, GameGoesIdle, botVars, Counted
<1> QED  BY <1>3, <1>4, <1>5 DEF BotNext

\* The variables keep to their sets, and there are never more tasks than messages.
THEOREM MeshBotTypeCorrect == BotSpec => []MeshBotTypeOK
<1>1. BotInit => GameTypes /\ Counted
    BY MeshBotAssumption DEF BotInit, GameTypes, Counted
<1>2. BotInv /\ GameTypes /\ Counted => MeshBotTypeOK
    <2> SUFFICES ASSUME BotInv, GameTypes, Counted PROVE MeshBotTypeOK
        OBVIOUS
    <2>1. \A n \in DOMAIN botTasks :
             /\ botTasks[n].user \in BotUsers /\ botTasks[n].place \in Contexts
             /\ botTasks[n].word \in Words /\ botTasks[n].obj \in Nat
        BY TaskIs DEF BotInv
    <2>2. \A f \in Forms : form[f].step \in 0 .. Fields /\ form[f].answers \subseteq AllFields
        BY DEF BotInv, FormInv, FormTables, FormTypes, FormRecords
    <2> QED  BY <2>1, <2>2 DEF BotInv, TriviaInv, TriviaTypes, FormInv, FormTables, FormTypes,
                              GameTypes, Counted, MeshBotTypeOK
<1> QED  BY <1>1, <1>2, BotInvInit, BotInvStep, GamesStep, CountStep, PTL DEF BotSpec

-----------------------------------------------------------------------------
(* The broadcasts.                                                          *)

Times == Never .. MaxClock

Airings == [at : Times, sort : Sorts, run : 0 .. MaxPollRestarts, knew : SUBSET Nat]

PollPcs    == {"idle", "next", "check", "sending", "saving"}
PollStates == [pc : PollPcs, todo : SUBSET Reports, at : Times, nth : Nat,
               report : Reports \union {CHOOSE r \in Reports : TRUE}]

AirTypes ==
    /\ clock \in 0 .. MaxClock /\ run \in 0 .. MaxPollRestarts
    /\ lastAuto \in Times /\ lastOf \in [Sorts -> Times]
    /\ savedState \in [last : Times, of : [Sorts -> Times]]
    /\ aired \in Seq(Airings)
    /\ hourly \subseteq recorded /\ onRecord \subseteq recorded /\ recorded \subseteq DOMAIN aired
    /\ poll \in [Polls -> PollStates]

InSend(p) == poll[p].pc = "sending"

PollsInv ==
    /\ \A p \in Polls :
          /\ poll[p].pc = "check" => poll[p].report \in Reports
          /\ service = "pota" /\ poll[p].pc # "idle" => poll[p].at <= clock
          /\ InSend(p) =>
                /\ poll[p].report \in Reports
                /\ poll[p].nth \in DOMAIN aired \ recorded
                /\ aired[poll[p].nth].at = poll[p].at
                /\ aired[poll[p].nth].sort = SortOf[poll[p].report]
    /\ \A p, q \in Polls : InSend(p) /\ InSend(q) /\ poll[p].nth = poll[q].nth => p = q
    /\ \A i \in DOMAIN aired : aired[i].run <= run /\ aired[i].knew \subseteq DOMAIN aired

\* The times last and of are not before those of the broadcasts known.
Covers(last, of, known) ==
    \A i \in known : /\ aired[i].at <= last
                     /\ service # "pota" => aired[i].at <= of[aired[i].sort]

SpacingInv ==
    ~overlapped =>
       /\ Covers(lastAuto, lastOf, recorded)
       /\ Covers(savedState.last, savedState.of, onRecord)
       /\ \A p, q \in Polls : InSend(p) /\ InSend(q) => p = q
       /\ \A p \in Polls : InSend(p) =>
             /\ lastAuto <= poll[p].at
             /\ service # "pota" => lastOf[SortOf[poll[p].report]] <= poll[p].at

\* A poll of an older fetch that cannot broadcast any more, or only beside another.
Blocked(q) ==
    \/ Cardinality(ThisHour(q)) >= MaxPerHour
    \/ lastAuto > poll[q].at
    \/ \E p \in Polls : InSend(p) /\ poll[p].at > poll[q].at

\* What the hour's list dropped is an hour old, for every poll that may broadcast.
Dropped(i) == i \in recorded /\ aired[i].run = run /\ i \notin hourly

HourInv ==
    \A i \in recorded : Dropped(i) =>
       \/ overlapped /\ service = "pota"
       \/ /\ clock - aired[i].at >= Hour
          /\ service = "pota" =>
                \A q \in Polls : poll[q].pc # "idle" /\ poll[q].at - aired[i].at < Hour => Blocked(q)

AirInv == AirTypes /\ PollsInv /\ SpacingInv /\ HourInv /\ LimitsHold

LEMMA TimesAre ==
    /\ Times \subseteq Int /\ 0 \in Times /\ Never \in Times /\ 0 .. MaxClock \subseteq Times
    /\ Hour \in Nat /\ MaxClock \in Nat /\ MinInterval \in Nat /\ Cooldown \in Nat
    /\ MaxPerHour \in Nat /\ MaxPollRestarts \in Nat
    /\ NoPoll \in PollStates /\ NoPoll.pc = "idle"
BY BroadcastsAssumption DEF Times, Never, NoPoll, PollStates, PollPcs

LEMMA AirInvInit == AirInit => AirInv
<1> SUFFICES ASSUME AirInit PROVE AirInv
    OBVIOUS
<1>1. /\ aired = <<>> /\ recorded = {} /\ onRecord = {} /\ hourly = {}
      /\ poll = [p \in Polls |-> NoPoll] /\ clock = 0 /\ run = 0
      /\ lastAuto = Never /\ lastOf = [s \in Sorts |-> Never]
      /\ savedState = [last |-> Never, of |-> [s \in Sorts |-> Never]]
    BY DEF AirInit
<1>2. AirTypes
    BY <1>1, TimesAre DEF AirTypes
<1>3. \A p \in Polls : poll[p].pc = "idle"
    BY <1>1, TimesAre
<1> QED  BY <1>1, <1>2, <1>3 DEF AirInv, PollsInv, InSend, SpacingInv, Covers, HourInv, LimitsHold

LEMMA AiringsAre ==
    ASSUME AirTypes
    PROVE  /\ Len(aired) \in Nat /\ DOMAIN aired = 1 .. Len(aired)
           /\ \A i \in DOMAIN aired : /\ aired[i] \in Airings /\ aired[i].at \in Times /\ aired[i].at \in Int
                                      /\ aired[i].sort \in Sorts /\ aired[i].run \in Nat
<1>1. Len(aired) \in Nat /\ DOMAIN aired = 1 .. Len(aired)
    BY DEF AirTypes
<1>2. ASSUME NEW i \in DOMAIN aired
      PROVE  /\ aired[i] \in Airings /\ aired[i].at \in Times /\ aired[i].at \in Int
             /\ aired[i].sort \in Sorts /\ aired[i].run \in Nat
    <2>1. aired[i] \in Airings
        BY <1>1 DEF AirTypes
    <2>2. aired[i].at \in Times /\ aired[i].sort \in Sorts /\ aired[i].run \in 0 .. MaxPollRestarts
        BY <2>1 DEF Airings
    <2>3. Times \subseteq Int
        BY TimesAre
    <2>4. aired[i].at \in Int
        BY <2>2, <2>3
    <2>5. aired[i].run \in Nat
        BY <2>2
    <2> QED  BY <2>1, <2>2, <2>4, <2>5
<1> QED  BY <1>1, <1>2

LEMMA HourFinite ==
    ASSUME AirTypes, NEW h \in SUBSET DOMAIN aired
    PROVE  IsFiniteSet(h) /\ Cardinality(h) \in Nat
<1>1. DOMAIN aired = 1 .. Len(aired) /\ Len(aired) \in Nat
    BY DEF AirTypes
<1>2. h \in SUBSET (1 .. Len(aired)) /\ IsFiniteSet(1 .. Len(aired))
    BY <1>1, FS_Interval DEF AirTypes
<1> QED  BY <1>2, FS_Subset, FS_CardinalityType

\* A poll goes on outside the send; the service may have saved its state.
LEMMA PollQuiet ==
    ASSUME AirInv, NEW p \in Polls, NEW st \in PollStates, poll' = [poll EXCEPT ![p] = st],
           UNCHANGED <<service, clock, lastAuto, lastOf, hourly, aired, recorded, overlapped, run>>,
           savedState' \in [last : Times, of : [Sorts -> Times]], onRecord' \subseteq recorded,
           ~overlapped => Covers(savedState'.last, savedState'.of, onRecord'),
           ~InSend(p), st.pc # "sending", st.pc = "check" => st.report \in Reports,
           service = "pota" /\ st.pc # "idle" =>
              (poll[p].pc # "idle" /\ st.at = poll[p].at) \/ st.at = clock
    PROVE  AirInv'
<1>1. /\ AirTypes /\ clock \in Int /\ Hour \in Nat /\ Times \subseteq Int
      /\ poll' \in [Polls -> PollStates]
      /\ poll'[p] = st /\ \A q \in Polls : q # p => poll'[q] = poll[q]
      /\ \A q \in Polls : poll[q].at \in Times
    BY TimesAre DEF AirInv, AirTypes, PollStates
<1>2. AirTypes'
    BY <1>1 DEF AirTypes
<1>3. \A q \in Polls : (InSend(q)' <=> InSend(q)) /\ (InSend(q) => q # p /\ poll'[q] = poll[q])
    BY <1>1 DEF InSend
<1>4. PollsInv'
    <2>1. ASSUME NEW q \in Polls
          PROVE  /\ poll'[q].pc = "check" => poll'[q].report \in Reports
                 /\ service' = "pota" /\ poll'[q].pc # "idle" => poll'[q].at <= clock'
                 /\ InSend(q)' => /\ poll'[q].report \in Reports
                                  /\ poll'[q].nth \in DOMAIN aired' \ recorded'
                                  /\ aired'[poll'[q].nth].at = poll'[q].at
                                  /\ aired'[poll'[q].nth].sort = SortOf[poll'[q].report]
        <3>1. CASE q = p
            BY <1>1, <1>3, <3>1 DEF AirInv, PollsInv
        <3>2. CASE q # p
            BY <1>1, <1>3, <3>2 DEF AirInv, PollsInv
        <3> QED  BY <3>1, <3>2
    <2>2. \A q, r \in Polls : InSend(q)' /\ InSend(r)' /\ poll'[q].nth = poll'[r].nth => q = r
        BY <1>3 DEF AirInv, PollsInv
    <2> QED  BY <2>1, <2>2 DEF AirInv, PollsInv
<1>5. SpacingInv'
    <2>1. ~overlapped => Covers(lastAuto, lastOf, recorded)'
        BY DEF AirInv, SpacingInv, Covers
    <2>2. ~overlapped => Covers(savedState.last, savedState.of, onRecord)'
        BY DEF Covers
    <2> QED  BY <1>3, <2>1, <2>2 DEF AirInv, SpacingInv
<1>6. HourInv'
    <2> SUFFICES ASSUME NEW i \in recorded, Dropped(i), ~(overlapped /\ service = "pota")
                 PROVE  /\ clock - aired[i].at >= Hour
                        /\ service = "pota" =>
                              \A q \in Polls : poll'[q].pc # "idle" /\ poll'[q].at - aired[i].at < Hour => Blocked(q)'
        BY DEF HourInv, Dropped
    <2>1. clock - aired[i].at >= Hour
        BY DEF AirInv, HourInv
    <2>2. ASSUME service = "pota", NEW q \in Polls, poll'[q].pc # "idle", poll'[q].at - aired[i].at < Hour
          PROVE  Blocked(q)'
        <3>0. aired[i].at \in Int
            BY <1>1, AiringsAre DEF AirTypes
        <3>1. poll[q].pc # "idle" /\ poll'[q].at = poll[q].at
            <4>1. CASE q = p
                BY <1>1, <2>1, <2>2, <3>0, <4>1
            <4>2. CASE q # p
                BY <1>1, <2>2, <4>2
            <4> QED  BY <4>1, <4>2
        <3>2. Blocked(q)
            BY <2>2, <3>1 DEF AirInv, HourInv
        <3>3. ThisHour(q)' = ThisHour(q)
            BY <2>2, <3>1 DEF ThisHour, Now
        <3> QED  BY <1>3, <3>1, <3>2, <3>3 DEF Blocked
    <2> QED  BY <2>1, <2>2
<1>7. LimitsHold'
    BY DEF AirInv, LimitsHold, KnownOfRun
<1> QED  BY <1>2, <1>4, <1>5, <1>6, <1>7 DEF AirInv

\* The steps of a poll on its way to a check, and after the send.
LEMMA PollGoesOn ==
    ASSUME AirInv, NEW p \in Polls,
           \/ PollEnds(p) \/ StateSaved(p)
           \/ \E found \in SUBSET Reports : PollFetches(p, found)
           \/ \E r \in Reports : PollPasses(p, r) \/ PollMeets(p, r)
    PROVE  AirInv'
<1>1. /\ AirTypes /\ poll[p] \in PollStates /\ clock \in Times
      /\ DOMAIN poll[p] = {"pc", "todo", "at", "nth", "report"}
      /\ NoPoll \in PollStates /\ DOMAIN NoPoll = {"pc", "todo", "at", "nth", "report"} /\ 0 \in Times
    BY TimesAre DEF AirInv, AirTypes, PollStates
<1>2. UNCHANGED <<service, clock, lastAuto, lastOf, hourly, aired, recorded, overlapped, run>>
    BY DEF PollEnds, StateSaved, PollFetches, PollPasses, PollMeets
<1>3. ~InSend(p)
    BY DEF PollEnds, StateSaved, PollFetches, PollPasses, PollMeets, InSend
<1>4. /\ savedState' \in [last : Times, of : [Sorts -> Times]] /\ onRecord' \subseteq recorded
      /\ ~overlapped => Covers(savedState'.last, savedState'.of, onRecord')
    <2>1. CASE UNCHANGED <<savedState, onRecord>>
        BY <1>1, <2>1 DEF AirTypes, AirInv, SpacingInv
    <2>2. CASE savedState' = Snapshot /\ onRecord' = onRecord \union recorded
        <3>1. onRecord' = recorded /\ savedState' = [last |-> lastAuto, of |-> lastOf]
            BY <1>1, <2>2 DEF AirTypes, Snapshot
        <3>2. savedState'.last = lastAuto /\ savedState'.of = lastOf
            BY <3>1
        <3> QED  BY <1>1, <3>1, <3>2 DEF AirTypes, AirInv, SpacingInv
    <2> QED  BY <2>1, <2>2 DEF PollEnds, StateSaved, PollFetches, PollPasses, PollMeets
<1>5. PICK st \in PollStates :
          /\ poll' = [poll EXCEPT ![p] = st]
          /\ st.pc # "sending" /\ (st.pc = "check" => st.report \in Reports)
          /\ service = "pota" /\ st.pc # "idle" =>
                (poll[p].pc # "idle" /\ st.at = poll[p].at) \/ st.at = clock
    <2>1. CASE PollEnds(p)
        BY <1>1, <2>1, TimesAre DEF PollEnds
    <2>2. CASE StateSaved(p)
        <3> DEFINE t == poll[p]
                   st == [pc |-> "next", todo |-> t.todo, nth |-> NoPoll.nth, report |-> NoPoll.report,
                          at |-> IF service = "pota" THEN t.at ELSE 0]
        <3>1. t \in PollStates /\ t.pc = "saving"
            BY <1>1, <2>2 DEF StateSaved
        <3>2. NextReport(t) = st
            <4>1. NextReport(t) = [f \in DOMAIN NoPoll |->
                     IF f = "at" THEN IF service = "pota" THEN t.at ELSE 0
                     ELSE IF f = "todo" THEN t.todo ELSE IF f = "pc" THEN "next" ELSE NoPoll[f]]
                BY <1>1 DEF NextReport
            <4>2. [f \in DOMAIN NoPoll |->
                     IF f = "at" THEN IF service = "pota" THEN t.at ELSE 0
                     ELSE IF f = "todo" THEN t.todo ELSE IF f = "pc" THEN "next" ELSE NoPoll[f]] = st
                BY <1>1
            <4> QED  BY <4>1, <4>2
        <3>3. poll' = [poll EXCEPT ![p] = NextReport(t)]
            BY <2>2, <1>1 DEF StateSaved, AirTypes
        <3>4. st \in PollStates
            BY <1>1, <3>1 DEF PollStates, PollPcs
        <3> QED  BY <3>1, <3>2, <3>3, <3>4
    <2>3. ASSUME NEW found \in SUBSET Reports, PollFetches(p, found)
          PROVE  \E st \in PollStates :
                    /\ poll' = [poll EXCEPT ![p] = st]
                    /\ st.pc = "next" /\ (service = "pota" => st.at = clock)
        <3> DEFINE t == poll[p]
                   a == IF service = "pota" THEN clock ELSE 0
                   st == [pc |-> "next", todo |-> found, at |-> a, nth |-> t.nth, report |-> t.report]
        <3>1. poll' = [poll EXCEPT ![p] = [[[t EXCEPT !.pc = "next"] EXCEPT !.todo = found] EXCEPT !.at = a]]
            BY <1>1, <2>3 DEF PollFetches, AirTypes
        <3>2. t \in PollStates /\ DOMAIN t = {"pc", "todo", "at", "nth", "report"} /\ a \in Times
            BY <1>1
        <3>3. st \in PollStates
            BY <3>2 DEF PollStates, PollPcs
        <3> HIDE DEF t
        <3>4. [[[t EXCEPT !.pc = "next"] EXCEPT !.todo = found] EXCEPT !.at = a] =
                [f \in DOMAIN t |-> IF f = "at" THEN a ELSE IF f = "todo" THEN found
                                    ELSE IF f = "pc" THEN "next" ELSE t[f]]
            BY <3>2
        <3>5. [f \in DOMAIN t |-> IF f = "at" THEN a ELSE IF f = "todo" THEN found
                                    ELSE IF f = "pc" THEN "next" ELSE t[f]] = st
            BY <3>2
        <3>6. poll' = [poll EXCEPT ![p] = st]
            BY <3>1, <3>4, <3>5
        <3>7. st.pc = "next" /\ (service = "pota" => st.at = clock)
            OBVIOUS
        <3> HIDE DEF st
        <3> QED  BY <3>3, <3>6, <3>7
    <2>4. ASSUME NEW r \in Reports, PollPasses(p, r)
          PROVE  \E st \in PollStates :
                    /\ poll' = [poll EXCEPT ![p] = st]
                    /\ st.pc = "next" /\ poll[p].pc = "next" /\ st.at = poll[p].at
        <3> DEFINE t == poll[p]
                   d == t.todo \ {r}
                   st == [pc |-> t.pc, todo |-> d, at |-> t.at, nth |-> t.nth, report |-> t.report]
        <3>1. poll' = [poll EXCEPT ![p] = [t EXCEPT !.todo = d]] /\ t.pc = "next"
            BY <1>1, <2>4 DEF PollPasses, AirTypes
        <3>2. t \in PollStates /\ DOMAIN t = {"pc", "todo", "at", "nth", "report"} /\ poll[p] = t
            BY <1>1
        <3>3. st \in PollStates
            BY <3>2 DEF PollStates, PollPcs
        <3> HIDE DEF t
        <3>4. [t EXCEPT !.todo = d] = [f \in DOMAIN t |-> IF f = "todo" THEN d ELSE t[f]]
            BY <3>2
        <3>5. [f \in DOMAIN t |-> IF f = "todo" THEN d ELSE t[f]] = st
            BY <3>2
        <3>6. poll' = [poll EXCEPT ![p] = st]
            BY <3>1, <3>4, <3>5
        <3>7. st.pc = t.pc /\ st.at = t.at
            OBVIOUS
        <3> HIDE DEF st
        <3> QED  BY <3>1, <3>2, <3>3, <3>6, <3>7
    <2>5. ASSUME NEW r \in Reports, PollMeets(p, r)
          PROVE  \E st \in PollStates :
                    /\ poll' = [poll EXCEPT ![p] = st]
                    /\ st.pc = "check" /\ st.report = r /\ poll[p].pc = "next" /\ st.at = poll[p].at
        <3> DEFINE t == poll[p]
                   d == t.todo \ {r}
                   st == [pc |-> "check", todo |-> d, at |-> t.at, nth |-> t.nth, report |-> r]
        <3>1. /\ poll' = [poll EXCEPT ![p] = [[[t EXCEPT !.pc = "check"] EXCEPT !.todo = d] EXCEPT !.report = r]]
              /\ t.pc = "next"
            BY <1>1, <2>5 DEF PollMeets, AirTypes
        <3>2. t \in PollStates /\ DOMAIN t = {"pc", "todo", "at", "nth", "report"} /\ poll[p] = t
            BY <1>1
        <3>3. st \in PollStates
            BY <3>2 DEF PollStates, PollPcs
        <3> HIDE DEF t
        <3>4. [[[t EXCEPT !.pc = "check"] EXCEPT !.todo = d] EXCEPT !.report = r] =
                [f \in DOMAIN t |-> IF f = "report" THEN r ELSE IF f = "todo" THEN d
                                    ELSE IF f = "pc" THEN "check" ELSE t[f]]
            BY <3>2
        <3>5. [f \in DOMAIN t |-> IF f = "report" THEN r ELSE IF f = "todo" THEN d
                                    ELSE IF f = "pc" THEN "check" ELSE t[f]] = st
            BY <3>2
        <3>6. poll' = [poll EXCEPT ![p] = st]
            BY <3>1, <3>4, <3>5
        <3>7. st.pc = "check" /\ st.report = r /\ st.at = t.at
            OBVIOUS
        <3> HIDE DEF st
        <3> QED  BY <3>1, <3>2, <3>3, <3>6, <3>7
    <2> QED  BY <2>1, <2>2, <2>3, <2>4, <2>5
<1> QED  BY <1>2, <1>3, <1>4, <1>5, PollQuiet

LEMMA ClockKeeps ==
    ASSUME AirInv, ClockTicks
    PROVE  AirInv'
<1>1. /\ clock' = clock + 1 /\ clock < MaxClock
      /\ UNCHANGED <<service, lastAuto, lastOf, hourly, savedState, poll, aired, recorded,
                     onRecord, overlapped, run>>
    BY DEF ClockTicks
<1>2. AirTypes /\ clock \in Int /\ MaxClock \in Int
    BY TimesAre DEF AirInv, AirTypes
<1>3. AirTypes'
    BY <1>1, <1>2 DEF AirTypes
<1>4. \A p \in Polls : poll[p].at \in Int
    BY <1>2, TimesAre DEF AirTypes, PollStates
<1>5. PollsInv'
    BY <1>1, <1>2, <1>4 DEF AirInv, PollsInv, InSend
<1>6. SpacingInv'
    BY <1>1 DEF AirInv, SpacingInv, Covers, InSend
<1>7. HourInv'
    <2> SUFFICES ASSUME NEW i \in recorded, Dropped(i), ~(overlapped /\ service = "pota")
                 PROVE  /\ clock' - aired[i].at >= Hour
                        /\ service = "pota" =>
                              \A q \in Polls : poll[q].pc # "idle" /\ poll[q].at - aired[i].at < Hour => Blocked(q)'
        BY <1>1 DEF HourInv, Dropped
    <2>1. clock - aired[i].at >= Hour
        BY DEF AirInv, HourInv
    <2>2. aired[i].at \in Int /\ Hour \in Int
        BY <1>2, AiringsAre, TimesAre DEF AirTypes
    <2>3. ASSUME service = "pota", NEW q \in Polls, poll[q].pc # "idle", poll[q].at - aired[i].at < Hour
          PROVE  Blocked(q)'
        <3>1. Blocked(q)
            BY <2>3 DEF AirInv, HourInv
        <3>2. ThisHour(q)' = ThisHour(q)
            BY <1>1, <2>3 DEF ThisHour, Now
        <3> QED  BY <1>1, <3>1, <3>2 DEF Blocked, InSend
    <2> QED  BY <1>1, <1>2, <2>1, <2>2, <2>3
<1>8. LimitsHold'
    BY <1>1 DEF AirInv, LimitsHold, KnownOfRun
<1> QED  BY <1>3, <1>5, <1>6, <1>7, <1>8 DEF AirInv

\* What the service had not saved is forgotten, in its memory and in the list.
LEMMA RestartKeeps ==
    ASSUME AirInv, ServiceRestarts
    PROVE  AirInv'
<1>1. /\ run' = run + 1 /\ run < MaxPollRestarts
      /\ lastAuto' = savedState.last /\ lastOf' = savedState.of
      /\ hourly' = {} /\ recorded' = onRecord /\ poll' = [q \in Polls |-> NoPoll]
      /\ UNCHANGED <<service, clock, savedState, aired, onRecord, overlapped>>
    BY DEF ServiceRestarts
<1>2. AirTypes /\ run \in Int /\ MaxPollRestarts \in Int
    BY TimesAre DEF AirInv, AirTypes
<1>3. /\ AirTypes'
      /\ \A p \in Polls : poll'[p].pc = "idle"
    BY <1>1, <1>2, TimesAre DEF AirTypes
<1>4. \A i \in DOMAIN aired : aired[i].run < run'
    BY <1>1, <1>2, AiringsAre DEF AirInv, PollsInv
<1>5. PollsInv'
    BY <1>1, <1>2, <1>3, <1>4, AiringsAre DEF AirInv, PollsInv, InSend
<1>6. SpacingInv'
    BY <1>1, <1>3 DEF AirInv, SpacingInv, Covers, InSend
<1>7. HourInv'
    <2>1. \A i \in recorded' : aired'[i].run # run'
        BY <1>1, <1>2, <1>4, AiringsAre DEF AirTypes
    <2> QED  BY <2>1 DEF HourInv, Dropped
<1>8. LimitsHold'
    BY <1>1 DEF AirInv, LimitsHold, KnownOfRun
<1> QED  BY <1>3, <1>5, <1>6, <1>7, <1>8 DEF AirInv

\* The list drops what is an hour old for the poll that looks at it.
LEMMA DropsOlder ==
    ASSUME AirInv, NEW p \in Polls, poll[p].pc = "check", hourly' = ThisHour(p),
           UNCHANGED <<service, clock, lastAuto, recorded, run>>,
           \A i \in recorded : aired'[i] = aired[i],
           overlapped => overlapped',
           \A q \in Polls : /\ poll'[q].pc # "idle" => poll[q].pc # "idle"
                            /\ service = "pota" => poll'[q].at = poll[q].at
                            /\ InSend(q) => InSend(q)',
           service = "pota" => Cardinality(ThisHour(p)) >= MaxPerHour \/ InSend(p)'
    PROVE  HourInv'
<1>1. /\ AirTypes /\ clock \in Int /\ Hour \in Int /\ MaxPerHour \in Int
      /\ \A i \in recorded : aired[i].at \in Int
      /\ \A q \in Polls : poll[q].at \in Int
    <2>1. AirTypes /\ recorded \subseteq DOMAIN aired
        BY DEF AirInv, AirTypes
    <2>2. clock \in Int /\ Hour \in Int /\ MaxPerHour \in Int
        BY <2>1, TimesAre DEF AirTypes
    <2>3. \A i \in recorded : aired[i].at \in Int
        BY <2>1, AiringsAre
    <2>4. \A q \in Polls : poll[q].at \in Int
        BY <2>1, TimesAre DEF AirTypes, PollStates
    <2> QED  BY <2>1, <2>2, <2>3, <2>4
<1> SUFFICES ASSUME NEW i \in recorded, aired[i].run = run, i \notin ThisHour(p),
                    ~(overlapped' /\ service = "pota")
             PROVE  /\ clock - aired[i].at >= Hour
                    /\ service = "pota" =>
                          \A q \in Polls : poll'[q].pc # "idle" /\ poll'[q].at - aired[i].at < Hour => Blocked(q)'
    BY DEF HourInv, Dropped
<1>2. ~(overlapped /\ service = "pota")
    OBVIOUS
<1>3. i \in hourly => Now(p) - aired[i].at >= Hour
    <2>1. Now(p) \in Int
        BY <1>1 DEF Now
    <2> QED  BY <1>1, <2>1 DEF ThisHour
<1>4. Now(p) <= clock /\ Now(p) \in Int
    BY <1>1 DEF Now, AirInv, PollsInv
<1>5. clock - aired[i].at >= Hour
    <2>1. CASE i \in hourly
        BY <2>1, <1>1, <1>3, <1>4
    <2>2. CASE i \notin hourly
        BY <2>2, <1>2 DEF AirInv, HourInv, Dropped
    <2> QED  BY <2>1, <2>2
<1>6. ASSUME service = "pota", NEW q \in Polls, poll'[q].pc # "idle", poll'[q].at - aired[i].at < Hour
      PROVE  Blocked(q)'
    <2>1. Now(p) = poll[p].at /\ Now(q) = poll[q].at /\ poll'[q].at = poll[q].at /\ poll[q].pc # "idle"
        BY <1>6 DEF Now
    <2>2. /\ ThisHour(q) = {k \in hourly : aired[k].at > poll[q].at - Hour}
          /\ ThisHour(p) = {k \in hourly : aired[k].at > poll[p].at - Hour}
          /\ ThisHour(q)' = {k \in ThisHour(p) : aired[k].at > poll[q].at - Hour}
        <3>1. hourly \subseteq recorded
            BY <1>1 DEF AirTypes
        <3>2. ThisHour(p) \subseteq recorded
            BY <3>1 DEF ThisHour
        <3> QED  BY <1>6, <2>1, <3>2 DEF ThisHour, Now
    <2>3. CASE poll[q].at >= poll[p].at
        <3>1. i \notin hourly
            BY <1>1, <1>3, <1>6, <2>1, <2>3
        <3>2. Blocked(q)
            BY <1>2, <1>6, <2>1, <3>1 DEF AirInv, HourInv, Dropped
        <3>3. ThisHour(q)' = ThisHour(q)
            <4>1. hourly \subseteq recorded
                BY <1>1 DEF AirTypes
            <4>2. \A k \in hourly : aired[k].at > poll[q].at - Hour => aired[k].at > poll[p].at - Hour
                BY <1>1, <2>3, <4>1
            <4> QED  BY <2>2, <4>2
        <3> QED  BY <1>6, <2>1, <3>2, <3>3 DEF Blocked
    <2>4. CASE ~(poll[q].at >= poll[p].at)
        <3>1. poll[p].at > poll[q].at
            BY <1>1, <2>4
        <3>2. CASE InSend(p)'
            BY <1>6, <2>1, <3>1, <3>2 DEF Blocked
        <3>3. CASE Cardinality(ThisHour(p)) >= MaxPerHour
            <4>1. hourly \subseteq recorded
                BY <1>1 DEF AirTypes
            <4>2. \A k \in ThisHour(p) : aired[k].at > poll[q].at - Hour
                BY <1>1, <2>2, <3>1, <4>1
            <4>3. ThisHour(q)' = ThisHour(p)
                BY <2>2, <4>2
            <4> QED  BY <3>3, <4>3 DEF Blocked
        <3> QED  BY <1>6, <3>2, <3>3
    <2> QED  BY <2>3, <2>4
<1> QED  BY <1>5, <1>6

LEMMA SkippedKeeps ==
    ASSUME AirInv, NEW p \in Polls, Skipped(p)
    PROVE  AirInv'
<1> DEFINE a == IF service = "pota" THEN poll[p].at ELSE 0
           st == [pc |-> "next", todo |-> poll[p].todo, nth |-> NoPoll.nth, report |-> NoPoll.report, at |-> a]
<1>1. /\ AirTypes /\ poll[p] \in PollStates /\ poll[p].pc = "check" /\ ~InSend(p)
      /\ DOMAIN NoPoll = {"pc", "todo", "at", "nth", "report"} /\ NoPoll \in PollStates
    BY TimesAre DEF AirInv, AirTypes, PollStates, Skipped, InSend
<1>2. st \in PollStates
    BY <1>1, TimesAre DEF PollStates, PollPcs
<1>3. poll' = [poll EXCEPT ![p] = st]
    <2>1. poll' = [poll EXCEPT ![p] = NextReport(poll[p])]
        BY <1>1 DEF Skipped, AirTypes
    <2>2. NextReport(poll[p]) = [f \in DOMAIN NoPoll |->
                     IF f = "at" THEN a
                     ELSE IF f = "todo" THEN poll[p].todo ELSE IF f = "pc" THEN "next" ELSE NoPoll[f]]
        BY <1>1 DEF NextReport
    <2>3. [f \in DOMAIN NoPoll |->
                     IF f = "at" THEN a
                     ELSE IF f = "todo" THEN poll[p].todo ELSE IF f = "pc" THEN "next" ELSE NoPoll[f]] = st
        BY <1>1
    <2> QED  BY <2>1, <2>2, <2>3
<1>4. st.pc = "next" /\ st.at = a
    OBVIOUS
<1> HIDE DEF st
<1>5. UNCHANGED <<service, clock, lastAuto, lastOf, savedState, aired, recorded, onRecord, overlapped, run>>
    BY DEF Skipped
<1>6. CASE hourly' = hourly
    <2>1. /\ savedState' \in [last : Times, of : [Sorts -> Times]] /\ onRecord' \subseteq recorded
          /\ ~overlapped => Covers(savedState'.last, savedState'.of, onRecord')
        BY <1>5 DEF AirInv, AirTypes, SpacingInv
    <2> QED  BY <1>1, <1>2, <1>3, <1>4, <1>5, <1>6, <2>1, PollQuiet
<1>7. CASE Spaced(p, SortOf[poll[p].report]) /\ hourly' = ThisHour(p)
    <2>1. Cardinality(ThisHour(p)) >= MaxPerHour
        <3>1. ThisHour(p) \in SUBSET DOMAIN aired
            BY <1>1 DEF ThisHour, AirTypes
        <3>2. Cardinality(ThisHour(p)) \in Nat /\ MaxPerHour \in Nat
            BY <1>1, <3>1, HourFinite, TimesAre
        <3> QED  BY <1>7, <3>2 DEF Skipped, Allowed
    <2>2. /\ poll' \in [Polls -> PollStates] /\ poll'[p] = st
          /\ \A q \in Polls : q # p => poll'[q] = poll[q]
        BY <1>1, <1>2, <1>3 DEF AirTypes
    <2>3. /\ \A q \in Polls : /\ poll'[q].pc # "idle" => poll[q].pc # "idle"
                              /\ service = "pota" => poll'[q].at = poll[q].at
                              /\ InSend(q)' <=> InSend(q)
                              /\ InSend(q) => poll'[q] = poll[q]
          /\ poll'[p].pc = "next"
        BY <1>1, <1>4, <2>2 DEF InSend
    <2>4. HourInv'
        BY <1>1, <1>5, <1>7, <2>1, <2>3, DropsOlder
    <2>5. AirTypes'
        BY <1>1, <1>5, <1>7, <2>2 DEF AirTypes, ThisHour
    <2>6. PollsInv'
        <3>1. \A q \in Polls : poll'[q].pc = "check" => poll'[q] = poll[q]
            BY <2>2, <2>3
        <3>2. \A q \in Polls : service = "pota" /\ poll'[q].pc # "idle" => poll'[q].at <= clock
            BY <2>3 DEF AirInv, PollsInv
        <3> QED  BY <1>5, <2>3, <3>1, <3>2 DEF AirInv, PollsInv
    <2>7. SpacingInv'
        BY <1>5, <2>3 DEF AirInv, SpacingInv, Covers
    <2>8. LimitsHold'
        BY <1>5 DEF AirInv, LimitsHold, KnownOfRun
    <2> QED  BY <2>4, <2>5, <2>6, <2>7, <2>8 DEF AirInv
<1> QED  BY <1>6, <1>7 DEF Skipped

LEMMA SendReturnsKeeps ==
    ASSUME AirInv, NEW p \in Polls, SendReturns(p)
    PROVE  AirInv'
<1>1. /\ AirTypes /\ poll[p] \in PollStates /\ InSend(p)
      /\ DOMAIN poll[p] = {"pc", "todo", "at", "nth", "report"}
    BY DEF AirInv, AirTypes, PollStates, SendReturns, InSend
<1>2. PICK t : t = poll[p]
    OBVIOUS
<1>3. /\ t \in PollStates /\ t.at \in Times /\ t.report \in Reports /\ SortOf[t.report] \in Sorts
      /\ t.nth \in DOMAIN aired \ recorded /\ aired[t.nth].at = t.at /\ aired[t.nth].sort = SortOf[t.report]
    BY <1>1, <1>2, BroadcastsAssumption DEF AirInv, PollsInv, PollStates
<1>4. PICK s \in Sorts : s = SortOf[t.report]
    BY <1>3
<1>5. /\ lastAuto' = t.at /\ lastOf' = [lastOf EXCEPT ![s] = t.at]
      /\ hourly' = hourly \union {t.nth} /\ recorded' = recorded \union {t.nth}
      /\ UNCHANGED <<service, clock, savedState, aired, onRecord, overlapped, run>>
    BY <1>2, <1>4 DEF SendReturns
<1>6. PICK u \in PollStates : /\ poll' = [poll EXCEPT ![p] = u]
                              /\ u.pc = "saving" /\ u.at = t.at
    <2> DEFINE st == [pc |-> "saving", todo |-> t.todo, at |-> t.at, nth |-> t.nth, report |-> t.report]
    <2>1. poll' = [poll EXCEPT ![p] = [t EXCEPT !.pc = "saving"]]
        BY <1>1, <1>2 DEF SendReturns, AirTypes
    <2>2. [t EXCEPT !.pc = "saving"] = [f \in DOMAIN t |-> IF f = "pc" THEN "saving" ELSE t[f]]
        BY <1>1, <1>2
    <2>3. [f \in DOMAIN t |-> IF f = "pc" THEN "saving" ELSE t[f]] = st
        BY <1>1, <1>2
    <2>4. st \in PollStates
        BY <1>3 DEF PollStates, PollPcs
    <2> QED  BY <2>1, <2>2, <2>3, <2>4
<1>7. /\ poll' \in [Polls -> PollStates] /\ poll'[p] = u
      /\ \A q \in Polls : q # p => poll'[q] = poll[q]
    BY <1>1, <1>6 DEF AirTypes
<1>8. /\ \A q \in Polls : /\ poll'[q].pc # "idle" => poll[q].pc # "idle"
                          /\ poll'[q].at = poll[q].at
                          /\ InSend(q)' => InSend(q) /\ q # p
                          /\ InSend(q) /\ q # p => InSend(q)'
                          /\ InSend(q)' => poll'[q] = poll[q]
                          /\ poll'[q].pc = "check" => poll'[q] = poll[q]
    BY <1>1, <1>2, <1>6, <1>7 DEF InSend
<1>9. AirTypes'
    <2>1. lastAuto' \in Times /\ lastOf' \in [Sorts -> Times]
        BY <1>1, <1>3, <1>5 DEF AirTypes
    <2>2. hourly' \subseteq recorded' /\ onRecord' \subseteq recorded' /\ recorded' \subseteq DOMAIN aired'
        BY <1>1, <1>3, <1>5 DEF AirTypes
    <2> QED  BY <1>1, <1>5, <1>7, <2>1, <2>2 DEF AirTypes
<1>10. PollsInv'
    <2>1. \A q \in Polls : InSend(q)' => poll[q].nth # t.nth
        BY <1>1, <1>2, <1>8 DEF AirInv, PollsInv
    <2>2. \A q \in Polls : service = "pota" /\ poll'[q].pc # "idle" => poll'[q].at <= clock
        BY <1>8 DEF AirInv, PollsInv
    <2> QED  BY <1>5, <1>8, <2>1, <2>2 DEF AirInv, PollsInv
<1>11. ~overlapped => lastAuto <= t.at /\ (service # "pota" => lastOf[s] <= t.at)
    BY <1>1, <1>2, <1>4 DEF AirInv, SpacingInv
<1>12. /\ lastAuto \in Int /\ t.at \in Int /\ \A r \in Sorts : lastOf[r] \in Int
       /\ \A i \in DOMAIN aired : aired[i].at \in Int /\ aired[i].sort \in Sorts
       /\ \A q \in Polls : poll[q].at \in Int
    <2>1. Times \subseteq Int
        BY TimesAre
    <2>2. lastAuto \in Int /\ t.at \in Int /\ \A r \in Sorts : lastOf[r] \in Int
        BY <1>1, <1>3, <2>1 DEF AirTypes
    <2>3. \A i \in DOMAIN aired : aired[i].at \in Int /\ aired[i].sort \in Sorts
        BY <1>1, AiringsAre
    <2>4. \A q \in Polls : poll[q].at \in Int
        BY <1>1, <2>1 DEF AirTypes, PollStates
    <2> QED  BY <2>2, <2>3, <2>4
<1>13. SpacingInv'
    <2> SUFFICES ASSUME ~overlapped
                 PROVE  /\ Covers(lastAuto, lastOf, recorded)'
                        /\ Covers(savedState.last, savedState.of, onRecord)'
                        /\ \A q \in Polls : ~InSend(q)'
        BY <1>5 DEF SpacingInv
    <2>1. Covers(lastAuto, lastOf, recorded)'
        <3> SUFFICES ASSUME NEW i \in recorded'
                     PROVE  aired[i].at <= t.at /\ (service # "pota" => aired[i].at <= lastOf'[aired[i].sort])
            BY <1>5 DEF Covers
        <3>1. CASE i = t.nth
            BY <1>1, <1>3, <1>4, <1>5, <1>12, <3>1 DEF AirTypes
        <3>2. CASE i \in recorded
            <4>1. i \in DOMAIN aired
                BY <1>1, <3>2 DEF AirTypes
            <4>2. aired[i].at <= lastAuto /\ (service # "pota" => aired[i].at <= lastOf[aired[i].sort])
                BY <3>2 DEF AirInv, SpacingInv, Covers
            <4>3. lastOf'[aired[i].sort] = IF aired[i].sort = s THEN t.at ELSE lastOf[aired[i].sort]
                BY <1>1, <1>5, <1>12, <4>1 DEF AirTypes
            <4> QED  BY <1>11, <1>12, <4>1, <4>2, <4>3
        <3> QED  BY <1>5, <3>1, <3>2
    <2>2. Covers(savedState.last, savedState.of, onRecord)'
        BY <1>5 DEF AirInv, SpacingInv, Covers
    <2>3. \A q \in Polls : ~InSend(q)'
        BY <1>1, <1>8 DEF AirInv, SpacingInv
    <2> QED  BY <2>1, <2>2, <2>3
<1>14. HourInv'
    <2> SUFFICES ASSUME NEW i \in recorded, Dropped(i), ~(overlapped /\ service = "pota")
                 PROVE  /\ clock - aired[i].at >= Hour
                        /\ service = "pota" =>
                              \A q \in Polls : poll'[q].pc # "idle" /\ poll'[q].at - aired[i].at < Hour => Blocked(q)'
        BY <1>5 DEF HourInv, Dropped
    <2>1. clock - aired[i].at >= Hour
        BY DEF AirInv, HourInv
    <2>2. ASSUME service = "pota", NEW q \in Polls, poll'[q].pc # "idle", poll'[q].at - aired[i].at < Hour
          PROVE  Blocked(q)'
        <3>1. Blocked(q) /\ poll'[q].at = poll[q].at
            BY <1>8, <2>2 DEF AirInv, HourInv
        <3>2. CASE Cardinality(ThisHour(q)) >= MaxPerHour
            <4>1. ThisHour(q) \subseteq ThisHour(q)'
                BY <1>5, <2>2, <3>1 DEF ThisHour, Now
            <4>2. ThisHour(q)' \in SUBSET DOMAIN aired
                BY <1>1, <1>3, <1>5 DEF ThisHour, AirTypes
            <4>3. IsFiniteSet(ThisHour(q)') /\ Cardinality(ThisHour(q)') \in Nat
                BY <1>1, <4>2, HourFinite
            <4>4. Cardinality(ThisHour(q)) <= Cardinality(ThisHour(q)') /\ Cardinality(ThisHour(q)) \in Nat
                BY <4>1, <4>3, FS_Subset, FS_CardinalityType
            <4>5. Cardinality(ThisHour(q)') >= MaxPerHour
                BY <3>2, <4>3, <4>4, TimesAre
            <4> QED  BY <4>5 DEF Blocked
        <3>3. CASE lastAuto > poll[q].at
            BY <1>5, <1>11, <1>12, <2>2, <3>1, <3>3 DEF Blocked
        <3>4. ASSUME NEW r \in Polls, InSend(r), poll[r].at > poll[q].at
              PROVE  Blocked(q)'
            <4>1. CASE r = p
                BY <1>2, <1>5, <3>1, <3>4, <4>1 DEF Blocked
            <4>2. CASE r # p
                <5>1. InSend(r)' /\ poll'[r].at > poll'[q].at
                    BY <1>8, <3>1, <3>4, <4>2
                <5> QED  BY <5>1 DEF Blocked
            <4> QED  BY <4>1, <4>2
        <3> QED  BY <3>1, <3>2, <3>3, <3>4 DEF Blocked
    <2> QED  BY <2>1, <2>2
<1>15. LimitsHold'
    BY <1>5 DEF AirInv, LimitsHold, KnownOfRun
<1> QED  BY <1>9, <1>10, <1>13, <1>14, <1>15 DEF AirInv

\* What the list and the memory show a poll that may broadcast is what they
\* would show it if they had forgotten nothing.
LEMMA AllowedIsRight ==
    ASSUME AirInv, NEW p \in Polls, poll[p].pc = "check", NEW s \in Sorts, Allowed(p, s)
    PROVE  /\ ~overlapped => \A i \in recorded :
                 /\ Now(p) - aired[i].at >= MinInterval
                 /\ aired[i].sort = s /\ service # "pota" => Now(p) - aired[i].at >= Cooldown
           /\ \/ overlapped /\ service = "pota"
              \/ service = "pota" /\ \E q \in Polls \ {p} : InSend(q)
              \/ Cardinality({i \in recorded : aired[i].run = run /\ Now(p) - aired[i].at < Hour}) < MaxPerHour
<1>1. /\ AirTypes /\ clock \in Int /\ Hour \in Int /\ MaxPerHour \in Int /\ MinInterval \in Nat /\ Cooldown \in Nat
      /\ lastAuto \in Int /\ lastOf[s] \in Int /\ Now(p) \in Int /\ poll[p].at \in Int
      /\ recorded \subseteq DOMAIN aired /\ hourly \subseteq recorded
      /\ \A i \in recorded : aired[i].at \in Int
    <2>1. AirTypes /\ recorded \subseteq DOMAIN aired /\ hourly \subseteq recorded
        BY DEF AirInv, AirTypes
    <2>2. clock \in Int /\ Hour \in Int /\ MaxPerHour \in Int /\ MinInterval \in Nat /\ Cooldown \in Nat
        BY <2>1, TimesAre DEF AirTypes
    <2>3. \A i \in recorded : aired[i].at \in Int
        BY <2>1, AiringsAre
    <2>4. lastAuto \in Times /\ lastOf[s] \in Times /\ poll[p].at \in Times /\ Times \subseteq Int
        BY <2>1, TimesAre DEF AirTypes, PollStates
    <2>5. lastAuto \in Int /\ lastOf[s] \in Int /\ poll[p].at \in Int
        BY <2>4
    <2>6. Now(p) \in Int
        BY <2>2, <2>5 DEF Now
    <2> QED  BY <2>1, <2>2, <2>3, <2>5, <2>6
<1>2. /\ Now(p) - lastAuto >= MinInterval
      /\ service # "pota" => Now(p) - lastOf[s] >= Cooldown
      /\ Cardinality(ThisHour(p)) < MaxPerHour
    BY DEF Allowed, Spaced, Cooled
<1>3. ASSUME ~overlapped, NEW i \in recorded
      PROVE  /\ Now(p) - aired[i].at >= MinInterval
             /\ aired[i].sort = s /\ service # "pota" => Now(p) - aired[i].at >= Cooldown
    <2>1. aired[i].at <= lastAuto /\ (service # "pota" => aired[i].at <= lastOf[aired[i].sort])
        BY <1>3 DEF AirInv, SpacingInv, Covers
    <2> QED  BY <1>1, <1>2, <2>1
<1>4. ASSUME ~(overlapped /\ service = "pota"), ~(service = "pota" /\ \E q \in Polls \ {p} : InSend(q))
      PROVE  Cardinality({i \in recorded : aired[i].run = run /\ Now(p) - aired[i].at < Hour}) < MaxPerHour
    <2> DEFINE Young == {i \in recorded : aired[i].run = run /\ Now(p) - aired[i].at < Hour}
    <2>1. ThisHour(p) \in SUBSET DOMAIN aired
        BY <1>1 DEF ThisHour
    <2>2. IsFiniteSet(ThisHour(p)) /\ Cardinality(ThisHour(p)) \in Nat
        BY <1>1, <2>1, HourFinite
    <2>3. ASSUME NEW i \in Young PROVE i \in ThisHour(p)
        <3>1. i \in hourly
            <4> SUFFICES ASSUME i \notin hourly PROVE FALSE
                OBVIOUS
            <4>1. /\ clock - aired[i].at >= Hour
                  /\ service = "pota" => (poll[p].at - aired[i].at < Hour => Blocked(p))
                BY <1>4 DEF AirInv, HourInv, Dropped
            <4>2. service = "pota" /\ Now(p) = poll[p].at
                BY <1>1, <4>1 DEF Now
            <4>3. Blocked(p)
                BY <4>1, <4>2
            <4>4. ~(Cardinality(ThisHour(p)) >= MaxPerHour)
                BY <1>1, <1>2, <2>2
            <4>5. ~(lastAuto > poll[p].at)
                BY <1>1, <1>2, <4>2
            <4>6. ~ \E q \in Polls : InSend(q) /\ poll[q].at > poll[p].at
                BY <1>4, <4>2 DEF InSend
            <4> QED  BY <4>3, <4>4, <4>5, <4>6 DEF Blocked
        <3> QED  BY <1>1, <3>1 DEF ThisHour
    <2>4. Young \subseteq ThisHour(p)
        BY <2>3
    <2> HIDE DEF Young
    <2>5. Cardinality(Young) <= Cardinality(ThisHour(p)) /\ Cardinality(Young) \in Nat
        BY <2>2, <2>4, FS_Subset, FS_CardinalityType
    <2>6. Cardinality(Young) < MaxPerHour
        BY <1>1, <1>2, <2>2, <2>5
    <2> QED  BY <2>6 DEF Young
<1> QED  BY <1>3, <1>4

LEMMA GoesOnAirKeeps ==
    ASSUME AirInv, NEW p \in Polls, GoesOnAir(p)
    PROVE  AirInv'
<1>1. /\ AirTypes /\ poll[p] \in PollStates /\ poll[p].pc = "check" /\ ~InSend(p)
      /\ DOMAIN poll[p] = {"pc", "todo", "at", "nth", "report"} /\ poll[p].report \in Reports
      /\ recorded \subseteq DOMAIN aired /\ hourly \subseteq recorded
    BY DEF AirInv, AirTypes, PollStates, GoesOnAir, InSend, PollsInv
<1>2. PICK t : t = poll[p]
    OBVIOUS
<1>3. PICK s \in Sorts : s = SortOf[t.report]
    BY <1>1, <1>2, BroadcastsAssumption
<1>4. PICK now \in Times : now = Now(p)
    <2>1. clock \in Times /\ poll[p].at \in Times
        BY <1>1, TimesAre DEF AirTypes, PollStates
    <2> QED  BY <2>1 DEF Now
<1>5. PICK z \in Nat : z = Len(aired) + 1
    BY <1>1, AiringsAre
<1> DEFINE new == [at |-> now, sort |-> s, run |-> run, knew |-> recorded]
<1>6. /\ Allowed(p, s) /\ aired' = Append(aired, new) /\ hourly' = ThisHour(p)
      /\ overlapped' = (overlapped \/ \E q \in Polls \ {p} : poll[q].pc = "sending")
      /\ UNCHANGED <<service, clock, lastAuto, lastOf, savedState, recorded, onRecord, run>>
    BY <1>2, <1>3, <1>4 DEF GoesOnAir
<1>7. new \in Airings /\ new.at = now /\ new.sort = s /\ new.run = run /\ new.knew = recorded
    BY <1>1, AiringsAre DEF Airings, AirTypes
<1> HIDE DEF new
<1>8. /\ aired' \in Seq(Airings) /\ Len(aired') = z /\ DOMAIN aired' = DOMAIN aired \union {z}
      /\ z \notin DOMAIN aired /\ aired'[z] = new
      /\ \A i \in DOMAIN aired : aired'[i] = aired[i]
    BY <1>1, <1>5, <1>6, <1>7 DEF AirTypes
<1>9. PICK u \in PollStates : /\ poll' = [poll EXCEPT ![p] = u]
                              /\ u.pc = "sending" /\ u.at = now /\ u.nth = z /\ u.report = t.report
    <2> DEFINE st == [pc |-> "sending", todo |-> t.todo, at |-> now, nth |-> z, report |-> t.report]
    <2>1. poll' = [poll EXCEPT ![p] = [[[t EXCEPT !.pc = "sending"] EXCEPT !.at = now] EXCEPT !.nth = z]]
        BY <1>1, <1>2, <1>4, <1>8 DEF GoesOnAir, AirTypes
    <2>2. [[[t EXCEPT !.pc = "sending"] EXCEPT !.at = now] EXCEPT !.nth = z] =
             [f \in DOMAIN t |-> IF f = "nth" THEN z ELSE IF f = "at" THEN now
                                 ELSE IF f = "pc" THEN "sending" ELSE t[f]]
        BY <1>1, <1>2
    <2>3. [f \in DOMAIN t |-> IF f = "nth" THEN z ELSE IF f = "at" THEN now
                                 ELSE IF f = "pc" THEN "sending" ELSE t[f]] = st
        BY <1>1, <1>2
    <2>4. st \in PollStates
        BY <1>1, <1>2 DEF PollStates, PollPcs
    <2> QED  BY <2>1, <2>2, <2>3, <2>4
<1>10. /\ poll' \in [Polls -> PollStates] /\ poll'[p] = u
       /\ \A q \in Polls : q # p => poll'[q] = poll[q]
    BY <1>1, <1>9 DEF AirTypes
<1>11. /\ InSend(p)'
       /\ \A q \in Polls : /\ poll'[q].pc # "idle" => poll[q].pc # "idle"
                           /\ service = "pota" => poll'[q].at = poll[q].at
                           /\ InSend(q) => InSend(q)'
                           /\ InSend(q)' /\ q # p => InSend(q)
                           /\ poll'[q].pc = "check" => poll'[q] = poll[q]
    BY <1>1, <1>4, <1>9, <1>10 DEF InSend, Now
<1>12. AirTypes'
    BY <1>1, <1>6, <1>8, <1>10 DEF AirTypes, ThisHour
<1>13. PollsInv'
    <2>1. ASSUME NEW q \in Polls
          PROVE  /\ poll'[q].pc = "check" => poll'[q].report \in Reports
                 /\ service = "pota" /\ poll'[q].pc # "idle" => poll'[q].at <= clock
                 /\ InSend(q)' => /\ poll'[q].report \in Reports
                                  /\ poll'[q].nth \in DOMAIN aired' \ recorded
                                  /\ aired'[poll'[q].nth].at = poll'[q].at
                                  /\ aired'[poll'[q].nth].sort = SortOf[poll'[q].report]
        <3>1. CASE q = p
            BY <1>1, <1>2, <1>3, <1>4, <1>7, <1>8, <1>9, <1>10, <3>1 DEF Now, AirInv, PollsInv
        <3>2. CASE q # p
            BY <1>8, <1>10, <1>11, <3>2 DEF AirInv, PollsInv
        <3> QED  BY <3>1, <3>2
    <2>2. \A q, r \in Polls : InSend(q)' /\ InSend(r)' /\ poll'[q].nth = poll'[r].nth => q = r
        BY <1>8, <1>9, <1>10, <1>11 DEF AirInv, PollsInv
    <2>3. \A i \in DOMAIN aired' : aired'[i].run <= run /\ aired'[i].knew \subseteq DOMAIN aired'
        <3>1. run <= run
            BY <1>1 DEF AirTypes
        <3> QED  BY <1>1, <1>7, <1>8, <3>1 DEF AirInv, PollsInv
    <2> QED  BY <1>6, <2>1, <2>2, <2>3 DEF PollsInv
<1>14. SpacingInv'
    <2> SUFFICES ASSUME ~overlapped'
                 PROVE  /\ Covers(lastAuto, lastOf, recorded)'
                        /\ Covers(savedState.last, savedState.of, onRecord)'
                        /\ \A q \in Polls : InSend(q)' => q = p
                        /\ lastAuto <= now
                        /\ service # "pota" => lastOf[s] <= now
        BY <1>2, <1>3, <1>6, <1>9, <1>10 DEF SpacingInv
    <2>1. ~overlapped /\ \A q \in Polls \ {p} : ~InSend(q)
        BY <1>6 DEF InSend
    <2>2. \A i \in recorded : aired'[i] = aired[i]
        BY <1>1, <1>8
    <2>3. Covers(lastAuto, lastOf, recorded)'
        BY <1>6, <2>1, <2>2 DEF AirInv, SpacingInv, Covers
    <2>4. Covers(savedState.last, savedState.of, onRecord)'
        <3>1. onRecord \subseteq recorded
            BY <1>1 DEF AirTypes
        <3> QED  BY <1>6, <2>1, <2>2, <3>1 DEF AirInv, SpacingInv, Covers
    <2>5. \A q \in Polls : InSend(q)' => q = p
        BY <1>11, <2>1
    <2>6. lastAuto <= now /\ (service # "pota" => lastOf[s] <= now)
        <3>1. lastAuto \in Int /\ lastOf[s] \in Int /\ now \in Int
            BY <1>1, TimesAre DEF AirTypes
        <3>2. now - lastAuto >= MinInterval /\ (service # "pota" => now - lastOf[s] >= Cooldown)
            BY <1>4, <1>6 DEF Allowed, Spaced, Cooled
        <3> QED  BY <3>1, <3>2, TimesAre
    <2> QED  BY <2>3, <2>4, <2>5, <2>6
<1>15. HourInv'
    BY <1>1, <1>6, <1>8, <1>11, DropsOlder
<1>16. LimitsHold'
    <2> SUFFICES ASSUME NEW j \in DOMAIN aired'
                 PROVE  /\ overlapped' \/ \A i \in aired'[j].knew :
                             /\ aired'[j].at - aired'[i].at >= MinInterval
                             /\ aired'[j].sort = aired'[i].sort /\ service # "pota" =>
                                   aired'[j].at - aired'[i].at >= Cooldown
                        /\ \/ overlapped' /\ service = "pota"
                           \/ Cardinality({i \in KnownOfRun(j)' : aired'[j].at - aired'[i].at < Hour}) < MaxPerHour
        BY <1>6 DEF LimitsHold
    <2>1. CASE j = z
        <3>1. /\ aired'[j].at = Now(p) /\ aired'[j].sort = s /\ aired'[j].run = run /\ aired'[j].knew = recorded
              /\ \A i \in recorded : aired'[i] = aired[i]
            BY <1>1, <1>4, <1>7, <1>8, <2>1
        <3>2. {i \in KnownOfRun(j)' : aired'[j].at - aired'[i].at < Hour} =
                 {i \in recorded : aired[i].run = run /\ Now(p) - aired[i].at < Hour}
            BY <3>1 DEF KnownOfRun
        <3>3. ~overlapped' => ~overlapped
            BY <1>6
        <3>4. service = "pota" /\ (overlapped \/ \E q \in Polls \ {p} : InSend(q)) => overlapped'
            BY <1>6 DEF InSend
        <3>5. /\ ~overlapped => \A i \in recorded :
                    /\ Now(p) - aired[i].at >= MinInterval
                    /\ aired[i].sort = s /\ service # "pota" => Now(p) - aired[i].at >= Cooldown
              /\ \/ overlapped /\ service = "pota"
                 \/ service = "pota" /\ \E q \in Polls \ {p} : InSend(q)
                 \/ Cardinality({i \in recorded : aired[i].run = run /\ Now(p) - aired[i].at < Hour}) < MaxPerHour
            BY <1>1, <1>6, AllowedIsRight
        <3>6. overlapped' \/ \A i \in aired'[j].knew :
                             /\ aired'[j].at - aired'[i].at >= MinInterval
                             /\ aired'[j].sort = aired'[i].sort /\ service # "pota" =>
                                   aired'[j].at - aired'[i].at >= Cooldown
            BY <3>1, <3>3, <3>5
        <3>7. \/ overlapped' /\ service = "pota"
              \/ Cardinality({i \in KnownOfRun(j)' : aired'[j].at - aired'[i].at < Hour}) < MaxPerHour
            BY <3>2, <3>4, <3>5
        <3> QED  BY <3>6, <3>7
    <2>2. CASE j # z
        <3>1. /\ j \in DOMAIN aired /\ aired'[j] = aired[j] /\ aired[j].knew \subseteq DOMAIN aired
              /\ \A i \in aired[j].knew : aired'[i] = aired[i]
            BY <1>8, <2>2 DEF AirInv, PollsInv
        <3>2. {i \in KnownOfRun(j)' : aired'[j].at - aired'[i].at < Hour} =
                 {i \in KnownOfRun(j) : aired[j].at - aired[i].at < Hour}
            BY <3>1 DEF KnownOfRun
        <3>3. overlapped => overlapped'
            BY <1>6
        <3>4. /\ overlapped \/ \A i \in aired[j].knew :
                     /\ aired[j].at - aired[i].at >= MinInterval
                     /\ aired[j].sort = aired[i].sort /\ service # "pota" => aired[j].at - aired[i].at >= Cooldown
              /\ \/ overlapped /\ service = "pota"
                 \/ Cardinality({i \in KnownOfRun(j) : aired[j].at - aired[i].at < Hour}) < MaxPerHour
            BY <3>1 DEF AirInv, LimitsHold
        <3> QED  BY <3>1, <3>2, <3>3, <3>4
    <2> QED  BY <2>1, <2>2
<1> QED  BY <1>12, <1>13, <1>14, <1>15, <1>16 DEF AirInv

LEMMA AirInvStep == AirInv /\ [AirNext]_airVars => AirInv'
<1> SUFFICES ASSUME AirInv, [AirNext]_airVars PROVE AirInv'
    OBVIOUS
<1>1. CASE ClockTicks
    BY <1>1, ClockKeeps
<1>2. CASE ServiceRestarts
    BY <1>2, RestartKeeps
<1>3. ASSUME NEW p \in Polls, AirStep(p)
      PROVE  AirInv'
    BY <1>3, PollGoesOn, SkippedKeeps, GoesOnAirKeeps, SendReturnsKeeps DEF AirStep
<1>4. CASE UNCHANGED airVars
    <2>1. UNCHANGED <<service, clock, lastAuto, lastOf, hourly, savedState, poll, aired, recorded,
                      onRecord, overlapped, run>>
        BY <1>4 DEF airVars
    <2>2. AirTypes' /\ PollsInv' /\ SpacingInv'
        BY <2>1 DEF AirInv, AirTypes, PollsInv, SpacingInv, Covers, InSend
    <2>3. HourInv'
        BY <2>1 DEF AirInv, HourInv, Dropped, Blocked, ThisHour, Now, InSend
    <2>4. LimitsHold'
        BY <2>1 DEF AirInv, LimitsHold, KnownOfRun
    <2> QED  BY <2>2, <2>3, <2>4 DEF AirInv
<1> QED  BY <1>1, <1>2, <1>3, <1>4 DEF AirNext

THEOREM AirKeeps == AirSpec => []AirInv
BY AirInvInit, AirInvStep, PTL DEF AirSpec

\* The variables keep to their sets: the times between Never and the clock's
\* end, what is remembered among what was broadcast.
THEOREM AirTypeCorrect == AirSpec => []AirTypeOK
<1>1. AirInv => AirTypeOK
    BY DEF AirInv, AirTypes, AirTypeOK, PollStates, PollPcs, Times
<1> QED  BY <1>1, AirKeeps, PTL

\* The minimum interval, the cooldown of a sort and the hour's cap hold against
\* every broadcast the service knew of, across restarts and polls beside the
\* loop's (weather.py, air_quality.py, pota_service.py), for all limits, any
\* number of polls and reports.
THEOREM BroadcastLimitsHold == AirSpec => []LimitsHold
<1>1. AirInv => LimitsHold
    BY DEF AirInv
<1> QED  BY <1>1, AirKeeps, PTL
=============================================================================
