---------------------------- MODULE Links_proof ----------------------------
(***************************************************************************)
(* Theorems about the links of MCLinks, for any messages, callers, contacts*)
(* and bounds: the SMS modem (SmsModem), a MeshCore radio's companion link *)
(* (Companion) and CAT control (CatPtt), each by itself; and these, the    *)
(* APRS hub and the mesh bot's games together.                             *)
(***************************************************************************)
EXTENDS MCLinks, AprsHub_proof, Services_proof, FiniteSetTheorems, SequenceTheorems,
        WellFoundedInduction, TLAPS

-----------------------------------------------------------------------------
(* The SMS modem.  What it stores is among what arrived, lines not read yet *)
(* are about what is stored, and one of the commands that wait is a list.   *)
(* A list is in ascending order of the slots:                               *)

LEMMA LeastNumber == ASSUME NEW T \in SUBSET Nat, T # {} PROVE \E n \in T : \A m \in T : n <= m
<1>1. PICK n \in T : \A m \in T : ~(<<m, n>> \in OpToRel(<,Nat))
  BY WFMin, NatLessThanWellFounded, Zenon
<1>2. \A m \in T : ~(m < n)
  BY <1>1 DEF OpToRel
<1> QED
  BY <1>2

Ascends(f, S) ==
    /\ f \in [1 .. Cardinality(S) -> S]
    /\ \A i, j \in 1 .. Cardinality(S) : i < j => f[i] < f[j]

\* A finite set of numbers can be put in order: a least set that cannot would
\* have a least number, and the rest of it could.
LEMMA AscendingIs ==
    ASSUME NEW S \in SUBSET Nat, IsFiniteSet(S)
    PROVE  Ascends(Ascending(S), S)
<1> DEFINE Bad == {n \in Nat : \E T \in SUBSET Nat : IsFiniteSet(T) /\ Cardinality(T) = n /\ ~ \E f : Ascends(f, T)}
<1>1. Bad = {}
  <2> SUFFICES ASSUME Bad # {} PROVE FALSE
    OBVIOUS
  <2>1. PICK n \in Bad : \A m \in Bad : n <= m
    <3> HIDE DEF Bad
    <3> Bad \in SUBSET Nat
      BY DEF Bad
    <3> QED
      BY LeastNumber
  <2>2. PICK T \in SUBSET Nat : IsFiniteSet(T) /\ Cardinality(T) = n /\ ~ \E f : Ascends(f, T)
    OBVIOUS
  <2>3. T # {}
    <3> SUFFICES ASSUME T = {} PROVE FALSE
      OBVIOUS
    <3>1. Cardinality(T) = 0
      BY FS_EmptySet
    <3>2. Ascends([i \in 1 .. 0 |-> 0], T)
      BY <3>1 DEF Ascends
    <3> QED
      BY <3>2, <2>2
  <2>4. PICK x \in T : \A y \in T : x <= y
    BY <2>3, LeastNumber
  <2> DEFINE U == T \ {x}
  <2>5. IsFiniteSet(U) /\ Cardinality(U) = n - 1
    BY <2>2, FS_RemoveElement
  <2>6. n - 1 \in Nat /\ n - 1 \notin Bad
    <3>1. Cardinality(U) \in Nat
      BY <2>5, FS_CardinalityType
    <3> QED
      BY <3>1, <2>5, <2>1
  <2>7. PICK f : Ascends(f, U)
    BY <2>5, <2>6
  <2> DEFINE g == [i \in 1 .. n |-> IF i = 1 THEN x ELSE f[i - 1]]
  <2> n \in Nat
    OBVIOUS
  <2> HIDE DEF U, Bad
  <2>8. \A i \in 1 .. n - 1 : f[i] \in U
    BY <2>7, <2>5 DEF Ascends
  <2>9. g \in [1 .. n -> T]
    BY <2>8 DEF U
  <2>10. \A i, j \in 1 .. n : i < j => g[i] < g[j]
    <3> SUFFICES ASSUME NEW i \in 1 .. n, NEW j \in 1 .. n, i < j PROVE g[i] < g[j]
      OBVIOUS
    <3>1. f[j - 1] \in T /\ f[j - 1] # x
      BY <2>8 DEF U
    <3>2. CASE i = 1
      <4>1. g[i] = x /\ g[j] = f[j - 1]
        BY <3>2
      <4>2. x <= f[j - 1] /\ x \in Nat /\ f[j - 1] \in Nat
        BY <3>1, <2>4
      <4> QED
        BY <4>1, <4>2, <3>1
    <3>3. CASE i # 1
      BY <3>3, <2>7, <2>5 DEF Ascends
    <3> QED
      BY <3>2, <3>3
  <2>11. Ascends(g, T)
    BY <2>9, <2>10, <2>2 DEF Ascends
  <2> QED
    BY <2>11, <2>2
<1>2. Cardinality(S) \in Nat
  BY FS_CardinalityType
<1>3. \E f : Ascends(f, S)
  BY <1>1, <1>2
<1> QED
  BY <1>3 DEF Ascending, Ascends

-----------------------------------------------------------------------------
(* The SMS modem.                                                           *)

SmsCmds == {c \in [op : {"list", "read", "delete", "send", "text"}, slot : Nat] :
              c.op = "read" => c.slot \in Slots}

\* Lines about messages that have arrived and slots there are.
LinesAbout(messages) ==
    {l \in [kind : {"cmti", "cmgl", "cmgr", "prompt", "final"}, slot : Nat, msg : messages \union {Empty}] :
       /\ l.kind \in {"cmgl", "cmgr"} => l.slot \in Slots /\ l.msg \in messages
       /\ l.kind = "cmti" => l.slot \in Slots}

StoredOf(messages) == [Slots -> [msg : messages, unread : BOOLEAN] \union {Empty}]

SmsShape ==
    /\ smsReader \in {"running", "ended"} /\ smsHeld \in BOOLEAN
    /\ smsWire \in Seq(LinesAbout(smsArrived)) /\ smsAnswers \in Seq(LinesAbout(smsArrived))
    /\ smsLock \in Seq(SmsCmds) /\ modemInput \in Seq(SmsCmds)
    /\ smsStore \in StoredOf(smsArrived)
    /\ smsShown \subseteq smsArrived
    /\ smsHeld => smsLock # <<>>

\* One poll at a time waits for the lock.
OneList == \A i, j \in 1 .. Len(smsLock) : smsLock[i].op = "list" /\ smsLock[j].op = "list" => i = j

SmsInv == SmsShape /\ OneList

LEMMA SlotsAre == Slots \subseteq Nat /\ IsFiniteSet(Slots)
  BY SmsAssumption

LEMMA LinesGrow ==
    ASSUME NEW A, NEW B, A \subseteq B
    PROVE  LinesAbout(A) \subseteq LinesAbout(B) /\ Seq(LinesAbout(A)) \subseteq Seq(LinesAbout(B))
           /\ StoredOf(A) \subseteq StoredOf(B)
<1>1. LinesAbout(A) \subseteq LinesAbout(B)
  BY DEF LinesAbout
<1>2. StoredOf(A) \subseteq StoredOf(B)
  <2>1. [msg : A, unread : BOOLEAN] \subseteq [msg : B, unread : BOOLEAN]
    OBVIOUS
  <2> QED
    BY <2>1 DEF StoredOf
<1> QED
  BY <1>1, <1>2

LEMMA SmsCmdIs ==
    /\ \A s \in Slots : Cmd("read", s) \in SmsCmds
    /\ \A s \in Nat : Cmd("delete", s) \in SmsCmds
    /\ Cmd("list", 0) \in SmsCmds /\ Cmd("send", 0) \in SmsCmds /\ Cmd("text", 0) \in SmsCmds
  BY SlotsAre DEF Cmd, SmsCmds

LEMMA LineIs ==
    ASSUME NEW A
    PROVE  /\ \A s \in Slots : Line("cmti", s, Empty) \in LinesAbout(A)
           /\ \A s \in Slots, m \in A, kind \in {"cmgl", "cmgr"} : Line(kind, s, m) \in LinesAbout(A)
           /\ Line("prompt", 0, Empty) \in LinesAbout(A) /\ Final \in LinesAbout(A)
  BY SlotsAre DEF Line, Final, LinesAbout

LEMMA SmsInvInit == SmsInit => SmsInv
<1> SUFFICES ASSUME SmsInit PROVE SmsInv
  OBVIOUS
<1>1. smsStore \in StoredOf(smsArrived)
  BY DEF SmsInit, StoredOf
<1>2. \A S : <<>> \in Seq(S)
  OBVIOUS
<1>3. SmsShape
  BY <1>1, <1>2 DEF SmsInit, SmsShape
<1>4. OneList
  BY DEF SmsInit, OneList
<1> QED
  BY <1>3, <1>4 DEF SmsInv

LEMMA AnswerIs ==
    ASSUME SmsShape, NEW cmd \in SmsCmds
    PROVE  AnswerOf(cmd) \in Seq(LinesAbout(smsArrived))
<1>1. \A s \in Slots : smsStore[s] # Empty => smsStore[s].msg \in smsArrived
  BY DEF SmsShape, StoredOf
<1>2. \A s \in Slots, kind \in {"cmgl", "cmgr"} :
          smsStore[s] # Empty => Stored(kind, s) \in LinesAbout(smsArrived)
  BY <1>1, LineIs DEF Stored
<1>3. Final \in LinesAbout(smsArrived) /\ Line("prompt", 0, Empty) \in LinesAbout(smsArrived)
  BY LineIs
<1>4. CASE cmd.op = "list"
  <2>1. Unread \in SUBSET Nat /\ IsFiniteSet(Unread) /\ Unread \subseteq Slots
    BY SlotsAre, FS_Subset DEF Unread
  <2>2. Ascends(Ascending(Unread), Unread) /\ Cardinality(Unread) \in Nat
    BY <2>1, AscendingIs, FS_CardinalityType
  <2>3. StoredAt(Ascending(Unread)) \in Seq(LinesAbout(smsArrived))
    <3> DEFINE at == Ascending(Unread)  n == Cardinality(Unread)
    <3>1. at \in [1 .. n -> Unread] /\ n \in Nat
      BY <2>2 DEF Ascends
    <3>2. \A k \in 1 .. n : Stored("cmgl", at[k]) \in LinesAbout(smsArrived)
      BY <3>1, <1>2, <2>1 DEF Unread
    <3> HIDE DEF at, n
    <3>3. StoredAt(at) = [k \in 1 .. n |-> Stored("cmgl", at[k])]
      BY <3>1 DEF StoredAt
    <3> QED
      BY <3>1, <3>2, <3>3 DEF at
  <2> QED
    BY <2>3, <1>3, <1>4 DEF AnswerOf
<1>5. CASE cmd.op # "list"
  BY <1>5, <1>2, <1>3 DEF AnswerOf, SmsCmds
<1> QED
  BY <1>4, <1>5

LEMMA StoreIs ==
    ASSUME SmsShape, NEW cmd \in SmsCmds
    PROVE  StoreAfter(cmd) \in StoredOf(smsArrived)
<1> DEFINE R == [msg : smsArrived, unread : BOOLEAN]
<1>1. smsStore \in [Slots -> R \union {Empty}]
  BY DEF SmsShape, StoredOf
<1>2. \A r \in R : [r EXCEPT !.unread = FALSE] \in R
  OBVIOUS
<1> HIDE DEF R
<1>3. \A s \in Slots : smsStore[s] # Empty => smsStore[s] \in R /\ [smsStore[s] EXCEPT !.unread = FALSE] \in R
  BY <1>1, <1>2
<1>4. StoreAfter(cmd) = [s \in Slots |-> StoreAfter(cmd)[s]]
  BY DEF StoreAfter
<1>5. \A s \in Slots : StoreAfter(cmd)[s] \in R \union {Empty}
  <2> SUFFICES ASSUME NEW s \in Slots PROVE StoreAfter(cmd)[s] \in R \union {Empty}
    OBVIOUS
  <2>1. StoreAfter(cmd)[s] \in {Empty, smsStore[s], [smsStore[s] EXCEPT !.unread = FALSE]}
        /\ (smsStore[s] = Empty => StoreAfter(cmd)[s] = Empty)
    BY DEF StoreAfter
  <2> HIDE DEF StoreAfter
  <2> QED
    BY <2>1, <1>3
<1> HIDE DEF StoreAfter
<1>6. StoreAfter(cmd) \in [Slots -> R \union {Empty}]
  BY <1>4, <1>5
<1> QED
  BY <1>6 DEF StoredOf, R

Its == [kind : {"cmgl", "cmgr"}, slot : Nat, msg : smsArrived]

\* The items of an answer are lines of it.
LEMMA ItemsAre ==
    ASSUME SmsShape, NEW kind \in {"cmgl", "cmgr"}, NEW S \in SUBSET HeadersAt(kind)
    PROVE  Items(S) \in Seq(Its)
<1> DEFINE at == Ascending(S)  n == Cardinality(S)
<1>1. smsAnswers \in Seq(LinesAbout(smsArrived))
  BY DEF SmsShape
<1>2. S \subseteq 1 .. Len(smsAnswers) /\ Len(smsAnswers) \in Nat
  BY <1>1 DEF HeadersAt
<1>3. S \in SUBSET Nat /\ IsFiniteSet(S)
  <2>1. IsFiniteSet(1 .. Len(smsAnswers))
    BY <1>2, FS_Interval
  <2>2. IsFiniteSet(S)
    BY <1>2, <2>1, FS_Subset
  <2> QED
    BY <2>2, <1>2
<1>4. at \in [1 .. n -> S] /\ n \in Nat
  BY <1>3, AscendingIs, FS_CardinalityType DEF Ascends
<1>5. Items(S) = [k \in DOMAIN at |-> smsAnswers[at[k]]]
  BY DEF Items
<1>6. \A k \in S : smsAnswers[k] \in Its
  <2>1. \A k \in S : smsAnswers[k] \in LinesAbout(smsArrived) /\ smsAnswers[k].kind = kind
    BY <1>1, <1>2 DEF HeadersAt
  <2> QED
    BY <2>1, SlotsAre DEF LinesAbout, Its
<1> HIDE DEF at, n
<1>7. Items(S) = [k \in 1 .. n |-> smsAnswers[at[k]]]
  BY <1>4, <1>5
<1>8. \A k \in 1 .. n : smsAnswers[at[k]] \in Its
  BY <1>4, <1>6
<1> QED
  BY <1>4, <1>7, <1>8, IsASeq

LEMMA ReceivedIs ==
    ASSUME SmsShape, NEW cmd \in SmsCmds
    PROVE  Received(cmd) \in Seq(Its)
<1>1. CASE cmd.op = "list"
  <2>1. {k \in HeadersAt("cmgl") : HeaderMatches(k)} \in SUBSET HeadersAt("cmgl")
    OBVIOUS
  <2> QED
    BY <1>1, <2>1, ItemsAre DEF Received, Listed
<1>2. CASE cmd.op = "read"
  <2> DEFINE S == {k \in LastHeader : HeaderMatches(k) /\ HasBody(k)}
             items == Items(S)
  <2>1. S \in SUBSET HeadersAt("cmgr")
    BY DEF LastHeader
  <2> HIDE DEF S
  <2>2. items \in Seq(Its)
    BY <2>1, ItemsAre
  <2>3. Received(cmd) = [n \in DOMAIN items |-> [items[n] EXCEPT !.slot = cmd.slot]]
    BY <1>2 DEF Received, ReadItems, S
  <2> HIDE DEF items
  <2>4. cmd.slot \in Nat
    BY DEF SmsCmds
  <2>5. \A x \in Its : [x EXCEPT !.slot = cmd.slot] \in Its
    BY <2>4 DEF Its
  <2>6. Len(items) \in Nat /\ DOMAIN items = 1 .. Len(items) /\ \A n \in 1 .. Len(items) : items[n] \in Its
    BY <2>2, LenProperties, ElementOfSeq
  <2>7. Received(cmd) = [n \in 1 .. Len(items) |-> [items[n] EXCEPT !.slot = cmd.slot]]
    BY <2>3, <2>6
  <2> QED
    BY <2>5, <2>6, <2>7, IsASeq
<1>3. CASE cmd.op \notin {"list", "read"}
  BY <1>3 DEF Received
<1> QED
  BY <1>1, <1>2, <1>3

LEMMA SmsShapeStep == SmsShape /\ SmsNext => SmsShape'
<1> SUFFICES ASSUME SmsShape, SmsNext PROVE SmsShape'
  OBVIOUS
<1> USE DEF SmsShape
<1>1. ASSUME NEW m \in SmsMessages, NEW s \in Slots, SmsArrives(m, s) PROVE SmsShape'
  <2>1. smsArrived \subseteq smsArrived' /\ m \in smsArrived' /\ smsArrived' = smsArrived \union {m}
    BY <1>1 DEF SmsArrives
  <2>2. smsWire \in Seq(LinesAbout(smsArrived')) /\ smsAnswers \in Seq(LinesAbout(smsArrived'))
        /\ smsStore \in StoredOf(smsArrived')
    BY <2>1, LinesGrow
  <2>3. Line("cmti", s, Empty) \in LinesAbout(smsArrived')
    BY LineIs
  <2> DEFINE A == smsArrived'
  <2> HIDE DEF A
  <2>4. smsWire' \in Seq(LinesAbout(A))
    BY <1>1, <2>2, <2>3, AppendProperties DEF SmsArrives, A
  <2>5. smsStore' \in StoredOf(A)
    <3>1. [msg |-> m, unread |-> TRUE] \in [msg : A, unread : BOOLEAN]
      BY <2>1 DEF A
    <3> QED
      BY <1>1, <2>2, <3>1 DEF SmsArrives, StoredOf, A
  <2> QED
    BY <1>1, <2>1, <2>2, <2>4, <2>5 DEF SmsArrives, A
<1>2. ASSUME ModemExecutes PROVE SmsShape'
  <2>1. Head(modemInput) \in SmsCmds /\ modemInput' \in Seq(SmsCmds)
    BY <1>2 DEF ModemExecutes
  <2>2. AnswerOf(Head(modemInput)) \in Seq(LinesAbout(smsArrived)) /\ StoreAfter(Head(modemInput)) \in StoredOf(smsArrived)
    BY <2>1, AnswerIs, StoreIs
  <2>3. smsWire' \in Seq(LinesAbout(smsArrived))
    BY <1>2, <2>2, ConcatProperties DEF ModemExecutes
  <2> QED
    BY <1>2, <2>1, <2>2, <2>3 DEF ModemExecutes
<1>3. ASSUME ReaderTakes PROVE SmsShape'
  <2>1. Head(smsWire) \in LinesAbout(smsArrived) /\ smsWire' \in Seq(LinesAbout(smsArrived))
    BY <1>3 DEF ReaderTakes
  <2>2. smsAnswers' \in Seq(LinesAbout(smsArrived))
    BY <1>3, <2>1, AppendProperties DEF ReaderTakes
  <2>3. Head(smsWire).kind = "cmti" => Cmd("read", Head(smsWire).slot) \in SmsCmds
    BY <2>1, SmsCmdIs DEF LinesAbout
  <2>4. smsLock' \in Seq(SmsCmds) /\ (smsHeld => smsLock' = smsLock)
    BY <1>3, <2>3, AppendProperties DEF ReaderTakes
  <2> QED
    BY <1>3, <2>1, <2>2, <2>4 DEF ReaderTakes
<1>4. ASSUME ReaderEnds PROVE SmsShape'
  BY <1>4 DEF ReaderEnds
<1>5. ASSUME CmdStarts PROVE SmsShape'
  <2>1. Head(smsLock) \in SmsCmds
    BY <1>5 DEF CmdStarts
  <2>2. modemInput' \in Seq(SmsCmds)
    BY <1>5, <2>1, AppendProperties DEF CmdStarts
  <2>3. smsAnswers' \in Seq(LinesAbout(smsArrived))
    BY <1>5 DEF CmdStarts
  <2> QED
    BY <1>5, <2>2, <2>3 DEF CmdStarts
<1>6. ASSUME CmdAnswered PROVE SmsShape'
  <2> DEFINE got == Received(Head(smsLock))
             deletions == [k \in DOMAIN got |-> Cmd("delete", got[k].slot)]
  <2>1. smsLock # <<>> /\ Head(smsLock) \in SmsCmds /\ Tail(smsLock) \in Seq(SmsCmds)
    BY <1>6 DEF CmdAnswered
  <2>2. got \in Seq(Its)
    BY <2>1, ReceivedIs
  <2>3. smsShown' = smsShown \union {got[k].msg : k \in DOMAIN got} /\ smsLock' = Tail(smsLock) \o deletions
    BY <1>6 DEF CmdAnswered
  <2> HIDE DEF got
  <2>4. \A k \in DOMAIN got : got[k].slot \in Nat /\ got[k].msg \in smsArrived
    <3>1. \A x \in Its : x.slot \in Nat /\ x.msg \in smsArrived
      BY DEF Its
    <3>2. got \in Seq(Its)
      BY <2>2
    <3>3. \A k \in DOMAIN got : got[k] \in Its
      BY <3>2, LenProperties, ElementOfSeq
    <3> QED
      BY <3>1, <3>3
  <2>5. deletions \in Seq(SmsCmds)
    <3>1. Len(got) \in Nat /\ DOMAIN got = 1 .. Len(got)
      BY <2>2
    <3>2. \A k \in 1 .. Len(got) : Cmd("delete", got[k].slot) \in SmsCmds
      BY <2>4, <3>1, SmsCmdIs
    <3> QED
      BY <3>1, <3>2
  <2> HIDE DEF deletions
  <2>6. smsLock' \in Seq(SmsCmds)
    BY <2>1, <2>3, <2>5, ConcatProperties
  <2>7. smsShown' \subseteq smsArrived
    BY <2>3, <2>4
  <2> QED
    BY <1>6, <2>6, <2>7 DEF CmdAnswered
<1>7. ASSUME CmdLate PROVE SmsShape'
  <2>1. smsLock' \in Seq(SmsCmds)
    BY <1>7 DEF CmdLate
  <2> QED
    BY <1>7, <2>1 DEF CmdLate
<1>8. ASSUME PromptSeen PROVE SmsShape'
  <2>1. modemInput' \in Seq(SmsCmds)
    BY <1>8, SmsCmdIs, AppendProperties DEF PromptSeen
  <2>2. smsAnswers' \in Seq(LinesAbout(smsArrived))
    BY <1>8 DEF PromptSeen
  <2> QED
    BY <1>8, <2>1, <2>2 DEF PromptSeen
<1>9. ASSUME SmsPoll PROVE SmsShape'
  <2>1. smsLock' \in Seq(SmsCmds) /\ smsLock' # <<>>
    BY <1>9, SmsCmdIs, AppendProperties DEF SmsPoll, ListCmd
  <2> QED
    BY <1>9, <2>1 DEF SmsPoll
<1>10. ASSUME SmsSend PROVE SmsShape'
  <2>1. smsLock' \in Seq(SmsCmds) /\ smsLock' # <<>>
    BY <1>10, SmsCmdIs, AppendProperties DEF SmsSend
  <2> QED
    BY <1>10, <2>1 DEF SmsSend
<1> QED
  BY <1>1, <1>2, <1>3, <1>4, <1>5, <1>6, <1>7, <1>8, <1>9, <1>10 DEF SmsNext

\* A poll asks for the lock only when no other one has; every other change of
\* the queue takes its head away or adds a command that lists nothing.
LEMMA OneListStep == SmsShape /\ OneList /\ SmsNext => OneList'
<1> SUFFICES ASSUME SmsShape, OneList, SmsNext PROVE OneList'
  OBVIOUS
<1>1. smsLock \in Seq(SmsCmds)
  BY DEF SmsShape
<1>2. ASSUME NEW c \in SmsCmds, smsLock' = Append(smsLock, c),
             c.op = "list" => \A k \in 1 .. Len(smsLock) : smsLock[k].op # "list"
      PROVE  OneList'
  BY <1>1, <1>2 DEF OneList
<1>3. ASSUME smsLock # <<>>, NEW added \in Seq(SmsCmds), smsLock' = Tail(smsLock) \o added,
             \A k \in 1 .. Len(added) : added[k].op # "list"
      PROVE  OneList'
  <2>1. Tail(smsLock) \in Seq(SmsCmds) /\ Len(Tail(smsLock)) = Len(smsLock) - 1
        /\ \A i \in 1 .. Len(smsLock) - 1 : Tail(smsLock)[i] = smsLock[i + 1]
    BY <1>1, <1>3
  <2>2. \A i \in 1 .. Len(smsLock') : smsLock'[i].op = "list" =>
           i \in 1 .. Len(smsLock) - 1 /\ smsLock'[i] = smsLock[i + 1]
    BY <2>1, <1>1, <1>3
  <2>3. ASSUME NEW i \in 1 .. Len(smsLock'), NEW j \in 1 .. Len(smsLock'),
               smsLock'[i].op = "list", smsLock'[j].op = "list"
        PROVE  i = j
    <3>1. i + 1 \in 1 .. Len(smsLock) /\ smsLock[i + 1].op = "list"
          /\ j + 1 \in 1 .. Len(smsLock) /\ smsLock[j + 1].op = "list"
      BY <2>2, <2>3, <1>1, LenProperties
    <3>2. i + 1 = j + 1
      BY <3>1 DEF OneList
    <3> QED
      BY <3>2
  <2> QED
    BY <2>3 DEF OneList
<1>4. CASE UNCHANGED smsLock
  BY <1>4 DEF OneList
<1>5. ASSUME ReaderTakes PROVE OneList'
  <2>1. Head(smsWire).kind = "cmti" => Cmd("read", Head(smsWire).slot) \in SmsCmds
    BY <1>5, SmsCmdIs DEF ReaderTakes, SmsShape, LinesAbout
  <2> QED
    BY <1>2, <1>4, <1>5, <2>1 DEF ReaderTakes, Cmd
<1>6. ASSUME CmdAnswered PROVE OneList'
  <2> DEFINE got == Received(Head(smsLock))
             deletions == [k \in DOMAIN got |-> Cmd("delete", got[k].slot)]
  <2>1. smsLock # <<>> /\ Head(smsLock) \in SmsCmds
    BY <1>6 DEF CmdAnswered, SmsShape
  <2>2. got \in Seq(Its)
    BY <2>1, ReceivedIs
  <2>3. smsLock' = Tail(smsLock) \o deletions
    BY <1>6 DEF CmdAnswered
  <2> HIDE DEF got
  <2>4. Len(got) \in Nat /\ DOMAIN got = 1 .. Len(got)
    BY <2>2
  <2>5. \A k \in 1 .. Len(got) : Cmd("delete", got[k].slot) \in SmsCmds /\ Cmd("delete", got[k].slot).op # "list"
    <3>1. \A x \in Its : x.slot \in Nat
      BY DEF Its
    <3>2. got \in Seq(Its)
      BY <2>2
    <3>3. \A k \in 1 .. Len(got) : got[k].slot \in Nat
      BY <3>1, <3>2, ElementOfSeq
    <3> QED
      BY <3>3, SmsCmdIs DEF Cmd
  <2>6. deletions \in Seq(SmsCmds) /\ \A k \in 1 .. Len(deletions) : deletions[k].op # "list"
    BY <2>4, <2>5
  <2> HIDE DEF deletions
  <2> QED
    BY <1>3, <2>1, <2>3, <2>6
<1>7. ASSUME CmdLate PROVE OneList'
  <2>1. smsLock # <<>> /\ smsLock' = Tail(smsLock) \o <<>>
    BY <1>7, <1>1 DEF CmdLate, SmsShape
  <2>2. <<>> \in Seq(SmsCmds) /\ Len(<<>>) = 0
    OBVIOUS
  <2> DEFINE none == <<>>
  <2>3. none \in Seq(SmsCmds) /\ \A k \in 1 .. Len(none) : none[k].op # "list"
    BY <2>2
  <2>4. smsLock' = Tail(smsLock) \o none
    BY <2>1
  <2> HIDE DEF none
  <2> QED
    BY <1>3, <2>1, <2>3, <2>4
<1>8. ASSUME SmsPoll PROVE OneList'
  BY <1>2, <1>8, <1>1, SmsCmdIs DEF SmsPoll, ListCmd
<1>9. ASSUME SmsSend PROVE OneList'
  BY <1>2, <1>9, SmsCmdIs DEF SmsSend, Cmd
<1> QED
  BY <1>4, <1>5, <1>6, <1>7, <1>8, <1>9
     DEF SmsNext, SmsArrives, ModemExecutes, ReaderEnds, CmdStarts, PromptSeen

LEMMA SmsInvStep == SmsInv /\ [SmsNext]_smsVars => SmsInv'
<1>1. SmsInv /\ UNCHANGED smsVars => SmsInv'
  BY DEF SmsInv, SmsShape, OneList, smsVars
<1> QED
  BY <1>1, SmsShapeStep, OneListStep DEF SmsInv

LEMMA SmsTyped == SmsInv => SmsTypeOK
<1> SUFFICES ASSUME SmsInv PROVE SmsTypeOK
  OBVIOUS
<1> DEFINE Lists == {k \in DOMAIN smsLock : smsLock[k].op = "list"}
<1>1. \A s \in Slots : smsStore[s] # Empty => smsStore[s].msg \in smsArrived
  BY DEF SmsInv, SmsShape, StoredOf
<1>2. Lists = {} \/ \E k \in Lists : Lists = {k}
  <2>1. DOMAIN smsLock = 1 .. Len(smsLock)
    BY DEF SmsInv, SmsShape
  <2>2. \A i, j \in Lists : i = j
    BY <2>1 DEF SmsInv, OneList
  <2> HIDE DEF Lists
  <2> QED
    BY <2>2
<1>3. Cardinality(Lists) <= 1
  <2> HIDE DEF Lists
  <2>1. CASE Lists = {}
    BY <2>1, FS_EmptySet
  <2>2. ASSUME NEW k, Lists = {k} PROVE Cardinality(Lists) <= 1
    BY <2>2, FS_Singleton
  <2> QED
    BY <1>2, <2>1, <2>2
<1> QED
  BY <1>1, <1>3 DEF SmsInv, SmsShape, SmsTypeOK

\* Whatever commands time out and whatever slots are used again, the modem's
\* storage, its lines and the queue at the lock keep their shape, and only one
\* list waits (SMSAdapter._run, ATEngine.cmd).
THEOREM SmsTypeCorrect == SmsInit /\ [][SmsNext]_smsVars => []SmsTypeOK
  BY SmsInvInit, SmsInvStep, SmsTyped, PTL

-----------------------------------------------------------------------------
(* The companion link.  A message that is coming is in one frame, which no  *)
(* drop of the link and no garbled frame leaves behind.                     *)

FrameRecs ==
    {f \in [kind : {"push", "push84", "message", "start", "stale", "end"},
            of : RadioMail \union StaleContacts \union {NoMail}] :
       /\ f.kind = "message" => f.of \in RadioMail
       /\ f.kind = "stale" => f.of \in StaleContacts
       /\ f.kind \notin {"message", "stale"} => f.of = NoMail}

IsMessage(f, m) == f.kind = "message" /\ f.of = m

\* What is coming is in one frame.
ComesIn(fs) ==
    \A m \in RadioMail :
       /\ mail[m] = "coming" <=> \E i \in 1 .. Len(fs) : IsMessage(fs[i], m)
       /\ \A i, j \in 1 .. Len(fs) : IsMessage(fs[i], m) /\ IsMessage(fs[j], m) => i = j

LinkShape ==
    /\ mail \in [RadioMail -> {"unsent", "waiting", "coming", "fetched", "lost"}]
    /\ onRadio \subseteq StaleContacts /\ removals \subseteq StaleContacts /\ flushing \subseteq StaleContacts
    /\ frames \in Seq(FrameRecs) /\ Len(frames) <= MaxFrames
    /\ loop \in {"off", "pass", "read", "dead"}

LinkInv == LinkShape /\ ComesIn(frames)

LEMMA FramesAre ==
    /\ \A m \in RadioMail : Frame("message", m) \in FrameRecs /\ IsMessage(Frame("message", m), m)
    /\ \A c \in StaleContacts : Frame("stale", c) \in FrameRecs
    /\ \A kind \in {"push", "push84", "start", "end"} : Frame(kind, NoMail) \in FrameRecs
    /\ \A m, k : IsMessage(Frame("message", m), k) => k = m
    /\ \A kind, x, m : kind # "message" => ~IsMessage(Frame(kind, x), m)
  BY DEF Frame, FrameRecs, IsMessage

\* A frame is of a message only if it brings it: contacts are no messages.
LEMMA OfIsMessage ==
    ASSUME NEW f \in FrameRecs, NEW m \in RadioMail, f.of = m
    PROVE  IsMessage(f, m)
  BY CompanionAssumption DEF FrameRecs, IsMessage

LEMMA LinkInvInit == CompanionInit => LinkInv
  BY CompanionAssumption DEF CompanionInit, LinkInv, LinkShape, ComesIn

\* A frame that brings no message is added.
LEMMA FrameAdded ==
    ASSUME LinkInv, Len(frames) < MaxFrames, mail' = mail,
           NEW f \in FrameRecs, f.kind # "message", frames' = Append(frames, f)
    PROVE  /\ frames' \in Seq(FrameRecs) /\ Len(frames') <= MaxFrames
           /\ ComesIn(frames)'
<1>1. frames \in Seq(FrameRecs) /\ MaxFrames \in Nat
  BY CompanionAssumption DEF LinkInv, LinkShape
<1>2. /\ frames' \in Seq(FrameRecs) /\ Len(frames') = Len(frames) + 1
      /\ \A i \in 1 .. Len(frames) : frames'[i] = frames[i]
      /\ frames'[Len(frames) + 1] = f
  BY <1>1, AppendProperties
<1>3. \A m : \A i \in 1 .. Len(frames') : IsMessage(frames'[i], m) => i \in 1 .. Len(frames) /\ IsMessage(frames[i], m)
  BY <1>1, <1>2 DEF IsMessage
<1>4. \A m : \A i \in 1 .. Len(frames) : IsMessage(frames[i], m) => i \in 1 .. Len(frames') /\ IsMessage(frames'[i], m)
  BY <1>1, <1>2
<1>5. ComesIn(frames)'
  <2> SUFFICES ASSUME NEW m \in RadioMail
               PROVE  /\ mail'[m] = "coming" <=> \E i \in 1 .. Len(frames') : IsMessage(frames'[i], m)
                      /\ \A i, j \in 1 .. Len(frames') : IsMessage(frames'[i], m) /\ IsMessage(frames'[j], m) => i = j
    BY DEF ComesIn, IsMessage
  <2> QED
    BY <1>3, <1>4 DEF LinkInv, ComesIn
<1> QED
  BY <1>1, <1>2, <1>5

\* The first frame is taken: what it brought is coming no more.
LEMMA FrameTaken ==
    ASSUME LinkInv, frames # <<>>, frames' = Tail(frames),
           mail' \in [RadioMail -> {"unsent", "waiting", "coming", "fetched", "lost"}],
           \A m \in RadioMail : IF IsMessage(Head(frames), m) THEN mail'[m] # "coming" ELSE mail'[m] = mail[m]
    PROVE  /\ frames' \in Seq(FrameRecs) /\ Len(frames') <= MaxFrames
           /\ ComesIn(frames)'
<1>1. frames \in Seq(FrameRecs) /\ MaxFrames \in Nat /\ Len(frames) <= MaxFrames
  BY CompanionAssumption DEF LinkInv, LinkShape
<1>2. /\ frames' \in Seq(FrameRecs) /\ Len(frames') = Len(frames) - 1 /\ Len(frames) \in Nat \ {0}
      /\ \A i \in 1 .. Len(frames') : frames'[i] = frames[i + 1]
      /\ Head(frames) = frames[1]
  BY <1>1, EmptySeq, HeadTailProperties
<1>3. ASSUME NEW i \in 1 .. Len(frames'), NEW m \in RadioMail, IsMessage(frames'[i], m)
      PROVE  mail[m] = "coming" /\ ~IsMessage(Head(frames), m)
  <2>1. i + 1 \in 1 .. Len(frames) /\ IsMessage(frames[i + 1], m) /\ 1 \in 1 .. Len(frames)
    BY <1>2, <1>3
  <2>2. IsMessage(frames[1], m) => i + 1 = 1
    BY <2>1 DEF LinkInv, ComesIn
  <2> QED
    BY <2>1, <2>2, <1>2 DEF LinkInv, ComesIn
<1>4. ASSUME NEW m \in RadioMail, mail[m] = "coming", ~IsMessage(Head(frames), m)
      PROVE  \E i \in 1 .. Len(frames') : IsMessage(frames'[i], m)
  <2>1. PICK i \in 1 .. Len(frames) : IsMessage(frames[i], m)
    BY <1>4 DEF LinkInv, ComesIn
  <2>2. i # 1
    BY <2>1, <1>2, <1>4
  <2>3. i - 1 \in 1 .. Len(frames') /\ frames'[i - 1] = frames[i]
    BY <2>2, <1>2
  <2> QED
    BY <2>1, <2>3
<1>5. ASSUME NEW m \in RadioMail, NEW i \in 1 .. Len(frames'), NEW j \in 1 .. Len(frames'),
             IsMessage(frames'[i], m), IsMessage(frames'[j], m)
      PROVE  i = j
  <2>1. i + 1 \in 1 .. Len(frames) /\ IsMessage(frames[i + 1], m) /\ j + 1 \in 1 .. Len(frames) /\ IsMessage(frames[j + 1], m)
    BY <1>2, <1>5
  <2>2. i + 1 = j + 1
    BY <2>1 DEF LinkInv, ComesIn
  <2> QED
    BY <2>2
<1>6. ComesIn(frames)'
  <2> SUFFICES ASSUME NEW m \in RadioMail
               PROVE  /\ mail'[m] = "coming" <=> \E i \in 1 .. Len(frames') : IsMessage(frames'[i], m)
                      /\ \A i, j \in 1 .. Len(frames') : IsMessage(frames'[i], m) /\ IsMessage(frames'[j], m) => i = j
    BY DEF ComesIn, IsMessage
  <2>1. mail'[m] = "coming" => mail[m] = "coming" /\ ~IsMessage(Head(frames), m)
    OBVIOUS
  <2>2. mail[m] = "coming" /\ ~IsMessage(Head(frames), m) => mail'[m] = "coming"
    OBVIOUS
  <2> QED
    BY <2>1, <2>2, <1>3, <1>4, <1>5
<1> QED
  BY <1>1, <1>2, <1>6

\* No frame and no message changes.
LEMMA FramesRest ==
    ASSUME LinkInv, mail' = mail, frames' = frames
    PROVE  /\ frames' \in Seq(FrameRecs) /\ Len(frames') <= MaxFrames
           /\ ComesIn(frames)'
  BY DEF LinkInv, LinkShape, ComesIn

LEMMA MailArrivesKeeps ==
    ASSUME LinkInv, NEW m \in RadioMail, MailArrives(m)
    PROVE  LinkInv'
<1> DEFINE fs == frames
<1>1. mail[m] = "unsent" /\ mail' = [mail EXCEPT ![m] = "waiting"] /\ Len(frames) < MaxFrames
  BY DEF MailArrives, Listening
<1>2. \A k \in RadioMail : mail'[k] = "coming" <=> mail[k] = "coming"
  BY <1>1 DEF LinkInv, LinkShape
<1>3. frames \in Seq(FrameRecs) /\ MaxFrames \in Nat
  BY CompanionAssumption DEF LinkInv, LinkShape
<1>4. frames' = frames \/ \E f \in FrameRecs : f.kind # "message" /\ frames' = Append(frames, f)
  <2>1. frames' = frames \o <<>> \/ frames' = frames \o <<Frame("push", NoMail)>>
        \/ frames' = frames \o <<Frame("push84", NoMail)>>
    BY DEF MailArrives
  <2>2. Frame("push", NoMail) \in FrameRecs /\ Frame("push", NoMail).kind # "message"
        /\ Frame("push84", NoMail) \in FrameRecs /\ Frame("push84", NoMail).kind # "message"
    BY FramesAre DEF Frame
  <2>3. frames \o <<>> = frames
    BY <1>3, ConcatEmptySeq
  <2>4. \A f \in FrameRecs : frames \o <<f>> = Append(frames, f)
    BY <1>3, AppendIsConcat
  <2> QED
    BY <2>1, <2>2, <2>3, <2>4
<1>5. frames' \in Seq(FrameRecs) /\ Len(frames') <= MaxFrames
  BY <1>1, <1>3, <1>4, AppendProperties
<1>6. \A k : \A i \in 1 .. Len(frames') : IsMessage(frames'[i], k) => i \in 1 .. Len(frames) /\ IsMessage(frames[i], k)
  BY <1>3, <1>4, AppendProperties DEF IsMessage
<1>7. \A k : \A i \in 1 .. Len(frames) : IsMessage(frames[i], k) => i \in 1 .. Len(frames') /\ IsMessage(frames'[i], k)
  BY <1>3, <1>4, AppendProperties
<1>8. ComesIn(frames)'
  <2> SUFFICES ASSUME NEW k \in RadioMail
               PROVE  /\ mail'[k] = "coming" <=> \E i \in 1 .. Len(frames') : IsMessage(frames'[i], k)
                      /\ \A i, j \in 1 .. Len(frames') : IsMessage(frames'[i], k) /\ IsMessage(frames'[j], k) => i = j
    BY DEF ComesIn, IsMessage
  <2> QED
    BY <1>2, <1>6, <1>7 DEF LinkInv, ComesIn
<1> QED
  BY <1>1, <1>5, <1>8 DEF LinkInv, LinkShape, MailArrives, taskVars

LEMMA SyncAnswered ==
    ASSUME LinkInv, Len(frames) < MaxFrames, AnswersSync
    PROVE  LinkShape /\ mail' \in [RadioMail -> {"unsent", "waiting", "coming", "fetched", "lost"}]
           /\ frames' \in Seq(FrameRecs) /\ Len(frames') <= MaxFrames /\ ComesIn(frames)'
<1>1. CASE UNCHANGED <<mail, frames>>
  BY <1>1, FramesRest DEF LinkInv, LinkShape
<1>2. ASSUME NEW m \in RadioMail, mail[m] = "waiting", mail' = [mail EXCEPT ![m] = "coming"],
             frames' = Append(frames, Frame("message", m))
      PROVE  /\ mail' \in [RadioMail -> {"unsent", "waiting", "coming", "fetched", "lost"}]
             /\ frames' \in Seq(FrameRecs) /\ Len(frames') <= MaxFrames /\ ComesIn(frames)'
  <2>1. frames \in Seq(FrameRecs) /\ MaxFrames \in Nat /\ Frame("message", m) \in FrameRecs
    BY CompanionAssumption, FramesAre DEF LinkInv, LinkShape
  <2>2. /\ frames' \in Seq(FrameRecs) /\ Len(frames') = Len(frames) + 1
        /\ \A i \in 1 .. Len(frames) : frames'[i] = frames[i]
        /\ frames'[Len(frames) + 1] = Frame("message", m)
    BY <1>2, <2>1, AppendProperties
  <2>3. \A i \in 1 .. Len(frames') : i \in 1 .. Len(frames) \/ i = Len(frames) + 1
    BY <2>1, <2>2
  <2>4. \A i \in 1 .. Len(frames) : ~IsMessage(frames[i], m)
    BY <1>2 DEF LinkInv, ComesIn
  <2>5. ComesIn(frames)'
    <3> SUFFICES ASSUME NEW k \in RadioMail
                 PROVE  /\ mail'[k] = "coming" <=> \E i \in 1 .. Len(frames') : IsMessage(frames'[i], k)
                        /\ \A i, j \in 1 .. Len(frames') : IsMessage(frames'[i], k) /\ IsMessage(frames'[j], k) => i = j
      BY DEF ComesIn, IsMessage
    <3>1. CASE k = m
      <4>1. mail'[k] = "coming"
        BY <1>2, <3>1 DEF LinkInv, LinkShape
      <4>2. Len(frames) + 1 \in 1 .. Len(frames') /\ IsMessage(frames'[Len(frames) + 1], k)
        BY <2>1, <2>2, <3>1, FramesAre
      <4>3. \A i \in 1 .. Len(frames') : IsMessage(frames'[i], k) => i = Len(frames) + 1
        BY <2>2, <2>3, <2>4, <3>1
      <4> QED
        BY <4>1, <4>2, <4>3
    <3>2. CASE k # m
      <4>1. mail'[k] = mail[k]
        BY <1>2, <3>2 DEF LinkInv, LinkShape
      <4>2. \A i \in 1 .. Len(frames') : IsMessage(frames'[i], k) <=> i \in 1 .. Len(frames) /\ IsMessage(frames[i], k)
        BY <2>2, <2>3, <3>2, FramesAre
      <4>3. \A i \in 1 .. Len(frames) : i \in 1 .. Len(frames')
        BY <2>1, <2>2
      <4> QED
        BY <4>1, <4>2, <4>3 DEF LinkInv, ComesIn
    <3> QED
      BY <3>1, <3>2
  <2>6. mail' \in [RadioMail -> {"unsent", "waiting", "coming", "fetched", "lost"}]
    BY <1>2 DEF LinkInv, LinkShape
  <2>7. Len(frames') <= MaxFrames
    BY <2>1, <2>2
  <2> QED
    BY <2>2, <2>5, <2>6, <2>7
<1> QED
  BY <1>1, <1>2 DEF AnswersSync, LinkInv

LEMMA RadioExecutesKeeps == LinkInv /\ RadioExecutes => LinkInv'
<1> SUFFICES ASSUME LinkInv, RadioExecutes PROVE LinkInv'
  OBVIOUS
<1>1. Len(frames) < MaxFrames /\ UNCHANGED <<loop, removals, flushing>>
  BY DEF RadioExecutes, Listening, taskVars
<1>2. CASE AnswersSync
  BY <1>1, <1>2, SyncAnswered DEF LinkInv, LinkShape, AnswersSync
<1>3. CASE AnswersContacts
  <2>1. Frame("start", NoMail) \in FrameRecs /\ Frame("start", NoMail).kind # "message"
    BY FramesAre DEF Frame
  <2>2. mail' = mail /\ frames' = Append(frames, Frame("start", NoMail)) /\ onRadio' = onRadio
    BY <1>3 DEF AnswersContacts
  <2>3. frames' \in Seq(FrameRecs) /\ Len(frames') <= MaxFrames /\ ComesIn(frames)'
    BY <1>1, <2>1, <2>2, FrameAdded
  <2> QED
    BY <1>1, <2>2, <2>3 DEF LinkInv, LinkShape
<1>4. CASE AnswersRemove
  <2>1. mail' = mail /\ frames' = frames /\ onRadio' \subseteq onRadio
    BY <1>4 DEF AnswersRemove
  <2> QED
    BY <1>1, <2>1, FramesRest DEF LinkInv, LinkShape
<1>5. CASE UNCHANGED <<radioVars, frames>>
  BY <1>1, <1>5, FramesRest DEF LinkInv, LinkShape, radioVars
<1> QED
  BY <1>2, <1>3, <1>4, <1>5 DEF RadioExecutes

LEMMA ListKeeps ==
    LinkInv /\ ((\E c \in StaleContacts : ListsContact(c)) \/ ListEnds) => LinkInv'
<1>1. ASSUME LinkInv, NEW c \in StaleContacts, ListsContact(c) PROVE LinkInv'
  <2>1. Len(frames) < MaxFrames /\ mail' = mail /\ frames' = Append(frames, Frame("stale", c))
        /\ UNCHANGED <<onRadio, loop, removals, flushing>>
    BY <1>1 DEF ListsContact, Listening, radioVars, taskVars
  <2>2. Frame("stale", c) \in FrameRecs /\ Frame("stale", c).kind # "message"
    BY FramesAre DEF Frame
  <2>3. frames' \in Seq(FrameRecs) /\ Len(frames') <= MaxFrames /\ ComesIn(frames)'
    BY <1>1, <2>1, <2>2, FrameAdded
  <2> QED
    BY <1>1, <2>1, <2>3 DEF LinkInv, LinkShape
<1>2. ASSUME LinkInv, ListEnds PROVE LinkInv'
  <2>1. Len(frames) < MaxFrames /\ mail' = mail /\ UNCHANGED <<onRadio, loop, removals, flushing>>
        /\ (frames' = Append(frames, Frame("end", NoMail)) \/ frames' = frames)
    BY <1>2 DEF ListEnds, Listening, taskVars
  <2>2. Frame("end", NoMail) \in FrameRecs /\ Frame("end", NoMail).kind # "message"
    BY FramesAre DEF Frame
  <2>3. frames' \in Seq(FrameRecs) /\ Len(frames') <= MaxFrames /\ ComesIn(frames)'
    BY <1>2, <2>1, <2>2, FrameAdded, FramesRest
  <2> QED
    BY <1>2, <2>1, <2>3 DEF LinkInv, LinkShape
<1> QED
  BY <1>1, <1>2

LEMMA HeadIs == LinkInv /\ frames # <<>> => Head(frames) \in FrameRecs
  BY EmptySeq, HeadTailProperties DEF LinkInv, LinkShape

\* The first frame is lost, with the message it brought.
LEMMA HeadLost ==
    ASSUME LinkInv, frames # <<>>, frames' = Tail(frames), mail' = Lost(<<Head(frames)>>), onRadio' = onRadio,
           loop' \in {"off", "pass", "read", "dead"}, UNCHANGED <<removals, flushing>>
    PROVE  LinkInv'
<1>1. \A m \in RadioMail : mail'[m] = IF Head(frames).of = m THEN "lost" ELSE mail[m]
  BY DEF Lost
<1>2. \A m \in RadioMail : Head(frames).of = m <=> IsMessage(Head(frames), m)
  BY HeadIs, OfIsMessage DEF IsMessage
<1>3. mail' \in [RadioMail -> {"unsent", "waiting", "coming", "fetched", "lost"}]
  BY DEF Lost, LinkInv, LinkShape
<1>4. \A m \in RadioMail : IF IsMessage(Head(frames), m) THEN mail'[m] # "coming" ELSE mail'[m] = mail[m]
  BY <1>1, <1>2
<1>5. frames' \in Seq(FrameRecs) /\ Len(frames') <= MaxFrames /\ ComesIn(frames)'
  BY <1>3, <1>4, FrameTaken
<1> QED
  BY <1>3, <1>5 DEF LinkInv, LinkShape

LEMMA FrameGarbledKeeps == LinkInv /\ FrameGarbled => LinkInv'
<1>1. LinkInv => loop \in {"off", "pass", "read", "dead"}
  BY DEF LinkInv, LinkShape
<1> QED
  BY <1>1, HeadLost DEF FrameGarbled, taskVars

LEMMA FrameReadKeeps == LinkInv /\ FrameRead => LinkInv'
<1> SUFFICES ASSUME LinkInv, FrameRead PROVE LinkInv'
  OBVIOUS
<1>1. frames # <<>> /\ frames' = Tail(frames) /\ loop' = "pass" /\ onRadio' = onRadio
  BY DEF FrameRead
<1>2. Head(frames) \in FrameRecs
  BY <1>1, HeadIs
<1>3. removals' \subseteq StaleContacts /\ flushing' \subseteq StaleContacts
  BY <1>2 DEF FrameRead, StreamStarts, StaleContact, StreamEnds, MailAnnounced, MailComes, FrameRecs, LinkInv, LinkShape
<1>4. CASE MailComes
  <2>1. Head(frames).kind = "message" /\ mail' = [mail EXCEPT ![Head(frames).of] = "fetched"]
    BY <1>4 DEF MailComes
  <2>2. mail' \in [RadioMail -> {"unsent", "waiting", "coming", "fetched", "lost"}]
    BY <2>1 DEF LinkInv, LinkShape
  <2>3. \A m \in RadioMail : IF IsMessage(Head(frames), m) THEN mail'[m] # "coming" ELSE mail'[m] = mail[m]
    BY <2>1 DEF IsMessage, LinkInv, LinkShape
  <2>4. frames' \in Seq(FrameRecs) /\ Len(frames') <= MaxFrames /\ ComesIn(frames)'
    BY <1>1, <2>2, <2>3, FrameTaken
  <2> QED
    BY <1>1, <1>3, <2>2, <2>4 DEF LinkInv, LinkShape
<1>5. CASE StreamStarts \/ StaleContact \/ StreamEnds \/ MailAnnounced
  <2>1. Head(frames).kind # "message" /\ mail' = mail
    BY <1>5 DEF StreamStarts, StaleContact, StreamEnds, MailAnnounced
  <2>2. mail' \in [RadioMail -> {"unsent", "waiting", "coming", "fetched", "lost"}]
        /\ \A m \in RadioMail : IF IsMessage(Head(frames), m) THEN mail'[m] # "coming" ELSE mail'[m] = mail[m]
    BY <2>1 DEF IsMessage, LinkInv, LinkShape
  <2>3. frames' \in Seq(FrameRecs) /\ Len(frames') <= MaxFrames /\ ComesIn(frames)'
    BY <1>1, <2>2, FrameTaken
  <2> QED
    BY <1>1, <1>3, <2>2, <2>3 DEF LinkInv, LinkShape
<1> QED
  BY <1>4, <1>5 DEF FrameRead

LEMMA LinkDropsKeeps == LinkInv /\ LinkDrops => LinkInv'
<1> SUFFICES ASSUME LinkInv, LinkDrops PROVE LinkInv'
  OBVIOUS
<1>1. mail' = Lost(frames) /\ frames' = <<>> /\ loop' = "off" /\ UNCHANGED <<onRadio, removals, flushing>>
  BY DEF LinkDrops
<1>2. mail' \in [RadioMail -> {"unsent", "waiting", "coming", "fetched", "lost"}]
  BY <1>1 DEF Lost, LinkInv, LinkShape
<1>3. \A m \in RadioMail : mail'[m] # "coming"
  <2> SUFFICES ASSUME NEW m \in RadioMail, mail'[m] = "coming" PROVE FALSE
    OBVIOUS
  <2>1. mail[m] = "coming" /\ ~ \E i \in DOMAIN frames : frames[i].of = m
    BY <1>1 DEF Lost
  <2>2. \E i \in 1 .. Len(frames) : frames[i].of = m
    BY <2>1 DEF LinkInv, ComesIn, IsMessage
  <2>3. DOMAIN frames = 1 .. Len(frames)
    BY LenProperties DEF LinkInv, LinkShape
  <2> QED
    BY <2>1, <2>2, <2>3
<1>4. frames' \in Seq(FrameRecs) /\ Len(frames') = 0 /\ Len(frames') <= MaxFrames
  BY <1>1, CompanionAssumption
<1>5. ComesIn(frames)'
  BY <1>3, <1>4 DEF ComesIn
<1> QED
  BY <1>1, <1>2, <1>4, <1>5 DEF LinkInv, LinkShape

\* The other steps neither send nor read a frame.
LEMMA LinkRests ==
    ASSUME LinkInv, UNCHANGED <<mail, frames>>, onRadio' \subseteq onRadio, loop' \in {"off", "pass", "read", "dead"},
           removals' \subseteq StaleContacts, flushing' \subseteq StaleContacts
    PROVE  LinkInv'
  BY FramesRest DEF LinkInv, LinkShape

LEMMA ReaderDiesKeeps == LinkInv /\ ReaderDies => LinkInv'
<1> SUFFICES ASSUME LinkInv, ReaderDies PROVE LinkInv'
  OBVIOUS
<1>1. loop' = "dead" /\ UNCHANGED <<onRadio, removals, flushing>>
  BY DEF ReaderDies
<1>2. removals \subseteq StaleContacts /\ flushing \subseteq StaleContacts /\ onRadio' \subseteq onRadio
  BY <1>1 DEF LinkInv, LinkShape
<1>3. CASE UNCHANGED <<mail, frames>>
  BY <1>1, <1>2, <1>3, LinkRests
<1>4. CASE frames # <<>> /\ mail' = Lost(<<Head(frames)>>) /\ frames' = Tail(frames)
  BY <1>1, <1>4, HeadLost
<1> QED
  BY <1>3, <1>4 DEF ReaderDies

LEMMA LinkInvStep == LinkInv /\ [CompanionNext]_companionVars => LinkInv'
<1> SUFFICES ASSUME LinkInv, [CompanionNext]_companionVars PROVE LinkInv'
  OBVIOUS
<1>1. onRadio \subseteq StaleContacts /\ removals \subseteq StaleContacts /\ flushing \subseteq StaleContacts
      /\ loop \in {"off", "pass", "read", "dead"}
  BY DEF LinkInv, LinkShape
<1>2. ASSUME NEW c \in StaleContacts, FlushSends(c) PROVE LinkInv'
  BY <1>1, <1>2, LinkRests DEF FlushSends, radioVars
<1>3. ASSUME NEW requesters \in SUBSET Requesters, LoopTurn(requesters) PROVE LinkInv'
  BY <1>1, <1>3, LinkRests DEF LoopTurn, radioVars
<1>4. CASE ReadTimesOut
  BY <1>1, <1>4, LinkRests DEF ReadTimesOut, radioVars
<1>5. CASE InitSends
  BY <1>1, <1>5, LinkRests DEF InitSends, radioVars
<1>6. CASE PollFallsDue
  BY <1>1, <1>6, LinkRests DEF PollFallsDue, radioVars, taskVars
<1>7. CASE HalfMinutePasses
  BY <1>1, <1>7, LinkRests DEF HalfMinutePasses, radioVars, taskVars
<1>8. CASE Connects
  BY <1>1, <1>8, LinkRests DEF Connects, radioVars
<1>9. CASE UNCHANGED companionVars
  BY <1>1, <1>9, LinkRests DEF companionVars
<1> QED
  BY <1>2, <1>3, <1>4, <1>5, <1>6, <1>7, <1>8, <1>9, MailArrivesKeeps, RadioExecutesKeeps, ListKeeps,
     FrameGarbledKeeps, FrameReadKeeps, LinkDropsKeeps, ReaderDiesKeeps DEF CompanionNext

LEMMA LinkTyped == LinkInv => CompanionTypeOK
<1> SUFFICES ASSUME LinkInv PROVE CompanionTypeOK
  OBVIOUS
<1>1. DOMAIN frames = 1 .. Len(frames)
  BY LenProperties DEF LinkInv, LinkShape
<1>2. \A i \in 1 .. Len(frames) : frames[i] \in FrameRecs
  BY ElementOfSeq DEF LinkInv, LinkShape
<1>3. \A m : \A f \in FrameRecs : IsMessage(f, m) <=> f = Frame("message", m)
  BY DEF FrameRecs, IsMessage, Frame
<1>4. \A m \in RadioMail : mail[m] = "coming" <=> \E i \in DOMAIN frames : frames[i] = Frame("message", m)
  BY <1>1, <1>2, <1>3 DEF LinkInv, ComesIn
<1> QED
  BY <1>4 DEF LinkInv, LinkShape, CompanionTypeOK

\* Frames in the buffer and the radio's messages stay in step across garbled
\* frames, drops and reconnections (MeshCoreAdapter._read_frame, _run).
THEOREM CompanionTypeCorrect == CompanionInit /\ [][CompanionNext]_companionVars => []CompanionTypeOK
  BY LinkInvInit, LinkInvStep, LinkTyped, PTL

-----------------------------------------------------------------------------
(* CAT control.  How far the rig can fall behind: ToCome counts the commands *)
(* that may be written although it is behind, so that what waits for the rig *)
(* and what may come never exceed the two together.                          *)

CatCmds  == {"none", "_", "f", "m", "t", "F", "T 0", "T 1"}
CatPlaces == [pc : {"rest", "wait", "failed", "asked"}, cmd : CatCmds, got : 0 .. 1]

CatShape ==
    /\ catConnected \in BOOLEAN /\ catPtt \in BOOLEAN /\ rigKeyed \in BOOLEAN /\ catStopped \in BOOLEAN
    /\ catSocket \in {"up", "eof"}
    /\ catGuard \in {"none", "armed", "fired"}
    /\ catTask \in [CatTasks -> CatPlaces]
    /\ rigInput \in Seq([cmd : CatCmds, live : BOOLEAN])
    /\ catRequests \in 0 .. MaxCatRequests /\ catTroubles \in 0 .. MaxCatTroubles

\* Who waits for a line is at that place; stop() begins at its own.
WaiterInv ==
    /\ catWaiter \in CatTasks \union {"nobody"}
    /\ catWaiter # "nobody" => catTask[catWaiter].pc = "wait"
    /\ ~catStopped => catTask["stop"].pc = "rest"

\* Requests to key or unkey that have not ended: one that fails asks get_ptt(),
\* one that keys arms the watchdog.
Pressing == {c \in CatCallers : catTask[c].pc # "rest" /\ catTask[c].cmd \in {"T 0", "T 1"}}

\* What the rig sends, and a refusal that nobody has read yet.
CatLines == {"value", "0", "1", "RPRT", "refused"}
LinesInv == catLines \in Seq(CatLines)
Refusal  == \E k \in 1 .. Len(catLines) : catLines[k] = "refused"

\* The loop may connect without a further trouble.
MayConnect ==
    /\ ~catStopped
    /\ \/ ~catConnected
       \/ /\ catTask["poll"].cmd = "_"
          /\ catTask["poll"].pc = "failed" \/ (catTask["poll"].pc = "wait" /\ Refusal)

\* Commands that may be written although the rig is behind.
ToCome ==
    2 * (MaxCatRequests - catRequests) + Cardinality(Pressing) + (IF catGuard = "armed" THEN 1 ELSE 0)
      + (IF catStopped THEN 0 ELSE 1) + (MaxCatTroubles - catTroubles) + (IF MayConnect THEN 1 ELSE 0)

AllToCome == 2 * MaxCatRequests + MaxCatTroubles + 2

BacklogInv ==
    /\ IsFiniteSet(Pressing)
    /\ ToCome <= AllToCome
    /\ Len(rigInput) + ToCome <= RigBacklog + AllToCome

CatInv == CatShape /\ WaiterInv /\ BacklogInv

LEMMA CatNames ==
    /\ "poll" \in CatTasks /\ "guard" \in CatTasks /\ "stop" \in CatTasks /\ CatCallers \subseteq CatTasks
    /\ "nobody" \notin CatTasks
    /\ \A c \in CatCallers : c # "poll" /\ c # "guard" /\ c # "stop"
    /\ MaxCatRequests \in Nat /\ MaxCatTroubles \in Nat /\ RigBacklog \in Nat
  BY CatAssumption DEF CatTasks

LEMMA CatInvInit == CatInit => CatInv
<1> SUFFICES ASSUME CatInit PROVE CatInv
  OBVIOUS
<1>1. CatShape
  <2>1. Resting \in CatPlaces
    BY DEF Resting, CatPlaces, CatCmds
  <2>2. catTask \in [CatTasks -> CatPlaces]
    BY <2>1 DEF CatInit
  <2>3. \A S : <<>> \in Seq(S)
    OBVIOUS
  <2>4. rigInput \in Seq([cmd : CatCmds, live : BOOLEAN])
    BY <2>3 DEF CatInit
  <2>5. catRequests \in 0 .. MaxCatRequests /\ catTroubles \in 0 .. MaxCatTroubles
    BY CatNames DEF CatInit
  <2>6. /\ catConnected \in BOOLEAN /\ catPtt \in BOOLEAN /\ rigKeyed \in BOOLEAN /\ catStopped \in BOOLEAN
        /\ catSocket \in {"up", "eof"} /\ catGuard \in {"none", "armed", "fired"}
    BY DEF CatInit
  <2> QED
    BY <2>2, <2>4, <2>5, <2>6 DEF CatShape
<1>2. WaiterInv
  BY CatNames DEF CatInit, WaiterInv, Resting
<1>3. Pressing = {}
  BY CatNames DEF CatInit, Pressing, Resting
<1>4. IsFiniteSet(Pressing) /\ Cardinality(Pressing) = 0
  BY <1>3, FS_EmptySet
<1>5. Len(rigInput) = 0 /\ catRequests = 0 /\ catTroubles = 0 /\ catGuard = "none"
  BY DEF CatInit
<1>6. ToCome <= AllToCome
  BY <1>4, <1>5, CatNames DEF ToCome, AllToCome
<1>7. BacklogInv
  BY <1>4, <1>5, <1>6, CatNames DEF BacklogInv, ToCome, AllToCome
<1> QED
  BY <1>1, <1>2, <1>7 DEF CatInv

-----------------------------------------------------------------------------
(* The shape.                                                               *)

LEMMA WriteShape ==
    ASSUME CatShape, NEW t \in CatTasks, NEW cmd \in CatCmds, Write(t, cmd)
    PROVE  /\ catTask' \in [CatTasks -> CatPlaces]
           /\ rigInput' \in Seq([cmd : CatCmds, live : BOOLEAN]) /\ Len(rigInput') <= Len(rigInput) + 1
           /\ \A o \in CatTasks \ {t} : catTask'[o] = catTask[o]
           /\ catTask'[t] = [pc |-> IF catWaiter = "nobody" THEN "wait" ELSE "failed", cmd |-> cmd, got |-> 0]
           /\ catWaiter' = IF catWaiter = "nobody" THEN t ELSE catWaiter
<1>1. catTask \in [CatTasks -> CatPlaces] /\ rigInput \in Seq([cmd : CatCmds, live : BOOLEAN])
  BY DEF CatShape
<1>2. [pc |-> IF catWaiter = "nobody" THEN "wait" ELSE "failed", cmd |-> cmd, got |-> 0] \in CatPlaces
  BY DEF CatPlaces
<1>3. rigInput' \in Seq([cmd : CatCmds, live : BOOLEAN]) /\ Len(rigInput') <= Len(rigInput) + 1
  <2>1. [cmd |-> cmd, live |-> TRUE] \in [cmd : CatCmds, live : BOOLEAN]
    OBVIOUS
  <2>2. rigInput' = rigInput \/ rigInput' = Append(rigInput, [cmd |-> cmd, live |-> TRUE])
    BY DEF Write, Sent
  <2>3. Len(rigInput) \in Nat
    BY <1>1
  <2> DEFINE C == [cmd : CatCmds, live : BOOLEAN]
             c == [cmd |-> cmd, live |-> TRUE]
  <2> HIDE DEF C, c
  <2>4. rigInput \in Seq(C) /\ c \in C
    BY <1>1, <2>1 DEF C, c
  <2>5. Append(rigInput, c) \in Seq(C) /\ Len(Append(rigInput, c)) = Len(rigInput) + 1
    BY <2>4, AppendProperties
  <2>6. rigInput' \in Seq(C) /\ Len(rigInput') <= Len(rigInput) + 1
    BY <2>2, <2>3, <2>4, <2>5 DEF c
  <2> QED
    BY <2>6 DEF C
<1> HIDE DEF CatPlaces
<1> QED
  BY <1>1, <1>2, <1>3 DEF Write

\* One task is at rest, failed or goes on; nothing is written.
LEMMA PlaceIs ==
    ASSUME CatShape, NEW t \in CatTasks, NEW to \in CatPlaces, catTask' = [catTask EXCEPT ![t] = to]
    PROVE  /\ catTask' \in [CatTasks -> CatPlaces] /\ catTask'[t] = to
           /\ \A o \in CatTasks \ {t} : catTask'[o] = catTask[o]
<1> HIDE DEF CatPlaces
<1> QED
  BY DEF CatShape

LEMMA PlacesAre ==
    /\ Resting \in CatPlaces
    /\ \A r \in CatPlaces : [r EXCEPT !.pc = "failed"] \in CatPlaces /\ [r EXCEPT !.pc = "asked"] \in CatPlaces
    /\ \A r \in CatPlaces : [r EXCEPT !.got = IF @ < 1 THEN @ + 1 ELSE @] \in CatPlaces
<1>1. Resting \in CatPlaces
  BY DEF Resting, CatPlaces, CatCmds
<1>2. \A r \in CatPlaces : [r EXCEPT !.pc = "failed"] \in CatPlaces /\ [r EXCEPT !.pc = "asked"] \in CatPlaces
  BY DEF CatPlaces
<1>3. ASSUME NEW r \in CatPlaces PROVE [r EXCEPT !.got = IF @ < 1 THEN @ + 1 ELSE @] \in CatPlaces
  <2>1. r.got \in 0 .. 1
    BY DEF CatPlaces
  <2>2. (IF r.got < 1 THEN r.got + 1 ELSE r.got) \in 0 .. 1
    BY <2>1
  <2>3. \A n \in 0 .. 1 : [r EXCEPT !.got = n] \in CatPlaces
    BY DEF CatPlaces
  <2> QED
    BY <2>2, <2>3
<1> QED
  BY <1>1, <1>2, <1>3

LEMMA AfterPollIs == CatShape => AfterPoll \in CatPlaces
<1> SUFFICES ASSUME CatShape PROVE AfterPoll \in CatPlaces
  OBVIOUS
<1>1. catTask["poll"] \in CatPlaces
  BY CatNames DEF CatShape
<1> QED
  BY <1>1, PlacesAre DEF AfterPoll

\* What becomes of the task t whose wait or command ends.
LEMMA WaiterIs ==
    ASSUME CatShape, WaiterInv, NEW t \in CatTasks
    PROVE  /\ catWaiter = t => catTask[t].pc = "wait"
           /\ catTask[t].pc # "wait" => catWaiter # t
  BY CatNames DEF WaiterInv

LEMMA AnsweredIs ==
    ASSUME NEW t, NEW line, Answered(t, line)
    PROVE  catWaiter = t /\ catWaiter' = "nobody"
  BY DEF Answered

-----------------------------------------------------------------------------
(* Shape and waiter, action by action.                                      *)

\* A task that does not wait goes on without writing, or a waiting one is done.
LEMMA TaskGoes ==
    ASSUME CatShape, WaiterInv, NEW t \in CatTasks, NEW to \in CatPlaces,
           catTask' = [catTask EXCEPT ![t] = to],
           \/ catWaiter' = catWaiter /\ catTask[t].pc # "wait"
           \/ catWaiter' = "nobody"
           \/ catWaiter' = catWaiter /\ to.pc = catTask[t].pc,
           t = "stop" => catStopped',
           catStopped => catStopped'
    PROVE  WaiterInv' /\ catTask' \in [CatTasks -> CatPlaces]
<1>1. catTask' \in [CatTasks -> CatPlaces] /\ catTask'[t] = to
      /\ \A o \in CatTasks \ {t} : catTask'[o] = catTask[o]
  BY PlaceIs
<1>2. catTask[t].pc # "wait" => catWaiter # t
  BY WaiterIs
<1> QED
  BY <1>1, <1>2, CatNames DEF WaiterInv

LEMMA TaskWrites ==
    ASSUME CatShape, WaiterInv, NEW t \in CatTasks, NEW cmd \in CatCmds, Write(t, cmd),
           catTask[t].pc # "wait", t # "stop", catStopped' = catStopped
    PROVE  /\ WaiterInv' /\ catTask' \in [CatTasks -> CatPlaces]
           /\ rigInput' \in Seq([cmd : CatCmds, live : BOOLEAN]) /\ Len(rigInput') <= Len(rigInput) + 1
           /\ \A o \in CatTasks \ {t} : catTask'[o] = catTask[o]
           /\ catTask'[t].pc \in {"wait", "failed"} /\ catTask'[t].cmd = cmd
<1>1. /\ catTask' \in [CatTasks -> CatPlaces]
      /\ rigInput' \in Seq([cmd : CatCmds, live : BOOLEAN]) /\ Len(rigInput') <= Len(rigInput) + 1
      /\ \A o \in CatTasks \ {t} : catTask'[o] = catTask[o]
      /\ catTask'[t] = [pc |-> IF catWaiter = "nobody" THEN "wait" ELSE "failed", cmd |-> cmd, got |-> 0]
      /\ catWaiter' = IF catWaiter = "nobody" THEN t ELSE catWaiter
  BY WriteShape
<1>2. catWaiter # t
  BY WaiterIs
<1>3. catTask'[t].pc = (IF catWaiter = "nobody" THEN "wait" ELSE "failed") /\ catTask'[t].cmd = cmd
  BY <1>1
<1>4. WaiterInv'
  BY <1>1, <1>2, <1>3, CatNames DEF WaiterInv
<1> QED
  BY <1>1, <1>3, <1>4

\* The sum of what is in the rig's queue and what may come on top of it.
LEMMA ToComeIs ==
    ASSUME CatShape, IsFiniteSet(Pressing)
    PROVE  ToCome \in Int /\ Cardinality(Pressing) \in Nat /\ Len(rigInput) \in Nat
<1>1. Cardinality(Pressing) \in Nat
  BY FS_CardinalityType
<1>2. Len(rigInput) \in Nat
  BY DEF CatShape
<1> HIDE DEF Pressing
<1> QED
  BY <1>1, <1>2, CatNames DEF CatShape, ToCome

LEMMA SumKept ==
    ASSUME NEW a \in Int, NEW b \in Int, NEW n \in Nat, NEW m \in Nat, NEW most \in Nat, NEW lag \in Nat,
           a <= most, n + a <= lag + most,
           (b <= a /\ m <= n) \/ (b + 1 <= a /\ m <= n + 1) \/ (b <= a /\ m <= lag)
    PROVE  b <= most /\ m + b <= lag + most
  OBVIOUS

LEMMA BacklogGoesOn ==
    ASSUME CatShape, CatShape', BacklogInv, IsFiniteSet(Pressing)', ToCome' \in Int,
           \/ ToCome' <= ToCome /\ Len(rigInput') <= Len(rigInput)
           \/ ToCome' + 1 <= ToCome /\ Len(rigInput') <= Len(rigInput) + 1
           \/ ToCome' <= ToCome /\ Len(rigInput') <= RigBacklog
    PROVE  BacklogInv'
<1>1. ToCome \in Int /\ Len(rigInput) \in Nat /\ ToCome <= AllToCome /\ Len(rigInput) + ToCome <= RigBacklog + AllToCome
  BY ToComeIs DEF BacklogInv
<1>2. Len(rigInput') \in Nat
  BY DEF CatShape
<1>3. AllToCome \in Nat /\ RigBacklog \in Nat
  BY CatNames DEF AllToCome
<1>4. AllToCome' = AllToCome
  BY DEF AllToCome
<1> DEFINE a == ToCome  b == ToCome'  n == Len(rigInput)  m == Len(rigInput')
<1>5. (b <= a /\ m <= n) \/ (b + 1 <= a /\ m <= n + 1) \/ (b <= a /\ m <= RigBacklog)
  OBVIOUS
<1>6. a \in Int /\ b \in Int /\ n \in Nat /\ m \in Nat /\ a <= AllToCome /\ n + a <= RigBacklog + AllToCome
  BY <1>1, <1>2
<1> HIDE DEF a, b, n, m, AllToCome
<1>7. b <= AllToCome /\ m + b <= RigBacklog + AllToCome
  BY <1>3, <1>5, <1>6, SumKept
<1> QED
  BY <1>4, <1>7 DEF BacklogInv, a, b, n, m

\* The requests to key or unkey, when what is at a caller's place may change.
LEMMA PressingIs ==
    ASSUME CatShape, CatShape', IsFiniteSet(Pressing)
    PROVE  /\ (\A c \in CatCallers : catTask'[c].cmd = catTask[c].cmd
                                      /\ (catTask'[c].pc = "rest" <=> catTask[c].pc = "rest"))
                => Pressing' = Pressing
           /\ \A c \in CatCallers : (\A o \in CatCallers \ {c} : catTask'[o] = catTask[o]) =>
                /\ IsFiniteSet(Pressing')
                /\ Cardinality(Pressing') <= Cardinality(Pressing) + 1
                /\ c \notin Pressing' => /\ Cardinality(Pressing') <= Cardinality(Pressing)
                                         /\ c \in Pressing => Cardinality(Pressing') = Cardinality(Pressing) - 1
<1>1. ASSUME \A c \in CatCallers : catTask'[c].cmd = catTask[c].cmd
                                      /\ (catTask'[c].pc = "rest" <=> catTask[c].pc = "rest")
      PROVE  Pressing' = Pressing
  BY <1>1 DEF Pressing
<1>2. ASSUME NEW c \in CatCallers, \A o \in CatCallers \ {c} : catTask'[o] = catTask[o]
      PROVE  /\ IsFiniteSet(Pressing')
             /\ Cardinality(Pressing') <= Cardinality(Pressing) + 1
             /\ c \notin Pressing' => /\ Cardinality(Pressing') <= Cardinality(Pressing)
                                      /\ c \in Pressing => Cardinality(Pressing') = Cardinality(Pressing) - 1
  <2> DEFINE P == Pressing  Q == Pressing'
  <2>1. Q \ {c} = P \ {c}
    BY <1>2 DEF Pressing
  <2>2. IsFiniteSet(P) /\ Cardinality(P) \in Nat
    BY FS_CardinalityType
  <2> HIDE DEF P, Q
  <2>3. IsFiniteSet(P \ {c}) /\ Cardinality(P \ {c}) = IF c \in P THEN Cardinality(P) - 1 ELSE Cardinality(P)
    BY <2>2, FS_RemoveElement
  <2>4. c \in Q => Q = (P \ {c}) \union {c}
    BY <2>1
  <2>5. c \notin Q => Q = P \ {c}
    BY <2>1
  <2>6. IsFiniteSet((P \ {c}) \union {c}) /\ Cardinality((P \ {c}) \union {c}) = Cardinality(P \ {c}) + 1
    BY <2>3, FS_AddElement
  <2>7. ASSUME c \in Q PROVE Cardinality(Q) <= Cardinality(P) + 1 /\ IsFiniteSet(Q)
    <3>1. Cardinality(Q) = Cardinality(P \ {c}) + 1 /\ IsFiniteSet(Q)
      BY <2>4, <2>6, <2>7
    <3> QED
      BY <2>2, <2>3, <3>1
  <2>8. ASSUME c \notin Q
        PROVE  Cardinality(Q) <= Cardinality(P) /\ (c \in P => Cardinality(Q) = Cardinality(P) - 1) /\ IsFiniteSet(Q)
    <3>1. Cardinality(Q) = Cardinality(P \ {c}) /\ IsFiniteSet(Q)
      BY <2>3, <2>5, <2>8
    <3> QED
      BY <2>2, <2>3, <3>1
  <2>9. c \in Q \/ c \notin Q
    OBVIOUS
  <2>10. Cardinality(P) <= Cardinality(P) + 1 /\ (Cardinality(Q) <= Cardinality(P) => Cardinality(Q) <= Cardinality(P) + 1)
    <3>1. IsFiniteSet(Q)
      BY <2>7, <2>8
    <3>2. Cardinality(Q) \in Nat
      BY <3>1, FS_CardinalityType
    <3> QED
      BY <2>2, <3>2
  <2> QED
    BY <2>7, <2>8, <2>9, <2>10 DEF P, Q
<1> QED
  BY <1>1, <1>2

LEMMA ToComeIsLater ==
    ASSUME CatShape', IsFiniteSet(Pressing')
    PROVE  ToCome' \in Int /\ Cardinality(Pressing') \in Nat
<1>1. Cardinality(Pressing') \in Nat
  BY FS_CardinalityType
<1>2. catRequests' \in 0 .. MaxCatRequests /\ catTroubles' \in 0 .. MaxCatTroubles
  BY DEF CatShape
<1> DEFINE p == Cardinality(Pressing')  armed == catGuard' = "armed"  may == MayConnect'
<1>3. ToCome' = 2 * (MaxCatRequests - catRequests') + p + (IF armed THEN 1 ELSE 0)
                  + (IF catStopped' THEN 0 ELSE 1) + (MaxCatTroubles - catTroubles') + (IF may THEN 1 ELSE 0)
  BY DEF ToCome
<1> HIDE DEF p, armed, may
<1>4. p \in Nat
  BY <1>1 DEF p
<1>5. ToCome' \in Int
  BY <1>2, <1>3, <1>4, CatNames
<1> QED
  BY <1>1, <1>5

\* Who is at rest and who has what command does not change, nothing is written.
LEMMA NothingToCome ==
    ASSUME CatInv, CatShape', WaiterInv', Len(rigInput') <= Len(rigInput),
           Pressing' = Pressing,
           catRequests' = catRequests, catGuard' = "armed" => catGuard = "armed",
           catStopped => catStopped',
           \/ catTroubles' = catTroubles /\ (MayConnect' => MayConnect)
           \/ catTroubles' = catTroubles + 1
    PROVE  CatInv'
<1>1. CatShape /\ BacklogInv /\ IsFiniteSet(Pressing)
  BY DEF CatInv, BacklogInv
<1>2. IsFiniteSet(Pressing') /\ Cardinality(Pressing') = Cardinality(Pressing)
  BY <1>1
<1>3. ToCome \in Int /\ ToCome' \in Int /\ Cardinality(Pressing) \in Nat
  BY <1>1, <1>2, ToComeIs, ToComeIsLater
<1>4. ToCome' <= ToCome
  <2>1. catRequests \in 0 .. MaxCatRequests /\ catTroubles \in 0 .. MaxCatTroubles
    BY <1>1 DEF CatShape
  <2> DEFINE p == Cardinality(Pressing)  may == MayConnect  then == MayConnect'
  <2>2. ToCome = 2 * (MaxCatRequests - catRequests) + p + (IF catGuard = "armed" THEN 1 ELSE 0)
                   + (IF catStopped THEN 0 ELSE 1) + (MaxCatTroubles - catTroubles) + (IF may THEN 1 ELSE 0)
    BY DEF ToCome
  <2>3. ToCome' = 2 * (MaxCatRequests - catRequests') + p + (IF catGuard' = "armed" THEN 1 ELSE 0)
                   + (IF catStopped' THEN 0 ELSE 1) + (MaxCatTroubles - catTroubles') + (IF then THEN 1 ELSE 0)
    BY <1>2 DEF ToCome
  <2>4. (catTroubles' = catTroubles /\ (then => may)) \/ catTroubles' = catTroubles + 1
    OBVIOUS
  <2>5. p \in Nat
    BY <1>3
  <2> HIDE DEF p, may, then
  <2> QED
    BY <2>1, <2>2, <2>3, <2>4, <2>5, CatNames
<1>5. BacklogInv'
  BY <1>1, <1>2, <1>3, <1>4, BacklogGoesOn
<1> QED
  BY <1>5 DEF CatInv

LEMMA RigExecutesKeeps == ASSUME CatInv, RigExecutes, Refusal' => Refusal PROVE CatInv'
<1>1. rigInput # <<>> /\ rigInput' = Tail(rigInput) /\ UNCHANGED <<catConnected, catSocket, catWaiter, catTask,
        catPtt, catGuard, catOwed, catStopped, catRequests, catTroubles>>
  BY DEF RigExecutes, catCounters
<1>2. CatShape /\ WaiterInv /\ BacklogInv
  BY DEF CatInv
<1>3. rigInput' \in Seq([cmd : CatCmds, live : BOOLEAN]) /\ Len(rigInput') <= Len(rigInput)
  BY <1>1, <1>2, EmptySeq, HeadTailProperties DEF CatShape
<1>4. rigKeyed' \in BOOLEAN
  BY <1>2 DEF RigExecutes, CatShape
<1>5. CatShape'
  BY <1>1, <1>2, <1>3, <1>4 DEF CatShape
<1>6. WaiterInv'
  BY <1>1, <1>2 DEF WaiterInv
<1>7. Pressing' = Pressing /\ (MayConnect' => MayConnect)
  BY <1>1 DEF Pressing, MayConnect
<1> QED
  BY <1>1, <1>3, <1>5, <1>6, <1>7, NothingToCome

LEMMA RigClosesKeeps == CatInv /\ RigCloses => CatInv'
<1> SUFFICES ASSUME CatInv, RigCloses PROVE CatInv'
  OBVIOUS
<1>1. catSocket' = "eof" /\ catTroubles' = catTroubles + 1 /\ catTroubles < MaxCatTroubles
      /\ UNCHANGED <<catConnected, rigInput, rigKeyed, catWaiter, catTask, catPtt, catGuard, catStopped, catRequests>>
  BY DEF RigCloses
<1>2. CatShape'
  BY <1>1, CatNames DEF CatInv, CatShape
<1>3. WaiterInv' /\ Pressing' = Pressing
  BY <1>1 DEF CatInv, WaiterInv, Pressing
<1>4. Len(rigInput') <= Len(rigInput)
  BY <1>1 DEF CatInv, CatShape
<1> QED
  BY <1>1, <1>2, <1>3, <1>4, NothingToCome

LEMMA RigRefusesKeeps == CatInv /\ RigRefuses => CatInv'
<1> SUFFICES ASSUME CatInv, RigRefuses PROVE CatInv'
  OBVIOUS
<1>1. rigInput # <<>> /\ rigInput' = Tail(rigInput) /\ catTroubles' = catTroubles + 1 /\ catTroubles < MaxCatTroubles
      /\ UNCHANGED <<catConnected, catSocket, rigKeyed, catWaiter, catTask, catPtt, catGuard, catStopped, catRequests>>
  BY DEF RigRefuses
<1>2. CatShape /\ WaiterInv
  BY DEF CatInv
<1>3. rigInput' \in Seq([cmd : CatCmds, live : BOOLEAN]) /\ Len(rigInput') <= Len(rigInput)
  BY <1>1, <1>2, EmptySeq, HeadTailProperties DEF CatShape
<1>4. CatShape'
  BY <1>1, <1>2, <1>3, CatNames DEF CatShape
<1>5. WaiterInv' /\ Pressing' = Pressing
  BY <1>1, <1>2 DEF WaiterInv, Pressing
<1> QED
  BY <1>1, <1>3, <1>4, <1>5, NothingToCome

LEMMA ReadsOnKeeps ==
    ASSUME CatInv, NEW t \in CatTasks, ReadsOn(t), Refusal' => Refusal
    PROVE  CatInv'
<1> DEFINE to == [catTask[t] EXCEPT !.got = IF @ < 1 THEN @ + 1 ELSE @]
<1>1. CatShape /\ WaiterInv /\ catTask[t] \in CatPlaces
  BY DEF CatInv, CatShape
<1>2. catTask' = [catTask EXCEPT ![t] = to]
      /\ UNCHANGED <<catConnected, catSocket, rigInput, rigKeyed, catWaiter, catPtt, catGuard, catStopped,
                     catRequests, catTroubles>>
  BY DEF ReadsOn, catCounters
<1>3. to \in CatPlaces
  BY <1>1, PlacesAre
<1>4. to.pc = catTask[t].pc /\ to.cmd = catTask[t].cmd
  BY <1>1 DEF CatPlaces
<1>5. catWaiter = t /\ catTask[t].pc = "wait"
  BY <1>1, WaiterIs DEF ReadsOn
<1>6. t = "stop" => catStopped
  BY <1>1, <1>5 DEF WaiterInv
<1> HIDE DEF to
<1>7. WaiterInv' /\ catTask' \in [CatTasks -> CatPlaces]
  BY <1>1, <1>2, <1>3, <1>4, <1>6, TaskGoes
<1>8. CatShape'
  BY <1>1, <1>2, <1>7 DEF CatShape
<1>9. catTask'[t] = to /\ \A o \in CatTasks \ {t} : catTask'[o] = catTask[o]
  BY <1>1, <1>2, <1>3, PlaceIs
<1>10. \A o \in CatTasks : catTask'[o].pc = catTask[o].pc /\ catTask'[o].cmd = catTask[o].cmd
  BY <1>4, <1>9
<1>11. Pressing' = Pressing /\ (MayConnect' => MayConnect)
  BY <1>2, <1>10, CatNames DEF Pressing, MayConnect
<1>12. Len(rigInput') <= Len(rigInput)
  BY <1>1, <1>2 DEF CatShape
<1> QED
  BY <1>2, <1>7, <1>8, <1>11, <1>12, NothingToCome

LEMMA CmdTimesOutKeeps == ASSUME CatInv, NEW t \in CatTasks, CmdTimesOut(t) PROVE CatInv'
<1> DEFINE to == [catTask[t] EXCEPT !.pc = "failed"]
<1>1. CatShape /\ WaiterInv /\ catTask[t] \in CatPlaces
  BY DEF CatInv, CatShape
<1>2. catTask' = [catTask EXCEPT ![t] = to] /\ catWaiter' = "nobody" /\ catTroubles' = catTroubles + 1
      /\ catTroubles < MaxCatTroubles
      /\ UNCHANGED <<catConnected, catSocket, rigInput, rigKeyed, catPtt, catGuard, catStopped, catRequests>>
  BY DEF CmdTimesOut
<1>3. to \in CatPlaces
  BY <1>1, PlacesAre
<1>4. to.pc = "failed" /\ to.cmd = catTask[t].cmd
  BY <1>1 DEF CatPlaces
<1>5. catTask[t].pc = "wait"
  BY <1>1, WaiterIs DEF CmdTimesOut
<1>6. t = "stop" => catStopped
  BY <1>1, <1>5 DEF WaiterInv
<1> HIDE DEF to
<1>7. WaiterInv' /\ catTask' \in [CatTasks -> CatPlaces]
  BY <1>1, <1>2, <1>3, <1>6, TaskGoes
<1>8. CatShape'
  BY <1>1, <1>2, <1>7, CatNames DEF CatShape
<1>9. catTask'[t] = to /\ \A o \in CatTasks \ {t} : catTask'[o] = catTask[o]
  BY <1>1, <1>2, <1>3, PlaceIs
<1>10. \A o \in CatTasks : (catTask'[o].pc = "rest" <=> catTask[o].pc = "rest") /\ catTask'[o].cmd = catTask[o].cmd
  BY <1>4, <1>5, <1>9
<1>11. Pressing' = Pressing
  BY <1>10, CatNames DEF Pressing
<1>12. Len(rigInput') <= Len(rigInput)
  BY <1>1, <1>2 DEF CatShape
<1> QED
  BY <1>2, <1>7, <1>8, <1>11, <1>12, NothingToCome

LEMMA CmdRefusedKeeps ==
    ASSUME CatInv, LinesInv, NEW t \in CatTasks, CmdRefused(t), Refusal' => Refusal
    PROVE  CatInv'
<1> DEFINE to == [catTask[t] EXCEPT !.pc = "failed"]
<1>1. CatShape /\ WaiterInv /\ catTask[t] \in CatPlaces
  BY DEF CatInv, CatShape
<1>2. catTask' = [catTask EXCEPT ![t] = to] /\ catWaiter' = "nobody"
      /\ UNCHANGED <<catConnected, catSocket, rigInput, rigKeyed, catPtt, catGuard, catStopped, catRequests,
                     catTroubles>>
  BY DEF CmdRefused, catCounters
<1>3. to \in CatPlaces
  BY <1>1, PlacesAre
<1>4. to.pc = "failed" /\ to.cmd = catTask[t].cmd
  BY <1>1 DEF CatPlaces
<1>5. catTask[t].pc = "wait"
  BY <1>1, WaiterIs DEF CmdRefused
<1>6. t = "stop" => catStopped
  BY <1>1, <1>5 DEF WaiterInv
<1> HIDE DEF to
<1>7. WaiterInv' /\ catTask' \in [CatTasks -> CatPlaces]
  BY <1>1, <1>2, <1>3, <1>6, TaskGoes
<1>8. CatShape'
  BY <1>1, <1>2, <1>7 DEF CatShape
<1>9. catTask'[t] = to /\ \A o \in CatTasks \ {t} : catTask'[o] = catTask[o]
  BY <1>1, <1>2, <1>3, PlaceIs
<1>10. \A o \in CatTasks : (catTask'[o].pc = "rest" <=> catTask[o].pc = "rest") /\ catTask'[o].cmd = catTask[o].cmd
  BY <1>4, <1>5, <1>9
<1>11. Pressing' = Pressing
  BY <1>10, CatNames DEF Pressing
<1>13. Refusal
  <2>1. catLines # <<>> /\ Head(catLines) = "refused"
    BY DEF CmdRefused, NextLine
  <2>2. Len(catLines) \in Nat /\ Len(catLines) # 0 /\ Head(catLines) = catLines[1]
    BY <2>1, EmptySeq, HeadTailProperties DEF LinesInv
  <2>3. 1 \in 1 .. Len(catLines) /\ catLines[1] = "refused"
    BY <2>1, <2>2
  <2> QED
    BY <2>3 DEF Refusal
<1>14. MayConnect' => MayConnect
  BY <1>2, <1>5, <1>9, <1>10, <1>13, CatNames DEF MayConnect
<1>12. Len(rigInput') <= Len(rigInput)
  BY <1>1, <1>2 DEF CatShape
<1> QED
  BY <1>2, <1>7, <1>8, <1>11, <1>12, <1>14, NothingToCome

\* What requests, the watchdog, stop() and a connection may still write, and
\* what requests have used of their share.
Share(p, requests, armed, stopped, may) ==
    p - 2 * requests + (IF armed THEN 1 ELSE 0) + (IF stopped THEN 0 ELSE 1) + (IF may THEN 1 ELSE 0)

ShareNow == Share(Cardinality(Pressing), catRequests, catGuard = "armed", catStopped, MayConnect)

LEMMA ShareToCome ==
    ASSUME CatInv, CatShape', WaiterInv', IsFiniteSet(Pressing'), catTroubles' = catTroubles,
           \/ ShareNow' <= ShareNow /\ Len(rigInput') <= Len(rigInput)
           \/ ShareNow' + 1 <= ShareNow /\ Len(rigInput') <= Len(rigInput) + 1
           \/ ShareNow' <= ShareNow /\ Len(rigInput') <= RigBacklog
    PROVE  CatInv'
<1>1. CatShape /\ BacklogInv /\ IsFiniteSet(Pressing)
  BY DEF CatInv, BacklogInv
<1>2. Cardinality(Pressing) \in Nat /\ Cardinality(Pressing') \in Nat /\ ToCome' \in Int /\ ToCome \in Int
  BY <1>1, ToComeIs, ToComeIsLater
<1>3. catRequests \in 0 .. MaxCatRequests /\ catRequests' \in 0 .. MaxCatRequests
      /\ catTroubles \in 0 .. MaxCatTroubles
  BY <1>1 DEF CatShape
<1> DEFINE p == Cardinality(Pressing)  armed == catGuard = "armed"  may == MayConnect  a == ShareNow
           q == Cardinality(Pressing')  rearmed == catGuard' = "armed"  then == MayConnect'  b == ShareNow'
           w == ToCome'
           k == 2 * MaxCatRequests + (MaxCatTroubles - catTroubles)
<1>4. ToCome = 2 * (MaxCatRequests - catRequests) + p + (IF armed THEN 1 ELSE 0)
                 + (IF catStopped THEN 0 ELSE 1) + (MaxCatTroubles - catTroubles) + (IF may THEN 1 ELSE 0)
  BY DEF ToCome
<1>5. w = 2 * (MaxCatRequests - catRequests') + q + (IF rearmed THEN 1 ELSE 0)
                 + (IF catStopped' THEN 0 ELSE 1) + (MaxCatTroubles - catTroubles) + (IF then THEN 1 ELSE 0)
  BY DEF ToCome
<1>6. a = p - 2 * catRequests + (IF armed THEN 1 ELSE 0) + (IF catStopped THEN 0 ELSE 1) + (IF may THEN 1 ELSE 0)
  BY DEF ShareNow, Share
<1>7. b = q - 2 * catRequests' + (IF rearmed THEN 1 ELSE 0) + (IF catStopped' THEN 0 ELSE 1) + (IF then THEN 1 ELSE 0)
  BY DEF ShareNow, Share
<1>8. p \in Nat /\ q \in Nat
  BY <1>2
<1> HIDE DEF p, q, armed, may, rearmed, then, a, b, w
<1>9. k \in Int /\ a \in Int /\ b \in Int /\ ToCome = a + k
  BY <1>3, <1>4, <1>6, <1>7, <1>8, CatNames
<1>10. w = b + k
  <2> DEFINE r == catRequests'  x == (IF rearmed THEN 1 ELSE 0)  y == (IF catStopped' THEN 0 ELSE 1)
             z == (IF then THEN 1 ELSE 0)
  <2>1. r \in Nat /\ x \in Nat /\ y \in Nat /\ z \in Nat /\ catTroubles \in Nat
    BY <1>3, CatNames
  <2>2. w = 2 * (MaxCatRequests - r) + q + x + y + (MaxCatTroubles - catTroubles) + z
    BY <1>5
  <2>3. b = q - 2 * r + x + y + z
    BY <1>7
  <2> HIDE DEF r, x, y, z
  <2> QED
    BY <1>8, <2>1, <2>2, <2>3, CatNames
<1> HIDE DEF k
<1>11. \/ b <= a /\ Len(rigInput') <= Len(rigInput)
       \/ b + 1 <= a /\ Len(rigInput') <= Len(rigInput) + 1
       \/ b <= a /\ Len(rigInput') <= RigBacklog
  BY DEF a, b
<1>12. \/ ToCome' <= ToCome /\ Len(rigInput') <= Len(rigInput)
       \/ ToCome' + 1 <= ToCome /\ Len(rigInput') <= Len(rigInput) + 1
       \/ ToCome' <= ToCome /\ Len(rigInput') <= RigBacklog
  BY <1>9, <1>10, <1>11 DEF w
<1>13. BacklogInv'
  BY <1>1, <1>2, <1>12, BacklogGoesOn
<1> QED
  BY <1>13 DEF CatInv

\* Shares compared: each part may only lessen, but for what makes up for it.
LEMMA SharesCompared ==
    ASSUME CatShape, CatShape', IsFiniteSet(Pressing), IsFiniteSet(Pressing')
    PROVE  LET p == Cardinality(Pressing)
               q == Cardinality(Pressing')
               armed   == catGuard = "armed"
               rearmed == catGuard' = "armed"
           IN  /\ q <= p /\ catRequests' = catRequests /\ (rearmed => armed) /\ catStopped' = catStopped
                    /\ (MayConnect' => MayConnect) => ShareNow' <= ShareNow
               /\ q <= p /\ catRequests' = catRequests /\ (rearmed => armed) /\ catStopped' = catStopped
                    /\ ~MayConnect' /\ MayConnect => ShareNow' + 1 <= ShareNow
               /\ q <= p /\ catRequests' = catRequests /\ armed /\ ~rearmed /\ catStopped' = catStopped
                    /\ (MayConnect' => MayConnect) => ShareNow' + 1 <= ShareNow
               /\ q <= p /\ catRequests' = catRequests /\ ~rearmed /\ ~catStopped /\ catStopped'
                    /\ ~MayConnect' => ShareNow' + 1 <= ShareNow
               /\ q = p - 1 /\ catRequests' = catRequests /\ catStopped' = catStopped
                    /\ (MayConnect' => MayConnect) => ShareNow' <= ShareNow
               /\ q = p - 1 /\ catRequests' = catRequests /\ (rearmed => armed) /\ catStopped' = catStopped
                    /\ (MayConnect' => MayConnect) => ShareNow' + 1 <= ShareNow
               /\ q <= p + 1 /\ catRequests' = catRequests + 1 /\ (rearmed => armed) /\ catStopped' = catStopped
                    /\ (MayConnect' => MayConnect) => ShareNow' + 1 <= ShareNow
<1> DEFINE p == Cardinality(Pressing)  q == Cardinality(Pressing')  n == catRequests  m == catRequests'
           armed == catGuard = "armed"  rearmed == catGuard' = "armed"  may == MayConnect  then == MayConnect'
           a == ShareNow  b == ShareNow'  stopped == catStopped  ended == catStopped'
           x == (IF armed THEN 1 ELSE 0)  y == (IF stopped THEN 0 ELSE 1)  z == (IF may THEN 1 ELSE 0)
           u == (IF rearmed THEN 1 ELSE 0)  v == (IF ended THEN 0 ELSE 1)  w == (IF then THEN 1 ELSE 0)
<1>1. a = p - 2 * n + x + y + z
  BY DEF ShareNow, Share
<1>2. b = q - 2 * m + u + v + w
  BY DEF ShareNow, Share
<1>3. p \in Nat /\ q \in Nat
  BY FS_CardinalityType
<1>4. n \in Nat /\ m \in Nat /\ stopped \in BOOLEAN /\ ended \in BOOLEAN
  BY CatNames DEF CatShape
<1>5. x \in 0 .. 1 /\ y \in 0 .. 1 /\ z \in 0 .. 1 /\ u \in 0 .. 1 /\ v \in 0 .. 1 /\ w \in 0 .. 1
  OBVIOUS
<1>6. ((rearmed => armed) => u <= x) /\ (armed /\ ~rearmed => u + 1 <= x)
  OBVIOUS
<1>7. (ended = stopped => v = y) /\ (~stopped /\ ended => v + 1 <= y)
  OBVIOUS
<1>8. ((then => may) => w <= z) /\ (may /\ ~then => w + 1 <= z) /\ (~then => w <= z)
  OBVIOUS
<1>9. (~rearmed => u <= x) /\ u <= x + 1
  OBVIOUS
<1> HIDE DEF p, q, n, m, armed, rearmed, may, then, a, b, stopped, ended, x, y, z, u, v, w
<1>10. q <= p /\ m = n /\ (rearmed => armed) /\ ended = stopped /\ (then => may) => b <= a
  BY <1>1, <1>2, <1>3, <1>4, <1>5, <1>6, <1>7, <1>8
<1>11. q <= p /\ m = n /\ (rearmed => armed) /\ ended = stopped /\ ~then /\ may => b + 1 <= a
  BY <1>1, <1>2, <1>3, <1>4, <1>5, <1>6, <1>7, <1>8
<1>12. q <= p /\ m = n /\ armed /\ ~rearmed /\ ended = stopped /\ (then => may) => b + 1 <= a
  BY <1>1, <1>2, <1>3, <1>4, <1>5, <1>6, <1>7, <1>8
<1>13. q <= p /\ m = n /\ ~rearmed /\ ~stopped /\ ended /\ ~then => b + 1 <= a
  BY <1>1, <1>2, <1>3, <1>4, <1>5, <1>7, <1>8, <1>9
<1>14. q = p - 1 /\ m = n /\ ended = stopped /\ (then => may) => b <= a
  BY <1>1, <1>2, <1>3, <1>4, <1>5, <1>7, <1>8, <1>9
<1>15. q = p - 1 /\ m = n /\ (rearmed => armed) /\ ended = stopped /\ (then => may) => b + 1 <= a
  BY <1>1, <1>2, <1>3, <1>4, <1>5, <1>6, <1>7, <1>8
<1>16. q <= p + 1 /\ m = n + 1 /\ (rearmed => armed) /\ ended = stopped /\ (then => may) => b + 1 <= a
  BY <1>1, <1>2, <1>3, <1>4, <1>5, <1>6, <1>7, <1>8
<1> QED
  BY <1>10, <1>11, <1>12, <1>13, <1>14, <1>15, <1>16, Zenon
     DEF p, q, n, m, armed, rearmed, may, then, a, b, stopped, ended

\* The place of a task that is not a caller has changed, and none is written to.
LEMMA PressingRests ==
    ASSUME NEW t \in {"poll", "guard", "stop"}, \A o \in CatTasks \ {t} : catTask'[o] = catTask[o]
    PROVE  Pressing' = Pressing
  BY CatNames DEF Pressing

LEMMA PollGoesOnKeeps == CatInv /\ (PollAnswered \/ PollFails) => CatInv'
<1> SUFFICES ASSUME CatInv, PollAnswered \/ PollFails PROVE CatInv'
  OBVIOUS
<1>1. CatShape /\ WaiterInv /\ AfterPoll \in CatPlaces /\ "poll" \in CatTasks
  BY AfterPollIs, CatNames DEF CatInv
<1>2. catTask' = [catTask EXCEPT !["poll"] = AfterPoll]
      /\ UNCHANGED <<catSocket, rigInput, rigKeyed, catPtt, catGuard, catStopped, catRequests, catTroubles>>
  BY DEF PollAnswered, PollFails, catCounters
<1>3. catConnected' \in BOOLEAN /\ (catConnected' = catConnected \/ (catTask["poll"].pc = "failed" /\ catTask["poll"].cmd = "_"))
  BY <1>1 DEF PollAnswered, PollFails, CatShape
<1>4. catWaiter' = "nobody" \/ (catWaiter' = catWaiter /\ catTask["poll"].pc # "wait")
  BY AnsweredIs DEF PollAnswered, PollFails
<1>5. WaiterInv' /\ catTask' \in [CatTasks -> CatPlaces]
  BY <1>1, <1>2, <1>4, TaskGoes
<1>6. CatShape'
  BY <1>1, <1>2, <1>3, <1>5 DEF CatShape
<1>7. catTask'["poll"] = AfterPoll /\ \A o \in CatTasks \ {"poll"} : catTask'[o] = catTask[o]
  BY <1>1, <1>2, PlaceIs
<1>8. Pressing' = Pressing
  BY <1>7, PressingRests
<1>9. AfterPoll.pc # "failed" /\ AfterPoll.pc # "wait"
  <2>1. catTask["poll"] \in CatPlaces
    BY <1>1 DEF CatShape
  <2> QED
    BY <2>1 DEF AfterPoll, Resting, CatPlaces
<1>10. MayConnect' => MayConnect
  BY <1>2, <1>3, <1>7, <1>9 DEF MayConnect
<1>11. Len(rigInput') <= Len(rigInput)
  BY <1>1, <1>2 DEF CatShape
<1> QED
  BY <1>2, <1>5, <1>6, <1>8, <1>10, <1>11, NothingToCome

LEMMA GuardEndsKeeps == ASSUME CatInv, GuardAnswered \/ GuardFails, Refusal' => Refusal PROVE CatInv'
<1>1. CatShape /\ WaiterInv /\ Resting \in CatPlaces /\ "guard" \in CatTasks
  BY PlacesAre, CatNames DEF CatInv
<1>2. catTask' = [catTask EXCEPT !["guard"] = Resting]
      /\ UNCHANGED <<catConnected, catSocket, rigInput, rigKeyed, catStopped, catRequests, catTroubles>>
  BY DEF GuardAnswered, GuardFails, catCounters
<1>3. catPtt' \in BOOLEAN /\ catGuard' \in {"none", "armed", "fired"} /\ (catGuard' = "armed" => catGuard = "armed")
  BY <1>1 DEF GuardAnswered, GuardFails, Keyed, CatShape
<1>4. catWaiter' = "nobody" \/ (catWaiter' = catWaiter /\ catTask["guard"].pc # "wait")
  BY AnsweredIs DEF GuardAnswered, GuardFails
<1>5. WaiterInv' /\ catTask' \in [CatTasks -> CatPlaces]
  BY <1>1, <1>2, <1>4, TaskGoes
<1>6. CatShape'
  BY <1>1, <1>2, <1>3, <1>5 DEF CatShape
<1>7. \A o \in CatTasks \ {"guard"} : catTask'[o] = catTask[o]
  BY <1>1, <1>2, PlaceIs
<1>8. Pressing' = Pressing
  BY <1>7, PressingRests
<1>9. MayConnect' => MayConnect
  BY <1>2, <1>7, CatNames DEF MayConnect
<1>10. Len(rigInput') <= Len(rigInput)
  BY <1>1, <1>2 DEF CatShape
<1> QED
  BY <1>2, <1>3, <1>5, <1>6, <1>8, <1>9, <1>10, NothingToCome

LEMMA CatDisconnectsKeeps == CatInv /\ CatDisconnects => CatInv'
<1> SUFFICES ASSUME CatInv, CatDisconnects PROVE CatInv'
  OBVIOUS
<1>1. CatShape /\ WaiterInv /\ Resting \in CatPlaces /\ "stop" \in CatTasks
  BY PlacesAre, CatNames DEF CatInv
<1>2. catTask' = [catTask EXCEPT !["stop"] = Resting] /\ catStopped /\ catStopped' /\ catConnected' = FALSE
      /\ UNCHANGED <<catSocket, rigInput, rigKeyed, catPtt, catGuard, catStopped, catRequests, catTroubles>>
  BY DEF CatDisconnects, catCounters
<1>3. catWaiter' = "nobody" \/ (catWaiter' = catWaiter /\ catTask["stop"].pc # "wait")
  BY AnsweredIs DEF CatDisconnects
<1>4. WaiterInv' /\ catTask' \in [CatTasks -> CatPlaces]
  BY <1>1, <1>2, <1>3, TaskGoes
<1>5. CatShape'
  BY <1>1, <1>2, <1>4 DEF CatShape
<1>6. \A o \in CatTasks \ {"stop"} : catTask'[o] = catTask[o]
  BY <1>1, <1>2, PlaceIs
<1>7. Pressing' = Pressing
  BY <1>6, PressingRests
<1>8. ~MayConnect'
  BY <1>2 DEF MayConnect
<1>9. Len(rigInput') <= Len(rigInput)
  BY <1>1, <1>2 DEF CatShape
<1> QED
  BY <1>2, <1>4, <1>5, <1>7, <1>8, <1>9, NothingToCome

LEMMA PollConnectsKeeps == CatInv /\ PollConnects => CatInv'
<1> SUFFICES ASSUME CatInv, PollConnects PROVE CatInv'
  OBVIOUS
<1> DEFINE C == [cmd : CatCmds, live : BOOLEAN]
           first == [pc |-> "wait", cmd |-> "_", got |-> 0]
           stale == [k \in DOMAIN rigInput |-> [rigInput[k] EXCEPT !.live = FALSE]]
           hello == [cmd |-> "_", live |-> TRUE]
<1>1. CatShape /\ WaiterInv /\ IsFiniteSet(Pressing)
  BY DEF CatInv, BacklogInv
<1>2. /\ ~catConnected /\ ~catStopped /\ catTask["poll"].pc = "rest" /\ catConnected' = TRUE
      /\ rigInput' = Append(stale, hello) /\ catWaiter' = "poll"
      /\ catTask' = [t \in CatTasks |->
                       IF t = "poll" THEN first
                       ELSE IF t = catWaiter THEN [catTask[t] EXCEPT !.pc = "failed"] ELSE catTask[t]]
      /\ UNCHANGED <<catSocket, rigKeyed, catPtt, catGuard, catStopped, catRequests, catTroubles>>
  BY DEF PollConnects, catCounters
<1>3. rigInput' \in Seq(C) /\ Len(rigInput') = Len(rigInput) + 1
  <2>1. rigInput \in Seq(C) /\ hello \in C
    BY <1>1 DEF CatShape, CatCmds
  <2>2. \A c \in C : [c EXCEPT !.live = FALSE] \in C
    OBVIOUS
  <2> HIDE DEF C, hello
  <2>3. Len(rigInput) \in Nat /\ DOMAIN rigInput = 1 .. Len(rigInput)
        /\ \A k \in 1 .. Len(rigInput) : [rigInput[k] EXCEPT !.live = FALSE] \in C
    BY <2>1, <2>2
  <2>4. stale \in Seq(C) /\ Len(stale) = Len(rigInput)
    BY <2>3
  <2> HIDE DEF stale
  <2>5. Append(stale, hello) \in Seq(C) /\ Len(Append(stale, hello)) = Len(stale) + 1
    BY <2>1, <2>4, AppendProperties
  <2>6. rigInput' = Append(stale, hello)
    BY <1>2
  <2> QED
    BY <2>4, <2>5, <2>6
<1>4. first \in CatPlaces /\ first.pc = "wait" /\ first.cmd = "_"
  BY DEF CatPlaces, CatCmds
<1> HIDE DEF C, hello, stale, first
<1>5. ASSUME NEW t \in CatTasks, t # "poll"
      PROVE  /\ catTask'[t] \in CatPlaces
             /\ catTask'[t].cmd = catTask[t].cmd /\ (catTask'[t].pc = "rest" <=> catTask[t].pc = "rest")
  <2>1. catTask[t] \in CatPlaces
    BY <1>1 DEF CatShape
  <2>2. CASE t = catWaiter
    <3>1. catTask[t].pc = "wait"
      BY <1>1, <2>2, WaiterIs
    <3>2. catTask'[t] = [catTask[t] EXCEPT !.pc = "failed"]
      BY <1>2, <1>5, <2>2
    <3>3. [catTask[t] EXCEPT !.pc = "failed"].pc = "failed" /\ [catTask[t] EXCEPT !.pc = "failed"].cmd = catTask[t].cmd
      BY <2>1 DEF CatPlaces
    <3> QED
      BY <2>1, <3>1, <3>2, <3>3, PlacesAre
  <2>3. CASE t # catWaiter
    BY <1>2, <1>5, <2>1, <2>3
  <2> QED
    BY <2>2, <2>3
<1>6. catTask'["poll"] = first
  BY <1>2, CatNames
<1>7. catTask' \in [CatTasks -> CatPlaces]
  BY <1>2, <1>4, <1>5, <1>6
<1>8. CatShape'
  BY <1>1, <1>2, <1>3, <1>7 DEF CatShape, C
<1>9. WaiterInv'
  BY <1>1, <1>2, <1>4, <1>5, <1>6, CatNames DEF WaiterInv
<1>10. Pressing' = Pressing
  BY <1>5, CatNames DEF Pressing
<1>11. ~MayConnect' /\ MayConnect
  <2>1. Len(catLines') = 0
    BY DEF PollConnects
  <2>2. ~Refusal'
    BY <2>1 DEF Refusal
  <2> QED
    BY <1>2, <1>4, <1>6, <2>2 DEF MayConnect
<1>12. Cardinality(Pressing') <= Cardinality(Pressing)
  BY <1>1, <1>10, FS_CardinalityType
<1>13. ShareNow' + 1 <= ShareNow
  BY <1>1, <1>2, <1>8, <1>10, <1>11, <1>12, SharesCompared
<1>14. Len(rigInput') <= Len(rigInput) + 1
  BY <1>1, <1>3 DEF CatShape
<1> QED
  BY <1>1, <1>2, <1>8, <1>9, <1>10, <1>13, <1>14, ShareToCome

LEMMA PollAsksKeeps == ASSUME CatInv, NEW ask \in {"f", "m"}, PollAsks(ask) PROVE CatInv'
<1>1. CatShape /\ WaiterInv /\ IsFiniteSet(Pressing) /\ ask \in CatCmds /\ ask # "_" /\ "poll" \in CatTasks /\ "poll" # "stop"
  BY CatNames DEF CatInv, BacklogInv, CatCmds
<1>2. /\ catConnected /\ Len(rigInput) < RigBacklog /\ Write("poll", ask)
      /\ catTask["poll"].pc \in {"rest", "asked"}
      /\ UNCHANGED <<catConnected, catSocket, rigKeyed, catPtt, catGuard, catStopped, catRequests, catTroubles>>
  BY DEF PollAsks, catCounters
<1>3. /\ WaiterInv' /\ catTask' \in [CatTasks -> CatPlaces]
      /\ rigInput' \in Seq([cmd : CatCmds, live : BOOLEAN]) /\ Len(rigInput') <= Len(rigInput) + 1
      /\ \A o \in CatTasks \ {"poll"} : catTask'[o] = catTask[o]
      /\ catTask'["poll"].cmd = ask
  BY <1>1, <1>2, TaskWrites
<1>4. CatShape'
  BY <1>1, <1>2, <1>3 DEF CatShape
<1>5. Pressing' = Pressing
  BY <1>3, PressingRests
<1>6. ~MayConnect'
  BY <1>1, <1>2, <1>3 DEF MayConnect
<1>7. Cardinality(Pressing') <= Cardinality(Pressing)
  <2>1. IsFiniteSet(Pressing)
    BY <1>1
  <2>2. Cardinality(Pressing) \in Nat
    BY <2>1, FS_CardinalityType
  <2> QED
    BY <2>2, <1>5
<1>8. ShareNow' <= ShareNow
  BY <1>1, <1>2, <1>4, <1>5, <1>6, <1>7, SharesCompared
<1>9. Len(rigInput') <= RigBacklog
  <2>0. CatShape
    BY <1>1
  <2>1. Len(rigInput) \in Nat
    <3>1. rigInput \in Seq([cmd : CatCmds, live : BOOLEAN])
      BY <2>0 DEF CatShape
    <3> QED
      BY <3>1
  <2>2. Len(rigInput') \in Nat
    BY <1>3
  <2> QED
    BY <2>1, <2>2, <1>2, <1>3, CatNames
<1> QED
  BY <1>1, <1>2, <1>3, <1>4, <1>5, <1>8, <1>9, ShareToCome

LEMMA OneMore == \A n \in Nat : \A r \in 0 .. n : r < n => r + 1 \in 0 .. n
  OBVIOUS

LEMMA RequestKeeps ==
    ASSUME CatInv, NEW c \in CatCallers, NEW ask \in {"T 0", "T 1", "F"}, Request(c, ask),
           Refusal' => Refusal
    PROVE  CatInv'
<1>1. CatShape /\ WaiterInv /\ IsFiniteSet(Pressing) /\ ask \in CatCmds /\ c \in CatTasks /\ c # "stop" /\ c # "poll"
  BY CatNames DEF CatInv, BacklogInv, CatCmds
<1>2. /\ catTask[c].pc = "rest" /\ catRequests < MaxCatRequests /\ catRequests' = catRequests + 1
      /\ Write(c, ask) /\ catGuard' = catGuard
      /\ UNCHANGED <<catConnected, catSocket, rigKeyed, catPtt, catStopped, catTroubles>>
  BY DEF Request, GuardAtRequest
<1>3. /\ WaiterInv' /\ catTask' \in [CatTasks -> CatPlaces]
      /\ rigInput' \in Seq([cmd : CatCmds, live : BOOLEAN]) /\ Len(rigInput') <= Len(rigInput) + 1
      /\ \A o \in CatTasks \ {c} : catTask'[o] = catTask[o]
  BY <1>1, <1>2, TaskWrites
<1>4. catRequests' \in 0 .. MaxCatRequests
  <2>0. CatShape
    BY <1>1
  <2>1. catRequests \in 0 .. MaxCatRequests
    BY <2>0 DEF CatShape
  <2>2. catRequests < MaxCatRequests /\ catRequests' = catRequests + 1
    BY <1>2
  <2>3. catRequests + 1 \in 0 .. MaxCatRequests
    BY <2>1, <2>2, CatNames, OneMore, Zenon
  <2> QED
    BY <2>2, <2>3, Zenon
<1>5. CatShape'
  BY <1>1, <1>2, <1>3, <1>4 DEF CatShape
<1>6. \A o \in CatCallers \ {c} : catTask'[o] = catTask[o]
  BY <1>3, CatNames
<1>7. IsFiniteSet(Pressing') /\ Cardinality(Pressing') <= Cardinality(Pressing) + 1
  BY <1>1, <1>5, <1>6, PressingIs
<1>8. MayConnect' => MayConnect
  BY <1>1, <1>2, <1>3, CatNames DEF MayConnect
<1>9. ShareNow' + 1 <= ShareNow
  BY <1>1, <1>2, <1>5, <1>7, <1>8, SharesCompared
<1> QED
  BY <1>1, <1>2, <1>3, <1>5, <1>7, <1>9, ShareToCome

LEMMA RequestAnsweredKeeps ==
    ASSUME CatInv, NEW c \in CatCallers, RequestAnswered(c), Refusal' => Refusal
    PROVE  CatInv'
<1>1. CatShape /\ WaiterInv /\ IsFiniteSet(Pressing) /\ c \in CatTasks /\ c # "stop" /\ c # "poll" /\ Resting \in CatPlaces
  BY CatNames, PlacesAre DEF CatInv, BacklogInv
<1>2. /\ catTask' = [catTask EXCEPT ![c] = Resting] /\ catWaiter = c /\ catWaiter' = "nobody"
      /\ UNCHANGED <<catConnected, catSocket, rigInput, rigKeyed, catStopped, catRequests, catTroubles>>
  BY AnsweredIs DEF RequestAnswered, catCounters
<1>3. catPtt' \in BOOLEAN /\ catGuard' \in {"none", "armed", "fired"}
      /\ (catGuard' = "armed" => catGuard = "armed" \/ catTask[c].cmd = "T 1")
  BY <1>1 DEF RequestAnswered, Keyed, CatShape
<1>4. WaiterInv' /\ catTask' \in [CatTasks -> CatPlaces]
  BY <1>1, <1>2, TaskGoes
<1>5. CatShape'
  BY <1>1, <1>2, <1>3, <1>4 DEF CatShape
<1>6. catTask'[c] = Resting /\ \A o \in CatTasks \ {c} : catTask'[o] = catTask[o]
  BY <1>1, <1>2, PlaceIs
<1>7. c \notin Pressing' /\ \A o \in CatCallers \ {c} : catTask'[o] = catTask[o]
  <2>1. catTask'[c].pc = "rest"
    BY <1>6 DEF Resting
  <2> QED
    BY <2>1, <1>6, CatNames DEF Pressing
<1>8. c \in Pressing \/ (catGuard' = "armed" => catGuard = "armed")
  BY <1>1, <1>2, <1>3, WaiterIs DEF Pressing
<1>9. /\ IsFiniteSet(Pressing') /\ Cardinality(Pressing') <= Cardinality(Pressing)
      /\ c \in Pressing => Cardinality(Pressing') = Cardinality(Pressing) - 1
  BY <1>1, <1>5, <1>7, PressingIs
<1>10. MayConnect' => MayConnect
  BY <1>1, <1>2, <1>6, CatNames DEF MayConnect
<1>11. ShareNow' <= ShareNow
  BY <1>1, <1>2, <1>5, <1>8, <1>9, <1>10, SharesCompared
<1>12. Len(rigInput') <= Len(rigInput)
  BY <1>1, <1>2 DEF CatShape
<1> QED
  BY <1>1, <1>2, <1>4, <1>5, <1>9, <1>11, <1>12, ShareToCome

LEMMA RequestFailsKeeps ==
    ASSUME CatInv, NEW c \in CatCallers, RequestFails(c), Refusal' => Refusal
    PROVE  CatInv'
<1>1. CatShape /\ WaiterInv /\ IsFiniteSet(Pressing) /\ c \in CatTasks /\ c # "stop" /\ c # "poll" /\ Resting \in CatPlaces
  BY CatNames, PlacesAre DEF CatInv, BacklogInv
<1>2. /\ catTask[c].pc = "failed"
      /\ UNCHANGED <<catConnected, catSocket, rigKeyed, catPtt, catGuard, catStopped, catRequests, catTroubles>>
  BY DEF RequestFails, catCounters
<1>3. CASE catTask[c].cmd \in {"T 0", "T 1"} /\ catConnected
  <2>1. Write(c, "t") /\ "t" \in CatCmds
    BY <1>3 DEF RequestFails, CatCmds
  <2>2. /\ WaiterInv' /\ catTask' \in [CatTasks -> CatPlaces]
        /\ rigInput' \in Seq([cmd : CatCmds, live : BOOLEAN]) /\ Len(rigInput') <= Len(rigInput) + 1
        /\ \A o \in CatTasks \ {c} : catTask'[o] = catTask[o]
        /\ catTask'[c].cmd = "t"
    BY <1>1, <1>2, <2>1, TaskWrites
  <2>3. CatShape'
    BY <1>1, <1>2, <2>2 DEF CatShape
  <2>4. c \in Pressing /\ c \notin Pressing' /\ \A o \in CatCallers \ {c} : catTask'[o] = catTask[o]
    BY <1>2, <1>3, <2>2, CatNames DEF Pressing
  <2>5. IsFiniteSet(Pressing') /\ Cardinality(Pressing') = Cardinality(Pressing) - 1
    BY <1>1, <2>3, <2>4, PressingIs
  <2>6. MayConnect' => MayConnect
    BY <1>1, <1>2, <2>2, CatNames DEF MayConnect
  <2>7. ShareNow' + 1 <= ShareNow
    BY <1>1, <1>2, <2>3, <2>5, <2>6, SharesCompared
  <2> QED
    BY <1>1, <1>2, <2>2, <2>3, <2>5, <2>7, ShareToCome
<1>4. CASE ~(catTask[c].cmd \in {"T 0", "T 1"} /\ catConnected)
  <2>1. catTask' = [catTask EXCEPT ![c] = Resting] /\ UNCHANGED <<rigInput, catWaiter>>
    BY <1>4 DEF RequestFails
  <2>2. WaiterInv' /\ catTask' \in [CatTasks -> CatPlaces]
    BY <1>1, <1>2, <2>1, TaskGoes
  <2>3. CatShape'
    BY <1>1, <1>2, <2>1, <2>2 DEF CatShape
  <2>4. catTask'[c] = Resting /\ \A o \in CatTasks \ {c} : catTask'[o] = catTask[o]
    BY <1>1, <2>1, PlaceIs
  <2>5. c \notin Pressing' /\ \A o \in CatCallers \ {c} : catTask'[o] = catTask[o]
    <3>1. catTask'[c].pc = "rest"
      BY <2>4 DEF Resting
    <3> QED
      BY <3>1, <2>4, CatNames DEF Pressing
  <2>6. IsFiniteSet(Pressing') /\ Cardinality(Pressing') <= Cardinality(Pressing)
    BY <1>1, <2>3, <2>5, PressingIs
  <2>7. MayConnect' => MayConnect
    BY <1>1, <1>2, <2>4, CatNames DEF MayConnect
  <2>8. ShareNow' <= ShareNow
    BY <1>1, <1>2, <2>3, <2>6, <2>7, SharesCompared
  <2>9. Len(rigInput') <= Len(rigInput)
    BY <1>1, <2>1 DEF CatShape
  <2> QED
    BY <1>1, <1>2, <2>2, <2>3, <2>6, <2>8, <2>9, ShareToCome
<1> QED
  BY <1>3, <1>4

LEMMA GuardFiresKeeps == ASSUME CatInv, GuardFires, Refusal' => Refusal PROVE CatInv'
<1>1. CatShape /\ WaiterInv /\ IsFiniteSet(Pressing) /\ "T 0" \in CatCmds /\ "guard" \in CatTasks /\ "guard" # "stop"
  BY CatNames DEF CatInv, BacklogInv, CatCmds
<1>2. /\ catGuard = "armed" /\ catGuard' = "fired" /\ catTask["guard"].pc = "rest"
      /\ UNCHANGED <<catConnected, catSocket, rigKeyed, catPtt, catStopped, catRequests, catTroubles>>
  BY DEF GuardFires, catCounters
<1>3. /\ WaiterInv' /\ catTask' \in [CatTasks -> CatPlaces]
      /\ rigInput' \in Seq([cmd : CatCmds, live : BOOLEAN]) /\ Len(rigInput') <= Len(rigInput) + 1
      /\ \A o \in CatTasks \ {"guard"} : catTask'[o] = catTask[o]
  <2>1. CASE catConnected
    <3>1. Write("guard", "T 0")
      BY <2>1 DEF GuardFires
    <3> QED
      BY <1>1, <1>2, <3>1, TaskWrites
  <2>2. CASE ~catConnected
    <3>1. UNCHANGED <<rigInput, catWaiter, catTask>>
      BY <2>2 DEF GuardFires
    <3>2. Len(rigInput) \in Nat
      BY <1>1, ToComeIs
    <3>3. Len(rigInput') <= Len(rigInput) + 1
      BY <3>1, <3>2
    <3> QED
      BY <1>1, <1>2, <3>1, <3>3 DEF CatShape, WaiterInv
  <2> QED
    BY <2>1, <2>2
<1>4. CatShape'
  BY <1>1, <1>2, <1>3 DEF CatShape
<1>5. Pressing' = Pressing
  BY <1>3, PressingRests
<1>6. Cardinality(Pressing') <= Cardinality(Pressing)
  <2>1. Cardinality(Pressing) \in Nat
    BY <1>1, FS_CardinalityType
  <2> QED
    BY <2>1, <1>5
<1>7. MayConnect' => MayConnect
  BY <1>2, <1>3, CatNames DEF MayConnect
<1>8. ShareNow' + 1 <= ShareNow
  BY <1>1, <1>2, <1>4, <1>5, <1>6, <1>7, SharesCompared
<1> QED
  BY <1>1, <1>2, <1>3, <1>4, <1>5, <1>8, ShareToCome

LEMMA CatStopsKeeps == CatInv /\ CatStops => CatInv'
<1> SUFFICES ASSUME CatInv, CatStops PROVE CatInv'
  OBVIOUS
<1> DEFINE C == [cmd : CatCmds, live : BOOLEAN]
           unkey == [cmd |-> "T 0", live |-> TRUE]
           freed == IF catWaiter \in {"poll", "guard"} THEN "nobody" ELSE catWaiter
           tasks == [catTask EXCEPT !["poll"] = Resting, !["guard"] = Resting]
           asks  == [pc |-> IF freed = "nobody" THEN "wait" ELSE "failed", cmd |-> "T 0", got |-> 0]
           gone  == [catTask["stop"] EXCEPT !.pc = "failed"]
<1>1. CatShape /\ WaiterInv /\ IsFiniteSet(Pressing) /\ catTask["stop"] \in CatPlaces
  BY CatNames DEF CatInv, BacklogInv, CatShape
<1>2. /\ ~catStopped /\ catStopped' = TRUE /\ catGuard' = "none"
      /\ UNCHANGED <<catConnected, catSocket, rigKeyed, catPtt, catRequests, catTroubles>>
  BY DEF CatStops, catCounters
<1>3. \/ /\ rigInput' = Sent("T 0")
         /\ catWaiter' = IF freed = "nobody" THEN "stop" ELSE freed
         /\ catTask' = [tasks EXCEPT !["stop"] = asks]
      \/ /\ rigInput' = rigInput /\ catWaiter' = freed
         /\ catTask' = [tasks EXCEPT !["stop"].pc = "failed"]
  BY DEF CatStops
<1>4. asks \in CatPlaces /\ gone \in CatPlaces /\ Resting \in CatPlaces
      /\ (freed = "nobody" => asks.pc = "wait")
  <2>1. gone \in CatPlaces /\ Resting \in CatPlaces
    BY <1>1, PlacesAre
  <2>2. \A pc \in {"wait", "failed"} : [pc |-> pc, cmd |-> "T 0", got |-> 0] \in CatPlaces
    BY DEF CatPlaces, CatCmds
  <2> HIDE DEF freed, gone
  <2>3. asks \in CatPlaces
    BY <2>2
  <2>4. freed = "nobody" => asks.pc = "wait"
    OBVIOUS
  <2> QED
    BY <2>1, <2>3, <2>4
<1>5. rigInput' \in Seq(C) /\ Len(rigInput') <= Len(rigInput) + 1
  <2>1. rigInput \in Seq(C) /\ unkey \in C
    BY <1>1 DEF CatShape, CatCmds
  <2>2. rigInput' = rigInput \/ rigInput' = Append(rigInput, unkey)
    BY <1>3 DEF Sent
  <2> HIDE DEF C, unkey
  <2>3. Append(rigInput, unkey) \in Seq(C) /\ Len(Append(rigInput, unkey)) = Len(rigInput) + 1
        /\ Len(rigInput) \in Nat
    BY <2>1, AppendProperties
  <2> QED
    BY <2>1, <2>2, <2>3
<1>6. ASSUME NEW t \in CatTasks
      PROVE  catTask'[t] = IF t = "stop" THEN catTask'["stop"]
                           ELSE IF t \in {"poll", "guard"} THEN Resting ELSE catTask[t]
  <2>1. catTask \in [CatTasks -> CatPlaces]
    BY <1>1 DEF CatShape
  <2> HIDE DEF asks
  <2> QED
    BY <1>3, <2>1
<1>7. \/ catTask'["stop"] = asks /\ catWaiter' = IF freed = "nobody" THEN "stop" ELSE freed
      \/ catTask'["stop"] = gone /\ catWaiter' = freed
  <2>1. catTask \in [CatTasks -> CatPlaces] /\ "stop" \in CatTasks
    BY <1>1, CatNames DEF CatShape
  <2>2. "stop" \in DOMAIN tasks /\ tasks["stop"] = catTask["stop"]
    BY <2>1
  <2> HIDE DEF asks, tasks, freed
  <2> QED
    BY <1>3, <2>2
<1>8. catTask' \in [CatTasks -> CatPlaces]
  <2>1. catTask \in [CatTasks -> CatPlaces] /\ "stop" \in CatTasks
    BY <1>1, CatNames DEF CatShape
  <2>2. DOMAIN catTask' = CatTasks /\ catTask' = [t \in CatTasks |-> catTask'[t]]
    <3> HIDE DEF asks
    <3> QED
      BY <1>3, <2>1
  <2>3. catTask'["stop"] \in CatPlaces
    BY <1>4, <1>7
  <2>4. \A t \in CatTasks : catTask'[t] \in CatPlaces
    BY <1>4, <1>6, <2>1, <2>3
  <2> QED
    BY <2>2, <2>4
<1>9. CatShape'
  BY <1>1, <1>2, <1>5, <1>8 DEF CatShape
<1>10. WaiterInv'
  <2>1. catTask["stop"].pc = "rest" /\ catWaiter # "stop"
    BY <1>1, <1>2, CatNames DEF WaiterInv
  <2>2. freed = "nobody" \/ (freed \in CatTasks \ {"stop", "poll", "guard"} /\ catTask[freed].pc = "wait")
    BY <1>1, <2>1 DEF WaiterInv
  <2> HIDE DEF freed, asks, gone
  <2>3. catWaiter' \in CatTasks \union {"nobody"}
    BY <1>7, <2>2, CatNames
  <2>4. ASSUME catWaiter' # "nobody" PROVE catTask'[catWaiter'].pc = "wait"
    <3>1. CASE freed = "nobody"
      BY <1>4, <1>7, <2>4, <3>1
    <3>2. CASE freed \in CatTasks \ {"stop", "poll", "guard"} /\ catTask[freed].pc = "wait"
      <4>1. catWaiter' = freed
        BY <1>7, <3>2, CatNames
      <4>2. catTask'[freed] = catTask[freed]
        BY <1>6, <3>2
      <4> QED
        BY <3>2, <4>1, <4>2
    <3> QED
      BY <2>2, <3>1, <3>2
  <2> QED
    BY <1>2, <2>3, <2>4 DEF WaiterInv
<1>11. Pressing' = Pressing
  BY <1>6, CatNames DEF Pressing
<1>12. Cardinality(Pressing') <= Cardinality(Pressing)
  <2>1. Cardinality(Pressing) \in Nat
    BY <1>1, FS_CardinalityType
  <2> QED
    BY <2>1, <1>11
<1>13. ~MayConnect'
  BY <1>2 DEF MayConnect
<1>14. ShareNow' + 1 <= ShareNow
  BY <1>1, <1>2, <1>9, <1>11, <1>12, <1>13, SharesCompared
<1> QED
  BY <1>1, <1>2, <1>5, <1>9, <1>10, <1>11, <1>14, ShareToCome

\* What is read was sent: lines are appended, read from the front, or lost with
\* their connection, and only the rig refuses.
LEMMA RepliesAre ==
    \A cmd \in CatCmds : /\ Replies(cmd) \in Seq(CatLines)
                         /\ \A k \in 1 .. Len(Replies(cmd)) : Replies(cmd)[k] # "refused"
<1> SUFFICES ASSUME NEW cmd \in CatCmds
             PROVE  /\ Replies(cmd) \in Seq(CatLines)
                    /\ \A k \in 1 .. Len(Replies(cmd)) : Replies(cmd)[k] # "refused"
  OBVIOUS
<1>1. \/ Replies(cmd) = <<"value", "value">>
      \/ \E line \in {"0", "1", "value", "RPRT"} : Replies(cmd) = <<line>>
  BY DEF Replies
<1>2. CASE Replies(cmd) = <<"value", "value">>
  BY <1>2 DEF CatLines
<1>3. ASSUME NEW line \in {"0", "1", "value", "RPRT"}, Replies(cmd) = <<line>>
      PROVE  /\ Replies(cmd) \in Seq(CatLines)
             /\ \A k \in 1 .. Len(Replies(cmd)) : Replies(cmd)[k] # "refused"
  <2>1. line \in CatLines /\ line # "refused"
    BY DEF CatLines
  <2>2. <<line>> \in Seq(CatLines) /\ Len(<<line>>) = 1 /\ <<line>>[1] = line
    BY <2>1
  <2> QED
    BY <1>3, <2>1, <2>2
<1> QED
  BY <1>1, <1>2, <1>3

LEMMA LinesKept == ASSUME CatShape, LinesInv, CatNext PROVE LinesInv' /\ (RigRefuses \/ (Refusal' => Refusal))
<1>1. ASSUME UNCHANGED catLines PROVE LinesInv' /\ (Refusal' => Refusal)
  BY <1>1 DEF LinesInv, Refusal
<1>2. ASSUME catLines # <<>>, catLines' = Tail(catLines) PROVE LinesInv' /\ (Refusal' => Refusal)
  <2>1. LinesInv' /\ Len(catLines') = Len(catLines) - 1 /\ Len(catLines) \in Nat
        /\ \A k \in 1 .. Len(catLines') : catLines'[k] = catLines[k + 1]
    BY <1>2, EmptySeq, HeadTailProperties DEF LinesInv
  <2>2. ASSUME NEW k \in 1 .. Len(catLines'), catLines'[k] = "refused" PROVE Refusal
    <3>1. k + 1 \in 1 .. Len(catLines) /\ catLines[k + 1] = "refused"
      BY <2>1, <2>2
    <3> QED
      BY <3>1 DEF Refusal
  <2> QED
    BY <2>1, <2>2 DEF Refusal
<1>3. ASSUME NEW line, NextLine(line) PROVE LinesInv' /\ (Refusal' => Refusal)
  BY <1>1, <1>2, <1>3 DEF NextLine
<1>4. ASSUME RigExecutes PROVE LinesInv' /\ (Refusal' => Refusal)
  <2> DEFINE cmd == Head(rigInput).cmd  answer == Replies(cmd)
  <2>1. cmd \in CatCmds
    <3>1. Head(rigInput) \in [cmd : CatCmds, live : BOOLEAN]
      BY <1>4, EmptySeq, HeadTailProperties DEF RigExecutes, CatShape
    <3> QED
      BY <3>1
  <2>2. catLines' = catLines \o answer \/ UNCHANGED catLines
    BY <1>4 DEF RigExecutes
  <2>3. answer \in Seq(CatLines) /\ \A k \in 1 .. Len(answer) : answer[k] # "refused"
    BY <2>1, RepliesAre
  <2> HIDE DEF answer, cmd
  <2>4. ASSUME catLines' = catLines \o answer PROVE LinesInv' /\ (Refusal' => Refusal)
    <3>1. /\ catLines' \in Seq(CatLines) /\ Len(catLines') = Len(catLines) + Len(answer)
          /\ Len(catLines) \in Nat /\ Len(answer) \in Nat
          /\ \A k \in 1 .. Len(catLines') :
               catLines'[k] = IF k <= Len(catLines) THEN catLines[k] ELSE answer[k - Len(catLines)]
      BY <2>3, <2>4, ConcatProperties DEF LinesInv
    <3>2. ASSUME NEW k \in 1 .. Len(catLines'), catLines'[k] = "refused" PROVE Refusal
      <4>1. k <= Len(catLines)
        BY <2>3, <3>1, <3>2
      <4>2. k \in 1 .. Len(catLines) /\ catLines[k] = "refused"
        BY <3>1, <3>2, <4>1
      <4> QED
        BY <4>2 DEF Refusal
    <3> QED
      BY <3>1, <3>2 DEF LinesInv, Refusal
  <2> QED
    BY <1>1, <2>2, <2>4
<1>5. ASSUME RigRefuses PROVE LinesInv'
  <2>1. "refused" \in CatLines
    BY DEF CatLines
  <2>2. Append(catLines, "refused") \in Seq(CatLines)
    BY <2>1, AppendProperties DEF LinesInv
  <2> QED
    BY <1>5, <2>2 DEF RigRefuses, LinesInv
<1>6. ASSUME PollConnects PROVE LinesInv' /\ (Refusal' => Refusal)
  <2>1. catLines' = <<>> /\ Len(catLines') = 0
    BY <1>6 DEF PollConnects
  <2> QED
    BY <2>1 DEF LinesInv, Refusal
<1>7. ASSUME \/ PollAnswered \/ GuardAnswered \/ CatDisconnects
             \/ \E c \in CatCallers : RequestAnswered(c)
             \/ \E t \in CatTasks : ReadsOn(t) \/ CmdRefused(t)
      PROVE  UNCHANGED catLines \/ \E line : NextLine(line)
  BY <1>7 DEF PollAnswered, GuardAnswered, CatDisconnects, RequestAnswered, ReadsOn, CmdRefused, Answered
<1>8. ASSUME \/ PollFails \/ GuardFires \/ GuardFails \/ RigCloses \/ CatStops
             \/ \E ask \in {"f", "m"} : PollAsks(ask)
             \/ \E c \in CatCallers : RequestFails(c)
             \/ \E c \in CatCallers, ask \in {"T 0", "T 1", "F"} : Request(c, ask)
             \/ \E t \in CatTasks : CmdTimesOut(t)
      PROVE  UNCHANGED catLines
  BY <1>8 DEF PollFails, GuardFires, GuardFails, RigCloses, CatStops, PollAsks, RequestFails, Request, CmdTimesOut
<1> QED
  BY <1>1, <1>3, <1>4, <1>5, <1>6, <1>7, <1>8, Zenon DEF CatNext, CatStep

LEMMA CatInvStep == CatInv /\ LinesInv /\ [CatNext]_catVars => CatInv' /\ LinesInv'
<1> SUFFICES ASSUME CatInv, LinesInv, [CatNext]_catVars PROVE CatInv' /\ LinesInv'
  OBVIOUS
<1>1. CASE CatNext
  <2>1. LinesInv' /\ (RigRefuses \/ (Refusal' => Refusal))
    BY <1>1, LinesKept DEF CatInv
  <2>2. CASE RigRefuses
    BY <2>1, <2>2, RigRefusesKeeps
  <2>3. CASE ~RigRefuses
    BY <1>1, <2>1, <2>3, RigExecutesKeeps, RigClosesKeeps, ReadsOnKeeps, CmdRefusedKeeps, CmdTimesOutKeeps,
       PollGoesOnKeeps, GuardEndsKeeps, CatDisconnectsKeeps, PollConnectsKeeps, PollAsksKeeps, RequestKeeps,
       RequestAnsweredKeeps, RequestFailsKeeps, GuardFiresKeeps, CatStopsKeeps, Zenon DEF CatNext, CatStep
  <2> QED
    BY <2>2, <2>3
<1>2. CASE UNCHANGED catVars
  BY <1>2 DEF catVars, CatInv, CatShape, WaiterInv, LinesInv, Refusal, BacklogInv, Pressing, ToCome, MayConnect,
              AllToCome
<1> QED
  BY <1>1, <1>2

LEMMA CatTyped == CatInv => CatTypeOK
<1> SUFFICES ASSUME CatInv PROVE CatTypeOK
  OBVIOUS
<1>1. CatShape /\ WaiterInv /\ BacklogInv /\ IsFiniteSet(Pressing)
  BY DEF CatInv, BacklogInv
<1>2. ToCome \in Int /\ Cardinality(Pressing) \in Nat /\ Len(rigInput) \in Nat
  BY <1>1, ToComeIs
<1>3. catRequests \in 0 .. MaxCatRequests /\ catTroubles \in 0 .. MaxCatTroubles
  BY <1>1 DEF CatShape
<1>4. ToCome >= 0
  <2> DEFINE p == Cardinality(Pressing)  x == (IF catGuard = "armed" THEN 1 ELSE 0)
             y == (IF catStopped THEN 0 ELSE 1)  z == (IF MayConnect THEN 1 ELSE 0)
  <2>1. ToCome = 2 * (MaxCatRequests - catRequests) + p + x + y + (MaxCatTroubles - catTroubles) + z
    BY DEF ToCome
  <2>2. p \in Nat /\ x \in Nat /\ y \in Nat /\ z \in Nat
    BY <1>2
  <2> HIDE DEF p, x, y, z
  <2> QED
    BY <1>3, <2>1, <2>2, CatNames
<1>5. Len(rigInput) + ToCome <= RigBacklog + AllToCome
  BY <1>1 DEF BacklogInv
<1>6. Len(rigInput) <= RigBacklog + 2 * MaxCatRequests + MaxCatTroubles + 2
  BY <1>2, <1>4, <1>5, CatNames DEF AllToCome
<1> QED
  BY <1>1, <1>6 DEF CatTypeOK, CatShape, WaiterInv

\* One task waits for lines, and is at that place; and the rig falls behind by
\* its backlog, two commands for a request and a bounded rest (cat_rigctld.py
\* _cmd, set_ptt, _poll_loop, _ptt_timeout_guard).
THEOREM CatTypeCorrect == CatInit /\ [][CatNext]_catVars => []CatTypeOK
<1>1. CatInit => LinesInv
  BY DEF CatInit, LinesInv
<1> QED
  BY <1>1, CatInvInit, CatInvStep, CatTyped, PTL

-----------------------------------------------------------------------------
(* The links together.  A step of MCLinks moves one of them, by a step of   *)
(* its own, and leaves the others where they are.                           *)

linksVars == <<focus, aprsVars, catVars, smsVars, botVars, companionVars>>

LEMMA HubStepIs == HubMoves => AprsNext
  BY Zenon DEF HubMoves, AprsNext

LEMMA GamesHeard == BotHears(GameWords) => BotHears(Words)
<1>1. GameWords \subseteq Words
  BY DEF Words
<1> QED
  BY <1>1 DEF BotHears

LEMMA LinksStepIs ==
    [Next]_linksVars =>
      /\ [AprsNext]_aprsVars /\ [CatNext]_catVars /\ [SmsNext]_smsVars
      /\ [BotNext]_botVars /\ [CompanionNext]_companionVars
<1> SUFFICES ASSUME [Next]_linksVars
             PROVE  /\ [AprsNext]_aprsVars /\ [CatNext]_catVars /\ [SmsNext]_smsVars
                    /\ [BotNext]_botVars /\ [CompanionNext]_companionVars
  OBVIOUS
<1>1. [AprsNext]_aprsVars
  BY HubStepIs, Zenon DEF Next, AprsRest, linksVars
<1>2. [CatNext]_catVars
  BY Zenon DEF Next, CatMoves, CatRest, linksVars
<1>3. [SmsNext]_smsVars
  BY Zenon DEF Next, SmsRest, linksVars
<1>4. [BotNext]_botVars
  BY GamesHeard, Zenon DEF Next, BotNext, BotRest, linksVars
<1>5. [CompanionNext]_companionVars
  BY Zenon DEF Next, LinkMoves, LinkRest, linksVars
<1> QED
  BY <1>1, <1>2, <1>3, <1>4, <1>5

\* A behaviour of the links together is, but for their fairness, one of each:
\* what is proved of the hub, the sockets, the modem, the radio and the bot by
\* themselves holds of them beside each other.
THEOREM LinksAreTheirParts ==
    Spec => /\ AprsSpec /\ BotSpec
            /\ CatInit /\ [][CatNext]_catVars
            /\ SmsInit /\ [][SmsNext]_smsVars
            /\ CompanionInit /\ [][CompanionNext]_companionVars
<1>1. Init => AprsInit /\ CatInit /\ SmsInit /\ BotInit /\ CompanionInit
  BY DEF Init
<1> QED
  BY <1>1, LinksStepIs, PTL DEF Spec, AprsSpec, BotSpec, linksVars

\* The five keep their types beside each other, and the focus stays one of its
\* kind.
THEOREM LinksTyped == Spec => []LinksTypeOK
<1>1. Init => focus \in Foci
  BY DEF Init
<1>2. focus \in Foci /\ [Next]_linksVars => (focus \in Foci)'
  BY DEF Next, Foci, HubFoci, CatFoci, LinkFoci, linksVars
<1>3. Spec => [](focus \in Foci)
  BY <1>1, <1>2, PTL DEF Spec, linksVars
<1>4. Spec => [](AprsTypeOK /\ MeshBotTypeOK /\ CatTypeOK /\ SmsTypeOK /\ CompanionTypeOK)
  BY LinksAreTheirParts, AprsTypeCorrect, MeshBotTypeCorrect, CatTypeCorrect, SmsTypeCorrect,
     CompanionTypeCorrect, PTL
<1>5. focus \in Foci /\ AprsTypeOK /\ MeshBotTypeOK /\ CatTypeOK /\ SmsTypeOK /\ CompanionTypeOK => LinksTypeOK
  BY DEF LinksTypeOK
<1> QED
  BY <1>3, <1>4, <1>5, PTL
=============================================================================
