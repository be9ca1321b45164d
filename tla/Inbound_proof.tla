--------------------------- MODULE Inbound_proof ---------------------------
(***************************************************************************)
(* Proofs about Inbound, for any radios, rules, messages and holds: one    *)
(* feed entry for what several radios hear, none for what they send        *)
(* themselves, and no bridging to a radio that heard the message itself.   *)
(***************************************************************************)
EXTENDS Inbound, Bridge_proof

\* A radio has siblings: with one radio the router merges nothing.
Family == \A a \in Radios : Radios \ {a} # {}

\* A message heard by a radio of the family that became an entry of the feed.
NewText(h) == h.fate = "new" /\ HasRadioKey(h.msg)

SpeechInv ==
    /\ heard \in Nat /\ IsQueue(spoken)
    /\ \A n \in DOMAIN spoken : spoken[n].what \in Spoken /\ spoken[n].at \in Nat /\ spoken[n].at <= clock

CopyOf(m, n) ==
    /\ n \in DOMAIN spoken
    /\ m.chan = spoken[n].what.chan /\ m.kind = spoken[n].what.kind
    /\ m.from = spoken[n].what.from /\ m.text = spoken[n].what.text
    /\ m.kind = "dm" => m.src = spoken[n].what.addr

\* A hearing is of a user's transmission or of the bridge's own.
HearingOK(h) ==
    /\ h.n \in Nat /\ 1 <= h.n /\ h.n <= heard /\ h.at \in Nat /\ h.at <= clock
    /\ h.msg.tx # 0 => /\ CopyOf(h.msg, h.msg.tx)
                       /\ spoken[h.msg.tx].at <= h.at /\ h.at <= spoken[h.msg.tx].at + CopyWithin
    /\ h.msg.tx = 0 /\ h.msg.src \in Radios =>
          h.fate # "new" /\ \E r \in Radios : h.msg.from = OwnName[r]

HearingsInv ==
    /\ \A h \in hearings : HearingOK(h)
    /\ \A g, h \in hearings : g.n = h.n => g = h

RegisteredInv == DOMAIN status = Adapters /\ \A a \in Adapters : status[a] # "absent"

\* The two caches hold what was heard.
DedupInv == \A d \in dedup : \E h \in hearings : DedupKey(h.msg) = d.key

EntryOf(e, g) == e.key = RadioKey(g.msg) /\ e.t = g.at

IsEntry(e) == e = [key |-> e.key, id |-> e.id, adapters |-> e.adapters, t |-> e.t]

EntriesInv ==
    /\ \A e, f \in radioSeen : e.key = f.key => e = f
    /\ \A e \in radioSeen : IsEntry(e) /\ \E g \in hearings : NewText(g) /\ EntryOf(e, g)

\* Every radio that heard transmission n is one of these.
HeardBy(n, radios) == \A h \in hearings : h.msg.tx = n /\ h.msg.src \in Radios => h.msg.src \in radios

\* Until the merge window has passed, an entry of the feed has its entry among
\* the texts seen, with every radio that heard it.
KnownWith(g) ==
    \/ clock - g.at > MergeWindow
    \/ \E e \in radioSeen : EntryOf(e, g) /\ (Unmistakable(g.msg.tx) => HeardBy(g.msg.tx, e.adapters))

KnownInv ==
    /\ \A g, h \in hearings :
          NewText(g) /\ NewText(h) /\ g.msg.tx = h.msg.tx /\ NamedAlike(g.msg) => g = h
    /\ \A g \in hearings : NewText(g) => KnownWith(g)

\* An unmistakable text is in the feed, or on its way there.
FirstInv ==
    \A h \in hearings : HasRadioKey(h.msg) /\ h.msg.tx # 0 /\ Unmistakable(h.msg.tx) =>
        \E g \in hearings : NewText(g) /\ g.msg.tx = h.msg.tx

HeardInv ==
    SpeechInv /\ HearingsInv /\ RegisteredInv /\ DedupInv /\ EntriesInv /\ KnownInv /\ FirstInv

\* The handling of a message ends in the tick in which it was heard.
StageOK(a, s) ==
    s.at \in {"saving", "showing"} =>
        /\ s = [at |-> s.at, msg |-> s.msg, id |-> s.id]
        /\ \E g \in hearings : /\ g.fate = "new" /\ g.msg = s.msg /\ g.n = s.id
                               /\ g.at = clock /\ s.msg.src = a
        /\ \A k \in DOMAIN feed : feed[k].id # s.id

StageInv == DOMAIN stage = Adapters /\ \A a \in Adapters : StageOK(a, stage[a])

FeedOK(f) == \E g \in hearings : g.fate = "new" /\ g.msg = f.msg /\ g.n = f.id

FeedInv ==
    /\ IsQueue(feed) /\ \A k \in DOMAIN feed : FeedOK(feed[k])
    /\ \A j, k \in DOMAIN feed : feed[j].id = feed[k].id => j = k

\* A hold is shorter than the merge window, so its entry outlives it.
HeldOK(x) == \E g \in hearings : NewText(g) /\ g.msg = x.msg /\ x.due = g.at + Hold /\ clock <= x.due

HeldInv == DOMAIN held = HoldSlots /\ \A s \in HoldSlots : held[s] # None => HeldOK(held[s])

\* Another radio heard the message that the bridge is at work on.
Rival(h, m) ==
    /\ h.msg.src \in Radios /\ m.src \in Radios /\ h.msg.src # m.src
    /\ h.msg.tx = m.tx /\ Unmistakable(h.msg.tx)

KnownText(m) == m.src \in Radios => m.tx \in DOMAIN spoken

\* A job skips every radio that had heard the message, or has no leg to it.
JobOK(j) ==
    /\ j.start \in Nat /\ j.start <= heard /\ KnownText(j.msg)
    /\ \A h \in hearings : Rival(h, j.msg) /\ h.n <= j.start =>
          h.msg.src \in j.skip \/ \A leg \in j.todo : DstEnd(leg).adapter # h.msg.src

JobsInv == \A w \in Workers : worker[w] # Idle => JobOK(worker[w])

SendOK(x) ==
    /\ x.start \in Nat /\ x.start <= heard /\ KnownText(x.of)
    /\ \A h \in hearings : Rival(h, x.of) /\ h.msg.src = x.dst => h.n > x.start

SentInv == \A k \in DOMAIN onAir : SendOK(onAir[k])

-----------------------------------------------------------------------------
(* What is heard.                                                           *)

LEMMA Windows ==
    /\ DedupWindow \in Nat /\ Hold \in Nat /\ MergeWindow \in Nat /\ CopyWithin \in Nat /\ EchoWindow \in Nat
    /\ Hold < MergeWindow /\ CopyWithin < MergeWindow /\ Radios \subseteq Adapters
    /\ HoldSlots \subseteq Workers
BY InboundAssumption, BridgeAssumption

\* Users have names of their own, and say texts or direct messages.
LEMMA UserCopy ==
    ASSUME SpeechInv, NEW m, NEW n, CopyOf(m, n)
    PROVE  m.kind \in {"text", "dm"} /\ \A r \in Radios : m.from # OwnName[r]
<1>1. n \in DOMAIN spoken /\ spoken[n].what \in Spoken
    BY DEF SpeechInv, CopyOf
<1> QED  BY <1>1, InboundAssumption DEF CopyOf

LEMMA SiblingsOf ==
    ASSUME RegisteredInv, NEW a
    PROVE  Siblings(a) = IF a \in Radios THEN Radios \ {a} ELSE {}
BY Windows DEF Siblings, RegisteredInv

\* A new message of a radio is a user's.
LEMMA NewIsSpoken ==
    ASSUME HearingsInv, NEW g \in hearings, g.fate = "new", g.msg.src \in Radios
    PROVE  g.msg.tx # 0 /\ CopyOf(g.msg, g.msg.tx)
BY DEF HearingsInv, HearingOK

\* Copies of one transmission differ in the names that the radios give.
LEMMA SameCopies ==
    ASSUME NEW k, NEW m, NEW n, CopyOf(k, n), CopyOf(m, n)
    PROVE  /\ k.kind = m.kind /\ NamedAlike(k) = NamedAlike(m)
           /\ NamedAlike(m) = NamedAlike(spoken[n].what)
           /\ k.src \in Radios /\ m.src \in Radios /\ NamedAlike(m) => RadioKey(k) = RadioKey(m)
           /\ k.kind = "dm" => k.src = m.src
BY DEF CopyOf, RadioKey, NamedAlike

\* Equal texts under one name come from one transmission if it is unmistakable.
LEMMA SameSpeech ==
    ASSUME NEW k, NEW m, NEW i, NEW n, CopyOf(k, i), CopyOf(m, n), Unmistakable(n), k.text = m.text,
           k.from = m.from \/ \E a, b \in Radios : NodeName(a, k.from) = NodeName(b, m.from)
    PROVE  i = n
BY DEF CopyOf, Unmistakable, SoundsLike

\* What is about to be heard: a user's transmission, or a sibling's.
OnTheAir(m) ==
    \/ /\ m.tx # 0 /\ CopyOf(m, m.tx)
       /\ spoken[m.tx].at <= clock /\ clock <= spoken[m.tx].at + CopyWithin
    \/ m.tx = 0 /\ (m.src \in Radios => \E r \in Radios \ {m.src} : m.from = OwnName[r])

Hears(m, new) ==
    /\ OnTheAir(m)
    /\ new.n = heard + 1 /\ new.msg = m /\ new.fate = Fate(m) /\ new.at = clock
    /\ heard' = heard + 1 /\ hearings' = hearings \cup {new}
    /\ dedup' = FreshDedup \cup (IF IsRepeat(m) THEN {} ELSE {[key |-> DedupKey(m), t |-> clock]})
    /\ radioSeen' = SeenAfter(m)
    /\ UNCHANGED <<clock, spoken, status>>

NewEntry(m) == [key |-> RadioKey(m), id |-> heard + 1, adapters |-> {m.src}, t |-> clock]

Joined(e, m) == [e EXCEPT !.adapters = @ \cup {m.src}]

Repeated(m) ==
    /\ radioSeen' = radioSeen /\ ~ (Fate(m) = "new" /\ HasRadioKey(m))
    /\ HasRadioKey(m) /\ m.tx # 0 => IsRepeat(m)

First(m) ==
    /\ HasRadioKey(m) /\ m.tx # 0 /\ Fate(m) = "new" /\ SeenEntry(m) = {}
    /\ radioSeen' = FreshSeen \cup {NewEntry(m)}

Merged(m) ==
    /\ HasRadioKey(m) /\ m.tx # 0 /\ Fate(m) = "merged" /\ SeenEntry(m) # {}
    /\ radioSeen' = (FreshSeen \ SeenEntry(m)) \cup {Joined(e, m) : e \in SeenEntry(m)}

\* What the two checks make of the texts seen.
LEMMA Outcome ==
    ASSUME HeardInv, Family, NEW m, NEW new, Hears(m, new)
    PROVE  /\ m.tx = 0 /\ m.src \in Radios => Fate(m) # "new"
           /\ Repeated(m) \/ First(m) \/ Merged(m)
<1>1. Siblings(m.src) = IF m.src \in Radios THEN Radios \ {m.src} ELSE {}
    BY SiblingsOf DEF HeardInv
<1>2. m.src \in Radios => Siblings(m.src) # {}
    BY <1>1 DEF Family
<1>3. m.src \in Radios => (IsOwnRadio(m) <=> m.tx = 0)
    <2>1. CASE m.tx # 0
        <3>1. \A r \in Radios : m.from # OwnName[r]
            BY <2>1, UserCopy DEF Hears, OnTheAir, HeardInv
        <3> QED  BY <3>1, <2>1, <1>1 DEF IsOwnRadio
    <2>2. CASE m.tx = 0
        BY <2>2, <1>1 DEF Hears, OnTheAir, IsOwnRadio
    <2> QED  BY <2>1, <2>2
<1>4. radioSeen' = SeenAfter(m)
    BY DEF Hears
<1>5. CASE m.src \notin Radios \/ ~ HasRadioKey(m) \/ IsRepeat(m) \/ IsOwnRadio(m)
    <2>1. radioSeen' = radioSeen
        BY <1>1, <1>4, <1>5 DEF SeenAfter, HasRadioKey
    <2>2. ~ (Fate(m) = "new" /\ HasRadioKey(m))
        BY <1>2, <1>5 DEF Fate, HasRadioKey
    <2>3. HasRadioKey(m) /\ m.tx # 0 => IsRepeat(m)
        BY <1>3, <1>5 DEF HasRadioKey
    <2>4. m.tx = 0 /\ m.src \in Radios => Fate(m) # "new"
        BY <1>2, <1>3 DEF Fate
    <2> QED  BY <2>1, <2>2, <2>3, <2>4 DEF Repeated
<1>6. CASE m.src \in Radios /\ HasRadioKey(m) /\ ~ IsRepeat(m) /\ ~ IsOwnRadio(m)
    <2>1. m.tx # 0 /\ Siblings(m.src) # {}
        BY <1>2, <1>3, <1>6
    <2>2. Fate(m) = IF SeenEntry(m) = {} THEN "new" ELSE "merged"
        BY <1>6, <2>1 DEF Fate
    <2>3. radioSeen' = IF SeenEntry(m) = {} THEN FreshSeen \cup {NewEntry(m)}
                       ELSE (FreshSeen \ SeenEntry(m)) \cup {Joined(e, m) : e \in SeenEntry(m)}
        BY <1>4, <1>6, <2>1 DEF SeenAfter, NewEntry, Joined
    <2> QED  BY <1>6, <2>1, <2>2, <2>3 DEF First, Merged
<1> QED  BY <1>5, <1>6

\* While copies of a text can still be heard, its entry has not expired.
LEMMA EntryFound ==
    ASSUME TypesInv, HeardInv, NEW g \in hearings, NewText(g), NEW m, OnTheAir(m), m.tx = g.msg.tx,
           m.src \in Radios, NamedAlike(m)
    PROVE  /\ clock - g.at <= MergeWindow /\ HasRadioKey(m)
           /\ \E e \in SeenEntry(m) : EntryOf(e, g) /\ (Unmistakable(g.msg.tx) => HeardBy(g.msg.tx, e.adapters))
<1>1. g.msg.tx # 0 /\ CopyOf(g.msg, g.msg.tx) /\ g.msg.kind = "text" /\ g.msg.src \in Radios
    BY NewIsSpoken DEF NewText, HasRadioKey, HeardInv
<1>2. CopyOf(m, g.msg.tx) /\ clock <= spoken[m.tx].at + CopyWithin
    BY <1>1 DEF OnTheAir
<1>3. spoken[m.tx].at <= g.at /\ g.at \in Nat /\ spoken[m.tx].at \in Nat /\ clock \in Nat
    <2>1. HearingOK(g) /\ m.tx \in DOMAIN spoken
        BY <1>2 DEF HeardInv, HearingsInv, CopyOf
    <2> QED  BY <2>1, <1>1 DEF HearingOK, HeardInv, SpeechInv, TypesInv
<1>4. clock - g.at <= MergeWindow /\ ~ (clock - g.at > MergeWindow)
    BY <1>2, <1>3, Windows
<1>5. RadioKey(g.msg) = RadioKey(m) /\ m.kind = "text"
    BY <1>1, <1>2, SameCopies
<1>6. PICK e \in radioSeen : EntryOf(e, g) /\ (Unmistakable(g.msg.tx) => HeardBy(g.msg.tx, e.adapters))
    BY <1>4 DEF HeardInv, KnownInv, KnownWith
<1>7. e \in SeenEntry(m)
    BY <1>4, <1>5, <1>6 DEF SeenEntry, FreshSeen, EntryOf
<1> QED  BY <1>4, <1>5, <1>6, <1>7 DEF HasRadioKey

\* What the first check suppresses was heard on the same radio.
LEMMA RepeatOf ==
    ASSUME HeardInv, NEW m, m.tx # 0, CopyOf(m, m.tx), m.src \in Radios, IsRepeat(m), Unmistakable(m.tx)
    PROVE  \E h \in hearings : h.msg.src = m.src /\ h.msg.tx = m.tx /\ h.msg.kind = m.kind
<1>1. PICK d \in dedup : d.key = DedupKey(m)
    BY DEF IsRepeat, FreshDedup
<1>2. PICK h \in hearings : DedupKey(h.msg) = DedupKey(m)
    BY <1>1 DEF HeardInv, DedupInv
<1>3. h.msg.src = m.src /\ h.msg.from = m.from /\ h.msg.text = m.text
    BY <1>2 DEF DedupKey
<1>4. \A r \in Radios : m.from # OwnName[r]
    BY UserCopy DEF HeardInv
<1>5. HearingOK(h)
    BY DEF HeardInv, HearingsInv
<1>6. h.msg.tx # 0 /\ CopyOf(h.msg, h.msg.tx)
    BY <1>3, <1>4, <1>5 DEF HearingOK
<1>7. h.msg.tx = m.tx
    BY <1>3, <1>6, SameSpeech
<1> QED  BY <1>3, <1>6, <1>7, SameCopies

-----------------------------------------------------------------------------
(* A hearing keeps the invariant.                                           *)

LEMMA HearsHearings ==
    ASSUME TypesInv, HeardInv, Family, NEW m, NEW new, Hears(m, new)
    PROVE  SpeechInv' /\ HearingsInv' /\ RegisteredInv' /\ DedupInv'
<1>1. /\ heard' = heard + 1 /\ hearings' = hearings \cup {new} /\ clock' = clock /\ spoken' = spoken
      /\ status' = status /\ heard \in Nat /\ clock \in Nat
    BY DEF Hears, HeardInv, SpeechInv, TypesInv
<1>2. SpeechInv' /\ RegisteredInv'
    BY <1>1 DEF HeardInv, SpeechInv, RegisteredInv
<1>3. ASSUME NEW h \in hearings PROVE HearingOK(h)' /\ h.n # new.n
    <2>1. HearingOK(h)
        BY DEF HeardInv, HearingsInv
    <2>2. h.n \in Nat /\ h.n <= heard /\ new.n = heard + 1
        BY <2>1 DEF HearingOK, Hears
    <2>3. h.n <= heard' /\ h.n # new.n
        BY <1>1, <2>2
    <2> QED  BY <1>1, <2>1, <2>3 DEF HearingOK, CopyOf
<1>4. HearingOK(new)'
    <2>1. new.n = heard' /\ new.n \in Nat /\ 1 <= new.n /\ new.at = clock' /\ new.at \in Nat /\ new.msg = m
          /\ new.fate = Fate(m)
        BY <1>1 DEF Hears
    <2>2. m.tx = 0 /\ m.src \in Radios => Fate(m) # "new" /\ \E r \in Radios : m.from = OwnName[r]
        BY Outcome DEF Hears, OnTheAir
    <2>3. m.tx # 0 => CopyOf(m, m.tx) /\ spoken[m.tx].at <= clock /\ clock <= spoken[m.tx].at + CopyWithin
        BY DEF Hears, OnTheAir
    <2>4. m.tx # 0 => (CopyOf(m, m.tx) /\ spoken[m.tx].at <= clock /\ clock <= spoken[m.tx].at + CopyWithin)'
        BY <1>1, <2>3 DEF CopyOf
    <2> QED  BY <1>1, <2>1, <2>2, <2>4 DEF HearingOK
<1>5. HearingsInv'
    <2>1. \A g, h \in hearings : g.n = h.n => g = h
        BY DEF HeardInv, HearingsInv
    <2> QED  BY <1>1, <1>3, <1>4, <2>1 DEF HearingsInv
<1>6. DedupInv'
    <2> SUFFICES ASSUME NEW d \in dedup' PROVE \E h \in hearings' : DedupKey(h.msg) = d.key
        BY DEF DedupInv
    <2>1. d \in FreshDedup \/ d = [key |-> DedupKey(m), t |-> clock]
        BY DEF Hears
    <2>2. CASE d \in FreshDedup
        BY <1>1, <2>2 DEF FreshDedup, HeardInv, DedupInv
    <2>3. CASE d = [key |-> DedupKey(m), t |-> clock]
        BY <1>1, <2>3 DEF Hears
    <2> QED  BY <2>1, <2>2, <2>3
<1> QED  BY <1>2, <1>5, <1>6

LEMMA JoinedParts ==
    ASSUME NEW e, IsEntry(e), NEW m
    PROVE  /\ Joined(e, m).key = e.key /\ Joined(e, m).t = e.t /\ IsEntry(Joined(e, m))
           /\ Joined(e, m).adapters = e.adapters \cup {m.src}
<1>1. DOMAIN e = {"key", "id", "adapters", "t"}
    BY DEF IsEntry
<1>2. Joined(e, m) = [f \in DOMAIN e |-> IF f = "adapters" THEN e.adapters \cup {m.src} ELSE e[f]]
    BY <1>1 DEF Joined
<1>3. Joined(e, m) = [key |-> e.key, id |-> e.id, adapters |-> e.adapters \cup {m.src}, t |-> e.t]
    BY <1>1, <1>2
<1> QED  BY <1>3 DEF IsEntry

LEMMA NewEntryParts ==
    ASSUME NEW m
    PROVE  /\ NewEntry(m).key = RadioKey(m) /\ NewEntry(m).t = clock /\ NewEntry(m).adapters = {m.src}
           /\ IsEntry(NewEntry(m))
BY DEF NewEntry, IsEntry

LEMMA HearsEntries ==
    ASSUME TypesInv, HeardInv, Family, NEW m, NEW new, Hears(m, new)
    PROVE  EntriesInv'
<1> DEFINE Known(e) == IsEntry(e) /\ \E g \in hearings' : NewText(g) /\ EntryOf(e, g)
<1>1. hearings' = hearings \cup {new} /\ new.msg = m /\ new.fate = Fate(m) /\ new.at = clock
    BY DEF Hears
<1>2. (\A e, f \in radioSeen : e.key = f.key => e = f) /\ \A e \in radioSeen : IsEntry(e) /\ Known(e)
    BY <1>1 DEF HeardInv, EntriesInv
<1>3. FreshSeen \subseteq radioSeen /\ \A e \in FreshSeen : e.key = RadioKey(m) <=> e \in SeenEntry(m)
    BY DEF FreshSeen, SeenEntry
<1> SUFFICES (\A e, f \in radioSeen' : e.key = f.key => e = f) /\ \A e \in radioSeen' : Known(e)
    BY DEF EntriesInv
<1>4. CASE Repeated(m)
    BY <1>2, <1>4 DEF Repeated
<1>5. CASE First(m)
    <2>1. radioSeen' = FreshSeen \cup {NewEntry(m)} /\ \A e \in FreshSeen : e.key # RadioKey(m)
        BY <1>3, <1>5 DEF First
    <2>2. Known(NewEntry(m))
        <3>1. NewText(new) /\ EntryOf(NewEntry(m), new)
            BY <1>1, <1>5, NewEntryParts DEF First, NewText, EntryOf
        <3> QED  BY <1>1, <3>1, NewEntryParts
    <2> HIDE DEF Known
    <2> QED  BY <1>2, <1>3, <2>1, <2>2, NewEntryParts
<1>6. CASE Merged(m)
    <2> DEFINE J == {Joined(e, m) : e \in SeenEntry(m)}
    <2>1. radioSeen' = (FreshSeen \ SeenEntry(m)) \cup J /\ SeenEntry(m) \subseteq radioSeen
        BY <1>3, <1>6 DEF Merged, SeenEntry
    <2>2. ASSUME NEW x \in J
          PROVE  \E e \in SeenEntry(m) : x = Joined(e, m) /\ x.key = e.key /\ x.key = RadioKey(m) /\ Known(x)
        <3>1. PICK e \in SeenEntry(m) : x = Joined(e, m)
            OBVIOUS
        <3>2. e \in radioSeen /\ e.key = RadioKey(m) /\ IsEntry(e)
            BY <1>2, <2>1 DEF SeenEntry
        <3>3. x.key = e.key /\ x.t = e.t /\ IsEntry(x)
            BY <3>1, <3>2, JoinedParts
        <3>4. Known(x)
            BY <1>2, <3>2, <3>3 DEF EntryOf
        <3> QED  BY <3>1, <3>2, <3>3, <3>4
    <2> HIDE DEF J, Known
    <2>3. ASSUME NEW e \in radioSeen', NEW f \in radioSeen', e.key = f.key PROVE e = f
        <3>1. CASE e \in J /\ f \in J
            <4>1. PICK x \in SeenEntry(m) : e = Joined(x, m) /\ e.key = x.key
                BY <2>2, <3>1
            <4>2. PICK y \in SeenEntry(m) : f = Joined(y, m) /\ f.key = y.key
                BY <2>2, <3>1
            <4>3. x = y
                BY <1>2, <2>1, <2>3, <4>1, <4>2
            <4> QED  BY <4>1, <4>2, <4>3
        <3>2. CASE e \notin J /\ f \notin J
            BY <1>2, <1>3, <2>1, <2>3, <3>2
        <3>3. CASE e \in J /\ f \notin J
            BY <1>3, <2>1, <2>2, <2>3, <3>3
        <3>4. CASE e \notin J /\ f \in J
            BY <1>3, <2>1, <2>2, <2>3, <3>4
        <3> QED  BY <3>1, <3>2, <3>3, <3>4
    <2>4. \A e \in radioSeen' : Known(e)
        BY <1>2, <1>3, <2>1, <2>2
    <2> QED  BY <2>3, <2>4
<1> QED  BY <1>4, <1>5, <1>6, Outcome

\* Whoever hears a text that is already known joins its entry.
LEMMA HearsKnownWith ==
    ASSUME TypesInv, HeardInv, Family, NEW m, NEW new, Hears(m, new), NEW g \in hearings, NewText(g)
    PROVE  KnownWith(g)'
<1>1. hearings' = hearings \cup {new} /\ new.msg = m /\ clock' = clock /\ spoken' = spoken
    BY DEF Hears
<1>2. Unmistakable(g.msg.tx)' = Unmistakable(g.msg.tx)
    BY <1>1 DEF Unmistakable, SoundsLike
<1>3. CASE clock - g.at > MergeWindow
    BY <1>1, <1>3 DEF KnownWith
<1>4. CASE ~ (clock - g.at > MergeWindow)
    <2>1. PICK e \in radioSeen : EntryOf(e, g) /\ (Unmistakable(g.msg.tx) => HeardBy(g.msg.tx, e.adapters))
        BY <1>4 DEF HeardInv, KnownInv, KnownWith
    <2>2. e \in FreshSeen
        <3>1. e.t = g.at /\ clock \in Nat /\ g.at \in Nat /\ MergeWindow \in Nat
            BY <2>1, Windows DEF EntryOf, HeardInv, HearingsInv, HearingOK, TypesInv
        <3> QED  BY <1>4, <2>1, <3>1 DEF FreshSeen
    <2>3. /\ g.msg.tx # 0 /\ CopyOf(g.msg, g.msg.tx) /\ g.msg.kind = "text" /\ g.msg.src \in Radios
          /\ Unmistakable(g.msg.tx) => NamedAlike(g.msg)
        <3>1. g.msg.tx # 0 /\ CopyOf(g.msg, g.msg.tx) /\ g.msg.kind = "text" /\ g.msg.src \in Radios
            BY NewIsSpoken DEF NewText, HasRadioKey, HeardInv
        <3> QED  BY <3>1, SameCopies DEF Unmistakable
    <2>4. m.tx = g.msg.tx /\ m.src \in Radios /\ NamedAlike(g.msg) =>
              m.tx # 0 /\ CopyOf(m, m.tx) /\ RadioKey(m) = e.key /\ m.kind = "text"
        <3>1. m.tx = g.msg.tx => m.tx # 0 /\ CopyOf(m, m.tx)
            BY <2>3 DEF Hears, OnTheAir
        <3> QED  BY <2>1, <2>3, <3>1, SameCopies DEF EntryOf
    <2> SUFFICES \E f \in radioSeen' : EntryOf(f, g) /\ (Unmistakable(g.msg.tx) => HeardBy(g.msg.tx, f.adapters)')
        BY <1>2 DEF KnownWith
    <2>5. CASE m.tx = g.msg.tx /\ m.src \in Radios /\ NamedAlike(g.msg)
        <3>1. m.tx # 0 /\ CopyOf(m, m.tx) /\ e \in SeenEntry(m) /\ HasRadioKey(m)
            BY <2>2, <2>4, <2>5 DEF SeenEntry, HasRadioKey
        <3>2. ~ First(m)
            BY <3>1 DEF First
        <3>3. CASE Repeated(m)
            <4>1. e \in radioSeen' /\ IsRepeat(m)
                BY <2>1, <3>1, <3>3 DEF Repeated
            <4>2. ASSUME Unmistakable(g.msg.tx) PROVE m.src \in e.adapters
                <5>1. PICK h \in hearings : h.msg.src = m.src /\ h.msg.tx = m.tx
                    BY <2>5, <3>1, <4>1, <4>2, RepeatOf
                <5> QED  BY <2>1, <2>5, <4>2, <5>1 DEF HeardBy
            <4>3. Unmistakable(g.msg.tx) => HeardBy(g.msg.tx, e.adapters)'
                BY <1>1, <2>1, <4>2 DEF HeardBy
            <4> QED  BY <2>1, <4>1, <4>3
        <3>4. CASE Merged(m)
            <4>1. Joined(e, m) \in radioSeen'
                BY <3>1, <3>4 DEF Merged
            <4>2. Joined(e, m).adapters = e.adapters \cup {m.src} /\ EntryOf(Joined(e, m), g)
                BY <2>1, JoinedParts DEF HeardInv, EntriesInv, EntryOf
            <4>3. Unmistakable(g.msg.tx) => HeardBy(g.msg.tx, Joined(e, m).adapters)'
                BY <1>1, <2>1, <4>2 DEF HeardBy
            <4> QED  BY <4>1, <4>2, <4>3
        <3> QED  BY <3>2, <3>3, <3>4, Outcome
    <2>6. CASE ~ (m.tx = g.msg.tx /\ m.src \in Radios /\ NamedAlike(g.msg))
        <3>1. Unmistakable(g.msg.tx) => HeardBy(g.msg.tx, e.adapters)'
            BY <1>1, <2>1, <2>3, <2>6 DEF HeardBy
        <3>2. CASE e \in radioSeen'
            BY <2>1, <3>1, <3>2
        <3>3. CASE e \notin radioSeen'
            <4>1. Joined(e, m) \in radioSeen'
                BY <2>1, <2>2, <3>3, Outcome DEF Repeated, First, Merged
            <4>2. Joined(e, m).adapters = e.adapters \cup {m.src} /\ EntryOf(Joined(e, m), g)
                BY <2>1, JoinedParts DEF HeardInv, EntriesInv, EntryOf
            <4>3. Unmistakable(g.msg.tx) => HeardBy(g.msg.tx, Joined(e, m).adapters)'
                BY <3>1, <4>2 DEF HeardBy
            <4> QED  BY <4>1, <4>2, <4>3
        <3> QED  BY <3>2, <3>3
    <2> QED  BY <2>5, <2>6
<1> QED  BY <1>3, <1>4

\* Nobody heard a text before it was first heard.
LEMMA FirstIsFirst ==
    ASSUME TypesInv, HeardInv, NEW m, NEW new, Hears(m, new), First(m)
    PROVE  /\ NamedAlike(m) => \A g \in hearings : NewText(g) => g.msg.tx # m.tx
           /\ Unmistakable(m.tx) => \A h \in hearings : h.msg.src \in Radios => h.msg.tx # m.tx
<1>1. /\ OnTheAir(m) /\ m.tx # 0 /\ CopyOf(m, m.tx) /\ m.kind = "text" /\ SeenEntry(m) = {}
      /\ m.src \in Radios
    BY DEF Hears, OnTheAir, First, HasRadioKey
<1>2. NamedAlike(m) => \A g \in hearings : NewText(g) => g.msg.tx # m.tx
    BY <1>1, EntryFound
<1>3. ASSUME Unmistakable(m.tx), NEW h \in hearings, h.msg.src \in Radios, h.msg.tx = m.tx PROVE FALSE
    <2>1. HearingOK(h)
        BY DEF HeardInv, HearingsInv
    <2>2. CopyOf(h.msg, m.tx)
        BY <1>1, <1>3, <2>1 DEF HearingOK
    <2>3. HasRadioKey(h.msg)
        BY <1>1, <1>3, <2>2, SameCopies DEF HasRadioKey
    <2>4. \E g \in hearings : NewText(g) /\ g.msg.tx = m.tx
        BY <1>1, <1>3, <2>3 DEF HeardInv, FirstInv
    <2>5. NamedAlike(m)
        BY <1>1, <1>3, SameCopies DEF Unmistakable
    <2> QED  BY <1>2, <2>4, <2>5
<1> QED  BY <1>2, <1>3

LEMMA HearsKnown ==
    ASSUME TypesInv, HeardInv, Family, NEW m, NEW new, Hears(m, new)
    PROVE  KnownInv'
<1>1. hearings' = hearings \cup {new} /\ new.msg = m /\ new.fate = Fate(m) /\ new.at = clock /\ spoken' = spoken
    BY DEF Hears
<1>2. \A g, h \in hearings :
          NewText(g) /\ NewText(h) /\ g.msg.tx = h.msg.tx /\ NamedAlike(g.msg) => g = h
    BY DEF HeardInv, KnownInv
<1>3. \A g \in hearings : NewText(g) => KnownWith(g)'
    BY HearsKnownWith
<1>4. CASE ~ NewText(new)
    BY <1>1, <1>2, <1>3, <1>4 DEF KnownInv
<1>5. CASE NewText(new)
    <2>1. First(m)
        BY <1>1, <1>5, Outcome DEF NewText, Repeated, Merged
    <2>2. \A g \in hearings :
              NewText(g) /\ g.msg.tx = m.tx => ~ NamedAlike(m) /\ ~ NamedAlike(g.msg)
        <3>1. m.tx # 0 /\ CopyOf(m, m.tx)
            BY <2>1 DEF Hears, OnTheAir, First
        <3>2. \A g \in hearings : NewText(g) => CopyOf(g.msg, g.msg.tx)
            BY NewIsSpoken DEF NewText, HasRadioKey, HeardInv
        <3> QED  BY <2>1, <3>1, <3>2, FirstIsFirst, SameCopies
    <2>3. Unmistakable(m.tx)' = Unmistakable(m.tx)
        BY <1>1 DEF Unmistakable, SoundsLike
    <2>4. KnownWith(new)'
        <3>1. PICK e \in radioSeen' : EntryOf(e, new) /\ e.adapters = {m.src}
            BY <1>1, <2>1, NewEntryParts DEF First, EntryOf
        <3>2. Unmistakable(m.tx) => HeardBy(m.tx, {m.src})'
            <4>1. Unmistakable(m.tx) => \A h \in hearings : h.msg.src \in Radios => h.msg.tx # m.tx
                BY <2>1, FirstIsFirst
            <4> QED  BY <1>1, <4>1 DEF HeardBy
        <3> QED  BY <1>1, <2>3, <3>1, <3>2 DEF KnownWith
    <2> QED  BY <1>1, <1>2, <1>3, <2>2, <2>4 DEF KnownInv
<1> QED  BY <1>4, <1>5

LEMMA HearsFirst ==
    ASSUME TypesInv, HeardInv, Family, NEW m, NEW new, Hears(m, new)
    PROVE  FirstInv'
<1>1. hearings' = hearings \cup {new} /\ new.msg = m /\ new.fate = Fate(m) /\ spoken' = spoken
    BY DEF Hears
<1>2. ASSUME NEW h \in hearings, HasRadioKey(h.msg), h.msg.tx # 0, Unmistakable(h.msg.tx)
      PROVE  \E g \in hearings' : NewText(g) /\ g.msg.tx = h.msg.tx
    BY <1>1, <1>2 DEF HeardInv, FirstInv
<1>3. ASSUME HasRadioKey(m), m.tx # 0, Unmistakable(m.tx)
      PROVE  \E g \in hearings' : NewText(g) /\ g.msg.tx = m.tx
    <2>1. CopyOf(m, m.tx) /\ m.src \in Radios
        BY <1>3 DEF Hears, OnTheAir, HasRadioKey
    <2>2. CASE Repeated(m)
        <3>1. PICK h \in hearings : h.msg.src = m.src /\ h.msg.tx = m.tx /\ h.msg.kind = m.kind
            BY <1>3, <2>1, <2>2, RepeatOf DEF Repeated
        <3> QED  BY <1>2, <1>3, <3>1 DEF HasRadioKey
    <2>3. CASE First(m)
        BY <1>1, <1>3, <2>3 DEF First, NewText
    <2>4. CASE Merged(m)
        <3>1. PICK e \in radioSeen : e.key = RadioKey(m)
            BY <2>4 DEF Merged, SeenEntry, FreshSeen
        <3>2. PICK g \in hearings : NewText(g) /\ RadioKey(g.msg) = RadioKey(m)
            BY <3>1 DEF HeardInv, EntriesInv, EntryOf
        <3>3. g.msg.text = m.text /\ NodeName(g.msg.src, g.msg.from) = NodeName(m.src, m.from)
            BY <3>2 DEF RadioKey
        <3>4. CopyOf(g.msg, g.msg.tx) /\ g.msg.src \in Radios
            BY <3>2, NewIsSpoken DEF NewText, HasRadioKey, HeardInv
        <3>5. g.msg.tx = m.tx
            BY <1>3, <2>1, <3>3, <3>4, SameSpeech
        <3> QED  BY <1>1, <3>2, <3>5
    <2> QED  BY <2>2, <2>3, <2>4, Outcome
<1>4. \A n : Unmistakable(n)' = Unmistakable(n)
    BY <1>1 DEF Unmistakable, SoundsLike
<1> QED  BY <1>1, <1>2, <1>3, <1>4 DEF FirstInv

LEMMA HearsKeeps ==
    ASSUME TypesInv, HeardInv, Family, NEW m, NEW new, Hears(m, new)
    PROVE  HeardInv'
BY HearsHearings, HearsEntries, HearsKnown, HearsFirst DEF HeardInv

-----------------------------------------------------------------------------
(* What else happens to it.                                                 *)

LEMMA SpokenStays ==
    ASSUME HeardInv, NEW x, x.what \in Spoken, x.at = clock, clock \in Nat, spoken' = Append(spoken, x)
    PROVE  /\ IsQueue(spoken') /\ DOMAIN spoken \subseteq DOMAIN spoken'
           /\ \A i \in DOMAIN spoken : spoken'[i] = spoken[i]
           /\ \A i \in DOMAIN spoken' : i \in DOMAIN spoken \/ spoken'[i] = x
           /\ \A n \in DOMAIN spoken : Unmistakable(n)' => Unmistakable(n)
           /\ \A m, n : CopyOf(m, n) => CopyOf(m, n)'
<1>1. IsQueue(spoken)
    BY DEF HeardInv, SpeechInv
<1>2. /\ IsQueue(spoken') /\ DOMAIN spoken' = 1 .. Len(spoken) + 1
      /\ \A i \in DOMAIN spoken : spoken'[i] = spoken[i]
      /\ spoken'[Len(spoken) + 1] = x
    BY <1>1, QueueAppend
<1>3. Len(spoken) \in Nat /\ DOMAIN spoken = 1 .. Len(spoken)
    BY <1>1, QueueParts
<1>4. DOMAIN spoken \subseteq DOMAIN spoken' /\ \A i \in DOMAIN spoken' : i \in DOMAIN spoken \/ spoken'[i] = x
    BY <1>2, <1>3
<1>5. \A n \in DOMAIN spoken : Unmistakable(n)' => Unmistakable(n)
    BY <1>2, <1>4 DEF Unmistakable, SoundsLike
<1>6. \A m, n : CopyOf(m, n) => CopyOf(m, n)'
    BY <1>2, <1>4 DEF CopyOf
<1> QED  BY <1>2, <1>4, <1>5, <1>6

LEMMA SpeakKeeps ==
    ASSUME TypesInv, HeardInv, NEW x, x.what \in Spoken, x.at = clock, spoken' = Append(spoken, x),
           UNCHANGED <<clock, heard, hearings, dedup, radioSeen, status>>
    PROVE  HeardInv'
<1>1. clock \in Nat /\ clock' = clock /\ heard' = heard /\ hearings' = hearings /\ radioSeen' = radioSeen
      /\ dedup' = dedup /\ status' = status
    BY DEF TypesInv
<1>2. /\ IsQueue(spoken') /\ DOMAIN spoken \subseteq DOMAIN spoken'
      /\ \A i \in DOMAIN spoken : spoken'[i] = spoken[i]
      /\ \A i \in DOMAIN spoken' : i \in DOMAIN spoken \/ spoken'[i] = x
      /\ \A n \in DOMAIN spoken : Unmistakable(n)' => Unmistakable(n)
      /\ \A m, n : CopyOf(m, n) => CopyOf(m, n)'
    BY <1>1, SpokenStays
<1>3. SpeechInv'
    <2>1. heard \in Nat /\ \A n \in DOMAIN spoken : spoken[n].what \in Spoken /\ spoken[n].at \in Nat /\ spoken[n].at <= clock
        BY DEF HeardInv, SpeechInv
    <2>2. \A n \in DOMAIN spoken' : spoken'[n].what \in Spoken /\ spoken'[n].at \in Nat /\ spoken'[n].at <= clock'
        BY <1>1, <1>2, <2>1
    <2> QED  BY <1>1, <1>2, <2>1, <2>2 DEF SpeechInv
<1>4. \A h \in hearings : h.msg.tx # 0 => h.msg.tx \in DOMAIN spoken /\ CopyOf(h.msg, h.msg.tx)
    BY DEF HeardInv, HearingsInv, HearingOK, CopyOf
<1>5. HearingsInv'
    <2>1. ASSUME NEW h \in hearings PROVE HearingOK(h)'
        <3>1. HearingOK(h)
            BY DEF HeardInv, HearingsInv
        <3>2. h.msg.tx # 0 => /\ CopyOf(h.msg, h.msg.tx)'
                              /\ spoken'[h.msg.tx].at <= h.at /\ h.at <= spoken'[h.msg.tx].at + CopyWithin
            BY <1>2, <1>4, <3>1 DEF HearingOK
        <3> QED  BY <1>1, <3>1, <3>2 DEF HearingOK
    <2>2. \A g, h \in hearings : g.n = h.n => g = h
        BY DEF HeardInv, HearingsInv
    <2> QED  BY <1>1, <2>1, <2>2 DEF HearingsInv
<1>6. KnownInv'
    <2>1. ASSUME NEW g \in hearings, NewText(g) PROVE KnownWith(g)'
        <3>1. KnownWith(g)
            BY <2>1 DEF HeardInv, KnownInv
        <3>2. g.msg.tx # 0
            BY <2>1, NewIsSpoken DEF NewText, HasRadioKey, HeardInv
        <3>3. Unmistakable(g.msg.tx)' => Unmistakable(g.msg.tx)
            BY <1>2, <1>4, <3>2
        <3> QED  BY <1>1, <3>1, <3>3 DEF KnownWith, HeardBy
    <2> QED  BY <1>1, <2>1 DEF HeardInv, KnownInv
<1>7. FirstInv'
    <2> SUFFICES ASSUME NEW h \in hearings, HasRadioKey(h.msg), h.msg.tx # 0, Unmistakable(h.msg.tx)'
                 PROVE  \E g \in hearings : NewText(g) /\ g.msg.tx = h.msg.tx
        BY <1>1 DEF FirstInv
    <2>1. Unmistakable(h.msg.tx)
        BY <1>2, <1>4
    <2> QED  BY <2>1 DEF HeardInv, FirstInv
<1>8. RegisteredInv' /\ DedupInv' /\ EntriesInv'
    BY <1>1 DEF HeardInv, RegisteredInv, DedupInv, EntriesInv
<1> QED  BY <1>3, <1>5, <1>6, <1>7, <1>8 DEF HeardInv

LEMMA LaterKeeps ==
    ASSUME TypesInv, HeardInv, UNCHANGED <<spoken, heard, hearings, dedup, radioSeen>>,
           clock' \in Nat, clock <= clock', RegisteredInv'
    PROVE  HeardInv'
<1>1. clock \in Nat /\ spoken' = spoken /\ heard' = heard /\ hearings' = hearings /\ radioSeen' = radioSeen
      /\ dedup' = dedup
    BY DEF TypesInv
<1>2. SpeechInv'
    BY <1>1 DEF HeardInv, SpeechInv
<1>3. HearingsInv'
    <2>1. ASSUME NEW h \in hearings PROVE HearingOK(h)'
        <3>1. HearingOK(h)
            BY DEF HeardInv, HearingsInv
        <3>2. h.at <= clock'
            BY <1>1, <3>1 DEF HearingOK
        <3> QED  BY <1>1, <3>1, <3>2 DEF HearingOK, CopyOf
    <2> QED  BY <1>1, <2>1 DEF HeardInv, HearingsInv
<1>4. KnownInv'
    <2>1. ASSUME NEW g \in hearings, NewText(g) PROVE KnownWith(g)'
        <3>1. KnownWith(g)
            BY <2>1 DEF HeardInv, KnownInv
        <3>2. clock - g.at > MergeWindow => clock' - g.at > MergeWindow
            <4>1. g.at \in Nat
                BY DEF HeardInv, HearingsInv, HearingOK
            <4> QED  BY <1>1, <4>1, Windows
        <3> QED  BY <1>1, <3>1, <3>2 DEF KnownWith, HeardBy, Unmistakable, SoundsLike
    <2> QED  BY <1>1, <2>1 DEF HeardInv, KnownInv
<1>5. DedupInv' /\ EntriesInv' /\ FirstInv'
    BY <1>1 DEF HeardInv, DedupInv, EntriesInv, FirstInv, Unmistakable, SoundsLike
<1> QED  BY <1>2, <1>3, <1>4, <1>5 DEF HeardInv

-----------------------------------------------------------------------------
(* From the radio to the feed and the hold.                                 *)

PathInv == StageInv /\ FeedInv /\ HeldInv

\* A stage that holds no message.
LEMMA NoStage ==
    ASSUME NEW a, NEW s, s.at \notin {"saving", "showing"}
    PROVE  StageOK(a, s) /\ StageOK(a, s)'
BY DEF StageOK

LEMMA FreeIsNoStage == Free.at \notin {"saving", "showing"}
BY DEF Free

LEMMA PathStays ==
    ASSUME PathInv, UNCHANGED <<stage, feed, held, hearings, clock>>
    PROVE  PathInv'
BY DEF PathInv, StageInv, StageOK, FeedInv, FeedOK, HeldInv, HeldOK

LEMMA TickKeepsPath ==
    ASSUME TypesInv, HeardInv, PathInv, PipelineTick
    PROVE  PathInv'
<1>1. /\ clock' = clock + 1 /\ clock \in Nat /\ \A a \in Adapters : stage[a] = Free
      /\ \A h \in HoldSlots : held[h] # None => clock < held[h].due
      /\ stage' = stage /\ feed' = feed /\ held' = held /\ hearings' = hearings
    BY DEF PipelineTick, Tick, TypesInv, pipeline
<1>2. StageInv'
    BY <1>1, NoStage, FreeIsNoStage DEF PathInv, StageInv
<1>3. FeedInv'
    BY <1>1 DEF PathInv, FeedInv, FeedOK
<1>4. HeldInv'
    <2>1. ASSUME NEW s \in HoldSlots, held[s] # None PROVE HeldOK(held[s])'
        <3>1. PICK g \in hearings : NewText(g) /\ g.msg = held[s].msg /\ held[s].due = g.at + Hold
            BY <2>1 DEF PathInv, HeldInv, HeldOK
        <3>2. g.at \in Nat /\ Hold \in Nat /\ clock < held[s].due
            BY <1>1, <2>1, Windows DEF HeardInv, HearingsInv, HearingOK
        <3>3. clock' <= held[s].due
            BY <1>1, <3>1, <3>2
        <3> QED  BY <1>1, <3>1, <3>3 DEF HeldOK
    <2> QED  BY <1>1, <2>1 DEF PathInv, HeldInv
<1> QED  BY <1>2, <1>3, <1>4 DEF PathInv

\* A new message takes the task of the radio that heard it.
LEMMA HearsKeepsPath ==
    ASSUME TypesInv, HeardInv, PathInv, NEW m, NEW new, Hears(m, new), NEW s,
           stage' = [stage EXCEPT ![m.src] = s], UNCHANGED <<feed, held>>,
           s.at \notin {"saving", "showing"}
             \/ (Fate(m) = "new" /\ s = [at |-> "saving", msg |-> m, id |-> heard + 1])
    PROVE  PathInv'
<1>1. /\ hearings' = hearings \cup {new} /\ new.n = heard + 1 /\ new.msg = m /\ new.fate = Fate(m)
      /\ new.at = clock /\ clock' = clock /\ feed' = feed /\ held' = held /\ heard \in Nat
    BY DEF Hears, HeardInv, SpeechInv
<1>2. ASSUME NEW a, NEW t, StageOK(a, t) PROVE StageOK(a, t)'
    BY <1>1, <1>2 DEF StageOK
<1>3. FeedInv'
    BY <1>1 DEF PathInv, FeedInv, FeedOK
<1>4. HeldInv'
    BY <1>1 DEF PathInv, HeldInv, HeldOK
<1>5. StageOK(m.src, s)'
    <2>1. CASE s.at \notin {"saving", "showing"}
        BY <2>1, NoStage
    <2>2. CASE Fate(m) = "new" /\ s = [at |-> "saving", msg |-> m, id |-> heard + 1]
        <3>1. s.msg = m /\ s.id = new.n /\ s = [at |-> s.at, msg |-> s.msg, id |-> s.id]
            BY <1>1, <2>2
        <3>2. \A k \in DOMAIN feed : feed[k].id # s.id
            <4> SUFFICES ASSUME NEW k \in DOMAIN feed PROVE feed[k].id # s.id
                OBVIOUS
            <4>1. PICK g \in hearings : g.n = feed[k].id
                BY DEF PathInv, FeedInv, FeedOK
            <4>2. g.n \in Nat /\ g.n <= heard
                BY DEF HeardInv, HearingsInv, HearingOK
            <4> QED  BY <1>1, <3>1, <4>1, <4>2
        <3>3. new \in hearings' /\ new.fate = "new" /\ new.msg = s.msg /\ new.n = s.id /\ new.at = clock'
              /\ s.msg.src = m.src
            BY <1>1, <2>2, <3>1
        <3> QED  BY <1>1, <3>1, <3>2, <3>3 DEF StageOK
    <2> QED  BY <2>1, <2>2
<1>6. StageInv'
    <2>1. DOMAIN stage = Adapters /\ \A a \in Adapters : StageOK(a, stage[a])
        BY DEF PathInv, StageInv
    <2>2. DOMAIN stage' = Adapters /\ \A a \in Adapters : stage'[a] = stage[a] \/ (a = m.src /\ stage'[a] = s)
        BY <2>1
    <2>3. ASSUME NEW a \in Adapters PROVE StageOK(a, stage[a])'
        <3>1. CASE stage'[a] = stage[a]
            <4>1. PICK t : t = stage[a]
                OBVIOUS
            <4>2. StageOK(a, t)'
                BY <2>1, <4>1, <1>2
            <4> QED  BY <3>1, <4>1, <4>2
        <3>2. CASE a = m.src /\ stage'[a] = s
            BY <3>2, <1>5
        <3> QED  BY <2>2, <3>1, <3>2
    <2> QED  BY <2>2, <2>3 DEF StageInv
<1> QED  BY <1>3, <1>4, <1>6 DEF PathInv

\* One adapter's task goes on, with nothing shown.
LEMMA StageStepKeeps ==
    ASSUME PathInv, UNCHANGED <<feed, held, hearings, clock>>, NEW a \in Adapters, NEW s,
           StageOK(a, s), stage' = [stage EXCEPT ![a] = s]
    PROVE  PathInv'
<1>1. ASSUME NEW b, NEW t, StageOK(b, t) PROVE StageOK(b, t)'
    BY <1>1 DEF StageOK
<1>2. DOMAIN stage = Adapters /\ \A b \in Adapters : StageOK(b, stage[b])
    BY DEF PathInv, StageInv
<1>3. DOMAIN stage' = Adapters /\ \A b \in Adapters : StageOK(b, stage'[b])
    BY <1>2
<1>4. \A b \in Adapters : StageOK(b, stage[b])'
    <2> SUFFICES ASSUME NEW b \in Adapters PROVE StageOK(b, stage[b])'
        OBVIOUS
    <2>1. PICK t : t = stage'[b]
        OBVIOUS
    <2>2. StageOK(b, t)'
        BY <1>1, <1>3, <2>1
    <2> QED  BY <2>1, <2>2
<1>5. FeedInv' /\ HeldInv'
    BY DEF PathInv, FeedInv, FeedOK, HeldInv, HeldOK
<1> QED  BY <1>3, <1>4, <1>5 DEF PathInv, StageInv

LEMMA SavedKeeps ==
    ASSUME PathInv, NEW a \in Adapters, Saved(a)
    PROVE  PathInv'
<1> DEFINE s == stage[a]
           t == [s EXCEPT !.at = "showing"]
<1>1. s.at = "saving" /\ stage' = [stage EXCEPT ![a] = t] /\ UNCHANGED <<feed, held, hearings, clock>>
    BY DEF Saved, bridgeVars
<1>2. StageOK(a, s)
    BY DEF PathInv, StageInv
<1> HIDE DEF s
<1>3. s = [at |-> s.at, msg |-> s.msg, id |-> s.id]
    BY <1>1, <1>2 DEF StageOK
<1>4. t = [at |-> "showing", msg |-> s.msg, id |-> s.id]
    <2>1. DOMAIN s = {"at", "msg", "id"}
        BY <1>3
    <2>2. t = [f \in DOMAIN s |-> IF f = "at" THEN "showing" ELSE s[f]]
        BY <2>1
    <2> HIDE DEF t
    <2> QED  BY <2>1, <2>2
<1> HIDE DEF t
<1>5. StageOK(a, t)
    BY <1>1, <1>2, <1>4 DEF StageOK
<1> QED  BY <1>1, <1>5, StageStepKeeps

\* What is about to be shown was heard in this tick.
LEMMA ShowingParts ==
    ASSUME PathInv, NEW a \in Adapters, stage[a].at = "showing"
    PROVE  /\ \E g \in hearings : /\ g.fate = "new" /\ g.msg = stage[a].msg /\ g.n = stage[a].id
                                  /\ g.at = clock /\ g.msg.src = a
           /\ \A k \in DOMAIN feed : feed[k].id # stage[a].id
BY DEF PathInv, StageInv, StageOK

LEMMA ShownKeepsPath ==
    ASSUME TypesInv, HeardInv, PathInv, NEW a \in Adapters, Shown(a)
    PROVE  PathInv'
<1> DEFINE s == stage[a]
           f == [id |-> s.id, msg |-> s.msg, at |-> clock]
<1>1. /\ s.at = "showing" /\ feed' = Append(feed, f) /\ stage' = [stage EXCEPT ![a] = Free]
      /\ clock' = clock /\ hearings' = hearings /\ clock \in Nat
    BY DEF Shown, TypesInv
<1>2. PICK g \in hearings : g.fate = "new" /\ g.msg = s.msg /\ g.n = s.id /\ g.at = clock /\ g.msg.src = a
    BY <1>1, ShowingParts
<1>3. \A k \in DOMAIN feed : feed[k].id # s.id
    BY <1>1, ShowingParts
<1>4. f.id = s.id /\ f.msg = s.msg
    OBVIOUS
<1> HIDE DEF f
<1>5. /\ IsQueue(feed') /\ DOMAIN feed' = 1 .. Len(feed) + 1 /\ DOMAIN feed = 1 .. Len(feed) /\ Len(feed) \in Nat
      /\ (\A k \in DOMAIN feed : feed'[k] = feed[k]) /\ feed'[Len(feed) + 1] = f
    <2>1. IsQueue(feed)
        BY DEF PathInv, FeedInv
    <2> QED  BY <1>1, <2>1, QueueAppend, QueueParts
<1>6. \A k \in DOMAIN feed' : (k \in DOMAIN feed /\ feed'[k] = feed[k]) \/ (k = Len(feed) + 1 /\ feed'[k] = f)
    BY <1>5
<1>7. FeedInv'
    <2>1. \A k \in DOMAIN feed : FeedOK(feed[k])
        BY DEF PathInv, FeedInv
    <2>2. FeedOK(f)
        BY <1>2, <1>4 DEF FeedOK
    <2>3. \A x : FeedOK(x) => FeedOK(x)'
        BY <1>1 DEF FeedOK
    <2>4. ASSUME NEW k \in DOMAIN feed' PROVE FeedOK(feed[k])'
        <3>1. PICK x : x = feed'[k]
            OBVIOUS
        <3>2. FeedOK(x)'
            BY <1>6, <2>1, <2>2, <2>3, <3>1
        <3> QED  BY <3>1, <3>2
    <2>5. \A j, k \in DOMAIN feed' : feed'[j].id = feed'[k].id => j = k
        <3>1. \A j, k \in DOMAIN feed : feed[j].id = feed[k].id => j = k
            BY DEF PathInv, FeedInv
        <3> QED  BY <1>3, <1>4, <1>6, <3>1
    <2> QED  BY <1>5, <2>4, <2>5 DEF FeedInv
<1>8. StageInv'
    <2>1. DOMAIN stage' = Adapters /\ stage'[a] = Free /\ \A b \in Adapters \ {a} : stage'[b] = stage[b]
        BY <1>1 DEF PathInv, StageInv
    <2>2. ASSUME NEW b \in Adapters PROVE StageOK(b, stage[b])'
        <3>1. CASE b = a
            BY <2>1, <3>1, NoStage, FreeIsNoStage
        <3>2. CASE b # a /\ stage[b].at \notin {"saving", "showing"}
            <4>1. stage'[b].at \notin {"saving", "showing"}
                BY <2>1, <3>2
            <4> QED  BY <4>1 DEF StageOK
        <3>3. CASE b # a /\ stage[b].at \in {"saving", "showing"}
            <4>1. stage'[b] = stage[b] /\ StageOK(b, stage[b])
                BY <2>1, <3>3 DEF PathInv, StageInv
            <4>2. PICK h \in hearings : /\ h.fate = "new" /\ h.msg = stage[b].msg /\ h.n = stage[b].id
                                        /\ h.at = clock /\ stage[b].msg.src = b
                BY <3>3, <4>1 DEF StageOK
            <4>3. stage[b].id # s.id
                BY <1>2, <3>3, <4>2 DEF HeardInv, HearingsInv
            <4>4. \A k \in DOMAIN feed' : feed'[k].id # stage[b].id
                BY <1>4, <1>6, <3>3, <4>1, <4>3 DEF StageOK
            <4>5. stage[b] = [at |-> stage[b].at, msg |-> stage[b].msg, id |-> stage[b].id]
                BY <3>3, <4>1 DEF StageOK
            <4> QED  BY <1>1, <4>1, <4>2, <4>4, <4>5 DEF StageOK
        <3> QED  BY <3>1, <3>2, <3>3
    <2> QED  BY <2>1, <2>2 DEF StageInv
<1>9. HeldInv'
    <2> DEFINE x == [msg |-> s.msg, due |-> clock + Hold]
    <2>1. held' = held \/ (HasRadioKey(s.msg) /\ \E h \in HoldSlots : held' = [held EXCEPT ![h] = x])
        BY DEF Shown
    <2>2. DOMAIN held = HoldSlots /\ \A h \in HoldSlots : held[h] # None => HeldOK(held[h])
        BY DEF PathInv, HeldInv
    <2>3. HasRadioKey(s.msg) => HeldOK(x)
        BY <1>1, <1>2, Windows DEF HeldOK, NewText
    <2>4. \A y : HeldOK(y) => HeldOK(y)'
        BY <1>1 DEF HeldOK
    <2> HIDE DEF x, s
    <2>5. DOMAIN held' = HoldSlots /\ \A h \in HoldSlots : held'[h] = None \/ HeldOK(held'[h])
        BY <2>1, <2>2, <2>3
    <2>6. ASSUME NEW h \in HoldSlots, held'[h] # None PROVE HeldOK(held[h])'
        <3>1. PICK y : y = held'[h]
            OBVIOUS
        <3>2. HeldOK(y)'
            BY <2>4, <2>5, <2>6, <3>1
        <3> QED  BY <3>1, <3>2
    <2> QED  BY <2>5, <2>6 DEF HeldInv
<1> QED  BY <1>7, <1>8, <1>9 DEF PathInv

LEMMA HoldEndsKeepsPath ==
    ASSUME PathInv, NEW h \in HoldSlots, HoldEnds(h)
    PROVE  PathInv'
<1>1. held' = [held EXCEPT ![h] = None] /\ UNCHANGED <<stage, feed, hearings, clock>>
    BY DEF HoldEnds
<1>2. StageInv' /\ FeedInv'
    BY <1>1 DEF PathInv, StageInv, StageOK, FeedInv, FeedOK
<1>3. DOMAIN held' = HoldSlots /\ \A s \in HoldSlots : held'[s] = held[s] \/ held'[s] = None
    BY <1>1 DEF PathInv, HeldInv
<1>4. \A s \in HoldSlots : held'[s] # None => HeldOK(held[s])'
    BY <1>1, <1>3 DEF PathInv, HeldInv, HeldOK
<1> QED  BY <1>2, <1>3, <1>4 DEF PathInv, HeldInv

-----------------------------------------------------------------------------
(* The bridge's work.                                                       *)

WorkInv == JobsInv /\ SentInv

LEMMA SameHearingsKeepWork ==
    ASSUME UNCHANGED <<hearings, heard, spoken>>
    PROVE  (\A j : JobOK(j) => JobOK(j)') /\ (\A x : SendOK(x) => SendOK(x)')
BY DEF JobOK, SendOK, Rival, KnownText, Unmistakable, SoundsLike

\* What is heard from now on is heard after the bridge began.
LEMMA HearsKeepsWork ==
    ASSUME HeardInv, NEW m, NEW new, Hears(m, new)
    PROVE  (\A j : JobOK(j) => JobOK(j)') /\ (\A x : SendOK(x) => SendOK(x)')
<1>1. /\ hearings' = hearings \cup {new} /\ new.n = heard + 1 /\ heard' = heard + 1 /\ spoken' = spoken
      /\ heard \in Nat
    BY DEF Hears, HeardInv, SpeechInv
<1>2. (\A h, k : Rival(h, k)' <=> Rival(h, k)) /\ \A k : KnownText(k)' <=> KnownText(k)
    BY <1>1 DEF Rival, Unmistakable, SoundsLike, KnownText
<1>3. ASSUME NEW j, JobOK(j) PROVE JobOK(j)'
    <2>1. j.start \in Nat /\ j.start <= heard /\ ~ (new.n <= j.start) /\ j.start <= heard'
        BY <1>1, <1>3 DEF JobOK
    <2> QED  BY <1>1, <1>2, <1>3, <2>1 DEF JobOK
<1>4. ASSUME NEW x, SendOK(x) PROVE SendOK(x)'
    <2>1. x.start \in Nat /\ x.start <= heard /\ new.n > x.start /\ x.start <= heard'
        BY <1>1, <1>4 DEF SendOK
    <2> QED  BY <1>1, <1>2, <1>4, <2>1 DEF SendOK
<1> QED  BY <1>3, <1>4

LEMMA SpeakKeepsWork ==
    ASSUME TypesInv, HeardInv, NEW x, x.what \in Spoken, x.at = clock, spoken' = Append(spoken, x),
           UNCHANGED <<hearings, heard>>
    PROVE  (\A j : JobOK(j) => JobOK(j)') /\ (\A y : SendOK(y) => SendOK(y)')
<1>1. /\ DOMAIN spoken \subseteq DOMAIN spoken'
      /\ \A n \in DOMAIN spoken : Unmistakable(n)' => Unmistakable(n)
    BY SpokenStays DEF TypesInv
<1>2. (\A h, k : KnownText(k) /\ Rival(h, k)' => Rival(h, k)) /\ \A k : KnownText(k) => KnownText(k)'
    BY <1>1 DEF Rival, KnownText
<1>3. ASSUME NEW j, JobOK(j) PROVE JobOK(j)'
    BY <1>2, <1>3 DEF JobOK
<1>4. ASSUME NEW y, SendOK(y) PROVE SendOK(y)'
    BY <1>2, <1>4 DEF SendOK
<1> QED  BY <1>3, <1>4

LEMMA WorkStays ==
    ASSUME WorkInv, \A j : JobOK(j) => JobOK(j)', \A x : SendOK(x) => SendOK(x)', onAir' = onAir,
           \A w \in Workers : worker'[w] = worker[w] \/ worker'[w] = Idle \/ JobOK(worker'[w])
    PROVE  WorkInv'
<1>1. ASSUME NEW w \in Workers, worker'[w] # Idle PROVE JobOK(worker[w])'
    <2>1. PICK j : j = worker'[w]
        OBVIOUS
    <2>2. JobOK(j)
        BY <1>1, <2>1 DEF WorkInv, JobsInv
    <2>3. JobOK(j)'
        BY <2>2
    <2> QED  BY <2>1, <2>3
<1>2. ASSUME NEW k \in DOMAIN onAir PROVE SendOK(onAir[k])'
    <2>1. PICK x : x = onAir[k]
        OBVIOUS
    <2>2. SendOK(x)'
        BY <2>1 DEF WorkInv, SentInv
    <2> QED  BY <2>1, <2>2
<1> QED  BY <1>1, <1>2 DEF WorkInv, JobsInv, SentInv

LEMMA NewJob ==
    ASSUME HeardInv, NEW g \in hearings, g.fate = "new", NEW skip,
           \A h \in hearings : Rival(h, g.msg) =>
              h.msg.src \in skip \/ \A leg \in Itinerary(g.msg) : DstEnd(leg).adapter # h.msg.src
    PROVE  JobOK(Job(g.msg, skip))
<1>1. KnownText(g.msg)
    BY NewIsSpoken DEF HeardInv, KnownText, CopyOf
<1>2. heard \in Nat /\ heard <= heard
    BY DEF HeardInv, SpeechInv
<1>3. /\ Job(g.msg, skip).start = heard /\ Job(g.msg, skip).msg = g.msg
      /\ Job(g.msg, skip).skip = skip /\ Job(g.msg, skip).todo = Itinerary(g.msg)
    BY DEF Job
<1> QED  BY <1>1, <1>2, <1>3 DEF JobOK

\* Without a hold no rule leads to a sibling, or no sibling can have heard it.
LEMMA ShownKeepsWork ==
    ASSUME TypesInv, HeardInv, PathInv, WorkInv, NEW a \in Adapters, Shown(a)
    PROVE  WorkInv'
<1>1. stage[a].at = "showing" /\ UNCHANGED <<hearings, heard, spoken, onAir>>
    BY DEF Shown
<1>2. PICK g \in hearings : g.fate = "new" /\ g.msg = stage[a].msg /\ g.msg.src = a
    BY <1>1, ShowingParts
<1> DEFINE n == IF Ignored(g.msg) THEN Idle ELSE Job(g.msg, {})
<1>3. worker' = worker \/ (/\ ~ (ToSibling(a) /\ HasRadioKey(g.msg))
                           /\ worker' = [worker EXCEPT ![WorkerOf[a]] = n])
    BY <1>2 DEF Shown
<1>4. ASSUME ~ (ToSibling(a) /\ HasRadioKey(g.msg)), NEW h \in hearings, Rival(h, g.msg),
             NEW leg \in Itinerary(g.msg)
      PROVE  DstEnd(leg).adapter # h.msg.src
    <2>1. h.msg.src \in Radios /\ a \in Radios /\ h.msg.src # a /\ h.msg.tx = g.msg.tx
        BY <1>2, <1>4 DEF Rival
    <2>2. CASE ~ ToSibling(a)
        <3>1. leg \in Legs /\ RuleOf(leg).enabled
            BY DEF Itinerary
        <3>2. h.msg.src \in Siblings(a)
            BY <2>1, SiblingsOf DEF HeardInv
        <3> QED  BY <2>2, <3>1, <3>2 DEF ToSibling
    <2>3. CASE ~ HasRadioKey(g.msg)
        <3>1. g.msg.tx # 0 /\ CopyOf(g.msg, g.msg.tx)
            BY <1>2, <2>1, NewIsSpoken DEF HeardInv
        <3>2. g.msg.kind = "dm"
            BY <1>2, <2>1, <2>3, <3>1, UserCopy DEF HasRadioKey, HeardInv
        <3>3. CopyOf(h.msg, g.msg.tx)
            BY <2>1, <3>1 DEF HeardInv, HearingsInv, HearingOK
        <3> QED  BY <1>2, <2>1, <3>1, <3>2, <3>3, SameCopies
    <2> QED  BY <1>4, <2>2, <2>3
<1>5. ~ (ToSibling(a) /\ HasRadioKey(g.msg)) => n = Idle \/ JobOK(n)
    BY <1>2, <1>4, NewJob
<1> HIDE DEF n
<1>6. \A w \in Workers : worker'[w] = worker[w] \/ worker'[w] = Idle \/ JobOK(worker'[w])
    BY <1>3, <1>5 DEF TypesInv
<1> QED  BY <1>1, <1>6, SameHearingsKeepWork, WorkStays

\* After a hold every other radio that heard the text is skipped.
LEMMA HoldEndsKeepsWork ==
    ASSUME TypesInv, HeardInv, PathInv, WorkInv, NEW s \in HoldSlots, HoldEnds(s)
    PROVE  WorkInv'
<1>1. held[s] # None /\ held[s].due <= clock /\ UNCHANGED <<hearings, heard, spoken, onAir>>
    BY DEF HoldEnds
<1>2. PICK g \in hearings : NewText(g) /\ g.msg = held[s].msg /\ held[s].due = g.at + Hold /\ clock <= held[s].due
    BY <1>1 DEF PathInv, HeldInv, HeldOK
<1> DEFINE skip == HeardOn(g.msg) \ {g.msg.src}
           n == IF Ignored(g.msg) THEN Idle ELSE Job(g.msg, skip)
<1>3. worker' = [worker EXCEPT ![s] = n]
    BY <1>2 DEF HoldEnds
<1>4. ~ (clock - g.at > MergeWindow)
    <2>1. g.at \in Nat /\ clock \in Nat
        BY DEF HeardInv, HearingsInv, HearingOK, TypesInv
    <2> QED  BY <1>1, <1>2, <2>1, Windows
<1>5. PICK e \in radioSeen : EntryOf(e, g) /\ (Unmistakable(g.msg.tx) => HeardBy(g.msg.tx, e.adapters))
    BY <1>2, <1>4 DEF HeardInv, KnownInv, KnownWith
<1>6. HeardOn(g.msg) = e.adapters
    <2> DEFINE E == {x \in radioSeen : x.key = RadioKey(g.msg)}
    <2>1. E = {e}
        BY <1>5 DEF EntryOf, HeardInv, EntriesInv
    <2>2. HeardOn(g.msg) = IF E = {} THEN {g.msg.src} ELSE (CHOOSE x \in E : TRUE).adapters
        BY DEF HeardOn
    <2> HIDE DEF E
    <2>3. (CHOOSE x \in E : TRUE) = e
        BY <2>1
    <2> QED  BY <2>1, <2>2, <2>3
<1>7. ASSUME NEW h \in hearings, Rival(h, g.msg) PROVE h.msg.src \in skip
    BY <1>5, <1>6, <1>7 DEF Rival, HeardBy
<1> HIDE DEF skip
<1>8. n = Idle \/ JobOK(n)
    BY <1>2, <1>7, NewJob DEF NewText
<1> HIDE DEF n
<1>9. \A w \in Workers : worker'[w] = worker[w] \/ worker'[w] = Idle \/ JobOK(worker'[w])
    BY <1>3, <1>8 DEF TypesInv
<1> QED  BY <1>1, <1>9, SameHearingsKeepWork, WorkStays

LEMMA JobGoesOn ==
    ASSUME NEW j, JobOK(j), NEW k, k.msg = j.msg, k.start = j.start, k.skip = j.skip, k.todo \subseteq j.todo
    PROVE  JobOK(k)
BY DEF JobOK

\* What is sent passed the check of who heard it.
LEMMA LegSends ==
    ASSUME HeardInv, WorkInv, NEW w \in Workers, worker[w] # Idle, NEW leg, LegStep(w, leg, "send")
    PROVE  SendOK(Sending(worker[w], leg))
<1>1. JobOK(worker[w])
    BY DEF WorkInv, JobsInv
<1>2. DstEnd(leg).adapter \notin worker[w].skip
    BY LegVerdict
<1>3. leg \in worker[w].todo
    BY DEF LegStep
<1> DEFINE x == Sending(worker[w], leg)
           j == worker[w]
<1>4. x.start = j.start /\ x.of = j.msg /\ x.dst = DstEnd(leg).adapter
    BY SendingParts
<1> HIDE DEF x, j
<1>5. JobOK(j) /\ DstEnd(leg).adapter \notin j.skip /\ leg \in j.todo
    BY <1>1, <1>2, <1>3 DEF j
<1>6. ASSUME NEW h \in hearings, Rival(h, x.of), h.msg.src = x.dst PROVE h.n > x.start
    <2>1. h.n \in Nat /\ x.start \in Nat
        BY <1>4, <1>5 DEF HeardInv, HearingsInv, HearingOK, JobOK
    <2>2. ~ (h.n <= x.start)
        BY <1>4, <1>5, <1>6 DEF JobOK
    <2> QED  BY <2>1, <2>2
<1>7. SendOK(x)
    BY <1>4, <1>5, <1>6 DEF SendOK, JobOK
<1> QED  BY <1>7 DEF x

LEMMA LegKeepsWork ==
    ASSUME TypesInv, HeardInv, WorkInv, NEW w \in Workers, NEW leg, NEW v, LegStep(w, leg, v),
           UNCHANGED <<hearings, heard, spoken>>
    PROVE  WorkInv'
<1>1. /\ \A x \in Workers \ {w} : worker'[x] = worker[x]
      /\ worker[w] # Idle /\ worker'[w].msg = worker[w].msg /\ worker'[w].start = worker[w].start
      /\ worker'[w].skip = worker[w].skip /\ worker'[w].todo \subseteq worker[w].todo
    BY LegWorkers
<1>2. JobOK(worker'[w])
    <2>1. JobOK(worker[w])
        BY <1>1 DEF WorkInv, JobsInv
    <2> QED  BY <1>1, <2>1, JobGoesOn
<1>3. \A x \in Workers : worker'[x] # Idle => JobOK(worker'[x])
    BY <1>1, <1>2 DEF WorkInv, JobsInv
<1>4. \A k \in DOMAIN onAir' : SendOK(onAir'[k])
    <2>1. \A k \in DOMAIN onAir : SendOK(onAir[k])
        BY DEF WorkInv, SentInv
    <2>2. v = "send" => SendOK(Sending(worker[w], leg))
        BY <1>1, LegSends
    <2>3. CASE onAir' = onAir
        BY <2>1, <2>3
    <2>4. CASE onAir' # onAir
        BY <2>1, <2>2, <2>4, LegOnAir
    <2> QED  BY <2>3, <2>4
<1>5. (\A j : JobOK(j) => JobOK(j)') /\ (\A x : SendOK(x) => SendOK(x)')
    BY SameHearingsKeepWork
<1>6. ASSUME NEW x \in Workers, worker'[x] # Idle PROVE JobOK(worker[x])'
    <2>1. PICK j : j = worker'[x]
        OBVIOUS
    <2>2. JobOK(j)'
        BY <1>3, <1>5, <1>6, <2>1
    <2> QED  BY <2>1, <2>2
<1>7. ASSUME NEW k \in DOMAIN onAir' PROVE SendOK(onAir[k])'
    <2>1. PICK x : x = onAir'[k]
        OBVIOUS
    <2>2. SendOK(x)'
        BY <1>4, <1>5, <2>1
    <2> QED  BY <2>1, <2>2
<1> QED  BY <1>6, <1>7 DEF WorkInv, JobsInv, SentInv

LEMMA BridgeKeepsWork ==
    ASSUME TypesInv, HeardInv, WorkInv, NEW w \in Workers, BridgeRuns(w)
    PROVE  WorkInv'
<1>1. UNCHANGED <<hearings, heard, spoken>>
    BY DEF BridgeRuns, RunLeg, SendReturns, Finish, pipeline
<1>2. CASE RunLeg(w)
    BY <1>1, <1>2, RunLegIsLegStep, LegKeepsWork
<1>3. CASE SendReturns(w)
    <2>1. /\ \A x \in Workers \ {w} : worker'[x] = worker[x]
          /\ worker[w] # Idle /\ worker'[w].msg = worker[w].msg /\ worker'[w].start = worker[w].start
          /\ worker'[w].skip = worker[w].skip /\ worker'[w].todo = worker[w].todo
        BY <1>3, SendReturnsRests
    <2>2. JobOK(worker'[w])
        <3>1. JobOK(worker[w])
            BY <2>1 DEF WorkInv, JobsInv
        <3> QED  BY <2>1, <3>1, JobGoesOn
    <2>3. onAir' = onAir
        BY <1>3 DEF SendReturns
    <2>4. \A x \in Workers : worker'[x] = worker[x] \/ worker'[x] = Idle \/ JobOK(worker'[x])
        BY <2>1, <2>2
    <2> QED  BY <1>1, <2>3, <2>4, SameHearingsKeepWork, WorkStays
<1>4. CASE Finish(w)
    <2>1. onAir' = onAir /\ worker' = [worker EXCEPT ![w] = Idle]
        BY <1>4 DEF Finish
    <2>2. \A x \in Workers : worker'[x] = worker[x] \/ worker'[x] = Idle \/ JobOK(worker'[x])
        BY <2>1 DEF TypesInv
    <2> QED  BY <1>1, <2>1, <2>2, SameHearingsKeepWork, WorkStays
<1> QED  BY <1>2, <1>3, <1>4 DEF BridgeRuns

-----------------------------------------------------------------------------
(* The steps of the pipeline.                                               *)

InboundInv == TypesInv /\ HeardInv /\ PathInv /\ WorkInv

\* A radio hears a message and its task begins to handle it.
LEMMA ReceiveParts ==
    ASSUME TypesInv, NEW m, OnTheAir(m), Receive(m)
    PROVE  /\ RestStep /\ UNCHANGED <<feed, held, worker, onAir>>
           /\ \E new : Hears(m, new)
           /\ \E s : /\ stage' = [stage EXCEPT ![m.src] = s]
                     /\ s.at \in {"free", "announcing"}
                          \/ (Fate(m) = "new" /\ s = [at |-> "saving", msg |-> m, id |-> heard + 1])
<1>1. RestStep /\ UNCHANGED <<feed, held, worker, onAir>>
    <2>1. UNCHANGED <<feed, held>> /\ UNCHANGED <<seen, onAir, buckets, loads, clock, worker>>
        BY DEF Receive
    <2> QED  BY <2>1, OtherRests
<1>2. Hears(m, [n |-> heard + 1, msg |-> m, fate |-> Fate(m), at |-> clock])
    BY DEF Receive, Hears
<1> DEFINE s == CASE Fate(m) = "new" -> [at |-> "saving", msg |-> m, id |-> heard + 1]
                  [] Fate(m) = "merged" /\ IsNews(m) -> [at |-> "announcing"]
                  [] OTHER -> Free
<1>3. stage' = [stage EXCEPT ![m.src] = s]
    BY DEF Receive
<1>4. s.at \in {"free", "announcing"} \/ (Fate(m) = "new" /\ s = [at |-> "saving", msg |-> m, id |-> heard + 1])
    <2>1. Fate(m) = "new" => s = [at |-> "saving", msg |-> m, id |-> heard + 1]
        OBVIOUS
    <2>2. Fate(m) # "new" => s \in {[at |-> "announcing"], Free}
        OBVIOUS
    <2>3. \A t \in {[at |-> "announcing"], Free} : t.at \in {"free", "announcing"}
        BY DEF Free
    <2> QED  BY <2>1, <2>2, <2>3
<1> QED  BY <1>1, <1>2, <1>3, <1>4

LEMMA UserIsOnTheAir ==
    ASSUME TypesInv, HeardInv, NEW a, HearUser(a)
    PROVE  \E m : OnTheAir(m) /\ m.src = a /\ Receive(m)
<1>1. PICK n \in DOMAIN spoken : /\ clock - spoken[n].at <= CopyWithin
                                 /\ spoken[n].what.kind = "dm" => a = spoken[n].what.addr
                                 /\ Receive(CopyFor(a, n))
    BY DEF HearUser
<1> DEFINE m == CopyFor(a, n)
<1>2. m.src = a /\ m.tx = n /\ CopyOf(m, n)
    BY <1>1 DEF CopyFor, CopyOf
<1>3. spoken[n].at \in Nat /\ spoken[n].at <= clock /\ clock \in Nat /\ CopyWithin \in Nat
    BY Windows DEF HeardInv, SpeechInv, TypesInv
<1>4. n # 0
    <2>1. DOMAIN spoken = 1 .. Len(spoken)
        BY QueueParts DEF HeardInv, SpeechInv
    <2> QED  BY <2>1
<1>5. clock <= spoken[n].at + CopyWithin
    BY <1>1, <1>3
<1> HIDE DEF m
<1>6. OnTheAir(m)
    BY <1>2, <1>3, <1>4, <1>5 DEF OnTheAir
<1> QED  BY <1>1, <1>2, <1>6 DEF m

LEMMA BridgeIsOnTheAir ==
    ASSUME NEW a, HearBridge(a)
    PROVE  \E m : OnTheAir(m) /\ m.src = a /\ Receive(m)
<1>1. PICK k \in DOMAIN onAir :
         /\ onAir[k].dst \in Radios \ {a}
         /\ Receive([src |-> a, chan |-> onAir[k].chan, addr |-> None, kind |-> "text",
                     from |-> OwnName[onAir[k].dst], text |-> onAir[k].text,
                     bridged |-> FALSE, notice |-> FALSE, tx |-> 0])
    BY DEF HearBridge
<1> DEFINE m == [src |-> a, chan |-> onAir[k].chan, addr |-> None, kind |-> "text",
                 from |-> OwnName[onAir[k].dst], text |-> onAir[k].text,
                 bridged |-> FALSE, notice |-> FALSE, tx |-> 0]
<1>2. m.src = a /\ m.tx = 0 /\ m.from = OwnName[onAir[k].dst] /\ Receive(m)
    BY <1>1
<1> HIDE DEF m
<1>3. OnTheAir(m)
    BY <1>1, <1>2 DEF OnTheAir
<1> QED  BY <1>2, <1>3

LEMMA HearKeeps ==
    ASSUME InboundInv, Family, NEW a \in Adapters, HearUser(a) \/ HearBridge(a)
    PROVE  InboundInv'
<1>0. TypesInv /\ HeardInv /\ PathInv /\ WorkInv
    BY DEF InboundInv
<1>1. PICK m : OnTheAir(m) /\ Receive(m)
    BY <1>0, UserIsOnTheAir, BridgeIsOnTheAir
<1>2. PICK new : Hears(m, new)
    BY <1>0, <1>1, ReceiveParts
<1>3. TypesInv'
    BY <1>0, <1>1, ReceiveParts, RestTypes
<1>4. HeardInv'
    BY <1>0, <1>2, HearsKeeps
<1>5. UNCHANGED <<feed, held, worker, onAir>>
    BY <1>0, <1>1, ReceiveParts
<1>6. PICK s : /\ stage' = [stage EXCEPT ![m.src] = s]
               /\ s.at \notin {"saving", "showing"}
                    \/ (Fate(m) = "new" /\ s = [at |-> "saving", msg |-> m, id |-> heard + 1])
    <2>1. PICK s : /\ stage' = [stage EXCEPT ![m.src] = s]
                   /\ s.at \in {"free", "announcing"}
                        \/ (Fate(m) = "new" /\ s = [at |-> "saving", msg |-> m, id |-> heard + 1])
        BY <1>0, <1>1, ReceiveParts
    <2>2. s.at \in {"free", "announcing"} => s.at \notin {"saving", "showing"}
        OBVIOUS
    <2> QED  BY <2>1, <2>2
<1>7. PathInv'
    BY <1>0, <1>2, <1>5, <1>6, HearsKeepsPath
<1>8. (\A j : JobOK(j) => JobOK(j)') /\ (\A x : SendOK(x) => SendOK(x)')
    BY <1>0, <1>2, HearsKeepsWork
<1>9. onAir' = onAir /\ \A w \in Workers : worker'[w] = worker[w] \/ worker'[w] = Idle \/ JobOK(worker'[w])
    BY <1>5
<1>10. WorkInv'
    BY <1>0, <1>8, <1>9, WorkStays
<1> QED  BY <1>3, <1>4, <1>7, <1>10 DEF InboundInv

LEMMA SpeakStep ==
    ASSUME InboundInv, Speak
    PROVE  InboundInv'
<1>0. TypesInv /\ HeardInv /\ PathInv /\ WorkInv
    BY DEF InboundInv
<1>1. UNCHANGED bridgeVars /\ UNCHANGED <<stage, dedup, radioSeen, feed, held, hearings>>
    BY DEF Speak
<1>2. UNCHANGED <<seen, onAir, buckets, loads, clock, worker, heard, status>>
    BY <1>1 DEF bridgeVars
<1>3. PICK x : x.what \in Spoken /\ x.at = clock /\ spoken' = Append(spoken, x)
    <2>1. PICK what \in Spoken : spoken' = Append(spoken, [what |-> what, at |-> clock])
        BY DEF Speak
    <2> QED  BY <2>1
<1>4. TypesInv'
    BY <1>0, <1>2, OtherRests, RestTypes
<1>5. HeardInv'
    BY <1>0, <1>1, <1>2, <1>3, SpeakKeeps
<1>6. PathInv'
    BY <1>0, <1>1, <1>2, PathStays
<1>7. WorkInv'
    <2>1. (\A j : JobOK(j) => JobOK(j)') /\ (\A y : SendOK(y) => SendOK(y)')
        BY <1>0, <1>1, <1>2, <1>3, SpeakKeepsWork
    <2> QED  BY <1>0, <1>2, <2>1, WorkStays
<1> QED  BY <1>4, <1>5, <1>6, <1>7 DEF InboundInv

\* Nothing is heard, sent or forwarded.
LEMMA QuietStep ==
    ASSUME InboundInv, UNCHANGED <<seen, onAir, buckets, loads, clock, worker>>,
           UNCHANGED <<spoken, heard, hearings, dedup, radioSeen>>, RegisteredInv', PathInv'
    PROVE  InboundInv'
<1>0. TypesInv /\ HeardInv /\ PathInv /\ WorkInv
    BY DEF InboundInv
<1>1. TypesInv'
    BY <1>0, OtherRests, RestTypes
<1>2. HeardInv'
    <2>1. clock' \in Nat /\ clock <= clock'
        BY <1>0 DEF TypesInv
    <2> QED  BY <1>0, <2>1, LaterKeeps
<1>3. WorkInv'
    BY <1>0, SameHearingsKeepWork, WorkStays
<1> QED  BY <1>1, <1>2, <1>3 DEF InboundInv

LEMMA TaskSteps ==
    ASSUME InboundInv, NEW a \in Adapters, Announced(a) \/ Saved(a) \/ SaveFails(a) \/ Reconnected(a)
    PROVE  InboundInv'
<1>0. PathInv /\ RegisteredInv
    BY DEF InboundInv, HeardInv
<1>1. CASE Announced(a)
    <2>1. /\ UNCHANGED <<seen, onAir, buckets, loads, clock, worker>> /\ status' = status
          /\ UNCHANGED <<spoken, heard, hearings, dedup, radioSeen>> /\ UNCHANGED <<feed, held, hearings, clock>>
        BY <1>1 DEF Announced, bridgeVars
    <2>2. stage' = [stage EXCEPT ![a] = Free]
        BY <1>1 DEF Announced
    <2>3. PathInv'
        BY <1>0, <2>1, <2>2, NoStage, FreeIsNoStage, StageStepKeeps
    <2> QED  BY <1>0, <2>1, <2>3, QuietStep DEF RegisteredInv
<1>2. CASE Saved(a)
    <2>1. /\ UNCHANGED <<seen, onAir, buckets, loads, clock, worker>> /\ status' = status
          /\ UNCHANGED <<spoken, heard, hearings, dedup, radioSeen>>
        BY <1>2 DEF Saved, bridgeVars
    <2>2. PathInv'
        BY <1>0, <1>2, SavedKeeps
    <2> QED  BY <1>0, <2>1, <2>2, QuietStep DEF RegisteredInv
<1>3. CASE SaveFails(a)
    <2>1. /\ UNCHANGED <<seen, onAir, buckets, loads, clock, worker>>
          /\ UNCHANGED <<spoken, heard, hearings, dedup, radioSeen>> /\ UNCHANGED <<feed, held, hearings, clock>>
        BY <1>3 DEF SaveFails
    <2>2. stage' = [stage EXCEPT ![a] = Free] /\ status' = [status EXCEPT ![a] = "down"]
        BY <1>3 DEF SaveFails
    <2>3. PathInv'
        BY <1>0, <2>1, <2>2, NoStage, FreeIsNoStage, StageStepKeeps
    <2>4. RegisteredInv'
        BY <1>0, <2>2 DEF RegisteredInv
    <2> QED  BY <2>1, <2>3, <2>4, QuietStep
<1>4. CASE Reconnected(a)
    <2>1. /\ UNCHANGED <<seen, onAir, buckets, loads, clock, worker>>
          /\ UNCHANGED <<spoken, heard, hearings, dedup, radioSeen>>
          /\ UNCHANGED <<stage, feed, held, hearings, clock>>
        BY <1>4 DEF Reconnected, pipeline
    <2>2. PathInv'
        BY <1>0, <2>1, PathStays
    <2>3. RegisteredInv'
        BY <1>0, <1>4 DEF RegisteredInv, Reconnected
    <2> QED  BY <2>1, <2>2, <2>3, QuietStep
<1> QED  BY <1>1, <1>2, <1>3, <1>4

\* A step that changes one worker's task at most.
LEMMA JobTypes ==
    ASSUME TypesInv, UNCHANGED <<seen, onAir, buckets, loads, clock>>, NEW w, NEW m, NEW skip,
           worker' = worker \/ worker' = [worker EXCEPT ![w] = IF Ignored(m) THEN Idle ELSE Job(m, skip)]
    PROVE  RestStep
<1> DEFINE n == IF Ignored(m) THEN Idle ELSE Job(m, skip)
<1>1. n = Idle \/ AJob(n)
    BY JobIsAJob
<1> HIDE DEF n
<1>2. CASE worker' = worker
    BY <1>2, OtherRests
<1>3. CASE worker' = [worker EXCEPT ![w] = n]
    BY <1>1, <1>3, WorkerSteps
<1> QED  BY <1>2, <1>3 DEF n

LEMMA ShownRests ==
    ASSUME TypesInv, NEW a, Shown(a)
    PROVE  RestStep
<1>1. UNCHANGED <<seen, onAir, buckets, loads, clock>>
    BY DEF Shown
<1>2. worker' = worker \/ worker' = [worker EXCEPT ![WorkerOf[a]] = IF Ignored(stage[a].msg) THEN Idle
                                                                     ELSE Job(stage[a].msg, {})]
    BY DEF Shown
<1> QED  BY <1>1, <1>2, JobTypes

LEMMA HoldEndsRests ==
    ASSUME TypesInv, NEW h, HoldEnds(h)
    PROVE  RestStep
<1>1. UNCHANGED <<seen, onAir, buckets, loads, clock>>
    BY DEF HoldEnds
<1>2. worker' = [worker EXCEPT ![h] = IF Ignored(held[h].msg) THEN Idle
                                      ELSE Job(held[h].msg, HeardOn(held[h].msg) \ {held[h].msg.src})]
    BY DEF HoldEnds
<1> QED  BY <1>1, <1>2, JobTypes

LEMMA ShownStep ==
    ASSUME InboundInv, NEW a \in Adapters, Shown(a)
    PROVE  InboundInv'
<1>0. TypesInv /\ HeardInv /\ PathInv /\ WorkInv
    BY DEF InboundInv
<1>1. TypesInv'
    BY <1>0, ShownRests, RestTypes
<1>2. HeardInv'
    <2>1. UNCHANGED <<spoken, heard, hearings, dedup, radioSeen>> /\ clock' = clock /\ status' = status
        BY DEF Shown
    <2>2. clock' \in Nat /\ clock <= clock'
        BY <1>0, <2>1 DEF TypesInv
    <2>3. RegisteredInv'
        BY <1>0, <2>1 DEF HeardInv, RegisteredInv
    <2> QED  BY <1>0, <2>1, <2>2, <2>3, LaterKeeps
<1>3. PathInv' /\ WorkInv'
    BY <1>0, ShownKeepsPath, ShownKeepsWork
<1> QED  BY <1>1, <1>2, <1>3 DEF InboundInv

LEMMA HoldEndsStep ==
    ASSUME InboundInv, NEW h \in HoldSlots, HoldEnds(h)
    PROVE  InboundInv'
<1>0. TypesInv /\ HeardInv /\ PathInv /\ WorkInv
    BY DEF InboundInv
<1>1. TypesInv'
    BY <1>0, HoldEndsRests, RestTypes
<1>2. HeardInv'
    <2>1. UNCHANGED <<spoken, heard, hearings, dedup, radioSeen>> /\ clock' = clock /\ status' = status
        BY DEF HoldEnds
    <2>2. clock' \in Nat /\ clock <= clock'
        BY <1>0, <2>1 DEF TypesInv
    <2>3. RegisteredInv'
        BY <1>0, <2>1 DEF HeardInv, RegisteredInv
    <2> QED  BY <1>0, <2>1, <2>2, <2>3, LaterKeeps
<1>3. PathInv' /\ WorkInv'
    BY <1>0, HoldEndsKeepsPath, HoldEndsKeepsWork
<1> QED  BY <1>1, <1>2, <1>3 DEF InboundInv

LEMMA BridgeRunParts ==
    ASSUME TypesInv, NEW w \in Workers, BridgeRuns(w)
    PROVE  (\E leg, v : LegStep(w, leg, v)) \/ RestStep
BY RunLegIsLegStep, SendReturnsRests, FinishRests DEF BridgeRuns

LEMMA BridgeStep ==
    ASSUME InboundInv, NEW w \in Workers, BridgeRuns(w)
    PROVE  InboundInv'
<1>0. TypesInv /\ HeardInv /\ PathInv /\ WorkInv
    BY DEF InboundInv
<1>1. TypesInv'
    BY <1>0, BridgeRunParts, RestTypes, LegTypes
<1>2. /\ UNCHANGED <<spoken, heard, hearings, dedup, radioSeen>> /\ clock' = clock /\ status' = status
      /\ UNCHANGED <<stage, feed, held, hearings, clock>>
    BY DEF BridgeRuns, RunLeg, SendReturns, Finish, pipeline
<1>3. HeardInv'
    <2>1. clock' \in Nat /\ clock <= clock'
        BY <1>0, <1>2 DEF TypesInv
    <2>2. RegisteredInv'
        BY <1>0, <1>2 DEF HeardInv, RegisteredInv
    <2> QED  BY <1>0, <1>2, <2>1, <2>2, LaterKeeps
<1>4. PathInv'
    BY <1>0, <1>2, PathStays
<1>5. WorkInv'
    BY <1>0, BridgeKeepsWork
<1> QED  BY <1>1, <1>3, <1>4, <1>5 DEF InboundInv

LEMMA TickStep ==
    ASSUME InboundInv, PipelineTick
    PROVE  InboundInv'
<1>0. TypesInv /\ HeardInv /\ PathInv /\ WorkInv
    BY DEF InboundInv
<1>1. UNCHANGED <<spoken, heard, hearings, dedup, radioSeen>> /\ status' = status /\ worker' = worker
      /\ onAir' = onAir
    BY DEF PipelineTick, Tick, pipeline
<1>2. RestStep
    BY <1>0, TickRests DEF PipelineTick
<1>3. TypesInv'
    BY <1>0, <1>2, RestTypes
<1>4. HeardInv'
    <2>1. clock' \in Nat /\ clock <= clock'
        BY <1>2 DEF RestStep
    <2>2. RegisteredInv'
        BY <1>0, <1>1 DEF HeardInv, RegisteredInv
    <2> QED  BY <1>0, <1>1, <2>1, <2>2, LaterKeeps
<1>5. PathInv'
    BY <1>0, TickKeepsPath
<1>6. WorkInv'
    BY <1>0, <1>1, SameHearingsKeepWork, WorkStays
<1> QED  BY <1>3, <1>4, <1>5, <1>6 DEF InboundInv

LEMMA StutterStep ==
    ASSUME InboundInv, UNCHANGED inVars
    PROVE  InboundInv'
<1>1. /\ UNCHANGED <<seen, onAir, buckets, loads, clock, worker>> /\ status' = status
      /\ UNCHANGED <<spoken, heard, hearings, dedup, radioSeen>>
      /\ UNCHANGED <<stage, feed, held, hearings, clock>>
    BY DEF inVars, bridgeVars, pipeline
<1>2. RegisteredInv'
    BY <1>1 DEF InboundInv, HeardInv, RegisteredInv
<1>3. PathInv'
    BY <1>1, PathStays DEF InboundInv
<1> QED  BY <1>1, <1>2, <1>3, QuietStep

LEMMA InboundSteps ==
    ASSUME InboundInv, Family, [InboundNext]_inVars
    PROVE  InboundInv'
<1>1. ASSUME NEW a \in Adapters,
             \/ HearUser(a) \/ HearBridge(a) \/ Announced(a) \/ Saved(a)
             \/ SaveFails(a) \/ Shown(a) \/ Reconnected(a)
      PROVE  InboundInv'
    BY <1>1, HearKeeps, TaskSteps, ShownStep
<1> QED  BY <1>1, SpeakStep, HoldEndsStep, BridgeStep, TickStep, StutterStep DEF InboundNext

LEMMA InboundStarts ==
    ASSUME InboundInit
    PROVE  InboundInv
<1>1. TypesInv
    BY BridgeStarts DEF InboundInit
<1>2. /\ clock = 0 /\ heard = 0 /\ spoken = << >> /\ hearings = {} /\ dedup = {} /\ radioSeen = {}
      /\ feed = << >> /\ onAir = << >>
      /\ DOMAIN status = Adapters /\ \A a \in Adapters : status[a] = "up"
      /\ DOMAIN stage = Adapters /\ \A a \in Adapters : stage[a] = Free
      /\ DOMAIN held = HoldSlots /\ \A h \in HoldSlots : held[h] = None
      /\ \A w \in Workers : worker[w] = Idle
    BY DEF InboundInit, BridgeInit
<1>3. IsQueue(<< >>) /\ DOMAIN << >> = {}
    BY DEF IsQueue
<1>4. SpeechInv /\ RegisteredInv
    BY <1>2, <1>3 DEF SpeechInv, RegisteredInv
<1>5. HearingsInv /\ DedupInv /\ EntriesInv /\ KnownInv /\ FirstInv
    BY <1>2 DEF HearingsInv, DedupInv, EntriesInv, KnownInv, FirstInv
<1>6. PathInv
    BY <1>2, <1>3, NoStage, FreeIsNoStage DEF PathInv, StageInv, FeedInv, HeldInv
<1>7. WorkInv
    BY <1>2, <1>3 DEF WorkInv, JobsInv, SentInv
<1> QED  BY <1>1, <1>4, <1>5, <1>6, <1>7 DEF InboundInv, HeardInv

-----------------------------------------------------------------------------
(* Types.                                                                   *)

\* The caches' entries are of messages heard.
MarksInv ==
    /\ \A d \in dedup : d.t \in 0 .. clock
    /\ \A e \in radioSeen : e.id \in 1 .. heard /\ e.adapters \subseteq Radios

\* What is shown was saved before.
LogInv ==
    /\ \A a \in Adapters : /\ stage[a].at \in {"free", "announcing", "saving", "showing"}
                           /\ stage[a].at = "showing" => stage[a].id \in stored
    /\ stored \subseteq 1 .. heard
    /\ \A k \in DOMAIN feed : feed[k].id \in stored

LEMMA MarksStay ==
    ASSUME TypesInv, HeardInv, MarksInv, UNCHANGED <<dedup, radioSeen, heard>>, clock' \in Nat, clock <= clock'
    PROVE  MarksInv'
<1>1. clock \in Nat /\ heard' = heard /\ dedup' = dedup /\ radioSeen' = radioSeen
    BY DEF TypesInv
<1>2. \A d \in dedup : d.t \in 0 .. clock'
    BY <1>1 DEF MarksInv
<1> QED  BY <1>1, <1>2 DEF MarksInv

LEMMA HearsKeepsMarks ==
    ASSUME TypesInv, HeardInv, MarksInv, Family, NEW m, NEW new, Hears(m, new)
    PROVE  MarksInv'
<1>1. heard \in Nat /\ heard' = heard + 1 /\ clock \in Nat /\ clock' = clock
    BY DEF Hears, HeardInv, SpeechInv, TypesInv
<1>2. ASSUME NEW d \in dedup' PROVE d.t \in 0 .. clock'
    <2>1. d \in FreshDedup \/ d = [key |-> DedupKey(m), t |-> clock]
        BY DEF Hears
    <2>2. CASE d \in FreshDedup
        BY <1>1, <2>2 DEF FreshDedup, MarksInv
    <2>3. CASE d = [key |-> DedupKey(m), t |-> clock]
        BY <1>1, <2>3
    <2> QED  BY <2>1, <2>2, <2>3
<1> DEFINE OK(e) == e.id \in 1 .. heard + 1 /\ e.adapters \subseteq Radios
<1>3. \A e \in radioSeen : OK(e) /\ IsEntry(e)
    BY <1>1 DEF MarksInv, HeardInv, EntriesInv
<1>4. FreshSeen \subseteq radioSeen /\ SeenEntry(m) \subseteq radioSeen
    BY DEF FreshSeen, SeenEntry
<1>5. HasRadioKey(m) => m.src \in Radios
    BY DEF HasRadioKey
<1>6. HasRadioKey(m) => OK(NewEntry(m))
    BY <1>1, <1>5 DEF NewEntry
<1>7. ASSUME HasRadioKey(m), NEW e \in radioSeen PROVE OK(Joined(e, m))
    <2>1. Joined(e, m).adapters \subseteq Radios
        <3>1. IsEntry(e) /\ e.adapters \subseteq Radios /\ m.src \in Radios
            BY <1>3, <1>5, <1>7
        <3>2. Joined(e, m).adapters = e.adapters \cup {m.src}
            BY <3>1, JoinedParts
        <3> QED  BY <3>1, <3>2
    <2>2. Joined(e, m).id = e.id
        <3>1. "id" \in DOMAIN e
            BY <1>3 DEF IsEntry
        <3> QED  BY <3>1 DEF Joined
    <2> QED  BY <1>3, <2>1, <2>2
<1> HIDE DEF OK
<1>8. \A e \in radioSeen' : OK(e)
    <2>1. CASE Repeated(m)
        BY <1>3, <2>1 DEF Repeated
    <2>2. CASE First(m)
        BY <1>3, <1>4, <1>6, <2>2 DEF First
    <2>3. CASE Merged(m)
        BY <1>3, <1>4, <1>7, <2>3 DEF Merged
    <2> QED  BY <2>1, <2>2, <2>3, Outcome
<1> QED  BY <1>1, <1>2, <1>8 DEF MarksInv, OK

LEMMA LogStays ==
    ASSUME LogInv, UNCHANGED <<stage, stored, feed, heard>>
    PROVE  LogInv'
BY DEF LogInv

\* A task goes on; what it has to show is in the database.
LEMMA StageStepKeepsLog ==
    ASSUME LogInv, HeardInv, PathInv, NEW a, NEW s, stage' = [stage EXCEPT ![a] = s],
           s.at \in {"free", "announcing", "saving", "showing"}, s.at = "showing" => s.id \in stored',
           stored \subseteq stored', stored' \subseteq 1 .. heard', feed' = feed
    PROVE  LogInv'
<1>1. \A b \in Adapters : stage'[b] = stage[b] \/ stage'[b] = s
    BY DEF PathInv, StageInv
<1>2. \A k \in DOMAIN feed' : feed'[k].id \in stored'
    BY DEF LogInv
<1>3. \A b \in Adapters : /\ stage'[b].at \in {"free", "announcing", "saving", "showing"}
                          /\ stage'[b].at = "showing" => stage'[b].id \in stored'
    BY <1>1 DEF LogInv
<1> QED  BY <1>2, <1>3 DEF LogInv

\* One step of the handling: what it leaves alone, what it saves and shows.
LEMMA StepKeepsMarksAndLog ==
    ASSUME InboundInv, ShapeInv, MarksInv, LogInv, Family, [InboundNext]_inVars
    PROVE  ShapeInv' /\ MarksInv' /\ LogInv'
<1>0. /\ TypesInv /\ HeardInv /\ PathInv /\ WorkInv /\ clock \in Nat /\ heard \in Nat
      /\ heard \in 0 .. MaxHeard /\ clock \in 0 .. MaxTime /\ loads \in 0 .. MaxLoads
      /\ status \in [Adapters -> {"absent", "down", "up"}] /\ MaxHeard \in Nat
      /\ stored \subseteq 1 .. heard
    BY BridgeAssumption DEF InboundInv, TypesInv, HeardInv, SpeechInv, ShapeInv, LogInv
<1> DEFINE Same == UNCHANGED <<clock, status, sent, buckets, loads, heard>>
<1>1. ASSUME Same, \A w \in Workers : worker'[w] = worker[w] \/ worker'[w] = Idle \/ TypedJob(worker'[w])
      PROVE  ShapeInv'
    BY <1>0, <1>1, ShapeRests
<1>2. ASSUME UNCHANGED <<dedup, radioSeen, heard, clock>> PROVE MarksInv'
    BY <1>0, <1>2, MarksStay
<1>3. ASSUME NEW a \in Adapters, HearUser(a) \/ HearBridge(a) PROVE ShapeInv' /\ MarksInv' /\ LogInv'
    <2>1. PICK m : OnTheAir(m) /\ Receive(m)
        BY <1>0, <1>3, UserIsOnTheAir, BridgeIsOnTheAir
    <2>2. PICK new : Hears(m, new)
        BY <1>0, <2>1, ReceiveParts
    <2>3. /\ UNCHANGED <<clock, status, worker, sent, buckets, loads, feed, stored>>
          /\ heard' = heard + 1 /\ heard < MaxHeard
        BY <2>1 DEF Receive
    <2>4. heard' \in 0 .. MaxHeard
        BY <1>0, <2>3
    <2>5. ShapeInv'
        BY <1>0, <2>3, <2>4, ShapeRests
    <2>6. MarksInv'
        BY <1>0, <2>2, HearsKeepsMarks
    <2>7. PICK s : /\ stage' = [stage EXCEPT ![m.src] = s]
                   /\ s.at \in {"free", "announcing"}
                        \/ (Fate(m) = "new" /\ s = [at |-> "saving", msg |-> m, id |-> heard + 1])
        BY <1>0, <2>1, ReceiveParts
    <2>8. s.at \in {"free", "announcing", "saving"}
        BY <2>7
    <2>9. stored' \subseteq 1 .. heard' /\ stored \subseteq stored'
        BY <1>0, <2>3
    <2> QED  BY <1>0, <2>3, <2>5, <2>6, <2>7, <2>8, <2>9, StageStepKeepsLog
<1>4. ASSUME NEW a \in Adapters, Announced(a) \/ SaveFails(a) PROVE ShapeInv' /\ MarksInv' /\ LogInv'
    <2>1. /\ UNCHANGED <<clock, worker, sent, buckets, loads, heard, feed, stored, dedup, radioSeen>>
          /\ stage' = [stage EXCEPT ![a] = Free]
        BY <1>4 DEF Announced, SaveFails, bridgeVars
    <2>2. status' = status \/ status' = [status EXCEPT ![a] = "down"]
        BY <1>4 DEF Announced, SaveFails, bridgeVars
    <2>3. status' \in [Adapters -> {"absent", "down", "up"}]
        BY <1>0, <2>2
    <2>4. ShapeInv'
        BY <1>0, <2>1, <2>3, ShapeRests
    <2>5. Free.at = "free"
        BY DEF Free
    <2>6. LogInv'
        BY <1>0, <2>1, <2>5, StageStepKeepsLog
    <2> QED  BY <1>2, <2>1, <2>4, <2>6
<1>5. ASSUME NEW a \in Adapters, Saved(a) PROVE ShapeInv' /\ MarksInv' /\ LogInv'
    <2> DEFINE s == stage[a]
               t == [s EXCEPT !.at = "showing"]
    <2>1. /\ UNCHANGED <<clock, status, worker, sent, buckets, loads, heard, feed, dedup, radioSeen>>
          /\ s.at = "saving" /\ stored' = stored \cup {s.id} /\ stage' = [stage EXCEPT ![a] = t]
        BY <1>5 DEF Saved, bridgeVars
    <2>2. /\ s = [at |-> s.at, msg |-> s.msg, id |-> s.id]
          /\ \E g \in hearings : g.n = s.id
        BY <1>0, <2>1 DEF PathInv, StageInv, StageOK
    <2>3. s.id \in 1 .. heard
        BY <1>0, <2>2 DEF HeardInv, HearingsInv, HearingOK
    <2> HIDE DEF s
    <2>4. t.at = "showing" /\ t.id = s.id
        <3>1. DOMAIN s = {"at", "msg", "id"}
            BY <2>2
        <3> QED  BY <3>1
    <2> HIDE DEF t
    <2>5. stored' \subseteq 1 .. heard' /\ stored \subseteq stored' /\ t.id \in stored'
        BY <1>0, <2>1, <2>3, <2>4
    <2>6. LogInv'
        BY <1>0, <2>1, <2>4, <2>5, StageStepKeepsLog
    <2> QED  BY <1>1, <1>2, <2>1, <2>6
<1>6. ASSUME NEW a \in Adapters, Shown(a) PROVE ShapeInv' /\ MarksInv' /\ LogInv'
    <2> DEFINE f == [id |-> stage[a].id, msg |-> stage[a].msg, at |-> clock]
               n == IF Ignored(stage[a].msg) THEN Idle ELSE Job(stage[a].msg, {})
    <2>1. /\ UNCHANGED <<clock, status, sent, buckets, loads, heard, stored, dedup, radioSeen>>
          /\ stage[a].at = "showing" /\ stage' = [stage EXCEPT ![a] = Free] /\ feed' = Append(feed, f)
        BY <1>6 DEF Shown
    <2>2. worker' = worker \/ worker' = [worker EXCEPT ![WorkerOf[a]] = n]
        BY <1>6 DEF Shown
    <2>3. n = Idle \/ TypedJob(n)
        BY <1>0, JobIsTyped
    <2>4. f.id = stage[a].id /\ stage[a].id \in stored
        BY <2>1 DEF LogInv
    <2> HIDE DEF n, f
    <2>5. ShapeInv'
        <3>1. DOMAIN worker = Workers
            BY <1>0 DEF TypesInv
        <3>2. \A w \in Workers : worker'[w] = worker[w] \/ worker'[w] = Idle \/ TypedJob(worker'[w])
            BY <2>2, <2>3, <3>1
        <3> QED  BY <1>1, <2>1, <3>2
    <2>6. \A k \in DOMAIN feed' : feed'[k].id \in stored'
        <3>1. IsQueue(feed)
            BY <1>0 DEF PathInv, FeedInv
        <3>2. /\ DOMAIN feed' = 1 .. Len(feed) + 1 /\ feed'[Len(feed) + 1] = f
              /\ (\A k \in DOMAIN feed : feed'[k] = feed[k]) /\ DOMAIN feed = 1 .. Len(feed) /\ Len(feed) \in Nat
            BY <2>1, <3>1, QueueAppend, QueueParts
        <3>3. \A k \in DOMAIN feed' : (k \in DOMAIN feed /\ feed'[k] = feed[k]) \/ feed'[k] = f
            BY <3>2
        <3> QED  BY <2>1, <2>4, <3>3 DEF LogInv
    <2>7. \A b \in Adapters : stage'[b] = stage[b] \/ stage'[b] = Free
        BY <1>0, <2>1 DEF PathInv, StageInv
    <2>8. LogInv'
        BY <2>1, <2>6, <2>7 DEF LogInv, Free
    <2> QED  BY <1>2, <2>1, <2>5, <2>8
<1>7. ASSUME NEW h \in HoldSlots, HoldEnds(h) PROVE ShapeInv' /\ MarksInv' /\ LogInv'
    <2> DEFINE m == held[h].msg
               n == IF Ignored(m) THEN Idle ELSE Job(m, HeardOn(m) \ {m.src})
    <2>1. /\ UNCHANGED <<clock, status, sent, buckets, loads, heard, stored, dedup, radioSeen, stage, feed>>
          /\ worker' = [worker EXCEPT ![h] = n]
        BY <1>7 DEF HoldEnds
    <2>2. n = Idle \/ TypedJob(n)
        BY <1>0, JobIsTyped
    <2> HIDE DEF n
    <2>3. \A w \in Workers : worker'[w] = worker[w] \/ worker'[w] = Idle \/ TypedJob(worker'[w])
        BY <1>0, <2>1, <2>2 DEF TypesInv
    <2> QED  BY <1>1, <1>2, <2>1, <2>3, LogStays
<1>8. ASSUME NEW w \in Workers, BridgeRuns(w) PROVE ShapeInv' /\ MarksInv' /\ LogInv'
    <2>1. UNCHANGED <<dedup, radioSeen, heard, clock, stage, stored, feed>>
        BY <1>8 DEF BridgeRuns, RunLeg, SendReturns, Finish, pipeline
    <2>2. ShapeInv'
        BY <1>0, <1>8, GoingOnKeepsShape DEF BridgeRuns
    <2> QED  BY <1>2, <2>1, <2>2, LogStays
<1>9. CASE PipelineTick
    <2>1. UNCHANGED <<dedup, radioSeen, heard, stage, stored, feed>> /\ clock' = clock + 1
        BY <1>9 DEF PipelineTick, Tick, pipeline
    <2>2. ShapeInv'
        BY <1>0, <1>9, TickKeepsShape DEF PipelineTick
    <2>3. clock' \in Nat /\ clock <= clock'
        BY <1>0, <2>1
    <2> QED  BY <1>0, <2>1, <2>2, <2>3, MarksStay, LogStays
<1>10. CASE Speak \/ UNCHANGED inVars
    <2>1. /\ UNCHANGED <<clock, status, sent, buckets, loads, heard, worker>>
          /\ UNCHANGED <<dedup, radioSeen, stage, stored, feed>>
        BY <1>10 DEF Speak, inVars, bridgeVars, pipeline
    <2> QED  BY <1>1, <1>2, <2>1, LogStays
<1>11. ASSUME NEW a \in Adapters, Reconnected(a) PROVE ShapeInv' /\ MarksInv' /\ LogInv'
    <2>1. /\ UNCHANGED <<clock, worker, sent, buckets, loads, heard, dedup, radioSeen, stage, stored, feed>>
          /\ status' = [status EXCEPT ![a] = "up"]
        BY <1>11 DEF Reconnected, pipeline
    <2>2. status' \in [Adapters -> {"absent", "down", "up"}]
        BY <1>0, <2>1
    <2>3. ShapeInv'
        BY <1>0, <2>1, <2>2, ShapeRests
    <2> QED  BY <1>2, <2>1, <2>3, LogStays
<1> QED  BY <1>3, <1>4, <1>5, <1>6, <1>7, <1>8, <1>9, <1>10, <1>11 DEF InboundNext

-----------------------------------------------------------------------------
(* The theorems.                                                            *)

\* The handling of what is heard keeps the invariant, however many radios hear
\* it, however often and however their tasks interleave.
THEOREM PipelineIsConsistent ==
    ASSUME Family
    PROVE  InboundSpec => []InboundInv
<1>1. InboundInit => InboundInv
    BY InboundStarts
<1>2. InboundInv /\ [InboundNext]_inVars => InboundInv'
    BY InboundSteps
<1> QED  BY <1>1, <1>2, PTL DEF InboundSpec

\* "A channel message heard on more than one radio is a single feed entry"
\* (_handle_inbound): for any family of at least two radios, and any names these
\* give the channels and the senders, of what they name alike.
THEOREM HeardByManyShownOnce ==
    ASSUME Family
    PROVE  InboundSpec => []FeedOnce
<1>1. ASSUME InboundInv PROVE FeedOnce
    <2>1. HeardInv /\ FeedInv
        BY <1>1 DEF InboundInv, PathInv
    <2> SUFFICES ASSUME NEW j \in DOMAIN feed, NEW k \in DOMAIN feed,
                        feed[j].msg.tx = feed[k].msg.tx, feed[j].msg.kind = "text",
                        feed[j].msg.src \in Radios, feed[k].msg.src \in Radios,
                        NamedAlike(feed[j].msg)
                 PROVE  j = k
        BY DEF FeedOnce
    <2>2. PICK g \in hearings : g.fate = "new" /\ g.msg = feed[j].msg /\ g.n = feed[j].id
        BY <2>1 DEF FeedInv, FeedOK
    <2>3. PICK h \in hearings : h.fate = "new" /\ h.msg = feed[k].msg /\ h.n = feed[k].id
        BY <2>1 DEF FeedInv, FeedOK
    <2>4. CopyOf(g.msg, g.msg.tx) /\ CopyOf(h.msg, h.msg.tx)
        BY <2>1, <2>2, <2>3, NewIsSpoken DEF HeardInv
    <2>5. h.msg.kind = "text" /\ g.msg.tx = h.msg.tx
        BY <2>2, <2>3, <2>4, SameCopies
    <2>6. NewText(g) /\ NewText(h)
        BY <2>2, <2>3, <2>5 DEF NewText, HasRadioKey
    <2>7. g = h
        BY <2>1, <2>2, <2>5, <2>6 DEF HeardInv, KnownInv
    <2> QED  BY <2>1, <2>2, <2>3, <2>7 DEF FeedInv
<1> QED  BY <1>1, PipelineIsConsistent, PTL

\* "One of your radios hearing another's transmission is not shown as a new
\* message": whatever the bridge sends and whoever of the family hears it.
THEOREM OwnWordsStayHidden ==
    ASSUME Family
    PROVE  InboundSpec => []OwnTransmissionsHidden
<1>1. ASSUME InboundInv PROVE OwnTransmissionsHidden
    <2>1. HearingsInv /\ FeedInv
        BY <1>1 DEF InboundInv, HeardInv, PathInv
    <2> SUFFICES ASSUME NEW k \in DOMAIN feed, feed[k].msg.src \in Radios PROVE feed[k].msg.tx # 0
        BY DEF OwnTransmissionsHidden
    <2>2. PICK g \in hearings : g.fate = "new" /\ g.msg = feed[k].msg
        BY <2>1 DEF FeedInv, FeedOK
    <2> QED  BY <2>1, <2>2, NewIsSpoken
<1> QED  BY <1>1, PipelineIsConsistent, PTL

\* "Skips any radio that already heard the message itself" (_bridge_after_hold):
\* under any rules, of any text that the radios name alike and that no other
\* transmission is taken for.
THEOREM NoneHearsItTwice ==
    ASSUME Family
    PROVE  InboundSpec => []HearersAreSkipped
<1>1. ASSUME InboundInv PROVE HearersAreSkipped
    <2> SUFFICES ASSUME NEW k \in DOMAIN onAir, NEW h \in hearings,
                        h.msg.src \in Radios, onAir[k].of.src \in Radios, h.msg.src # onAir[k].of.src,
                        h.msg.tx = onAir[k].of.tx, Unmistakable(h.msg.tx), h.msg.src = onAir[k].dst
                 PROVE  h.n > onAir[k].start
        BY DEF HearersAreSkipped
    <2>1. Rival(h, onAir[k].of)
        BY DEF Rival
    <2>2. SendOK(onAir[k])
        BY <1>1 DEF InboundInv, WorkInv, SentInv
    <2> QED  BY <2>1, <2>2 DEF SendOK
<1> QED  BY <1>1, PipelineIsConsistent, PTL

\* The pipeline's variables keep their types: one entry for each text seen, and
\* nothing is shown that is not in the database.
THEOREM InboundTypeCorrect ==
    ASSUME Family
    PROVE  InboundSpec => []InboundTypeOK
<1> DEFINE I == InboundInv /\ ShapeInv /\ MarksInv /\ LogInv
<1>1. InboundInit => I
    <2> SUFFICES ASSUME InboundInit PROVE I
        OBVIOUS
    <2>1. InboundInv /\ ShapeInv
        BY InboundStarts, ShapeStarts DEF InboundInit
    <2>2. /\ dedup = {} /\ radioSeen = {} /\ stored = {} /\ DOMAIN feed = {}
          /\ \A a \in Adapters : stage[a] = [at |-> "free"]
        BY DEF InboundInit, Free
    <2> QED  BY <2>1, <2>2 DEF MarksInv, LogInv
<1>2. I /\ [InboundNext]_inVars => I'
    BY InboundSteps, StepKeepsMarksAndLog
<1>3. I => InboundTypeOK
    <2> SUFFICES ASSUME InboundInv, ShapeInv, MarksInv, LogInv PROVE InboundTypeOK
        OBVIOUS
    <2>1. BridgeTypeOK
        BY ShapeIsTypeOK DEF InboundInv
    <2> QED  BY <2>1 DEF InboundTypeOK, MarksInv, LogInv, InboundInv, HeardInv, EntriesInv
<1> QED  BY <1>1, <1>2, <1>3, PTL DEF InboundSpec

\* For the bridge the pipeline's own steps send nothing and take no token.
LEMMA PipelineRests ==
    ASSUME TypesInv, [InboundNext]_inVars
    PROVE  (\E w \in Workers : \E leg, v : LegStep(w, leg, v)) \/ RestStep
<1>1. ASSUME NEW m, Receive(m) PROVE RestStep
    <2>1. UNCHANGED <<seen, onAir, buckets, loads, clock, worker>>
        BY <1>1 DEF Receive
    <2> QED  BY <2>1, OtherRests
<1>2. ASSUME NEW a, HearUser(a) \/ HearBridge(a) PROVE RestStep
    BY <1>1, <1>2 DEF HearUser, HearBridge
<1>3. ASSUME NEW a, Announced(a) \/ Saved(a) \/ SaveFails(a) \/ Reconnected(a) PROVE RestStep
    <2>1. UNCHANGED <<seen, onAir, buckets, loads, clock, worker>>
        BY <1>3 DEF Announced, Saved, SaveFails, Reconnected, bridgeVars
    <2> QED  BY <2>1, OtherRests
<1>4. CASE Speak \/ UNCHANGED inVars
    <2>1. UNCHANGED <<seen, onAir, buckets, loads, clock, worker>>
        BY <1>4 DEF Speak, inVars, bridgeVars
    <2> QED  BY <2>1, OtherRests
<1>5. CASE PipelineTick
    BY <1>5, TickRests DEF PipelineTick
<1> QED  BY <1>2, <1>3, <1>4, <1>5, ShownRests, HoldEndsRests, BridgeRunParts DEF InboundNext

\* "Multi-path duplicates are forwarded once", also by the tasks that bridge a
\* message after its hold.
THEOREM PipelineForwardsOnce == InboundSpec => []ForwardedOnce
<1> DEFINE I == TypesInv /\ MemoryInv /\ ForwardedOnce
<1>1. InboundInit => I
    BY BridgeStarts DEF InboundInit
<1>2. I /\ [InboundNext]_inVars => I'
    <2> SUFFICES ASSUME TypesInv, MemoryInv, ForwardedOnce, [InboundNext]_inVars
                 PROVE  TypesInv' /\ MemoryInv' /\ ForwardedOnce'
        OBVIOUS
    <2>1. ASSUME NEW w \in Workers, NEW leg, NEW v, LegStep(w, leg, v)
          PROVE  TypesInv' /\ MemoryInv' /\ ForwardedOnce'
        BY <2>1, LegTypes, LegMemory, LegOnce
    <2> QED  BY <2>1, PipelineRests, RestKeeps
<1>3. I => ForwardedOnce
    OBVIOUS
<1> QED  BY <1>1, <1>2, <1>3, PTL DEF InboundSpec
=============================================================================
