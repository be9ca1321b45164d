---------------------------- MODULE Bridge_proof ----------------------------
(***************************************************************************)
(* Proofs about Bridge, for any adapters, rules, messages and tasks: that  *)
(* duplicates are forwarded once, that a leg keeps to its rate and that no *)
(* text goes back to its author.                                           *)
(***************************************************************************)
EXTENDS Bridge, FiniteSetTheorems, WellFoundedInduction, TLAPS

\* What is in a sequence is left open.
IsQueue(s) == s \in Seq(Range(s))

AJob(j) ==
    /\ j \in [state : {"busy", "sending"}, msg : {j.msg}, now : Nat, start : {j.start},
              since : {j.since}, todo : SUBSET Legs, skip : {j.skip}]
    /\ j.now <= clock

ABucket(b) == b \in [rate : Nat, tokens : Nat, last : Nat] /\ b.last <= clock

\* The variables the two properties depend on.
TypesInv ==
    /\ clock \in Nat /\ loads \in Nat
    /\ DOMAIN worker = Workers /\ \A w \in Workers : worker[w] = Idle \/ AJob(worker[w])
    /\ DOMAIN buckets = BucketKeys
    /\ \A k \in BucketKeys : buckets[k] = None \/ ABucket(buckets[k])
    /\ IsQueue(seen) /\ \A i \in DOMAIN seen : seen[i].t \in Nat
    /\ IsQueue(onAir)
    /\ \A k \in DOMAIN onAir :
         /\ onAir[k].leg \in Legs /\ onAir[k].at \in Nat /\ onAir[k].load \in Nat /\ onAir[k].cause \in Nat
         /\ onAir[k].at <= clock /\ onAir[k].load <= loads

\* What was sent is remembered for the length of the window.
Remembered(x) ==
    \/ clock - x.cause > EchoWindow
    \/ \E i \in DOMAIN seen : seen[i].t = x.cause /\ seen[i].key = KeyOf(x.leg, x.of)

MemoryInv == \A k \in DOMAIN onAir : Remembered(onAir[k])

\* The transmissions on a leg from number j to number k.
Run(leg, j, k) == {i \in j .. k : onAir[i].leg = leg}

RateOf(leg) == RuleOf(leg).rate

\* The bucket of a leg in use holds no more than the rate has left of what
\* was sent since any transmission under the present rules.
Accounted(j) ==
    LET leg == onAir[j].leg
        b   == buckets[BucketOf(leg)]
    IN  /\ b # None
        /\ Cardinality(Run(leg, j, Len(onAir))) * Token * TicksPerMinute + b.tokens * TicksPerMinute
             <= RateOf(leg) * TicksPerMinute + (b.last - onAir[j].at) * RateOf(leg)

BudgetInv ==
    /\ \A leg \in Legs : buckets[BucketOf(leg)] # None => buckets[BucketOf(leg)].rate = RateOf(leg)
    /\ \A j \in DOMAIN onAir : onAir[j].load = loads => Accounted(j)

\* Rules that share a name share its buckets, at the rate of the first to ask:
\* for one of them the limit is then another's.
RatesByName ==
    \A r, s \in DOMAIN Rules : Rules[r].name = Rules[s].name => Rules[r].rate = Rules[s].rate

-----------------------------------------------------------------------------
(* Numbers and sequences.                                                   *)

LEMMA LeastExists ==
    ASSUME NEW S \in SUBSET Nat, S # {}
    PROVE  \E x \in S : \A y \in S : x <= y
<1> DEFINE R == {r \in Nat \X Nat : r[1] < r[2]}
<1>1. R = OpToRel(<, Nat)
    BY DEF OpToRel
<1>2. IsWellFoundedOn(R, Nat)
    BY <1>1, NatLessThanWellFounded
<1>3. PICK x \in S : \A y \in S : <<y, x>> \notin R
    BY <1>2, WFMin
<1>4. ASSUME NEW y \in S PROVE x <= y
    <2>1. <<y, x>> \notin R /\ x \in Nat /\ y \in Nat
        BY <1>3
    <2>2. ~ (y < x)
        BY <2>1
    <2> QED  BY <2>1, <2>2
<1> QED  BY <1>4

LEMMA MinIs ==
    ASSUME NEW S \in SUBSET Nat, S # {}
    PROVE  Min(S) \in S /\ \A y \in S : Min(S) <= y
<1>1. \E x \in S : \A y \in S : x <= y
    BY LeastExists
<1> QED  BY <1>1, Zenon DEF Min

LEMMA MinOfTwo ==
    ASSUME NEW a \in Nat, NEW b \in Nat
    PROVE  Min({a, b}) \in Nat /\ Min({a, b}) <= a /\ Min({a, b}) <= b
<1>1. {a, b} \in SUBSET Nat /\ {a, b} # {}
    OBVIOUS
<1>2. Min({a, b}) \in {a, b} /\ \A y \in {a, b} : Min({a, b}) <= y
    BY <1>1, MinIs
<1> QED  BY <1>2

LEMMA Quotient ==
    ASSUME NEW a \in Nat, NEW n \in Nat \ {0}
    PROVE  a \div n \in Nat /\ (a \div n) * n <= a
OBVIOUS

LEMMA QueueParts ==
    ASSUME NEW s, IsQueue(s)
    PROVE  /\ Len(s) \in Nat /\ DOMAIN s = 1 .. Len(s)
           /\ \A i \in DOMAIN s : s[i] \in Range(s)
BY DEF IsQueue

LEMMA QueueFrom ==
    ASSUME NEW S, NEW s \in Seq(S)
    PROVE  IsQueue(s)
<1>1. \A i \in 1 .. Len(s) : s[i] \in Range(s)
    BY DEF Range
<1>2. Len(s) \in Nat /\ s \in [1 .. Len(s) -> Range(s)]
    BY <1>1
<1> QED  BY <1>2 DEF IsQueue

LEMMA QueueAppend ==
    ASSUME NEW s, IsQueue(s), NEW e
    PROVE  /\ IsQueue(Append(s, e)) /\ Len(Append(s, e)) = Len(s) + 1
           /\ DOMAIN Append(s, e) = 1 .. Len(s) + 1
           /\ \A i \in DOMAIN s : Append(s, e)[i] = s[i]
           /\ Append(s, e)[Len(s) + 1] = e
<1> DEFINE S == Range(s) \cup {e}
<1>1. s \in Seq(S)
    <2>1. s \in Seq(Range(s)) /\ Range(s) \subseteq S
        BY DEF IsQueue
    <2> HIDE DEF S
    <2> QED  BY <2>1
<1>2. Append(s, e) \in Seq(S) /\ e \in S
    BY <1>1
<1>3. IsQueue(Append(s, e))
    BY <1>2, QueueFrom
<1> HIDE DEF S
<1> QED  BY <1>1, <1>2, <1>3

\* Popping drops only what is older than the window.
LEMMA FreshKeeps ==
    ASSUME NEW q, IsQueue(q), NEW now
    PROVE  /\ IsQueue(Fresh(q, now))
           /\ \A i \in DOMAIN Fresh(q, now) : \E j \in DOMAIN q : Fresh(q, now)[i] = q[j]
           /\ \A j \in DOMAIN q : now - q[j].t <= EchoWindow =>
                 \E i \in DOMAIN Fresh(q, now) : /\ Fresh(q, now)[i] = q[j]
                                                 /\ Len(Fresh(q, now)) - i = Len(q) - j
<1> DEFINE young == {k \in DOMAIN q : now - q[k].t <= EchoWindow}
<1>0. Len(q) \in Nat /\ DOMAIN q = 1 .. Len(q) /\ q \in Seq(Range(q))
    BY QueueParts DEF IsQueue
<1>1. CASE young = {}
    <2>1. Fresh(q, now) = << >>
        BY <1>1 DEF Fresh
    <2>2. IsQueue(<< >>)
        BY DEF IsQueue
    <2>3. \A j \in DOMAIN q : ~ (now - q[j].t <= EchoWindow)
        BY <1>1
    <2> QED  BY <2>1, <2>2, <2>3
<1>2. CASE young # {}
    <2> DEFINE m == Min(young)
    <2>1. young \in SUBSET Nat
        BY <1>0
    <2>2. m \in young /\ \A y \in young : m <= y
        BY <1>2, <2>1, MinIs
    <2>3. m \in 1 .. Len(q)
        BY <2>2, <1>0
    <2>4. Fresh(q, now) = SubSeq(q, m, Len(q))
        BY <1>2 DEF Fresh
    <2> HIDE DEF m
    <2>5. /\ SubSeq(q, m, Len(q)) \in Seq(Range(q))
          /\ Len(SubSeq(q, m, Len(q))) = Len(q) - m + 1
          /\ \A i \in 1 .. (Len(q) - m + 1) : SubSeq(q, m, Len(q))[i] = q[m + i - 1]
        BY <1>0, <2>3
    <2>6. DOMAIN SubSeq(q, m, Len(q)) = 1 .. (Len(q) - m + 1)
        BY <2>5
    <2>7. \A i \in 1 .. (Len(q) - m + 1) : m + i - 1 \in DOMAIN q
        BY <1>0, <2>3
    <2>8. ASSUME NEW j \in DOMAIN q, now - q[j].t <= EchoWindow
          PROVE  /\ j - m + 1 \in 1 .. (Len(q) - m + 1) /\ m + (j - m + 1) - 1 = j
                 /\ (Len(q) - m + 1) - (j - m + 1) = Len(q) - j
        <3>1. j \in young
            BY <2>8
        <3>2. m <= j
            BY <3>1, <2>2
        <3> QED  BY <3>2, <2>3, <1>0
    <2>9. IsQueue(Fresh(q, now))
        BY <2>4, <2>5, QueueFrom
    <2>10. ASSUME NEW i \in DOMAIN Fresh(q, now)
           PROVE  \E j \in DOMAIN q : Fresh(q, now)[i] = q[j]
        BY <2>4, <2>5, <2>6, <2>7
    <2>11. ASSUME NEW j \in DOMAIN q, now - q[j].t <= EchoWindow
           PROVE  \E i \in DOMAIN Fresh(q, now) : /\ Fresh(q, now)[i] = q[j]
                                                  /\ Len(Fresh(q, now)) - i = Len(q) - j
        BY <2>4, <2>5, <2>6, <2>8, <2>11
    <2> QED  BY <2>9, <2>10, <2>11
<1> QED  BY <1>1, <1>2

-----------------------------------------------------------------------------
(* The verdicts, the bucket's level and what a step changes.                *)

LEMMA Places ==
    /\ DOMAIN Verdicts = 1 .. 10
    /\ \A c \in 1 .. 10 : (CHOOSE k \in DOMAIN Verdicts : Verdicts[k] = Verdicts[c]) = c
<1>1. DOMAIN Verdicts = 1 .. 10
    BY DEF Verdicts
<1>2. \A c, k \in 1 .. 10 : Verdicts[k] = Verdicts[c] => k = c
    BY DEF Verdicts
<1>3. ASSUME NEW c \in 1 .. 10
      PROVE  (CHOOSE k \in DOMAIN Verdicts : Verdicts[k] = Verdicts[c]) = c
    BY <1>1, <1>2
<1> QED  BY <1>1, <1>3

LEMMA VerdictParts ==
    ASSUME NEW leg, NEW m, NEW now, NEW skip, NEW v, v = Verdict(leg, m, now, skip)
    PROVE  /\ Reached(v, "rate") /\ v # "rate" => ~ (Level(leg) < Token)
           /\ v = "send" => /\ ~ IsEcho(m, now) /\ ~ IsDuplicate(leg, m, now)
                            /\ DstEnd(leg).adapter \notin skip
                            /\ Reached(v, "rate") /\ Reached(v, "alreadyHeard")
<1> DEFINE S == {k \in 1 .. 10 : Stops(Verdicts[k], leg, m, now, skip)}
<1>1. /\ Verdicts[10] = "send" /\ Verdicts[7] = "rate" /\ Verdicts[1] = "echo"
      /\ Verdicts[3] = "duplicate" /\ Verdicts[4] = "alreadyHeard"
    BY DEF Verdicts
<1>2. Stops("send", leg, m, now, skip)
    BY DEF Stops
<1>3. 10 \in S /\ S \in SUBSET Nat
    BY <1>1, <1>2
<1>4. PICK x \in S : \A y \in S : x <= y
    BY <1>3, LeastExists
<1>5. \A j \in 1 .. (x - 1) : ~ Stops(Verdicts[j], leg, m, now, skip)
    <2>1. x \in 1 .. 10 /\ \A j \in 1 .. (x - 1) : j \in 1 .. 10 /\ ~ (x <= j)
        OBVIOUS
    <2> QED  BY <2>1, <1>4
<1>6. \E k \in DOMAIN Verdicts : /\ Stops(Verdicts[k], leg, m, now, skip)
                                 /\ \A j \in 1 .. (k - 1) : ~ Stops(Verdicts[j], leg, m, now, skip)
    BY <1>4, <1>5, Places
<1>7. PICK c \in 1 .. 10 : /\ v = Verdicts[c]
                           /\ \A j \in 1 .. (c - 1) : ~ Stops(Verdicts[j], leg, m, now, skip)
    BY <1>6, Places DEF Verdict
<1>8. /\ Reached(v, "rate") <=> c >= 7
      /\ Reached(v, "alreadyHeard") <=> c >= 4
      /\ v = "send" <=> c = 10
      /\ v = "rate" <=> c = 7
    <2>1. (CHOOSE k \in DOMAIN Verdicts : Verdicts[k] = v) = c
        BY <1>7, Places
    <2>2. (CHOOSE k \in DOMAIN Verdicts : Verdicts[k] = "rate") = 7
        BY <1>1, Places
    <2>3. (CHOOSE k \in DOMAIN Verdicts : Verdicts[k] = "alreadyHeard") = 4
        BY <1>1, Places
    <2>4. (CHOOSE k \in DOMAIN Verdicts : Verdicts[k] = "send") = 10
        BY <1>1, Places
    <2> QED  BY <2>1, <2>2, <2>3, <2>4, <1>1, <1>7 DEF Reached
<1>9. c > 7 => ~ Stops("rate", leg, m, now, skip)
    BY <1>1, <1>7
<1>10. c = 10 => ~ Stops("duplicate", leg, m, now, skip)
    BY <1>1, <1>7
<1>11. Stops("rate", leg, m, now, skip) <=> Level(leg) < Token
    BY DEF Stops
<1>12. Stops("duplicate", leg, m, now, skip) <=> IsDuplicate(leg, m, now)
    BY DEF Stops
<1>13. c = 10 => ~ Stops("alreadyHeard", leg, m, now, skip)
    BY <1>1, <1>7
<1>14. Stops("alreadyHeard", leg, m, now, skip) <=> DstEnd(leg).adapter \in skip
    BY DEF Stops
<1>15. c = 10 => ~ Stops("echo", leg, m, now, skip)
    BY <1>1, <1>7
<1>16. Stops("echo", leg, m, now, skip) <=> IsEcho(m, now)
    BY DEF Stops
<1> QED  BY <1>8, <1>9, <1>10, <1>11, <1>12, <1>13, <1>14, <1>15, <1>16

LEMMA LegParts ==
    ASSUME NEW leg \in Legs
    PROVE  /\ leg[1] \in DOMAIN Rules /\ RateOf(leg) \in Nat /\ BucketOf(leg) \in BucketKeys
BY BridgeAssumption DEF Legs, RuleOf, RateOf, BucketOf, BucketKeys

LEMMA SharedRate ==
    ASSUME RatesByName, NEW k \in Legs, NEW l \in Legs, BucketOf(k) = BucketOf(l)
    PROVE  RateOf(k) = RateOf(l)
<1>1. k[1] \in DOMAIN Rules /\ l[1] \in DOMAIN Rules
    BY LegParts
<1>2. Rules[k[1]].name = Rules[l[1]].name
    BY DEF BucketOf, RuleOf
<1> QED  BY <1>1, <1>2 DEF RatesByName, RateOf, RuleOf

\* The bucket asked is there or full; what it is refilled with is what the
\* time since its last use is worth, at most.
LEMMA LevelParts ==
    ASSUME TypesInv, NEW leg \in Legs
    PROVE  /\ ABucket(Bucket(leg)) /\ Level(leg) \in Nat
           /\ buckets[BucketOf(leg)] # None => Bucket(leg) = buckets[BucketOf(leg)]
           /\ buckets[BucketOf(leg)] = None => /\ Bucket(leg).rate = RateOf(leg)
                                               /\ Bucket(leg).last = clock
           /\ Level(leg) <= Bucket(leg).rate
           /\ Level(leg) * TicksPerMinute <=
                 Bucket(leg).tokens * TicksPerMinute + (clock - Bucket(leg).last) * Bucket(leg).rate
<1> DEFINE b == Bucket(leg)
           due == (clock - b.last) * b.rate
<1>0. /\ clock \in Nat /\ RateOf(leg) \in Nat /\ BucketOf(leg) \in BucketKeys
      /\ TicksPerMinute \in Nat \ {0}
    BY LegParts, BridgeAssumption DEF TypesInv
<1>1. /\ buckets[BucketOf(leg)] # None => b = buckets[BucketOf(leg)]
      /\ buckets[BucketOf(leg)] = None =>
            b = [rate |-> RateOf(leg), tokens |-> RateOf(leg), last |-> clock]
    BY DEF Bucket, RateOf
<1>2. ABucket(b)
    BY <1>0, <1>1 DEF TypesInv, ABucket
<1>3. b.rate \in Nat /\ b.tokens \in Nat /\ b.last \in Nat /\ b.last <= clock
    BY <1>2 DEF ABucket
<1>4. Level(leg) = Min({b.rate, b.tokens + due \div TicksPerMinute})
    BY DEF Level
<1> HIDE DEF b
<1>5. due \in Nat
    BY <1>0, <1>3
<1> HIDE DEF due
<1>6. due \div TicksPerMinute \in Nat /\ (due \div TicksPerMinute) * TicksPerMinute <= due
    BY <1>0, <1>5, Quotient
<1> DEFINE d == due \div TicksPerMinute
<1> HIDE DEF d
<1>7. d \in Nat /\ d * TicksPerMinute <= due /\ Level(leg) = Min({b.rate, b.tokens + d})
    BY <1>4, <1>6 DEF d
<1>8. Level(leg) \in Nat /\ Level(leg) <= b.rate /\ Level(leg) <= b.tokens + d
    BY <1>3, <1>7, MinOfTwo
<1>9. Level(leg) * TicksPerMinute <= b.tokens * TicksPerMinute + due
    <2> DEFINE L == Level(leg)
    <2> HIDE DEF L
    <2>1. L \in Nat /\ L <= b.tokens + d
        BY <1>8 DEF L
    <2>2. L * TicksPerMinute <= (b.tokens + d) * TicksPerMinute
        BY <2>1, <1>0, <1>3, <1>7
    <2>3. (b.tokens + d) * TicksPerMinute = b.tokens * TicksPerMinute + d * TicksPerMinute
        BY <1>0, <1>3, <1>7
    <2> QED  BY <2>1, <2>2, <2>3, <1>0, <1>3, <1>5, <1>7 DEF L
<1>10. buckets[BucketOf(leg)] = None => b.rate = RateOf(leg) /\ b.last = clock
    BY <1>1
<1> QED  BY <1>1, <1>2, <1>8, <1>9, <1>10 DEF b, due

-----------------------------------------------------------------------------
(* What the steps do to the variables of the invariant.                     *)

WorkersOK == DOMAIN worker = Workers /\ \A w \in Workers : worker[w] = Idle \/ AJob(worker[w])

\* A step that sends nothing and takes no token.
RestStep ==
    /\ UNCHANGED <<seen, onAir, buckets, loads>>
    /\ clock' \in Nat /\ clock <= clock'
    /\ WorkersOK'

\* The transmission of message m on a leg by a task whose job is j.
Sending(j, leg) ==
    [leg |-> leg, dst |-> DstEnd(leg).adapter, chan |-> DstEnd(leg).channel, addr |-> DstEnd(leg).to,
     text |-> Shape(leg, j.msg), at |-> clock, load |-> loads, of |-> j.msg, cause |-> j.now,
     start |-> j.start]

LegStep(w, leg, v) ==
    LET j == worker[w]
    IN  /\ AJob(j) /\ leg \in Legs /\ leg \in j.todo /\ v = Verdict(leg, j.msg, j.now, j.skip)
        /\ worker' = [worker EXCEPT ![w].todo = @ \ {leg}, ![w].since = clock,
                                    ![w].state = IF v = "send" THEN "sending" ELSE "busy"]
        /\ seen' = IF Reached(v, "alreadyHeard")
                   THEN Append(Fresh(seen, j.now), [t |-> j.now, key |-> KeyOf(leg, j.msg)])
                   ELSE IF v = "duplicate" THEN Fresh(seen, j.now) ELSE seen
        /\ buckets' = IF Reached(v, "rate")
                      THEN [buckets EXCEPT ![BucketOf(leg)] =
                              [rate   |-> Bucket(leg).rate,
                               tokens |-> Level(leg) - (IF v = "rate" THEN 0 ELSE Token),
                               last   |-> clock]]
                      ELSE buckets
        /\ onAir' = IF v = "send" THEN Append(onAir, Sending(j, leg)) ELSE onAir
        /\ UNCHANGED <<clock, loads>>

\* What a leg does to the queues of texts sent.
SentStep(w, leg, v) ==
    LET j      == worker[w]
        pruned == [sent EXCEPT ![j.msg.src] = Fresh(@, j.now)]
    IN  sent' = IF v = "send"
                THEN [pruned EXCEPT ![DstEnd(leg).adapter] =
                         Remember(@, [t |-> j.now, text |-> Shape(leg, j.msg)])]
                ELSE pruned

\* What the verdict on a leg says of the message.
LEMMA LegVerdict ==
    ASSUME NEW w, NEW leg, NEW v, LegStep(w, leg, v)
    PROVE  /\ Reached(v, "rate") /\ v # "rate" => ~ (Level(leg) < Token)
           /\ v = "send" => /\ ~ IsEcho(worker[w].msg, worker[w].now)
                            /\ ~ IsDuplicate(leg, worker[w].msg, worker[w].now)
                            /\ DstEnd(leg).adapter \notin worker[w].skip
                            /\ Reached(v, "rate") /\ Reached(v, "alreadyHeard")
<1>1. v = Verdict(leg, worker[w].msg, worker[w].now, worker[w].skip)
    BY DEF LegStep
<1> QED  BY <1>1, VerdictParts

LEMMA RunLegIsLegStep ==
    ASSUME TypesInv, NEW w \in Workers, RunLeg(w)
    PROVE  \E leg, v : LegStep(w, leg, v) /\ SentStep(w, leg, v)
<1>1. worker[w].state = "busy" /\ worker[w] # Idle
    BY DEF RunLeg, Idle
<1>2. AJob(worker[w])
    BY <1>1 DEF TypesInv
<1>3. PICK leg \in worker[w].todo :
       LET job == worker[w]
           m   == job.msg
           dst == DstEnd(leg)
           out == Shape(leg, m)
       IN  \E v \in {Verdict(leg, m, job.now, job.skip)} :
           /\ \A other \in job.todo \ {leg} : Before(leg, other)
           /\ worker' = [worker EXCEPT ![w].todo = @ \ {leg}, ![w].since = clock,
                                       ![w].state = IF v = "send" THEN "sending" ELSE "busy"]
           /\ outcomes' = outcomes \cup {<<KeyOf(leg, m), v>>}
           /\ seen' = IF Reached(v, "alreadyHeard")
                      THEN Append(Fresh(seen, job.now), [t |-> job.now, key |-> KeyOf(leg, m)])
                      ELSE IF v = "duplicate" THEN Fresh(seen, job.now) ELSE seen
           /\ buckets' = IF Reached(v, "rate")
                         THEN [buckets EXCEPT ![BucketOf(leg)] =
                                 [rate   |-> Bucket(leg).rate,
                                  tokens |-> Level(leg) - (IF v = "rate" THEN 0 ELSE Token),
                                  last   |-> clock]]
                         ELSE buckets
           /\ LET pruned == [sent EXCEPT ![m.src] = Fresh(@, job.now)]
              IN  IF v = "send"
                  THEN /\ sent' = [pruned EXCEPT ![dst.adapter] =
                                      Remember(@, [t |-> job.now, text |-> out])]
                       /\ onAir' = Append(onAir, [leg |-> leg, dst |-> dst.adapter,
                                                  chan |-> dst.channel, addr |-> dst.to,
                                                  text |-> out, at |-> clock, load |-> loads,
                                                  of |-> m, cause |-> job.now,
                                                  start |-> job.start])
                  ELSE sent' = pruned /\ UNCHANGED onAir
    BY Zenon DEF RunLeg
<1>4. leg \in Legs
    BY <1>2 DEF AJob
<1>5. UNCHANGED <<clock, loads>>
    BY DEF RunLeg
<1>6. LegStep(w, leg, Verdict(leg, worker[w].msg, worker[w].now, worker[w].skip))
    BY <1>2, <1>3, <1>4, <1>5, Zenon DEF LegStep, Sending
<1>7. SentStep(w, leg, Verdict(leg, worker[w].msg, worker[w].now, worker[w].skip))
    BY <1>3, Zenon DEF SentStep
<1> QED  BY <1>6, <1>7

LEMMA RestTypes ==
    ASSUME TypesInv, RestStep
    PROVE  TypesInv'
<1>1. WorkersOK'
    BY DEF RestStep
<1>2. \A k \in BucketKeys : buckets[k] = None \/ (ABucket(buckets[k]))'
    BY DEF TypesInv, RestStep, ABucket
<1>3. /\ DOMAIN buckets' = BucketKeys /\ buckets' = buckets
      /\ seen' = seen /\ onAir' = onAir /\ loads' = loads /\ clock' \in Nat /\ clock <= clock'
    BY DEF TypesInv, RestStep
<1>4. \A k \in DOMAIN onAir' : onAir'[k].at <= clock'
    BY <1>3 DEF TypesInv
<1> QED  BY <1>1, <1>2, <1>3, <1>4 DEF TypesInv, WorkersOK

\* The job goes on without the leg.
LEMMA LegWorkers ==
    ASSUME TypesInv, NEW w \in Workers, NEW leg, NEW v, LegStep(w, leg, v)
    PROVE  /\ WorkersOK'
           /\ \A x \in Workers \ {w} : worker'[x] = worker[x]
           /\ worker[w] # Idle /\ worker'[w].msg = worker[w].msg /\ worker'[w].start = worker[w].start
           /\ worker'[w].skip = worker[w].skip /\ worker'[w].todo \subseteq worker[w].todo
           /\ worker'[w].now = worker[w].now /\ worker'[w].since = clock
           /\ worker'[w].state \in {"busy", "sending"}
<1> DEFINE s == IF v = "send" THEN "sending" ELSE "busy"
           j == worker[w]
           n == [j EXCEPT !.todo = j.todo \ {leg}, !.since = clock, !.state = s]
<1>1. AJob(j) /\ DOMAIN worker = Workers /\ clock' = clock
    BY DEF LegStep, TypesInv
<1>2. worker' = [worker EXCEPT ![w] = n]
    BY DEF LegStep
<1> HIDE DEF j, s
<1>3. /\ n.msg = j.msg /\ n.now = j.now /\ n.start = j.start /\ n.skip = j.skip /\ n.since = clock
      /\ n.state = s /\ n.todo = j.todo \ {leg}
      /\ n = [state |-> s, msg |-> j.msg, now |-> j.now, start |-> j.start, since |-> clock,
              todo |-> j.todo \ {leg}, skip |-> j.skip]
    <2>1. DOMAIN j = {"state", "msg", "now", "start", "since", "todo", "skip"}
        BY <1>1 DEF AJob
    <2>2. n = [f \in DOMAIN j |-> IF f = "state" THEN s ELSE IF f = "since" THEN clock
                                  ELSE IF f = "todo" THEN j.todo \ {leg} ELSE j[f]]
        BY <2>1
    <2> HIDE DEF n
    <2> QED  BY <2>1, <2>2
<1>4. s \in {"busy", "sending"} /\ j.now \in Nat /\ j.now <= clock /\ j.todo \in SUBSET Legs
    BY <1>1 DEF AJob, s
<1>9. worker' = [worker EXCEPT ![w] = n]
    BY <1>2 DEF j, s
<1> HIDE DEF n
<1>5. n \in [state : {"busy", "sending"}, msg : {n.msg}, now : Nat, start : {n.start},
             since : {n.since}, todo : SUBSET Legs, skip : {n.skip}]
    BY <1>3, <1>4
<1>6. worker'[w] = n /\ DOMAIN worker' = Workers /\ \A x \in Workers \ {w} : worker'[x] = worker[x]
    BY <1>1, <1>9
<1>7. AJob(worker[w])'
    BY <1>1, <1>3, <1>4, <1>5, <1>6 DEF AJob
<1>8. \A x \in Workers \ {w} : worker'[x] = Idle \/ AJob(worker[x])'
    BY <1>1, <1>6 DEF TypesInv, AJob
<1>10. WorkersOK'
    BY <1>6, <1>7, <1>8 DEF WorkersOK
<1>11. worker[w] # Idle
    <2>1. "msg" \in DOMAIN worker[w] /\ "msg" \notin DOMAIN Idle
        BY <1>1 DEF AJob, Idle, j
    <2> QED  BY <2>1
<1> QED  BY <1>3, <1>4, <1>6, <1>10, <1>11 DEF j

LEMMA LegBuckets ==
    ASSUME TypesInv, NEW w \in Workers, NEW leg, NEW v, LegStep(w, leg, v)
    PROVE  /\ DOMAIN buckets' = BucketKeys
           /\ \A k \in BucketKeys : (buckets[k] = None \/ ABucket(buckets[k]))'
           /\ \A k \in BucketKeys \ {BucketOf(leg)} : buckets'[k] = buckets[k]
           /\ ~ Reached(v, "rate") => buckets' = buckets
           /\ Reached(v, "rate") =>
                /\ buckets'[BucketOf(leg)] # None
                /\ buckets'[BucketOf(leg)].rate = Bucket(leg).rate /\ buckets'[BucketOf(leg)].last = clock
                /\ buckets'[BucketOf(leg)].tokens = Level(leg) - (IF v = "rate" THEN 0 ELSE Token)
                /\ buckets'[BucketOf(leg)].tokens \in Nat
<1> DEFINE t == Level(leg) - (IF v = "rate" THEN 0 ELSE Token)
           b == [rate |-> Bucket(leg).rate, tokens |-> t, last |-> clock]
<1>0. /\ leg \in Legs /\ clock' = clock /\ clock \in Nat /\ DOMAIN buckets = BucketKeys
      /\ BucketOf(leg) \in BucketKeys /\ Token \in Nat
    BY LegParts, BridgeAssumption DEF LegStep, TypesInv
<1>1. /\ ABucket(Bucket(leg)) /\ Level(leg) \in Nat
    BY <1>0, LevelParts
<1>2. Reached(v, "rate") /\ v # "rate" => ~ (Level(leg) < Token)
    BY LegVerdict
<1>3. buckets' = IF Reached(v, "rate") THEN [buckets EXCEPT ![BucketOf(leg)] = b] ELSE buckets
    BY DEF LegStep
<1>4. Reached(v, "rate") => t \in Nat
    BY <1>0, <1>1, <1>2
<1> HIDE DEF t
<1>5. b.rate = Bucket(leg).rate /\ b.tokens = t /\ b.last = clock
    OBVIOUS
<1>6. t \in Nat => b \in [rate : Nat, tokens : Nat, last : Nat]
    BY <1>0, <1>1 DEF ABucket
<1> HIDE DEF b
<1>7. t \in Nat => b \in [rate : Nat, tokens : Nat, last : Nat] /\ b.last <= clock' /\ b # None
    BY <1>0, <1>5, <1>6, BridgeAssumption
<1>8. /\ DOMAIN buckets' = BucketKeys
      /\ \A k \in BucketKeys \ {BucketOf(leg)} : buckets'[k] = buckets[k]
      /\ Reached(v, "rate") => buckets'[BucketOf(leg)] = b
      /\ ~ Reached(v, "rate") => buckets' = buckets
    BY <1>0, <1>3
<1>9. \A k \in BucketKeys : buckets[k] = None \/ (ABucket(buckets[k]))
    BY DEF TypesInv
<1>10. \A k \in BucketKeys : (buckets[k] = None \/ ABucket(buckets[k]))'
    <2> SUFFICES ASSUME NEW k \in BucketKeys
                 PROVE  buckets'[k] = None \/ ABucket(buckets[k])'
        OBVIOUS
    <2>1. CASE buckets'[k] = buckets[k]
        BY <2>1, <1>0, <1>9 DEF ABucket
    <2>2. CASE buckets'[k] = b /\ t \in Nat
        BY <2>2, <1>0, <1>7 DEF ABucket
    <2>3. buckets'[k] = buckets[k] \/ (buckets'[k] = b /\ t \in Nat)
        BY <1>4, <1>8
    <2> QED  BY <2>1, <2>2, <2>3
<1> QED  BY <1>4, <1>5, <1>7, <1>8, <1>10 DEF t

LEMMA LegSeen ==
    ASSUME TypesInv, NEW w \in Workers, NEW leg, NEW v, LegStep(w, leg, v)
    PROVE  /\ IsQueue(seen') /\ \A i \in DOMAIN seen' : seen'[i].t \in Nat
           /\ \A i \in DOMAIN seen : \/ clock - seen[i].t > EchoWindow
                                     \/ \E n \in DOMAIN seen' : seen'[n] = seen[i]
           /\ v = "send" => \E n \in DOMAIN seen' : /\ seen'[n].t = worker[w].now
                                                    /\ seen'[n].key = KeyOf(leg, worker[w].msg)
<1> DEFINE now == worker[w].now
           e == [t |-> now, key |-> KeyOf(leg, worker[w].msg)]
           f == Fresh(seen, now)
<1>0. /\ now \in Nat /\ now <= clock /\ clock \in Nat /\ EchoWindow \in Nat
      /\ IsQueue(seen) /\ \A i \in DOMAIN seen : seen[i].t \in Nat
    BY BridgeAssumption DEF LegStep, AJob, TypesInv
<1>1. \/ seen' = Append(f, e) \/ (v # "send" /\ seen' \in {f, seen})
    <2>1. v = "send" => Reached(v, "alreadyHeard")
        BY LegVerdict
    <2> QED  BY <2>1 DEF LegStep
<1>2. /\ IsQueue(f) /\ \A i \in DOMAIN f : \E j \in DOMAIN seen : f[i] = seen[j]
      /\ \A j \in DOMAIN seen : now - seen[j].t <= EchoWindow => \E i \in DOMAIN f : f[i] = seen[j]
    BY <1>0, FreshKeeps
<1>3. \A j \in DOMAIN seen : clock - seen[j].t > EchoWindow \/ now - seen[j].t <= EchoWindow
                             \/ now - seen[j].t > EchoWindow
    BY <1>0
<1> HIDE DEF f
<1>4. \A j \in DOMAIN seen : clock - seen[j].t > EchoWindow \/ \E i \in DOMAIN f : f[i] = seen[j]
    BY <1>0, <1>2
<1>5. \A i \in DOMAIN f : f[i].t \in Nat
    BY <1>0, <1>2
<1>6. e.t = now /\ e.key = KeyOf(leg, worker[w].msg)
    OBVIOUS
<1> HIDE DEF e, now
<1>7. CASE seen' = Append(f, e)
    <2>1. /\ IsQueue(Append(f, e)) /\ DOMAIN Append(f, e) = 1 .. Len(f) + 1
          /\ \A i \in DOMAIN f : Append(f, e)[i] = f[i]
          /\ Append(f, e)[Len(f) + 1] = e
        BY <1>2, QueueAppend
    <2>2. DOMAIN f = 1 .. Len(f) /\ Len(f) \in Nat
        BY <1>2, QueueParts
    <2>3. DOMAIN seen' = DOMAIN f \cup {Len(f) + 1}
        BY <1>7, <2>1, <2>2
    <2> QED  BY <1>0, <1>4, <1>5, <1>6, <1>7, <2>1, <2>3 DEF now
<1>8. CASE v # "send" /\ seen' = f
    BY <1>8, <1>2, <1>4, <1>5
<1>9. CASE v # "send" /\ seen' = seen
    BY <1>9, <1>0
<1> QED  BY <1>1, <1>7, <1>8, <1>9

LEMMA LegOnAir ==
    ASSUME TypesInv, NEW w \in Workers, NEW leg, NEW v, LegStep(w, leg, v)
    PROVE  \/ v # "send" /\ onAir' = onAir
           \/ /\ v = "send" /\ IsQueue(onAir') /\ Len(onAir') = Len(onAir) + 1
              /\ DOMAIN onAir' = 1 .. Len(onAir) + 1 /\ DOMAIN onAir = 1 .. Len(onAir)
              /\ Len(onAir) \in Nat
              /\ \A i \in DOMAIN onAir : onAir'[i] = onAir[i]
              /\ onAir'[Len(onAir) + 1] = Sending(worker[w], leg)
<1>1. IsQueue(onAir)
    BY DEF TypesInv
<1>2. onAir' = IF v = "send" THEN Append(onAir, Sending(worker[w], leg)) ELSE onAir
    BY DEF LegStep
<1>3. Len(onAir) \in Nat /\ DOMAIN onAir = 1 .. Len(onAir)
    BY <1>1, QueueParts
<1>4. CASE v = "send"
    <2> DEFINE e == Sending(worker[w], leg)
    <2> HIDE DEF e
    <2>1. onAir' = Append(onAir, e)
        BY <1>2, <1>4 DEF e
    <2>2. IsQueue(onAir') /\ Len(onAir') = Len(onAir) + 1 /\ DOMAIN onAir' = 1 .. Len(onAir) + 1
          /\ (\A i \in DOMAIN onAir : onAir'[i] = onAir[i]) /\ onAir'[Len(onAir) + 1] = e
        BY <1>1, <2>1, QueueAppend
    <2> QED  BY <1>3, <1>4, <2>2 DEF e
<1>5. CASE v # "send"
    BY <1>2, <1>5
<1> QED  BY <1>4, <1>5

LEMMA SendingParts ==
    ASSUME NEW j, NEW leg
    PROVE  /\ Sending(j, leg).leg = leg /\ Sending(j, leg).at = clock /\ Sending(j, leg).load = loads
           /\ Sending(j, leg).cause = j.now /\ Sending(j, leg).of = j.msg /\ Sending(j, leg).start = j.start
           /\ Sending(j, leg).dst = DstEnd(leg).adapter
BY DEF Sending

LEMMA LegTypes ==
    ASSUME TypesInv, NEW w \in Workers, NEW leg, NEW v, LegStep(w, leg, v)
    PROVE  TypesInv'
<1>1. clock' = clock /\ loads' = loads /\ clock \in Nat /\ loads \in Nat
    BY DEF LegStep, TypesInv
<1>2. WorkersOK'
    BY LegWorkers
<1>3. DOMAIN buckets' = BucketKeys /\ \A k \in BucketKeys : (buckets[k] = None \/ ABucket(buckets[k]))'
    BY LegBuckets
<1>4. IsQueue(seen') /\ \A i \in DOMAIN seen' : seen'[i].t \in Nat
    BY LegSeen
<1> DEFINE OK(x) == /\ x.leg \in Legs /\ x.at \in Nat /\ x.load \in Nat /\ x.cause \in Nat
                    /\ x.at <= clock /\ x.load <= loads
<1>5. OK(Sending(worker[w], leg))
    BY <1>1, SendingParts DEF LegStep, AJob
<1>6. IsQueue(onAir) /\ \A k \in DOMAIN onAir : OK(onAir[k])
    BY DEF TypesInv
<1> HIDE DEF OK
<1>7. IsQueue(onAir') /\ \A k \in DOMAIN onAir' : OK(onAir'[k])
    <2>1. CASE onAir' = onAir
        BY <2>1, <1>6
    <2>2. CASE onAir' # onAir
        BY <2>2, <1>5, <1>6, LegOnAir
    <2> QED  BY <2>1, <2>2
<1> QED  BY <1>1, <1>2, <1>3, <1>4, <1>7 DEF TypesInv, WorkersOK, OK

-----------------------------------------------------------------------------
(* Duplicates.                                                              *)

LEMMA LegMemory ==
    ASSUME TypesInv, MemoryInv, NEW w \in Workers, NEW leg, NEW v, LegStep(w, leg, v)
    PROVE  MemoryInv'
<1>0. clock' = clock /\ clock \in Nat /\ EchoWindow \in Nat
    BY BridgeAssumption DEF LegStep, TypesInv
<1>1. ASSUME NEW k \in DOMAIN onAir, onAir'[k] = onAir[k]
      PROVE  Remembered(onAir[k])'
    <2>1. Remembered(onAir[k])
        BY DEF MemoryInv
    <2>2. CASE clock - onAir[k].cause > EchoWindow
        BY <2>2, <1>0, <1>1 DEF Remembered
    <2>3. ASSUME NEW i \in DOMAIN seen,
                 seen[i].t = onAir[k].cause /\ seen[i].key = KeyOf(onAir[k].leg, onAir[k].of)
          PROVE  Remembered(onAir[k])'
        <3>1. clock - seen[i].t > EchoWindow \/ \E n \in DOMAIN seen' : seen'[n] = seen[i]
            BY LegSeen
        <3> QED  BY <3>1, <2>3, <1>0, <1>1 DEF Remembered
    <2> QED  BY <2>1, <2>2, <2>3 DEF Remembered
<1>2. CASE onAir' = onAir
    BY <1>1, <1>2 DEF MemoryInv
<1>3. CASE onAir' # onAir
    <2>0. PICK new \in Nat : new = Len(onAir) + 1
        BY <1>3, LegOnAir
    <2>1. /\ v = "send" /\ DOMAIN onAir' = 1 .. new /\ DOMAIN onAir = 1 .. Len(onAir) /\ Len(onAir) \in Nat
          /\ \A i \in DOMAIN onAir : onAir'[i] = onAir[i]
          /\ onAir'[new] = Sending(worker[w], leg)
        BY <1>3, <2>0, LegOnAir
    <2>2. /\ onAir'[new].cause = worker[w].now /\ onAir'[new].leg = leg
          /\ onAir'[new].of = worker[w].msg
        BY <2>1, SendingParts
    <2>3. \E n \in DOMAIN seen' : seen'[n].t = worker[w].now /\ seen'[n].key = KeyOf(leg, worker[w].msg)
        BY <2>1, LegSeen
    <2>4. Remembered(onAir[new])'
        BY <2>2, <2>3 DEF Remembered
    <2>5. \A k \in DOMAIN onAir' : k = new \/ k \in DOMAIN onAir
        BY <2>0, <2>1
    <2>6. \A k \in DOMAIN onAir' : Remembered(onAir[k])'
        BY <2>1, <2>4, <2>5, <1>1
    <2> QED  BY <2>6 DEF MemoryInv
<1> QED  BY <1>2, <1>3

\* A message that is put on the air is no copy of a recent one.
LEMMA NoCopy ==
    ASSUME TypesInv, MemoryInv, NEW w \in Workers, NEW leg, LegStep(w, leg, "send"),
           NEW k \in DOMAIN onAir, KeyOf(onAir[k].leg, onAir[k].of) = KeyOf(leg, worker[w].msg)
    PROVE  clock - onAir[k].cause > EchoWindow
<1> DEFINE now == worker[w].now
<1>0. /\ now \in Nat /\ now <= clock /\ clock \in Nat /\ EchoWindow \in Nat
      /\ IsQueue(seen) /\ \A i \in DOMAIN seen : seen[i].t \in Nat
    BY BridgeAssumption DEF LegStep, AJob, TypesInv
<1>1. ~ IsDuplicate(leg, worker[w].msg, now)
    BY LegVerdict
<1>2. Remembered(onAir[k])
    BY DEF MemoryInv
<1> SUFFICES ASSUME NEW i \in DOMAIN seen, seen[i].t = onAir[k].cause,
                    seen[i].key = KeyOf(onAir[k].leg, onAir[k].of)
             PROVE  clock - onAir[k].cause > EchoWindow
    BY <1>2 DEF Remembered
<1>3. CASE now - seen[i].t <= EchoWindow
    <2>1. PICK n \in DOMAIN Fresh(seen, now) : Fresh(seen, now)[n] = seen[i]
        BY <1>0, <1>3, FreshKeeps
    <2>2. seen[i] \in Range(Fresh(seen, now))
        BY <2>1 DEF Range
    <2>3. IsDuplicate(leg, worker[w].msg, now)
        BY <2>2 DEF IsDuplicate
    <2> QED  BY <1>1, <2>3
<1>4. CASE ~ (now - seen[i].t <= EchoWindow)
    BY <1>0, <1>4
<1> QED  BY <1>3, <1>4

LEMMA LegOnce ==
    ASSUME TypesInv, MemoryInv, ForwardedOnce, NEW w \in Workers, NEW leg, NEW v, LegStep(w, leg, v)
    PROVE  ForwardedOnce'
<1>1. CASE onAir' = onAir
    BY <1>1 DEF ForwardedOnce
<1>2. CASE onAir' # onAir
    <2> DEFINE new == Len(onAir) + 1
    <2>1. /\ v = "send" /\ DOMAIN onAir' = 1 .. new /\ DOMAIN onAir = 1 .. Len(onAir) /\ Len(onAir) \in Nat
          /\ \A i \in DOMAIN onAir : onAir'[i] = onAir[i]
          /\ onAir'[new] = Sending(worker[w], leg)
        BY <1>2, LegOnAir
    <2>2. /\ onAir'[new].at = clock /\ onAir'[new].leg = leg /\ onAir'[new].of = worker[w].msg
        BY <2>1, SendingParts
    <2> SUFFICES ASSUME NEW j \in DOMAIN onAir', NEW k \in DOMAIN onAir', j < k,
                        onAir'[j].leg = onAir'[k].leg, onAir'[j].of.text = onAir'[k].of.text,
                        onAir'[j].of.from = onAir'[k].of.from
                 PROVE  onAir'[k].at - onAir'[j].cause > EchoWindow
        BY DEF ForwardedOnce
    <2>3. j \in DOMAIN onAir /\ onAir'[j] = onAir[j] /\ (k = new \/ k \in DOMAIN onAir)
        BY <2>1
    <2>4. CASE k \in DOMAIN onAir
        BY <2>1, <2>3, <2>4 DEF ForwardedOnce
    <2>5. CASE k = new
        <3>1. KeyOf(onAir[j].leg, onAir[j].of) = KeyOf(leg, worker[w].msg)
            BY <2>2, <2>3, <2>5 DEF KeyOf
        <3>2. clock - onAir[j].cause > EchoWindow
            BY <2>1, <2>3, <3>1, NoCopy
        <3> QED  BY <2>2, <2>3, <2>5, <3>2
    <2> QED  BY <2>3, <2>4, <2>5
<1> QED  BY <1>1, <1>2

-----------------------------------------------------------------------------
(* Rates.                                                                   *)

LEMMA RunIsFinite ==
    ASSUME NEW leg, NEW j \in Nat, NEW k \in Nat
    PROVE  IsFiniteSet(Run(leg, j, k)) /\ Cardinality(Run(leg, j, k)) \in Nat
<1>1. IsFiniteSet(j .. k)
    BY FS_Interval
<1>2. Run(leg, j, k) \in SUBSET (j .. k)
    BY DEF Run
<1>3. IsFiniteSet(Run(leg, j, k))
    BY <1>1, <1>2, FS_Subset
<1> QED  BY <1>3, FS_CardinalityType

LEMMA RunStays ==
    ASSUME NEW leg, NEW j \in Nat, NEW k \in Nat, \A i \in j .. k : onAir'[i] = onAir[i]
    PROVE  Run(leg, j, k)' = Run(leg, j, k)
BY DEF Run

\* One more transmission counts for its own leg.
LEMMA RunGrows ==
    ASSUME TypesInv, NEW n \in Nat, \A i \in 1 .. n : onAir'[i] = onAir[i],
           NEW leg, NEW j \in 1 .. n + 1
    PROVE  /\ IsFiniteSet(Run(leg, j, n)) /\ Cardinality(Run(leg, j, n)) \in Nat
           /\ Cardinality(Run(leg, j, n + 1)') =
                IF onAir'[n + 1].leg = leg THEN Cardinality(Run(leg, j, n)) + 1
                ELSE Cardinality(Run(leg, j, n))
<1>1. IsFiniteSet(Run(leg, j, n)) /\ Cardinality(Run(leg, j, n)) \in Nat
    BY RunIsFinite
<1>2. Run(leg, j, n + 1)' = IF onAir'[n + 1].leg = leg THEN Run(leg, j, n) \cup {n + 1} ELSE Run(leg, j, n)
    BY DEF Run
<1>3. n + 1 \notin Run(leg, j, n)
    BY DEF Run
<1>4. Cardinality(Run(leg, j, n) \cup {n + 1}) = Cardinality(Run(leg, j, n)) + 1
    BY <1>1, <1>3, FS_AddElement
<1> QED  BY <1>1, <1>2, <1>4

\* The account of a bucket, when it is refilled and a token may be taken.
LEMMA Arithmetic ==
    ASSUME NEW c \in Nat, NEW d \in {0, 1}, NEW e \in {0, 1}, d <= e, NEW tok \in Nat, NEW T \in Nat \ {0},
           NEW full \in Nat, NEW old \in Nat, NEW L \in Nat,
           NEW at \in Nat, NEW last \in Nat, NEW now \in Nat, last <= now,
           c * tok * T + old * T <= full * T + (last - at) * full,
           L * T <= old * T + (now - last) * full
    PROVE  (c + d) * tok * T + (L - e * tok) * T <= full * T + (now - at) * full
<1> DEFINE X == c * tok * T
           Y == tok * T
<1>1. X \in Int /\ Y \in Nat /\ L * T \in Nat /\ full * T \in Nat
    OBVIOUS
<1>2. (c + d) * tok * T = X + d * Y
    OBVIOUS
<1>3. (L - e * tok) * T = L * T - e * Y
    OBVIOUS
<1>4. (now - at) * full = (now - last) * full + (last - at) * full
    OBVIOUS
<1>5. (now - last) * full \in Int /\ (last - at) * full \in Int /\ old * T \in Int
    OBVIOUS
<1>6. X + old * T <= full * T + (last - at) * full
    OBVIOUS
<1> HIDE DEF X, Y
<1>7. d * Y - e * Y <= 0 /\ d * Y \in Int /\ e * Y \in Int
    <2>1. CASE d = 0 /\ e = 0
        BY <2>1, <1>1
    <2>2. CASE d = 0 /\ e = 1
        BY <2>2, <1>1
    <2>3. CASE d = 1 /\ e = 1
        BY <2>3, <1>1
    <2> QED  BY <2>1, <2>2, <2>3
<1> QED  BY <1>1, <1>2, <1>3, <1>4, <1>5, <1>6, <1>7

LEMMA LegRates ==
    ASSUME RatesByName, TypesInv, BudgetInv, NEW w \in Workers, NEW leg, NEW v, LegStep(w, leg, v)
    PROVE  \A l \in Legs : buckets'[BucketOf(l)] # None => buckets'[BucketOf(l)].rate = RateOf(l)
<1> SUFFICES ASSUME NEW l \in Legs, buckets'[BucketOf(l)] # None
             PROVE  buckets'[BucketOf(l)].rate = RateOf(l)
    OBVIOUS
<1>0. leg \in Legs /\ BucketOf(l) \in BucketKeys
    BY LegParts DEF LegStep
<1>1. CASE buckets'[BucketOf(l)] = buckets[BucketOf(l)]
    BY <1>1 DEF BudgetInv
<1>2. CASE BucketOf(l) = BucketOf(leg) /\ Reached(v, "rate")
    <2>1. buckets'[BucketOf(l)].rate = Bucket(leg).rate
        BY <1>2, LegBuckets
    <2>2. Bucket(leg).rate = RateOf(leg)
        <3>1. CASE buckets[BucketOf(leg)] = None
            BY <3>1, <1>0, LevelParts
        <3>2. CASE buckets[BucketOf(leg)] # None
            BY <3>2, <1>0, LevelParts DEF BudgetInv
        <3> QED  BY <3>1, <3>2
    <2>3. RateOf(leg) = RateOf(l)
        BY <1>0, <1>2, SharedRate
    <2> QED  BY <2>1, <2>2, <2>3
<1>3. buckets'[BucketOf(l)] = buckets[BucketOf(l)] \/ (BucketOf(l) = BucketOf(leg) /\ Reached(v, "rate"))
    BY <1>0, LegBuckets
<1> QED  BY <1>1, <1>2, <1>3

\* A transmission made before the step stays within the account of its bucket.
LEMMA LegAccounts ==
    ASSUME RatesByName, TypesInv, BudgetInv, NEW w \in Workers, NEW leg, NEW v, LegStep(w, leg, v),
           NEW j \in DOMAIN onAir, onAir[j].load = loads
    PROVE  Accounted(j)'
<1>1. PICK n \in Nat : n = Len(onAir) /\ DOMAIN onAir = 1 .. n
    BY QueueParts DEF TypesInv
<1>2. PICK l \in Legs : l = onAir[j].leg
    BY DEF TypesInv
<1>3. PICK c \in Nat : c = Cardinality(Run(l, j, n))
    BY <1>1, RunIsFinite
<1>4. PICK d \in {0, 1} : /\ Cardinality(Run(l, j, Len(onAir))') = c + d
                          /\ onAir'[j] = onAir[j]
                          /\ d = 1 => v = "send" /\ l = leg
    <2>1. CASE onAir' = onAir
        <3>1. Run(l, j, Len(onAir))' = Run(l, j, n)
            BY <2>1, <1>1 DEF Run
        <3> QED  BY <2>1, <3>1, <1>3
    <2>2. CASE onAir' # onAir
        <3>1. /\ v = "send" /\ Len(onAir') = n + 1
              /\ \A i \in 1 .. n : onAir'[i] = onAir[i]
              /\ onAir'[n + 1] = Sending(worker[w], leg)
            BY <2>2, <1>1, LegOnAir
        <3>2. onAir'[n + 1].leg = leg
            BY <3>1, SendingParts
        <3>3. j \in 1 .. n + 1 /\ onAir'[j] = onAir[j]
            BY <1>1, <3>1
        <3>4. Cardinality(Run(l, j, n + 1)') = IF leg = l THEN c + 1 ELSE c
            BY <1>3, <3>1, <3>2, <3>3, RunGrows
        <3>5. Run(l, j, Len(onAir))' = Run(l, j, n + 1)'
            BY <3>1 DEF Run
        <3> QED  BY <3>1, <3>3, <3>4, <3>5
    <2> QED  BY <2>1, <2>2
<1>5. Accounted(j)
    BY DEF BudgetInv
<1>6. /\ buckets[BucketOf(l)] # None
      /\ c * Token * TicksPerMinute + buckets[BucketOf(l)].tokens * TicksPerMinute
           <= RateOf(l) * TicksPerMinute + (buckets[BucketOf(l)].last - onAir[j].at) * RateOf(l)
    BY <1>1, <1>2, <1>3, <1>5 DEF Accounted
<1> DEFINE Within(b) ==
        /\ b # None
        /\ (c + d) * Token * TicksPerMinute + b.tokens * TicksPerMinute
             <= RateOf(l) * TicksPerMinute + (b.last - onAir[j].at) * RateOf(l)
<1>7. Within(buckets'[BucketOf(l)]) => Accounted(j)'
    BY <1>2, <1>4 DEF Accounted
<1>8. leg \in Legs /\ BucketOf(l) \in BucketKeys
    BY LegParts DEF LegStep
<1>9. v = "send" => Reached(v, "rate")
    BY LegVerdict
<1>10. CASE ~ (BucketOf(l) = BucketOf(leg) /\ Reached(v, "rate"))
    <2>1. buckets'[BucketOf(l)] = buckets[BucketOf(l)]
        BY <1>8, <1>10, LegBuckets
    <2>2. d = 0
        BY <1>4, <1>9, <1>10
    <2>3. (c + d) = c
        BY <2>2
    <2>4. Within(buckets'[BucketOf(l)])
        BY <1>6, <2>1, <2>3
    <2> QED  BY <1>7, <2>4
<1>11. CASE BucketOf(l) = BucketOf(leg) /\ Reached(v, "rate")
    <2> DEFINE old == buckets[BucketOf(l)]
               new == buckets'[BucketOf(l)]
               e == IF v = "rate" THEN 0 ELSE 1
    <2>1. /\ Bucket(leg) = old /\ ABucket(old) /\ Level(leg) \in Nat
          /\ Level(leg) * TicksPerMinute <= old.tokens * TicksPerMinute + (clock - old.last) * old.rate
        BY <1>6, <1>8, <1>11, LevelParts
    <2>2. old.rate = RateOf(l)
        BY <1>6 DEF BudgetInv
    <2>3. new # None /\ new.last = clock /\ new.tokens = Level(leg) - (IF v = "rate" THEN 0 ELSE Token)
        BY <1>11, LegBuckets
    <2>4. Token \in Nat /\ TicksPerMinute \in Nat \ {0} /\ RateOf(l) \in Nat /\ clock \in Nat /\ onAir[j].at \in Nat
        BY BridgeAssumption, LegParts DEF TypesInv
    <2>5. old.tokens \in Nat /\ old.last \in Nat /\ old.last <= clock
        BY <2>1 DEF ABucket
    <2>6. e \in {0, 1} /\ d <= e
        BY <1>4
    <2>7. new.tokens = Level(leg) - e * Token
        BY <2>3, <2>4
    <2> HIDE DEF e, old, new
    <2>8. /\ c * Token * TicksPerMinute + old.tokens * TicksPerMinute
               <= RateOf(l) * TicksPerMinute + (old.last - onAir[j].at) * RateOf(l)
          /\ Level(leg) * TicksPerMinute <= old.tokens * TicksPerMinute + (clock - old.last) * RateOf(l)
        BY <1>6, <2>1, <2>2 DEF old
    <2>9. (c + d) * Token * TicksPerMinute + (Level(leg) - e * Token) * TicksPerMinute
            <= RateOf(l) * TicksPerMinute + (clock - onAir[j].at) * RateOf(l)
        BY <2>1, <2>4, <2>5, <2>6, <2>8, Arithmetic
    <2>10. Within(new)
        BY <2>3, <2>7, <2>9 DEF new
    <2> QED  BY <1>7, <2>10 DEF new
<1> QED  BY <1>10, <1>11

\* So does the one the step makes.
LEMMA LegAccountsNew ==
    ASSUME RatesByName, TypesInv, BudgetInv, NEW w \in Workers, NEW leg, LegStep(w, leg, "send"),
           NEW n \in Nat, n = Len(onAir) + 1
    PROVE  Accounted(n)'
<1>1. PICK m \in Nat : m = Len(onAir) /\ n = m + 1
    BY QueueParts DEF TypesInv
<1>2. LegStep(w, leg, "send") => onAir' # onAir
    <2>1. onAir' = Append(onAir, Sending(worker[w], leg))
        BY DEF LegStep
    <2>2. Len(onAir') = Len(onAir) + 1
        BY <2>1, QueueAppend DEF TypesInv
    <2> QED  BY <2>2, <1>1
<1>3. /\ Len(onAir') = n /\ onAir'[n] = Sending(worker[w], leg)
      /\ \A i \in 1 .. m : onAir'[i] = onAir[i]
    BY <1>1, <1>2, LegOnAir
<1>4. onAir'[n].leg = leg /\ onAir'[n].at = clock /\ clock \in Nat /\ leg \in Legs
    BY <1>3, SendingParts DEF TypesInv, LegStep
<1>5. Run(leg, n, Len(onAir))' = {n}
    BY <1>3, <1>4 DEF Run
<1>6. Cardinality(Run(leg, n, Len(onAir))') = 1
    BY <1>5, FS_Singleton
<1>7. Reached("send", "rate")
    BY LegVerdict
<1> DEFINE b == buckets'[BucketOf(leg)]
<1>8. /\ b # None /\ b.last = clock /\ b.tokens = Level(leg) - Token
      /\ b.rate = Bucket(leg).rate
    BY <1>7, LegBuckets
<1>9. b.rate = RateOf(leg)
    BY <1>4, <1>8, LegRates
<1>10. Level(leg) \in Nat /\ Level(leg) <= RateOf(leg)
    BY <1>4, <1>8, <1>9, LevelParts
<1>11. Token \in Nat /\ TicksPerMinute \in Nat \ {0} /\ RateOf(leg) \in Nat
    BY <1>4, BridgeAssumption, LegParts
<1> HIDE DEF b
<1>12. 1 * Token * TicksPerMinute + b.tokens * TicksPerMinute
         <= RateOf(leg) * TicksPerMinute + (b.last - onAir'[n].at) * RateOf(leg)
    <2>1. 1 * Token * TicksPerMinute + (Level(leg) - Token) * TicksPerMinute = Level(leg) * TicksPerMinute
        BY <1>10, <1>11
    <2>2. Level(leg) * TicksPerMinute <= RateOf(leg) * TicksPerMinute
        BY <1>10, <1>11
    <2>3. (b.last - onAir'[n].at) * RateOf(leg) = 0
        BY <1>4, <1>8, <1>11
    <2>4. RateOf(leg) * TicksPerMinute \in Nat
        BY <1>11
    <2> QED  BY <2>1, <2>2, <2>3, <2>4, <1>8
<1> QED  BY <1>4, <1>6, <1>8, <1>12 DEF Accounted, b

LEMMA LegBudget ==
    ASSUME RatesByName, TypesInv, BudgetInv, NEW w \in Workers, NEW leg, NEW v, LegStep(w, leg, v)
    PROVE  BudgetInv'
<1>1. \A l \in Legs : buckets'[BucketOf(l)] # None => buckets'[BucketOf(l)].rate = RateOf(l)
    BY LegRates
<1>2. loads' = loads
    BY DEF LegStep
<1> SUFFICES ASSUME NEW j \in DOMAIN onAir', onAir'[j].load = loads
             PROVE  Accounted(j)'
    BY <1>1, <1>2, Zenon DEF BudgetInv
<1>3. CASE onAir' = onAir
    BY <1>3, LegAccounts
<1>4. CASE onAir' # onAir
    <2>1. /\ v = "send" /\ DOMAIN onAir' = 1 .. Len(onAir) + 1 /\ DOMAIN onAir = 1 .. Len(onAir)
          /\ Len(onAir) \in Nat /\ \A i \in DOMAIN onAir : onAir'[i] = onAir[i]
        BY <1>4, LegOnAir
    <2>2. CASE j \in DOMAIN onAir
        BY <2>1, <2>2, LegAccounts
    <2>3. CASE j \notin DOMAIN onAir
        <3>1. j \in Nat /\ j = Len(onAir) + 1
            BY <2>1, <2>3
        <3> QED  BY <2>1, <3>1, LegAccountsNew
    <2> QED  BY <2>2, <2>3
<1> QED  BY <1>3, <1>4

\* What RateRespected says of two transmissions.
InBudget(j, k) ==
    Cardinality(Run(onAir[j].leg, j, k)) * Token * TicksPerMinute
       <= RateOf(onAir[j].leg) * TicksPerMinute + (onAir[k].at - onAir[j].at) * RateOf(onAir[j].leg)

LEMMA RateRespectedIs ==
    RateRespected <=>
       \A j, k \in DOMAIN onAir :
          j <= k /\ onAir[k].leg = onAir[j].leg /\ onAir[j].load = onAir[k].load => InBudget(j, k)
BY DEF RateRespected, InBudget, Run, RateOf

LEMMA LegRateRespected ==
    ASSUME RatesByName, TypesInv, BudgetInv, BudgetInv', RateRespected,
           NEW w \in Workers, NEW leg, NEW v, LegStep(w, leg, v)
    PROVE  RateRespected'
<1>1. CASE onAir' = onAir
    BY <1>1 DEF RateRespected
<1>2. CASE onAir' # onAir
    <2>0. PICK n \in Nat : n = Len(onAir)
        BY QueueParts DEF TypesInv
    <2>1. /\ v = "send" /\ DOMAIN onAir' = 1 .. n + 1 /\ DOMAIN onAir = 1 .. n /\ Len(onAir') = n + 1
          /\ \A i \in 1 .. n : onAir'[i] = onAir[i]
          /\ onAir'[n + 1] = Sending(worker[w], leg)
        BY <1>2, <2>0, LegOnAir
    <2>2. onAir'[n + 1].at = clock /\ onAir'[n + 1].leg = leg /\ onAir'[n + 1].load = loads
        BY <2>1, SendingParts
    <2> SUFFICES ASSUME NEW j \in 1 .. n + 1, NEW k \in 1 .. n + 1, j <= k,
                        onAir'[k].leg = onAir'[j].leg, onAir'[j].load = onAir'[k].load
                 PROVE  InBudget(j, k)'
        BY <2>1, Zenon DEF RateRespected, InBudget, Run, RateOf
    <2>3. CASE k # n + 1
        <3>1. j \in DOMAIN onAir /\ k \in DOMAIN onAir /\ onAir'[j] = onAir[j] /\ onAir'[k] = onAir[k]
            BY <2>1, <2>3
        <3>2. InBudget(j, k)
            BY <3>1, RateRespectedIs
        <3>3. Run(onAir[j].leg, j, k)' = Run(onAir[j].leg, j, k)
            <4>1. \A i \in j .. k : onAir'[i] = onAir[i]
                BY <2>1, <2>3
            <4> QED  BY <3>1, <4>1 DEF Run
        <3> QED  BY <3>1, <3>2, <3>3 DEF InBudget
    <2>4. CASE k = n + 1
        <3>1. onAir'[j].load = loads' /\ onAir'[j].leg = leg /\ j \in DOMAIN onAir'
            BY <2>1, <2>2, <2>4 DEF LegStep
        <3>2. Accounted(j)'
            BY <3>1 DEF BudgetInv
        <3> DEFINE b == buckets'[BucketOf(leg)]
        <3>3. Cardinality(Run(leg, j, k)') * Token * TicksPerMinute + b.tokens * TicksPerMinute
                <= RateOf(leg) * TicksPerMinute + (b.last - onAir'[j].at) * RateOf(leg)
            <4>1. Run(onAir[j].leg, j, Len(onAir))' = Run(leg, j, k)'
                BY <2>1, <2>4, <3>1 DEF Run
            <4> QED  BY <3>1, <3>2, <4>1 DEF Accounted
        <3>4. b.last = clock /\ b.tokens \in Nat
            <4>1. Reached(v, "rate")
                BY <2>1, LegVerdict
            <4> QED  BY <4>1, LegBuckets
        <3> HIDE DEF b
        <3>5. /\ Cardinality(Run(leg, j, k)') \in Nat /\ Token \in Nat /\ TicksPerMinute \in Nat \ {0}
              /\ RateOf(leg) \in Nat /\ clock \in Nat /\ onAir'[j].at \in Nat
            <4>1. Cardinality(Run(leg, j, k)') \in Nat
                <5>1. Run(leg, j, k)' \in SUBSET (j .. k)
                    BY DEF Run
                <5>2. IsFiniteSet(j .. k)
                    BY FS_Interval
                <5>3. IsFiniteSet(Run(leg, j, k)')
                    BY <5>1, <5>2, FS_Subset
                <5> QED  BY <5>3, FS_CardinalityType
            <4>2. leg \in Legs /\ clock \in Nat
                BY DEF LegStep, TypesInv
            <4>3. onAir'[j].at \in Nat
                <5>1. CASE j = n + 1
                    BY <5>1, <2>2, <4>2
                <5>2. CASE j # n + 1
                    BY <5>2, <2>1 DEF TypesInv
                <5> QED  BY <5>1, <5>2
            <4> QED  BY <4>1, <4>2, <4>3, BridgeAssumption, LegParts
        <3>6. Cardinality(Run(leg, j, k)') * Token * TicksPerMinute
                <= RateOf(leg) * TicksPerMinute + (clock - onAir'[j].at) * RateOf(leg)
            <4>1. /\ b.tokens * TicksPerMinute \in Nat
                  /\ Cardinality(Run(leg, j, k)') * Token * TicksPerMinute \in Nat
                  /\ RateOf(leg) * TicksPerMinute \in Nat
                  /\ (clock - onAir'[j].at) * RateOf(leg) \in Int
                BY <3>4, <3>5
            <4> QED  BY <3>3, <3>4, <4>1
        <3>7. Run(onAir[j].leg, j, k)' = Run(leg, j, k)'
            BY <3>1 DEF Run
        <3> QED  BY <2>2, <2>4, <3>1, <3>6, <3>7 DEF InBudget
    <2> QED  BY <2>3, <2>4
<1> QED  BY <1>1, <1>2

-----------------------------------------------------------------------------
(* The steps that send nothing.                                             *)

LEMMA RestKeeps ==
    ASSUME TypesInv, RestStep
    PROVE  /\ TypesInv' /\ (MemoryInv => MemoryInv') /\ (ForwardedOnce => ForwardedOnce')
           /\ (BudgetInv => BudgetInv') /\ (RateRespected => RateRespected')
<1>1. /\ onAir' = onAir /\ seen' = seen /\ buckets' = buckets /\ loads' = loads
      /\ clock' \in Nat /\ clock \in Nat /\ clock <= clock' /\ EchoWindow \in Nat
    BY BridgeAssumption DEF RestStep, TypesInv
<1>2. TypesInv'
    BY RestTypes
<1>3. ASSUME MemoryInv PROVE MemoryInv'
    <2> SUFFICES ASSUME NEW k \in DOMAIN onAir PROVE Remembered(onAir[k])'
        BY <1>1 DEF MemoryInv
    <2>1. Remembered(onAir[k])
        BY <1>3 DEF MemoryInv
    <2>2. onAir[k].cause \in Nat
        BY DEF TypesInv
    <2> QED  BY <1>1, <2>1, <2>2 DEF Remembered
<1>4. ASSUME BudgetInv PROVE BudgetInv'
    BY <1>1, <1>4 DEF BudgetInv, Accounted, Run
<1> QED  BY <1>1, <1>2, <1>3, <1>4 DEF ForwardedOnce, RateRespected

\* A task takes a message on, goes on or is done.
LEMMA WorkerSteps ==
    ASSUME TypesInv, NEW w, UNCHANGED <<seen, onAir, buckets, loads, clock>>,
           NEW n, n = Idle \/ AJob(n), worker' = [worker EXCEPT ![w] = n]
    PROVE  RestStep
<1>1. clock' = clock /\ clock \in Nat /\ DOMAIN worker = Workers
    BY DEF TypesInv
<1>2. DOMAIN worker' = Workers
    BY <1>1
<1>3. \A x \in Workers : worker'[x] = worker[x] \/ worker'[x] = n
    BY <1>1
<1>4. \A x \in Workers : worker'[x] = Idle \/ AJob(worker[x])'
    BY <1>1, <1>3 DEF TypesInv, AJob
<1> QED  BY <1>1, <1>2, <1>4 DEF RestStep, WorkersOK

LEMMA JobIsAJob ==
    ASSUME TypesInv, NEW m, NEW skip
    PROVE  AJob(Job(m, skip))
<1>1. clock \in Nat /\ Itinerary(m) \in SUBSET Legs
    BY DEF TypesInv, Itinerary
<1> QED  BY <1>1 DEF AJob, Job

LEMMA SendReturnsRests ==
    ASSUME TypesInv, NEW w \in Workers, SendReturns(w)
    PROVE  /\ RestStep
           /\ \A x \in Workers \ {w} : worker'[x] = worker[x]
           /\ worker[w] # Idle /\ worker'[w].msg = worker[w].msg /\ worker'[w].start = worker[w].start
           /\ worker'[w].skip = worker[w].skip /\ worker'[w].todo = worker[w].todo
           /\ worker'[w].now = worker[w].now /\ worker'[w].since = worker[w].since
           /\ worker'[w].state = "busy"
<1>1. /\ worker[w].state = "sending" /\ worker[w] # Idle /\ DOMAIN worker = Workers
      /\ UNCHANGED <<seen, onAir, buckets, loads, clock>>
    BY DEF SendReturns, Idle, TypesInv
<1>2. AJob(worker[w])
    BY <1>1 DEF TypesInv
<1> DEFINE j == worker[w]
           n == [j EXCEPT !.state = "busy"]
<1>3. worker' = [worker EXCEPT ![w] = n]
    BY DEF SendReturns
<1>4. DOMAIN j = {"state", "msg", "now", "start", "since", "todo", "skip"}
    BY <1>2 DEF AJob
<1> HIDE DEF j
<1>5. n = [state |-> "busy", msg |-> j.msg, now |-> j.now, start |-> j.start, since |-> j.since,
           todo |-> j.todo, skip |-> j.skip]
    <2>1. n = [f \in DOMAIN j |-> IF f = "state" THEN "busy" ELSE j[f]]
        OBVIOUS
    <2> HIDE DEF n
    <2> QED  BY <1>4, <2>1
<1>6. AJob(j)
    BY <1>2 DEF j
<1> HIDE DEF n
<1>7. AJob(n)
    BY <1>5, <1>6 DEF AJob
<1>8. RestStep
    BY <1>1, <1>3, <1>7, WorkerSteps
<1>9. worker'[w] = n /\ \A x \in Workers \ {w} : worker'[x] = worker[x]
    BY <1>1, <1>3
<1> QED  BY <1>1, <1>5, <1>8, <1>9 DEF j

LEMMA FinishRests ==
    ASSUME TypesInv, NEW w \in Workers, Finish(w)
    PROVE  RestStep
<1>1. worker' = [worker EXCEPT ![w] = Idle] /\ UNCHANGED <<seen, onAir, buckets, loads, clock>>
    BY DEF Finish
<1> QED  BY <1>1, WorkerSteps

LEMMA ArriveRests ==
    ASSUME TypesInv, NEW m, Arrive(m)
    PROVE  RestStep
<1> DEFINE n == IF Ignored(m) THEN Idle ELSE Job(m, {})
<1>1. worker' = [worker EXCEPT ![WorkerOf[m.src]] = n] /\ UNCHANGED <<seen, onAir, buckets, loads, clock>>
    BY DEF Arrive
<1>2. n = Idle \/ AJob(n)
    BY JobIsAJob
<1> HIDE DEF n
<1> QED  BY <1>1, <1>2, WorkerSteps

LEMMA TickRests ==
    ASSUME TypesInv, Tick
    PROVE  RestStep
<1>1. clock' = clock + 1 /\ clock \in Nat /\ worker' = worker /\ UNCHANGED <<seen, onAir, buckets, loads>>
    BY DEF Tick, TypesInv
<1>2. clock' \in Nat /\ clock <= clock'
    BY <1>1
<1>3. \A w \in Workers : worker[w] = Idle \/ AJob(worker[w])'
    BY <1>1, <1>2 DEF TypesInv, AJob
<1> QED  BY <1>1, <1>2, <1>3 DEF RestStep, WorkersOK, TypesInv

LEMMA OtherRests ==
    ASSUME TypesInv, UNCHANGED <<seen, onAir, buckets, loads, clock, worker>>
    PROVE  RestStep
<1>1. clock' = clock /\ clock \in Nat /\ worker' = worker
    BY DEF TypesInv
<1>2. \A w \in Workers : worker[w] = Idle \/ AJob(worker[w])'
    BY <1>1 DEF TypesInv, AJob
<1> QED  BY <1>1, <1>2 DEF RestStep, WorkersOK, TypesInv

\* Saving the rules empties the buckets and begins a new account.
LEMMA ReloadKeeps ==
    ASSUME TypesInv, Reload
    PROVE  /\ TypesInv' /\ (MemoryInv => MemoryInv') /\ (ForwardedOnce => ForwardedOnce')
           /\ BudgetInv' /\ (RateRespected => RateRespected')
<1>1. /\ loads' = loads + 1 /\ loads \in Nat /\ buckets' = [k \in BucketKeys |-> None]
      /\ clock' = clock /\ worker' = worker /\ seen' = seen /\ onAir' = onAir
    BY DEF Reload, TypesInv
<1>2. \A w \in Workers : worker[w] = Idle \/ AJob(worker[w])'
    BY <1>1 DEF TypesInv, AJob
<1>3. \A k \in DOMAIN onAir : onAir[k].load \in Nat /\ onAir[k].load <= loads
    BY DEF TypesInv
<1>4. \A k \in DOMAIN onAir : onAir[k].load <= loads' /\ onAir[k].load # loads'
    BY <1>1, <1>3
<1>5. TypesInv'
    BY <1>1, <1>2, <1>4 DEF TypesInv
<1>6. \A leg \in Legs : buckets'[BucketOf(leg)] = None
    BY <1>1, LegParts
<1>7. BudgetInv'
    BY <1>1, <1>4, <1>6 DEF BudgetInv
<1>8. MemoryInv => MemoryInv'
    BY <1>1 DEF MemoryInv, Remembered
<1> QED  BY <1>1, <1>5, <1>7, <1>8 DEF ForwardedOnce, RateRespected

-----------------------------------------------------------------------------
(* Types.                                                                   *)

TypedJob(j) ==
    /\ j.state \in {"busy", "sending"} /\ j.now \in Nat /\ j.since \in Nat
    /\ j.now <= j.since /\ j.since <= clock /\ j.todo \subseteq Itinerary(j.msg)

ShapeInv ==
    /\ clock \in 0 .. MaxTime /\ heard \in 0 .. MaxHeard /\ loads \in 0 .. MaxLoads
    /\ status \in [Adapters -> {"absent", "down", "up"}]
    /\ \A w \in Workers : worker[w] = Idle \/ TypedJob(worker[w])
    /\ DOMAIN sent = Adapters /\ \A a \in Adapters : IsQueue(sent[a]) /\ Len(sent[a]) <= SentCap
    /\ \A k \in BucketKeys : buckets[k] = None \/ buckets[k].tokens <= buckets[k].rate

LEMMA ShapeIsTypeOK ==
    ASSUME TypesInv, ShapeInv
    PROVE  BridgeTypeOK
<1>1. clock \in Nat
    BY DEF TypesInv
<1>2. ASSUME NEW w \in Workers, worker[w] # Idle
      PROVE  /\ worker[w].state \in {"busy", "sending"} /\ worker[w].now \in 0 .. worker[w].since
             /\ worker[w].since \in 0 .. clock /\ worker[w].todo \subseteq Itinerary(worker[w].msg)
    BY <1>1, <1>2 DEF ShapeInv, TypedJob
<1>3. ASSUME NEW k \in BucketKeys, buckets[k] # None
      PROVE  buckets[k].tokens \in 0 .. buckets[k].rate /\ buckets[k].last \in 0 .. clock
    <2>1. ABucket(buckets[k]) /\ buckets[k].tokens <= buckets[k].rate
        BY <1>3 DEF TypesInv, ShapeInv
    <2> QED  BY <1>1, <2>1 DEF ABucket
<1> QED  BY <1>2, <1>3 DEF ShapeInv, BridgeTypeOK

\* A queue gets no longer by popping, nor beyond its cap by appending.
LEMMA QueueLengths ==
    ASSUME NEW q, IsQueue(q)
    PROVE  /\ \A now : IsQueue(Fresh(q, now)) /\ Len(Fresh(q, now)) <= Len(q)
           /\ \A e : Len(q) <= SentCap => IsQueue(Remember(q, e)) /\ Len(Remember(q, e)) <= SentCap
<1>0. Len(q) \in Nat /\ DOMAIN q = 1 .. Len(q) /\ q \in Seq(Range(q)) /\ SentCap \in Nat \ {0}
    BY QueueParts, BridgeAssumption DEF IsQueue
<1>1. ASSUME NEW now PROVE IsQueue(Fresh(q, now)) /\ Len(Fresh(q, now)) <= Len(q)
    <2> DEFINE young == {k \in DOMAIN q : now - q[k].t <= EchoWindow}
    <2>1. CASE young = {}
        <3>1. Fresh(q, now) = << >> /\ IsQueue(<< >>) /\ Len(<< >>) = 0
            BY <2>1 DEF Fresh, IsQueue
        <3> QED  BY <1>0, <3>1
    <2>2. CASE young # {}
        <3> DEFINE m == Min(young)
        <3>1. young \in SUBSET Nat
            BY <1>0
        <3>2. m \in young
            BY <2>2, <3>1, MinIs
        <3>3. Fresh(q, now) = SubSeq(q, m, Len(q))
            BY <2>2 DEF Fresh
        <3>4. m \in 1 .. Len(q)
            BY <1>0, <3>2
        <3> HIDE DEF m
        <3>5. SubSeq(q, m, Len(q)) \in Seq(Range(q)) /\ Len(SubSeq(q, m, Len(q))) = Len(q) - m + 1
            BY <1>0, <3>4
        <3>6. IsQueue(Fresh(q, now))
            BY <3>3, <3>5, QueueFrom
        <3>7. Len(q) \in Nat /\ m \in Nat /\ 1 <= m /\ Len(Fresh(q, now)) = Len(q) - m + 1
            BY <1>0, <3>3, <3>4, <3>5
        <3> HIDE DEF young
        <3>8. Len(Fresh(q, now)) <= Len(q)
            BY <3>7
        <3> QED  BY <3>6, <3>8
    <2> QED  BY <2>1, <2>2
<1>2. ASSUME NEW e, Len(q) <= SentCap
      PROVE  IsQueue(Remember(q, e)) /\ Len(Remember(q, e)) <= SentCap
    <2>1. CASE Len(q) < SentCap
        <3>1. Remember(q, e) = Append(q, e)
            BY <2>1 DEF Remember
        <3>2. IsQueue(Append(q, e)) /\ Len(Append(q, e)) = Len(q) + 1
            BY QueueAppend
        <3> QED  BY <1>0, <2>1, <3>1, <3>2
    <2>2. CASE ~ (Len(q) < SentCap)
        <3>0. Remember(q, e) = Append(Tail(q), e)
            BY <2>2 DEF Remember
        <3>1. Len(q) = SentCap /\ q # << >>
            <4>0. Len(q) \in Nat /\ SentCap \in Nat /\ SentCap # 0
                BY <1>0
            <4>1. Len(q) = SentCap
                BY <4>0, <1>2, <2>2
            <4>2. Len(q) # 0
                BY <4>0, <4>1
            <4> QED  BY <4>1, <4>2
        <3>2. Tail(q) \in Seq(Range(q)) /\ Len(Tail(q)) = Len(q) - 1
            BY <1>0, <3>1
        <3>3. IsQueue(Append(Tail(q), e)) /\ Len(Append(Tail(q), e)) = Len(Tail(q)) + 1
            BY <3>2, QueueFrom, QueueAppend
        <3> QED  BY <1>0, <3>0, <3>1, <3>2, <3>3
    <2> QED  BY <2>1, <2>2
<1> QED  BY <1>1, <1>2

\* A step that takes no token and remembers nothing sent.
LEMMA ShapeRests ==
    ASSUME ShapeInv, UNCHANGED sent, buckets' = buckets \/ buckets' = [k \in BucketKeys |-> None],
           clock' \in 0 .. MaxTime, clock <= clock', heard' \in 0 .. MaxHeard, loads' \in 0 .. MaxLoads,
           status' \in [Adapters -> {"absent", "down", "up"}],
           \A w \in Workers : worker'[w] = worker[w] \/ worker'[w] = Idle \/ TypedJob(worker'[w])
    PROVE  ShapeInv'
<1>1. clock \in Nat /\ clock' \in Nat
    BY DEF ShapeInv
<1>2. ASSUME NEW j, TypedJob(j) PROVE TypedJob(j)'
    BY <1>1, <1>2 DEF TypedJob, Itinerary, Matches, Legs
<1>3. ASSUME NEW w \in Workers PROVE worker'[w] = Idle \/ TypedJob(worker[w])'
    <2>1. PICK j : j = worker'[w]
        OBVIOUS
    <2>2. j = Idle \/ TypedJob(j)
        BY <2>1 DEF ShapeInv
    <2> QED  BY <1>2, <2>1, <2>2
<1>4. \A k \in BucketKeys : buckets'[k] = None \/ buckets'[k].tokens <= buckets'[k].rate
    BY DEF ShapeInv
<1>5. DOMAIN sent' = Adapters /\ \A a \in Adapters : IsQueue(sent'[a]) /\ Len(sent'[a]) <= SentCap
    BY DEF ShapeInv
<1> QED  BY <1>3, <1>4, <1>5 DEF ShapeInv

\* What a leg does to the queues of texts sent.
LEMMA LegSent ==
    ASSUME NEW w, RunLeg(w)
    PROVE  \E a, now : \/ sent' = [sent EXCEPT ![a] = Fresh(@, now)]
                       \/ \E b, e : sent' = [[sent EXCEPT ![a] = Fresh(@, now)] EXCEPT ![b] = Remember(@, e)]
<1>1. PICK leg \in worker[w].todo : \E v :
         LET pruned == [sent EXCEPT ![worker[w].msg.src] = Fresh(@, worker[w].now)]
         IN  IF v = "send"
             THEN sent' = [pruned EXCEPT ![DstEnd(leg).adapter] =
                              Remember(@, [t |-> worker[w].now, text |-> Shape(leg, worker[w].msg)])]
             ELSE sent' = pruned
    BY Zenon DEF RunLeg
<1> QED  BY <1>1, Zenon

LEMMA LegKeepsQueues ==
    ASSUME ShapeInv, NEW w, RunLeg(w)
    PROVE  DOMAIN sent' = Adapters /\ \A a \in Adapters : IsQueue(sent'[a]) /\ Len(sent'[a]) <= SentCap
<1> DEFINE OK(s) == DOMAIN s = Adapters /\ \A a \in Adapters : IsQueue(s[a]) /\ Len(s[a]) <= SentCap
<1>1. PICK a, now : \/ sent' = [sent EXCEPT ![a] = Fresh(@, now)]
                    \/ \E b, e : sent' = [[sent EXCEPT ![a] = Fresh(@, now)] EXCEPT ![b] = Remember(@, e)]
    BY LegSent
<1> DEFINE pruned == [sent EXCEPT ![a] = Fresh(@, now)]
<1>2. OK(pruned)
    <2>1. OK(sent)
        BY DEF ShapeInv
    <2>2. a \in Adapters => IsQueue(Fresh(sent[a], now)) /\ Len(Fresh(sent[a], now)) <= SentCap
        <3> SUFFICES ASSUME a \in Adapters PROVE IsQueue(Fresh(sent[a], now)) /\ Len(Fresh(sent[a], now)) <= SentCap
            OBVIOUS
        <3>1. IsQueue(sent[a]) /\ Len(sent[a]) <= SentCap
            BY <2>1
        <3>2. IsQueue(Fresh(sent[a], now)) /\ Len(Fresh(sent[a], now)) <= Len(sent[a])
            BY <3>1, QueueLengths
        <3>3. Len(Fresh(sent[a], now)) \in Nat /\ Len(sent[a]) \in Nat /\ SentCap \in Nat
            BY <3>1, <3>2, QueueParts, BridgeAssumption
        <3> QED  BY <3>1, <3>2, <3>3
    <2> QED  BY <2>1, <2>2
<1> HIDE DEF pruned
<1>3. ASSUME NEW b, NEW e PROVE OK([pruned EXCEPT ![b] = Remember(@, e)])
    <2>1. b \in Adapters => IsQueue(Remember(pruned[b], e)) /\ Len(Remember(pruned[b], e)) <= SentCap
        BY <1>2, QueueLengths
    <2> QED  BY <1>2, <2>1
<1>4. OK(sent')
    <2>1. CASE sent' = pruned
        BY <1>2, <2>1
    <2>2. CASE \E b, e : sent' = [pruned EXCEPT ![b] = Remember(@, e)]
        <3>1. PICK b, e : sent' = [pruned EXCEPT ![b] = Remember(@, e)]
            BY <2>2
        <3>2. OK([pruned EXCEPT ![b] = Remember(@, e)])
            BY <1>3
        <3> HIDE DEF OK
        <3> QED  BY <3>1, <3>2
    <2> QED  BY <1>1, <2>1, <2>2 DEF pruned
<1> QED  BY <1>4

LEMMA LegKeepsShape ==
    ASSUME TypesInv, ShapeInv, NEW w \in Workers, RunLeg(w)
    PROVE  ShapeInv'
<1>1. PICK leg, v : LegStep(w, leg, v)
    BY RunLegIsLegStep
<1>2. /\ clock' = clock /\ status' = status /\ heard' = heard /\ loads' = loads /\ clock \in Nat
    BY DEF RunLeg, TypesInv
<1>3. /\ \A x \in Workers \ {w} : worker'[x] = worker[x]
      /\ worker[w] # Idle /\ worker'[w].msg = worker[w].msg /\ worker'[w].todo \subseteq worker[w].todo
      /\ worker'[w].now = worker[w].now /\ worker'[w].since = clock
      /\ worker'[w].state \in {"busy", "sending"}
    BY <1>1, LegWorkers
<1>4. ASSUME NEW j, TypedJob(j) PROVE TypedJob(j)'
    BY <1>2, <1>4 DEF TypedJob, Itinerary, Matches, Legs
<1>5. TypedJob(worker'[w])
    <2>1. TypedJob(worker[w]) /\ worker[w].now <= clock
        BY <1>1, <1>3 DEF ShapeInv, LegStep, AJob
    <2> QED  BY <1>2, <1>3, <2>1 DEF TypedJob
<1>6. ASSUME NEW x \in Workers PROVE worker'[x] = Idle \/ TypedJob(worker[x])'
    <2>1. PICK j : j = worker'[x]
        OBVIOUS
    <2>2. j = Idle \/ TypedJob(j)
        BY <1>3, <1>5, <2>1 DEF ShapeInv
    <2> QED  BY <1>4, <2>1, <2>2
<1>7. \A k \in BucketKeys : buckets'[k] = None \/ buckets'[k].tokens <= buckets'[k].rate
    <2>1. leg \in Legs /\ Token \in Nat
        BY <1>1, BridgeAssumption DEF LegStep
    <2>2. Level(leg) \in Nat /\ Level(leg) <= Bucket(leg).rate /\ Bucket(leg).rate \in Nat
        BY <2>1, LevelParts DEF ABucket
    <2>3. /\ \A k \in BucketKeys \ {BucketOf(leg)} : buckets'[k] = buckets[k]
          /\ ~ Reached(v, "rate") => buckets' = buckets
          /\ Reached(v, "rate") =>
                /\ buckets'[BucketOf(leg)].rate = Bucket(leg).rate
                /\ buckets'[BucketOf(leg)].tokens = Level(leg) - (IF v = "rate" THEN 0 ELSE Token)
        BY <1>1, LegBuckets
    <2>4. Level(leg) - (IF v = "rate" THEN 0 ELSE Token) <= Bucket(leg).rate
        BY <2>1, <2>2
    <2>5. \A k \in BucketKeys : buckets[k] = None \/ buckets[k].tokens <= buckets[k].rate
        BY DEF ShapeInv
    <2> QED  BY <2>3, <2>4, <2>5
<1>8. DOMAIN sent' = Adapters /\ \A a \in Adapters : IsQueue(sent'[a]) /\ Len(sent'[a]) <= SentCap
    BY LegKeepsQueues
<1> QED  BY <1>2, <1>6, <1>7, <1>8 DEF ShapeInv

LEMMA JobIsTyped ==
    ASSUME TypesInv, NEW m, NEW skip
    PROVE  TypedJob(Job(m, skip))
BY DEF TypedJob, Job, TypesInv

\* One task takes on a message, or goes on, or is done.
LEMMA WorkerKeepsShape ==
    ASSUME TypesInv, ShapeInv, UNCHANGED <<sent, buckets, clock, status, loads>>, heard' \in 0 .. MaxHeard,
           NEW w, NEW n, n = Idle \/ TypedJob(n), worker' = [worker EXCEPT ![w] = n]
    PROVE  ShapeInv'
<1>1. \A x \in Workers : worker'[x] = worker[x] \/ worker'[x] = Idle \/ TypedJob(worker'[x])
    BY DEF TypesInv
<1>2. clock' \in 0 .. MaxTime /\ clock <= clock' /\ loads' \in 0 .. MaxLoads
      /\ status' \in [Adapters -> {"absent", "down", "up"}]
    BY DEF ShapeInv
<1> QED  BY <1>1, <1>2, ShapeRests

LEMMA GoingOnKeepsShape ==
    ASSUME TypesInv, ShapeInv, NEW w \in Workers, RunLeg(w) \/ SendReturns(w) \/ Finish(w)
    PROVE  ShapeInv'
<1>0. heard \in 0 .. MaxHeard
    BY DEF ShapeInv
<1>1. CASE SendReturns(w)
    <2>1. /\ \A x \in Workers \ {w} : worker'[x] = worker[x]
          /\ worker[w] # Idle /\ worker'[w].msg = worker[w].msg /\ worker'[w].todo = worker[w].todo
          /\ worker'[w].now = worker[w].now /\ worker'[w].since = worker[w].since
          /\ worker'[w].state = "busy"
        BY <1>1, SendReturnsRests
    <2>2. TypedJob(worker'[w])
        BY <2>1 DEF ShapeInv, TypedJob
    <2>3. \A x \in Workers : worker'[x] = worker[x] \/ worker'[x] = Idle \/ TypedJob(worker'[x])
        BY <2>1, <2>2
    <2>4. UNCHANGED <<sent, buckets, clock, status, loads, heard>>
        BY <1>1 DEF SendReturns
    <2>5. clock' \in 0 .. MaxTime /\ clock <= clock' /\ loads' \in 0 .. MaxLoads
          /\ status' \in [Adapters -> {"absent", "down", "up"}]
        BY <2>4 DEF ShapeInv
    <2> QED  BY <1>0, <2>3, <2>4, <2>5, ShapeRests
<1>2. CASE Finish(w)
    <2>1. UNCHANGED <<sent, buckets, clock, status, loads, heard>> /\ worker' = [worker EXCEPT ![w] = Idle]
        BY <1>2 DEF Finish
    <2> QED  BY <1>0, <2>1, WorkerKeepsShape
<1> QED  BY <1>1, <1>2, LegKeepsShape

LEMMA TickKeepsShape ==
    ASSUME TypesInv, ShapeInv, Tick
    PROVE  ShapeInv'
<1>1. /\ clock' = clock + 1 /\ clock < MaxTime /\ MaxTime \in Nat /\ clock \in Nat
      /\ UNCHANGED <<sent, buckets, worker, status, loads, heard>>
    BY BridgeAssumption DEF Tick, TypesInv
<1>2. clock' \in 0 .. MaxTime /\ clock <= clock'
    BY <1>1
<1>3. loads' \in 0 .. MaxLoads /\ heard' \in 0 .. MaxHeard /\ status' \in [Adapters -> {"absent", "down", "up"}]
    BY <1>1 DEF ShapeInv
<1> QED  BY <1>1, <1>2, <1>3, ShapeRests

LEMMA ArriveKeepsShape ==
    ASSUME TypesInv, ShapeInv, NEW m, Arrive(m)
    PROVE  ShapeInv'
<1> DEFINE n == IF Ignored(m) THEN Idle ELSE Job(m, {})
<1>1. /\ worker' = [worker EXCEPT ![WorkerOf[m.src]] = n]
      /\ UNCHANGED <<sent, buckets, clock, status, loads>> /\ heard' = heard + 1 /\ heard < MaxHeard
    BY DEF Arrive
<1>2. n = Idle \/ TypedJob(n)
    BY JobIsTyped
<1>3. heard' \in 0 .. MaxHeard
    BY <1>1, BridgeAssumption DEF ShapeInv
<1> HIDE DEF n
<1> QED  BY <1>1, <1>2, <1>3, WorkerKeepsShape

LEMMA StepKeepsShape ==
    ASSUME TypesInv, ShapeInv, [BridgeNext]_bridgeVars
    PROVE  ShapeInv'
<1>1. CASE Reload
    <2>1. /\ loads' = loads + 1 /\ loads < MaxLoads /\ buckets' = [k \in BucketKeys |-> None]
          /\ UNCHANGED <<clock, status, worker, sent, heard>>
        BY <1>1 DEF Reload
    <2>2. loads' \in 0 .. MaxLoads
        BY <2>1, BridgeAssumption DEF ShapeInv
    <2>3. clock' \in 0 .. MaxTime /\ clock <= clock' /\ heard' \in 0 .. MaxHeard
          /\ status' \in [Adapters -> {"absent", "down", "up"}]
        BY <2>1 DEF ShapeInv
    <2> QED  BY <2>1, <2>2, <2>3, ShapeRests
<1>2. CASE AdapterChanges
    <2>1. UNCHANGED <<clock, worker, sent, buckets, heard, loads>>
        BY <1>2 DEF AdapterChanges
    <2>2. status' \in [Adapters -> {"absent", "down", "up"}]
        BY <1>2 DEF AdapterChanges, ShapeInv
    <2>3. clock' \in 0 .. MaxTime /\ clock <= clock' /\ heard' \in 0 .. MaxHeard /\ loads' \in 0 .. MaxLoads
        BY <2>1 DEF ShapeInv
    <2> QED  BY <2>1, <2>2, <2>3, ShapeRests
<1>3. CASE UNCHANGED bridgeVars
    <2>1. UNCHANGED <<clock, status, worker, sent, buckets, heard, loads>>
        BY <1>3 DEF bridgeVars
    <2>2. /\ clock' \in 0 .. MaxTime /\ clock <= clock' /\ heard' \in 0 .. MaxHeard /\ loads' \in 0 .. MaxLoads
          /\ status' \in [Adapters -> {"absent", "down", "up"}]
        BY <2>1 DEF ShapeInv
    <2> QED  BY <2>1, <2>2, ShapeRests
<1> QED  BY <1>1, <1>2, <1>3, GoingOnKeepsShape, ArriveKeepsShape, TickKeepsShape
         DEF BridgeNext, UserSends, NetworkRepeats

-----------------------------------------------------------------------------
(* The theorems.                                                            *)

LEMMA BridgeStarts ==
    ASSUME BridgeInit
    PROVE  TypesInv /\ MemoryInv /\ ForwardedOnce /\ BudgetInv /\ RateRespected
<1>1. IsQueue(<< >>) /\ DOMAIN << >> = {}
    BY DEF IsQueue
<1>2. seen = << >> /\ onAir = << >> /\ clock = 0 /\ loads = 0
    BY DEF BridgeInit
<1>3. /\ DOMAIN worker = Workers /\ \A w \in Workers : worker[w] = Idle
      /\ DOMAIN buckets = BucketKeys /\ \A k \in BucketKeys : buckets[k] = None
    BY DEF BridgeInit
<1>4. TypesInv
    BY <1>1, <1>2, <1>3 DEF TypesInv
<1>5. \A leg \in Legs : buckets[BucketOf(leg)] = None
    BY <1>3, LegParts
<1> QED  BY <1>1, <1>2, <1>4, <1>5 DEF MemoryInv, ForwardedOnce, BudgetInv, RateRespected

LEMMA ShapeStarts ==
    ASSUME BridgeInit
    PROVE  ShapeInv
<1>1. IsQueue(<< >>) /\ Len(<< >>) = 0
    BY DEF IsQueue
<1> QED  BY <1>1, BridgeAssumption DEF BridgeInit, ShapeInv

\* Every step runs a leg, saves the rules or rests.
LEMMA BridgeSteps ==
    ASSUME TypesInv, [BridgeNext]_bridgeVars
    PROVE  (\E w \in Workers : \E leg, v : LegStep(w, leg, v)) \/ Reload \/ RestStep
<1>1. ASSUME NEW w \in Workers, RunLeg(w) PROVE \E x \in Workers : \E leg, v : LegStep(x, leg, v)
    BY <1>1, RunLegIsLegStep
<1>2. ASSUME UserSends PROVE RestStep
    BY <1>2, ArriveRests DEF UserSends
<1>3. ASSUME NetworkRepeats PROVE RestStep
    BY <1>3, ArriveRests DEF NetworkRepeats
<1>4. ASSUME AdapterChanges PROVE RestStep
    BY <1>4, OtherRests DEF AdapterChanges
<1>5. ASSUME UNCHANGED bridgeVars PROVE RestStep
    BY <1>5, OtherRests DEF bridgeVars
<1>6. ASSUME NEW w \in Workers, SendReturns(w) \/ Finish(w) PROVE RestStep
    BY <1>6, SendReturnsRests, FinishRests
<1> QED  BY <1>1, <1>2, <1>3, <1>4, <1>5, <1>6, TickRests DEF BridgeNext

\* Every step of the engine keeps its variables' types.
LEMMA BridgeStepKeepsTypes ==
    ASSUME TypesInv, [BridgeNext]_bridgeVars
    PROVE  TypesInv'
BY BridgeSteps, LegTypes, ReloadKeeps, RestTypes

\* The bridge's variables keep their types and its queues and buckets their
\* bounds: deque(maxlen) and _Bucket.take.
THEOREM BridgeTypeCorrect == BridgeSpec => []BridgeTypeOK
<1> DEFINE I == TypesInv /\ ShapeInv
<1>1. BridgeInit => I
    BY BridgeStarts, ShapeStarts
<1>2. I /\ [BridgeNext]_bridgeVars => I'
    BY BridgeStepKeepsTypes, StepKeepsShape
<1>3. I => BridgeTypeOK
    BY ShapeIsTypeOK
<1> QED  BY <1>1, <1>2, <1>3, PTL DEF BridgeSpec

\* "Multi-path duplicates are forwarded once": by any number of tasks, however
\* their sends overlap and whatever else is forwarded meanwhile.
THEOREM DuplicatesForwardedOnce == BridgeSpec => []ForwardedOnce
<1> DEFINE I == TypesInv /\ MemoryInv /\ ForwardedOnce
<1>1. BridgeInit => I
    BY BridgeStarts
<1>2. I /\ [BridgeNext]_bridgeVars => I'
    <2> SUFFICES ASSUME TypesInv, MemoryInv, ForwardedOnce, [BridgeNext]_bridgeVars
                 PROVE  TypesInv' /\ MemoryInv' /\ ForwardedOnce'
        OBVIOUS
    <2>1. ASSUME NEW w \in Workers, NEW leg, NEW v, LegStep(w, leg, v)
          PROVE  TypesInv' /\ MemoryInv' /\ ForwardedOnce'
        BY <2>1, LegTypes, LegMemory, LegOnce
    <2> QED  BY <2>1, BridgeSteps, ReloadKeeps, RestKeeps
<1>3. I => ForwardedOnce
    OBVIOUS
<1> QED  BY <1>1, <1>2, <1>3, PTL DEF BridgeSpec

\* "rate_per_min ... per direction; burst = same": in any stretch of time, for
\* rules whose names are their own.
THEOREM RatesAreRespected ==
    ASSUME RatesByName
    PROVE  BridgeSpec => []RateRespected
<1> DEFINE I == TypesInv /\ BudgetInv /\ RateRespected
<1>1. BridgeInit => I
    BY BridgeStarts
<1>2. I /\ [BridgeNext]_bridgeVars => I'
    <2> SUFFICES ASSUME TypesInv, BudgetInv, RateRespected, [BridgeNext]_bridgeVars
                 PROVE  TypesInv' /\ BudgetInv' /\ RateRespected'
        OBVIOUS
    <2>1. ASSUME NEW w \in Workers, NEW leg, NEW v, LegStep(w, leg, v)
          PROVE  TypesInv' /\ BudgetInv' /\ RateRespected'
        <3>1. TypesInv' /\ BudgetInv'
            BY <2>1, LegTypes, LegBudget
        <3> QED  BY <2>1, <3>1, LegRateRespected
    <2> QED  BY <2>1, BridgeSteps, ReloadKeeps, RestKeeps
<1>3. I => RateRespected
    OBVIOUS
<1> QED  BY <1>1, <1>2, <1>3, PTL DEF BridgeSpec

-----------------------------------------------------------------------------
(* Echoes.  A text that a network repeats soon enough is still among those  *)
(* sent, so the adapter that sent it drops it; one that another adapter of  *)
(* the network hears goes on only where the rules lead.                     *)

\* The legs a message of adapter a may take.
LegsFrom(a) == {leg \in Legs : RuleOf(leg).enabled /\ SrcEnd(leg).adapter = a}

Payloads == {Payload(m.text) : m \in Inputs}

\* Users' texts are not empty, and what they come to is not too short to be
\* looked for in another text.
LongTexts ==
    \A m \in Inputs : /\ IsQueue(m.text) /\ m.text # << >>
                      /\ ~ m.bridged => \A t \in Short : Payload(t) # Payload(m.text)

\* reach: where a text is heard, its author's adapter and those a chain of
\* rules and networks leads to, repeats to the sender aside.  No rule leads
\* from there to an adapter of an author.
LoopFree(reach) ==
    /\ \A m \in Inputs : ~ m.bridged => m.src \in reach[Payload(m.text)]
    /\ \A p \in Payloads, leg \in Legs :
          RuleOf(leg).enabled /\ SrcEnd(leg).adapter \in reach[p] =>
             /\ \A m \in Inputs : Payload(m.text) = p => DstEnd(leg).adapter # m.src
             /\ \A b \in Adapters : <<DstEnd(leg).adapter, b>> \in SharedNet => b \in reach[p]

\* The sends that one message may cause, one awaited after the other, and the
\* repeat of the last fit in the window.
Prompt ==
    \A a \in Adapters : LegsFrom(a) # {} =>
       RepeatWithin + SendWithin * (Cardinality(LegsFrom(a)) - 1) <= EchoWindow

\* What was sent to adapter a and may still be repeated.
Repeatable(a) == {k \in DOMAIN onAir : onAir[k].dst = a /\ clock - onAir[k].at <= RepeatWithin}

\* The queue of texts sent has room for what may still be repeated.
Spacious == \A a \in Adapters : Cardinality(Repeatable(a)) <= SentCap

OrderInv ==
    \A j, k \in DOMAIN onAir :
       /\ j < k => onAir[j].at <= onAir[k].at
       /\ onAir[k].leg \in LegsFrom(SrcEnd(onAir[k].leg).adapter)
       /\ onAir[k].dst = DstEnd(onAir[k].leg).adapter

\* A task has taken no longer than a send for each leg it is done with.
InTime(j) ==
    LET done == Cardinality(LegsFrom(j.msg.src)) - Cardinality(j.todo)
    IN  /\ j.since \in Nat
        /\ j.state = "busy" => clock - j.now <= SendWithin * done
        /\ j.state = "sending" => /\ j.since - j.now <= SendWithin * (done - 1)
                                  /\ clock - j.since <= SendWithin

DelayInv ==
    /\ \A w \in Workers : worker[w] # Idle => InTime(worker[w])
    /\ \A k \in DOMAIN onAir :
          onAir[k].at - onAir[k].cause <=
             SendWithin * (Cardinality(LegsFrom(SrcEnd(onAir[k].leg).adapter)) - 1)

\* The transmissions to the same adapter after number k.
Later(k) == {j \in DOMAIN onAir : k < j /\ onAir[j].dst = onAir[k].dst}

\* Transmission k is among the texts sent, no further from the end of the
\* queue than what was sent since.
Kept(k) ==
    LET q == sent[onAir[k].dst]
    IN  \E i \in DOMAIN q : /\ q[i].t = onAir[k].cause /\ q[i].text = onAir[k].text
                            /\ Len(q) - i <= Cardinality(Later(k))

EchoInv == \A k \in DOMAIN onAir : clock - onAir[k].at <= RepeatWithin => Kept(k)

\* The text, heard by adapter a, is a user's.
Carried(reach, text, a) ==
    /\ IsQueue(text) /\ text # << >>
    /\ \E m \in Inputs : ~ m.bridged /\ Payload(m.text) = Payload(text) /\ a \in reach[Payload(text)]

\* The message a task handles was sent by the adapter that has heard it.
Repeats(j) ==
    \E k \in DOMAIN onAir :
       /\ j.state = "busy" /\ j.now = clock /\ j.msg.src = onAir[k].dst
       /\ clock - onAir[k].at <= RepeatWithin
       /\ j.msg.text = onAir[k].text \/ j.msg.text = <<Deco>> \o onAir[k].text

CarryInv(reach) ==
    /\ \A k \in DOMAIN onAir : Carried(reach, onAir[k].text, SrcEnd(onAir[k].leg).adapter)
    /\ \A w \in Workers : worker[w] = Idle \/ Repeats(worker[w])
                             \/ Carried(reach, worker[w].msg.text, worker[w].msg.src)

-----------------------------------------------------------------------------
(* Texts and queues.                                                        *)

\* What is put before a text leaves its payload.
LEMMA PrefixedText ==
    ASSUME NEW t, IsQueue(t), t # << >>, NEW e
    PROVE  /\ IsQueue(<<e>> \o t) /\ <<e>> \o t # << >> /\ Payload(<<e>> \o t) = Payload(t)
           /\ Len(<<e>> \o t) = Len(t) + 1
           /\ \A i \in 1 .. Len(t) : (<<e>> \o t)[i + 1] = t[i]
<1> DEFINE S == Range(t) \cup {e}
<1>0. Len(t) \in Nat /\ t \in Seq(Range(t)) /\ Len(t) # 0
    BY QueueParts DEF IsQueue
<1>1. t \in Seq(S) /\ <<e>> \in Seq(S)
    <2>1. Range(t) \subseteq S /\ e \in S
        OBVIOUS
    <2> HIDE DEF S
    <2> QED  BY <1>0, <2>1
<1> HIDE DEF S
<1>2. <<e>> \o t \in Seq(S) /\ Len(<<e>> \o t) = Len(t) + 1
    BY <1>1
<1>3. \A i \in 1 .. Len(t) : (<<e>> \o t)[i + 1] = t[i]
    BY <1>0, <1>1
<1>4. IsQueue(<<e>> \o t)
    BY <1>2, QueueFrom
<1>5. Last(<<e>> \o t) = Last(t)
    BY <1>0, <1>2, <1>3 DEF Last
<1>6. <<e>> \o t # << >>
    BY <1>0, <1>2
<1> QED  BY <1>2, <1>3, <1>4, <1>5, <1>6 DEF Payload

\* A decorated text holds the text.
LEMMA PrefixedIsSame ==
    ASSUME NEW t, IsQueue(t), t # << >>, t \notin Short, NEW e
    PROVE  SameText(t, t) /\ SameText(t, <<e>> \o t)
<1> DEFINE d == <<e>> \o t
           n == Len(t)
<1>1. n \in Nat /\ Len(d) = n + 1 /\ \A i \in 1 .. n : d[i + 1] = t[i]
    BY PrefixedText, QueueParts
<1> HIDE DEF d, n
<1>2. Reverse(t) = [i \in 1 .. n |-> t[(n - i) + 1]] /\ Reverse(d) = [i \in 1 .. n + 1 |-> d[(n + 1 - i) + 1]]
    BY <1>1 DEF Reverse, n
<1>3. Len(Reverse(t)) = n /\ Len(Reverse(d)) = n + 1
    BY <1>1, <1>2
<1>4. \A i \in 1 .. n : Reverse(t)[i] = Reverse(d)[i]
    BY <1>1, <1>2
<1>5. SubSeq(Reverse(t), 1, n) = [i \in 1 .. n |-> Reverse(t)[i]]
    BY <1>1, <1>2, <1>3
<1>6. SubSeq(Reverse(d), 1, n) = [i \in 1 .. n |-> Reverse(d)[i]]
    BY <1>1, <1>2, <1>3
<1>7. SubSeq(Reverse(t), 1, n) = SubSeq(Reverse(d), 1, n)
    BY <1>4, <1>5, <1>6
<1>8. IsSuffix(t, d)
    BY <1>1, <1>3, <1>7 DEF IsSuffix, IsPrefix
<1> QED  BY <1>8 DEF SameText, IsLong, d

LEMMA FreshFinds ==
    ASSUME NEW q, IsQueue(q), NEW now, NEW j \in DOMAIN q, now - q[j].t <= EchoWindow
    PROVE  \E i \in DOMAIN Fresh(q, now) : Fresh(q, now)[i] = q[j]
BY FreshKeeps

\* Appending drops the oldest entry at most, and only of a full queue.
LEMMA RememberKeeps ==
    ASSUME NEW q, IsQueue(q), Len(q) <= SentCap, NEW e
    PROVE  /\ Len(Remember(q, e)) \in DOMAIN Remember(q, e) /\ Remember(q, e)[Len(Remember(q, e))] = e
           /\ \A j \in DOMAIN q :
                \/ Len(q) - j = SentCap - 1
                \/ \E i \in DOMAIN Remember(q, e) : /\ Remember(q, e)[i] = q[j]
                                                    /\ Len(Remember(q, e)) - i = (Len(q) - j) + 1
<1> DEFINE n == Len(q)
<1>0. n \in Nat /\ DOMAIN q = 1 .. n /\ q \in Seq(Range(q)) /\ SentCap \in Nat \ {0}
    BY QueueParts, BridgeAssumption DEF IsQueue
<1>1. CASE n < SentCap
    <2>1. Remember(q, e) = Append(q, e)
        BY <1>1 DEF Remember
    <2>2. /\ Len(Append(q, e)) = n + 1 /\ DOMAIN Append(q, e) = 1 .. n + 1
          /\ \A i \in DOMAIN q : Append(q, e)[i] = q[i]
          /\ Append(q, e)[n + 1] = e
        BY QueueAppend
    <2> HIDE DEF n
    <2>3. ASSUME NEW j \in DOMAIN q
          PROVE  j \in 1 .. n + 1 /\ (n + 1) - j = (n - j) + 1
        BY <1>0
    <2>4. \A j \in DOMAIN q : \E i \in DOMAIN Append(q, e) : /\ Append(q, e)[i] = q[j]
                                                            /\ Len(Append(q, e)) - i = (n - j) + 1
        BY <2>2, <2>3
    <2> QED  BY <1>0, <2>1, <2>2, <2>4 DEF n
<1>2. CASE ~ (n < SentCap)
    <2>0. Remember(q, e) = Append(Tail(q), e)
        BY <1>2 DEF Remember
    <2> DEFINE r == Tail(q)
    <2>1. n = SentCap /\ n # 0
        <3>1. n \in Nat /\ SentCap \in Nat /\ SentCap # 0 /\ n <= SentCap
            BY <1>0
        <3> QED  BY <3>1, <1>2
    <2>2. q # << >>
        BY <2>1
    <2>3. r \in Seq(Range(q)) /\ Len(r) = n - 1 /\ \A i \in 1 .. n - 1 : r[i] = q[i + 1]
        BY <1>0, <2>1, <2>2
    <2> HIDE DEF r
    <2>4. IsQueue(r)
        BY <2>3, QueueFrom
    <2>5. /\ Len(Append(r, e)) = Len(r) + 1 /\ DOMAIN Append(r, e) = 1 .. Len(r) + 1 /\ DOMAIN r = 1 .. Len(r)
          /\ \A i \in DOMAIN r : Append(r, e)[i] = r[i]
          /\ Append(r, e)[Len(r) + 1] = e
        BY <2>4, QueueAppend, QueueParts
    <2>6. Len(r) + 1 = n
        BY <1>0, <2>3
    <2> HIDE DEF n
    <2>7. ASSUME NEW j \in DOMAIN q, j # 1
          PROVE  j - 1 \in 1 .. n - 1 /\ j - 1 \in 1 .. n /\ (j - 1) + 1 = j /\ n - (j - 1) = (n - j) + 1
        BY <1>0, <2>7
    <2>8. ASSUME NEW j \in DOMAIN q, j # 1
          PROVE  /\ j - 1 \in DOMAIN Append(r, e) /\ Append(r, e)[j - 1] = q[j]
                 /\ Len(Append(r, e)) - (j - 1) = (n - j) + 1
        <3>1. DOMAIN r = 1 .. n - 1
            BY <1>0, <2>3, <2>5
        <3>2. Append(r, e)[j - 1] = r[j - 1] /\ r[j - 1] = q[(j - 1) + 1]
            BY <2>3, <2>5, <2>7, <2>8, <3>1
        <3> QED  BY <2>5, <2>6, <2>7, <2>8, <3>2
    <2>9. \A j \in DOMAIN q : j = 1 \/ \E i \in DOMAIN Append(r, e) :
                               Append(r, e)[i] = q[j] /\ Len(Append(r, e)) - i = (n - j) + 1
        BY <2>8
    <2>10. n \in 1 .. n
        BY <1>0, <2>1
    <2>11. n - 1 = SentCap - 1
        BY <2>1
    <2>12. \A j \in DOMAIN q : \/ n - j = SentCap - 1
                              \/ \E i \in DOMAIN Append(r, e) : /\ Append(r, e)[i] = q[j]
                                                               /\ Len(Append(r, e)) - i = (n - j) + 1
        BY <2>9, <2>11
    <2> QED  BY <2>0, <2>5, <2>6, <2>10, <2>12 DEF n, r
<1> QED  BY <1>1, <1>2

LEMMA RememberMoves ==
    ASSUME NEW q, IsQueue(q), Len(q) <= SentCap, NEW e, NEW j \in DOMAIN q
    PROVE  \/ Len(q) - j = SentCap - 1
           \/ \E i \in DOMAIN Remember(q, e) : /\ Remember(q, e)[i] = q[j]
                                               /\ Len(Remember(q, e)) - i = (Len(q) - j) + 1
<1>1. j \in Nat /\ Len(q) \in Nat
    BY QueueParts
<1>2. IsQueue(Remember(q, e))
    BY QueueLengths
<1>3. Len(Remember(q, e)) \in Nat /\ DOMAIN Remember(q, e) \subseteq Nat
    BY <1>2, QueueParts
<1> QED  BY <1>1, <1>3, RememberKeeps

-----------------------------------------------------------------------------
(* Delays.                                                                  *)

LEMMA LegsAreFinite ==
    ASSUME NEW a
    PROVE  /\ IsFiniteSet(LegsFrom(a)) /\ Cardinality(LegsFrom(a)) \in Nat
           /\ \A S \in SUBSET LegsFrom(a) :
                /\ IsFiniteSet(S) /\ Cardinality(S) \in Nat /\ Cardinality(S) <= Cardinality(LegsFrom(a))
                /\ \A leg \in S : Cardinality(S \ {leg}) = Cardinality(S) - 1
<1>1. IsFiniteSet({"a_to_b", "b_to_a"})
    <2>1. IsFiniteSet({"a_to_b"})
        BY FS_Singleton
    <2>2. IsFiniteSet({"a_to_b"} \cup {"b_to_a"})
        BY <2>1, FS_AddElement
    <2>3. {"a_to_b", "b_to_a"} = {"a_to_b"} \cup {"b_to_a"}
        OBVIOUS
    <2> QED  BY <2>2, <2>3
<1>2. IsFiniteSet((DOMAIN Rules) \X {"a_to_b", "b_to_a"})
    BY <1>1, BridgeAssumption, FS_Product
<1>3. LegsFrom(a) \in SUBSET ((DOMAIN Rules) \X {"a_to_b", "b_to_a"})
    BY DEF LegsFrom, Legs
<1>4. IsFiniteSet(LegsFrom(a))
    BY <1>2, <1>3, FS_Subset
<1>5. ASSUME NEW S \in SUBSET LegsFrom(a)
      PROVE  /\ IsFiniteSet(S) /\ Cardinality(S) \in Nat /\ Cardinality(S) <= Cardinality(LegsFrom(a))
             /\ \A leg \in S : Cardinality(S \ {leg}) = Cardinality(S) - 1
    BY <1>4, FS_Subset, FS_CardinalityType, FS_RemoveElement
<1> QED  BY <1>4, <1>5, FS_CardinalityType

LEMMA Products ==
    ASSUME NEW s \in Nat, NEW u \in Int
    PROVE  /\ s * u \in Int /\ s * (u - 1) \in Int /\ s * (u - 1) + s = s * u
           /\ \A n \in Int : u <= n => s * u <= s * n
OBVIOUS

LEMMA ItineraryIsFrom ==
    ASSUME NEW m
    PROVE  Itinerary(m) \subseteq LegsFrom(m.src)
BY DEF Itinerary, LegsFrom, Matches

LEMMA JobStarts ==
    ASSUME TypesInv, NEW m, NEW skip
    PROVE  InTime(Job(m, skip)) /\ Job(m, skip) # Idle
<1> DEFINE j == Job(m, skip)
<1>1. /\ j.msg = m /\ j.todo = Itinerary(m) /\ j.state = "busy" /\ j.now = clock /\ j.since = clock
      /\ j # Idle
    BY DEF Job, Idle
<1>2. clock \in Nat /\ SendWithin \in Nat
    BY BridgeAssumption DEF TypesInv
<1>3. Cardinality(LegsFrom(m.src)) - Cardinality(Itinerary(m)) \in Nat
    <2>1. /\ Cardinality(LegsFrom(m.src)) \in Nat /\ Cardinality(Itinerary(m)) \in Nat
          /\ Cardinality(Itinerary(m)) <= Cardinality(LegsFrom(m.src))
        BY ItineraryIsFrom, LegsAreFinite
    <2> QED  BY <2>1
<1> HIDE DEF j
<1>4. SendWithin * (Cardinality(LegsFrom(m.src)) - Cardinality(Itinerary(m))) \in Nat
    BY <1>2, <1>3
<1> QED  BY <1>1, <1>2, <1>4 DEF InTime, j

\* What a task may still do and how long it has taken.
LEMMA JobParts ==
    ASSUME TypesInv, ShapeInv, DelayInv, NEW w \in Workers, worker[w] # Idle
    PROVE  /\ worker[w].now \in Nat /\ worker[w].since \in Nat /\ worker[w].now <= clock
           /\ worker[w].state \in {"busy", "sending"}
           /\ worker[w].todo \subseteq LegsFrom(worker[w].msg.src)
           /\ Cardinality(LegsFrom(worker[w].msg.src)) - Cardinality(worker[w].todo) \in Nat
           /\ InTime(worker[w])
<1>1. TypedJob(worker[w]) /\ AJob(worker[w])
    BY DEF ShapeInv, TypesInv
<1>2. worker[w].todo \subseteq LegsFrom(worker[w].msg.src)
    BY <1>1, ItineraryIsFrom DEF TypedJob
<1>3. Cardinality(LegsFrom(worker[w].msg.src)) - Cardinality(worker[w].todo) \in Nat
    <2>1. /\ Cardinality(LegsFrom(worker[w].msg.src)) \in Nat /\ Cardinality(worker[w].todo) \in Nat
          /\ Cardinality(worker[w].todo) <= Cardinality(LegsFrom(worker[w].msg.src))
        BY <1>2, LegsAreFinite
    <2> QED  BY <2>1
<1> QED  BY <1>1, <1>2, <1>3 DEF TypedJob, DelayInv, AJob

LEMMA InTimeStays ==
    ASSUME NEW j, InTime(j), clock' = clock
    PROVE  InTime(j)'
BY DEF InTime, LegsFrom, Legs, RuleOf, SrcEnd

\* A leg is done with at once, or its send is awaited from now on.
LEMMA LegDelays ==
    ASSUME TypesInv, ShapeInv, DelayInv, NEW w \in Workers, worker[w].state = "busy",
           NEW leg, NEW v, LegStep(w, leg, v)
    PROVE  DelayInv'
<1> DEFINE j == worker[w]
           n == Cardinality(LegsFrom(j.msg.src))
           u == n - Cardinality(j.todo)
<1>1. /\ clock' = clock /\ clock \in Nat /\ SendWithin \in Nat /\ leg \in j.todo
      /\ v # "send" => worker'[w].state = "busy"
      /\ v = "send" => worker'[w].state = "sending"
      /\ worker'[w].todo = j.todo \ {leg}
    <2>1. worker' = [worker EXCEPT ![w].todo = @ \ {leg}, ![w].since = clock,
                                   ![w].state = IF v = "send" THEN "sending" ELSE "busy"]
        BY DEF LegStep
    <2>2. DOMAIN worker = Workers /\ {"state", "since", "todo"} \subseteq DOMAIN worker[w]
        BY DEF TypesInv, LegStep, AJob
    <2> QED  BY <2>1, <2>2, BridgeAssumption DEF LegStep, TypesInv
<1>2. /\ \A x \in Workers \ {w} : worker'[x] = worker[x]
      /\ j # Idle /\ worker'[w].msg = j.msg /\ worker'[w].now = j.now /\ worker'[w].since = clock
    BY LegWorkers
<1>3. /\ j.now \in Nat /\ j.now <= clock /\ u \in Nat /\ j.todo \subseteq LegsFrom(j.msg.src)
      /\ clock - j.now <= SendWithin * u
    BY <1>2, JobParts DEF InTime
<1>4. n \in Nat /\ Cardinality(j.todo) \in Nat /\ Cardinality(j.todo \ {leg}) = Cardinality(j.todo) - 1
    BY <1>1, <1>3, LegsAreFinite
<1>5. Cardinality(j.todo) >= 1
    <2>1. Cardinality(j.todo \ {leg}) \in Nat
        BY <1>3, LegsAreFinite
    <2> QED  BY <1>4, <2>1
<1>6. n - Cardinality(worker'[w].todo) = u + 1 /\ u <= n - 1 /\ u <= u + 1
    BY <1>1, <1>4, <1>5
<1>7. /\ SendWithin * u <= SendWithin * (u + 1) /\ SendWithin * u <= SendWithin * (n - 1)
      /\ SendWithin * u \in Int /\ SendWithin * (u + 1) \in Int /\ SendWithin * (n - 1) \in Int
    <2>1. n - 1 \in Int /\ u + 1 \in Int /\ u \in Int
        BY <1>3, <1>4
    <2> HIDE DEF u, n
    <2> QED  BY <1>1, <1>6, <2>1, Products
<1>8. InTime(worker[w])'
    <2>0. Cardinality(LegsFrom(worker'[w].msg.src)) - Cardinality(worker'[w].todo) = u + 1
        BY <1>2, <1>6
    <2>1. v # "send" => clock - j.now <= SendWithin * (u + 1)
        BY <1>1, <1>3, <1>7
    <2>2. (u + 1) - 1 = u
        BY <1>3
    <2>3. LegsFrom(worker[w].msg.src)' = LegsFrom(worker'[w].msg.src)
        BY DEF LegsFrom, Legs, RuleOf, SrcEnd
    <2> HIDE DEF u, n
    <2>4. clock - clock <= SendWithin
        BY <1>1
    <2> QED  BY <1>1, <1>2, <1>3, <2>0, <2>1, <2>2, <2>3, <2>4 DEF InTime
<1>9. ASSUME NEW x \in Workers \ {w}, worker'[x] # Idle
      PROVE  InTime(worker[x])'
    <2>1. PICK y : y = worker[x] /\ worker'[x] = y
        BY <1>2
    <2>2. InTime(y)
        BY <1>9, <2>1 DEF DelayInv
    <2>3. InTime(y)'
        BY <1>1, <2>2, InTimeStays
    <2> QED  BY <2>1, <2>3
<1>10. ASSUME NEW k \in DOMAIN onAir'
       PROVE  onAir'[k].at - onAir'[k].cause <=
                 SendWithin * (Cardinality(LegsFrom(SrcEnd(onAir'[k].leg).adapter)) - 1)
    <2>1. CASE k \in DOMAIN onAir /\ onAir'[k] = onAir[k]
        BY <2>1 DEF DelayInv
    <2>2. CASE ~ (k \in DOMAIN onAir /\ onAir'[k] = onAir[k])
        <3>1. v = "send" /\ onAir'[k] = Sending(j, leg)
            BY <2>2, LegOnAir
        <3>2. onAir'[k].at = clock /\ onAir'[k].cause = j.now /\ onAir'[k].leg = leg
            BY <3>1, SendingParts
        <3>3. SrcEnd(leg).adapter = j.msg.src
            BY <1>1, <1>3 DEF LegsFrom
        <3> HIDE DEF u
        <3>4. clock - j.now <= SendWithin * (n - 1)
            BY <1>1, <1>3, <1>7
        <3> QED  BY <3>2, <3>3, <3>4
    <2> QED  BY <2>1, <2>2
<1> QED  BY <1>8, <1>9, <1>10 DEF DelayInv, LegsFrom, Legs, RuleOf, SrcEnd

\* A step that puts nothing on the air, by a task or by none.
LEMMA RestDelays ==
    ASSUME DelayInv, UNCHANGED <<onAir, clock>>,
           \A w \in Workers : worker'[w] = worker[w] \/ worker'[w] = Idle \/ InTime(worker'[w])
    PROVE  DelayInv'
<1>1. ASSUME NEW w \in Workers, worker'[w] # Idle
      PROVE  InTime(worker[w])'
    <2>1. PICK j : j = worker'[w]
        OBVIOUS
    <2>2. InTime(j)
        BY <1>1, <2>1 DEF DelayInv
    <2>3. InTime(j)'
        BY <2>2, InTimeStays
    <2> QED  BY <2>1, <2>3
<1> QED  BY <1>1 DEF DelayInv, LegsFrom, Legs, RuleOf, SrcEnd

\* The send returns within its time.
LEMMA ReturnDelays ==
    ASSUME TypesInv, ShapeInv, DelayInv, NEW w \in Workers, SendReturns(w)
    PROVE  DelayInv'
<1> DEFINE j == worker[w]
           u == Cardinality(LegsFrom(j.msg.src)) - Cardinality(j.todo)
<1>1. /\ \A x \in Workers \ {w} : worker'[x] = worker[x]
      /\ j # Idle /\ worker'[w].msg = j.msg /\ worker'[w].todo = j.todo
      /\ worker'[w].now = j.now /\ worker'[w].since = j.since /\ worker'[w].state = "busy"
    BY SendReturnsRests
<1>2. UNCHANGED <<onAir, clock>> /\ j.state = "sending" /\ clock \in Nat /\ SendWithin \in Nat
    BY BridgeAssumption DEF SendReturns, TypesInv
<1>3. /\ j.now \in Nat /\ j.since \in Nat /\ u \in Nat
      /\ j.since - j.now <= SendWithin * (u - 1) /\ clock - j.since <= SendWithin
    BY <1>1, <1>2, JobParts DEF InTime
<1>4. clock - j.now <= SendWithin * u
    <2> HIDE DEF u, j
    <2>1. SendWithin * (u - 1) \in Int /\ SendWithin * u \in Int /\ SendWithin * (u - 1) + SendWithin = SendWithin * u
        BY <1>2, <1>3, Products
    <2> QED  BY <1>2, <1>3, <2>1
<1>5. InTime(worker'[w])
    <2> HIDE DEF u
    <2>1. Cardinality(LegsFrom(worker'[w].msg.src)) - Cardinality(worker'[w].todo) = u
        BY <1>1 DEF u
    <2> QED  BY <1>1, <1>2, <1>3, <1>4, <2>1 DEF InTime
<1> QED  BY <1>1, <1>2, <1>5, RestDelays

\* Time passes only while every task awaits a send that may still take some.
LEMMA TickDelays ==
    ASSUME TypesInv, ShapeInv, DelayInv, Tick
    PROVE  DelayInv'
<1>1. /\ clock' = clock + 1 /\ clock \in Nat /\ SendWithin \in Nat /\ worker' = worker /\ onAir' = onAir
      /\ \A w \in Workers : worker[w].state # "busy"
      /\ \A w \in Workers : worker[w].state = "sending" => clock - worker[w].since < SendWithin
    BY BridgeAssumption DEF Tick, TypesInv, Busy
<1>2. ASSUME NEW w \in Workers, worker[w] # Idle
      PROVE  InTime(worker[w])'
    <2>1. worker[w].since \in Nat /\ InTime(worker[w]) /\ worker[w].state = "sending"
        BY <1>1, <1>2, JobParts
    <2>2. clock - worker[w].since < SendWithin
        BY <1>1, <2>1
    <2>3. (clock + 1) - worker[w].since <= SendWithin
        BY <1>1, <2>1, <2>2
    <2> QED  BY <1>1, <2>1, <2>3 DEF InTime, LegsFrom, Legs, RuleOf, SrcEnd
<1> QED  BY <1>1, <1>2 DEF DelayInv, LegsFrom, Legs, RuleOf, SrcEnd

-----------------------------------------------------------------------------
(* What is on the air, in order, and what is remembered of it.              *)

LEMMA LegOrder ==
    ASSUME TypesInv, ShapeInv, OrderInv, NEW w \in Workers, NEW leg, NEW v, LegStep(w, leg, v)
    PROVE  OrderInv'
<1>1. leg \in LegsFrom(SrcEnd(leg).adapter)
    <2>1. leg \in worker[w].todo /\ worker[w] # Idle
        BY LegWorkers DEF LegStep
    <2>2. worker[w].todo \subseteq Itinerary(worker[w].msg)
        BY <2>1 DEF ShapeInv, TypedJob
    <2> QED  BY <2>1, <2>2 DEF Itinerary, LegsFrom
<1>2. CASE onAir' = onAir
    BY <1>2 DEF OrderInv, LegsFrom, Legs, RuleOf, SrcEnd, DstEnd
<1>3. CASE onAir' # onAir
    <2>0. PICK new \in Nat : new = Len(onAir) + 1
        BY <1>3, LegOnAir
    <2>1. /\ DOMAIN onAir' = 1 .. new /\ DOMAIN onAir = 1 .. Len(onAir) /\ Len(onAir) \in Nat
          /\ \A i \in DOMAIN onAir : onAir'[i] = onAir[i]
          /\ onAir'[new] = Sending(worker[w], leg)
        BY <1>3, <2>0, LegOnAir
    <2>2. onAir'[new].at = clock /\ onAir'[new].leg = leg /\ onAir'[new].dst = DstEnd(leg).adapter
        BY <2>1, SendingParts
    <2>3. \A k \in DOMAIN onAir' : k = new \/ (k \in DOMAIN onAir /\ onAir'[k] = onAir[k] /\ k < new)
        BY <2>0, <2>1
    <2>4. \A k \in DOMAIN onAir : onAir[k].at <= clock
        BY DEF TypesInv
    <2>5. ASSUME NEW j \in DOMAIN onAir', NEW k \in DOMAIN onAir', j < k
          PROVE  onAir'[j].at <= onAir'[k].at
        <3>1. j \in DOMAIN onAir /\ onAir'[j] = onAir[j]
            BY <2>0, <2>1, <2>5
        <3> QED  BY <2>2, <2>3, <2>4, <2>5, <3>1 DEF OrderInv
    <2>6. ASSUME NEW k \in DOMAIN onAir'
          PROVE  /\ onAir'[k].leg \in LegsFrom(SrcEnd(onAir'[k].leg).adapter)
                 /\ onAir'[k].dst = DstEnd(onAir'[k].leg).adapter
        BY <1>1, <2>2, <2>3 DEF OrderInv
    <2> QED  BY <2>5, <2>6 DEF OrderInv, LegsFrom, Legs, RuleOf, SrcEnd, DstEnd
<1> QED  BY <1>2, <1>3

LEMMA PartsAreFinite ==
    ASSUME NEW q, IsQueue(q), NEW S \in SUBSET DOMAIN q
    PROVE  IsFiniteSet(S) /\ Cardinality(S) \in Nat
<1>1. DOMAIN q = 1 .. Len(q) /\ Len(q) \in Nat
    BY QueueParts
<1>2. IsFiniteSet(DOMAIN q)
    BY <1>1, FS_Interval
<1> QED  BY <1>2, FS_Subset, FS_CardinalityType

\* A text that may be repeated is young enough to be found in the queue.
LEMMA YoungEnough ==
    ASSUME Prompt, TypesInv, OrderInv, DelayInv, NEW k \in DOMAIN onAir,
           clock - onAir[k].at <= RepeatWithin
    PROVE  clock - onAir[k].cause <= EchoWindow
<1> DEFINE a == SrcEnd(onAir[k].leg).adapter
           d == SendWithin * (Cardinality(LegsFrom(a)) - 1)
<1>1. /\ onAir[k].at \in Nat /\ onAir[k].cause \in Nat /\ clock \in Nat /\ onAir[k].leg \in Legs
      /\ {SendWithin, RepeatWithin, EchoWindow} \subseteq Nat
    BY BridgeAssumption DEF TypesInv
<1>2. LegsFrom(a) # {}
    BY DEF OrderInv
<1>3. a \in Adapters
    BY <1>1, BridgeAssumption DEF Legs, SrcEnd, RuleOf
<1>4. RepeatWithin + d <= EchoWindow
    BY <1>2, <1>3 DEF Prompt
<1>5. onAir[k].at - onAir[k].cause <= d
    BY DEF DelayInv
<1>6. d \in Int
    <2>1. Cardinality(LegsFrom(a)) - 1 \in Int
        BY LegsAreFinite
    <2> HIDE DEF a
    <2> QED  BY <1>1, <2>1
<1> HIDE DEF d
<1> QED  BY <1>1, <1>4, <1>5, <1>6

\* The queues after a leg: popped, and the text sent appended.
LEMMA SentParts ==
    ASSUME ShapeInv, NEW w, NEW leg, NEW v, SentStep(w, leg, v), DstEnd(leg).adapter \in Adapters
    PROVE  \E pruned :
             /\ DOMAIN pruned = Adapters
             /\ \A a \in Adapters : /\ IsQueue(pruned[a]) /\ Len(pruned[a]) <= SentCap
                                    /\ pruned[a] \in {sent[a], Fresh(sent[a], worker[w].now)}
             /\ v # "send" => sent' = pruned
             /\ v = "send" =>
                  LET b == DstEnd(leg).adapter
                      e == [t |-> worker[w].now, text |-> Shape(leg, worker[w].msg)]
                  IN  /\ sent'[b] = Remember(pruned[b], e)
                      /\ \A a \in Adapters \ {b} : sent'[a] = pruned[a]
<1> DEFINE now == worker[w].now
           src == worker[w].msg.src
           b   == DstEnd(leg).adapter
           e   == [t |-> now, text |-> Shape(leg, worker[w].msg)]
           pruned == [sent EXCEPT ![src] = Fresh(@, now)]
<1>1. sent' = IF v = "send" THEN [pruned EXCEPT ![b] = Remember(@, e)] ELSE pruned
    BY Zenon DEF SentStep
<1>2. DOMAIN sent = Adapters /\ \A a \in Adapters : IsQueue(sent[a]) /\ Len(sent[a]) <= SentCap
    BY DEF ShapeInv
<1>3. DOMAIN pruned = Adapters /\ \A a \in Adapters : pruned[a] \in {sent[a], Fresh(sent[a], now)}
    BY <1>2
<1>4. ASSUME NEW a \in Adapters PROVE IsQueue(pruned[a]) /\ Len(pruned[a]) <= SentCap
    <2>1. IsQueue(sent[a]) /\ Len(sent[a]) <= SentCap
        BY <1>2
    <2>2. IsQueue(Fresh(sent[a], now)) /\ Len(Fresh(sent[a], now)) <= Len(sent[a])
        BY <2>1, QueueLengths
    <2>3. Len(Fresh(sent[a], now)) \in Nat /\ Len(sent[a]) \in Nat /\ SentCap \in Nat
        BY <2>1, <2>2, QueueParts, BridgeAssumption
    <2>4. pruned[a] \in {sent[a], Fresh(sent[a], now)}
        BY <1>3
    <2> HIDE DEF pruned
    <2> QED  BY <2>1, <2>2, <2>3, <2>4
<1> HIDE DEF pruned, e
<1>5. v = "send" => /\ sent'[b] = Remember(pruned[b], e)
                    /\ \A a \in Adapters \ {b} : sent'[a] = pruned[a]
    BY <1>1, <1>3
<1> QED  BY <1>1, <1>3, <1>4, <1>5 DEF e

\* No queue is so full that a text is dropped that may yet be repeated.
LEMMA LegKeepsSent ==
    ASSUME Prompt, TypesInv, ShapeInv, OrderInv, DelayInv, EchoInv, Spacious', OrderInv', TypesInv',
           NEW w \in Workers, NEW leg, NEW v, LegStep(w, leg, v), SentStep(w, leg, v),
           NEW k \in DOMAIN onAir, clock - onAir[k].at <= RepeatWithin
    PROVE  Kept(k)'
<1> DEFINE d == onAir[k].dst
           b == DstEnd(leg).adapter
           e == [t |-> worker[w].now, text |-> Shape(leg, worker[w].msg)]
<1>0. /\ clock' = clock /\ clock \in Nat /\ leg \in Legs /\ b \in Adapters /\ d \in Adapters
      /\ worker[w].now \in Nat /\ worker[w].now <= clock
      /\ {RepeatWithin, EchoWindow} \subseteq Nat /\ SentCap \in Nat
    <2>1. leg \in Legs /\ onAir[k].leg \in Legs /\ d = DstEnd(onAir[k].leg).adapter
        BY DEF LegStep, TypesInv, OrderInv
    <2>2. b \in Adapters /\ d \in Adapters
        BY <2>1, BridgeAssumption DEF Legs, DstEnd, RuleOf
    <2> QED  BY <2>1, <2>2, BridgeAssumption DEF LegStep, AJob, TypesInv
<1>1. PICK pruned :
             /\ DOMAIN pruned = Adapters
             /\ \A a \in Adapters : /\ IsQueue(pruned[a]) /\ Len(pruned[a]) <= SentCap
                                    /\ pruned[a] \in {sent[a], Fresh(sent[a], worker[w].now)}
             /\ v # "send" => sent' = pruned
             /\ v = "send" => /\ sent'[b] = Remember(pruned[b], e)
                              /\ \A a \in Adapters \ {b} : sent'[a] = pruned[a]
    BY <1>0, SentParts
<1>2. PICK i \in DOMAIN sent[d] : /\ sent[d][i].t = onAir[k].cause /\ sent[d][i].text = onAir[k].text
                                  /\ Len(sent[d]) - i <= Cardinality(Later(k))
    BY DEF EchoInv, Kept
<1>3. PICK p \in DOMAIN pruned[d] : pruned[d][p] = sent[d][i] /\ Len(pruned[d]) - p = Len(sent[d]) - i
    <2>1. CASE pruned[d] = sent[d]
        BY <2>1
    <2>2. CASE pruned[d] = Fresh(sent[d], worker[w].now)
        <3>1. clock - onAir[k].cause <= EchoWindow /\ onAir[k].cause \in Nat
            BY YoungEnough DEF TypesInv
        <3>2. worker[w].now - sent[d][i].t <= EchoWindow
            BY <1>0, <1>2, <3>1
        <3>3. IsQueue(sent[d])
            BY <1>0 DEF ShapeInv
        <3> QED  BY <2>2, <3>2, <3>3, FreshKeeps
    <2> QED  BY <1>0, <1>1, <2>1, <2>2
<1>4. /\ IsFiniteSet(Later(k)) /\ Cardinality(Later(k)) \in Nat
      /\ IsFiniteSet(Later(k)') /\ Cardinality(Later(k)') \in Nat
    <2>1. IsQueue(onAir) /\ IsQueue(onAir') /\ Later(k) \subseteq DOMAIN onAir /\ Later(k)' \subseteq DOMAIN onAir'
        BY DEF TypesInv, Later
    <2> QED  BY <2>1, PartsAreFinite
<1>5. CASE v # "send" \/ d # b
    <2>1. sent'[d] = pruned[d] /\ onAir'[k] = onAir[k]
        BY <1>0, <1>1, <1>5, LegOnAir
    <2>2. Later(k) \subseteq Later(k)'
        <3>1. \A n \in DOMAIN onAir : n \in DOMAIN onAir' /\ onAir'[n] = onAir[n]
            BY LegOnAir
        <3> QED  BY <3>1 DEF Later
    <2>3. Cardinality(Later(k)) <= Cardinality(Later(k)')
        BY <1>4, <2>2, FS_Subset
    <2>4. Len(pruned[d]) - p <= Cardinality(Later(k)')
        <3>1. Len(pruned[d]) \in Nat /\ p \in Nat
            BY <1>0, <1>1, <1>3, QueueParts
        <3>2. Len(pruned[d]) - p <= Cardinality(Later(k))
            BY <1>2, <1>3
        <3> QED  BY <1>4, <2>3, <3>1, <3>2
    <2> QED  BY <1>2, <1>3, <2>1, <2>4 DEF Kept
<1>6. CASE v = "send" /\ d = b
    <2>0. PICK new \in Nat : new = Len(onAir) + 1
        BY QueueParts DEF TypesInv
    <2>1. /\ DOMAIN onAir' = 1 .. new /\ DOMAIN onAir = 1 .. Len(onAir) /\ Len(onAir) \in Nat
          /\ \A n \in DOMAIN onAir : onAir'[n] = onAir[n]
          /\ onAir'[new] = Sending(worker[w], leg)
        BY <1>6, <2>0, LegOnAir
    <2>2. onAir'[new].at = clock /\ onAir'[new].dst = d
        BY <1>6, <2>1, SendingParts
    <2>3. new \in DOMAIN onAir' /\ new \notin DOMAIN onAir /\ k < new
        BY <2>0, <2>1
    <2>4. Later(k)' = Later(k) \cup {new}
        <3>1. Later(k)' = {j \in DOMAIN onAir' : k < j /\ onAir'[j].dst = d}
            BY <2>1 DEF Later
        <3>2. \A j \in DOMAIN onAir' : j = new \/ j \in DOMAIN onAir
            BY <2>0, <2>1
        <3>3. \A j \in DOMAIN onAir : j \in DOMAIN onAir'
            BY <2>0, <2>1
        <3> QED  BY <2>1, <2>2, <2>3, <3>1, <3>2, <3>3 DEF Later
    <2>5. Cardinality(Later(k)') = Cardinality(Later(k)) + 1
        BY <1>4, <2>3, <2>4, FS_AddElement DEF Later
    <2>6. IsQueue(pruned[d]) /\ Len(pruned[d]) <= SentCap
        BY <1>0, <1>1
    <2>7. Len(pruned[d]) \in Nat /\ p \in Nat
        BY <1>3, <2>6, QueueParts
    <2>8. Len(pruned[d]) - p <= Cardinality(Later(k))
        BY <1>2, <1>3
    <2>9. sent'[d] = Remember(pruned[d], e)
        BY <1>1, <1>6
    <2>10. CASE Len(pruned[d]) - p = SentCap - 1
        <3> DEFINE R == {j \in DOMAIN onAir' : onAir'[j].dst = d /\ clock - onAir'[j].at <= RepeatWithin}
        <3>1. Cardinality(R) <= SentCap
            BY <1>0 DEF Spacious, Repeatable
        <3>2. k \notin Later(k)' /\ IsFiniteSet(Later(k)' \cup {k})
              /\ Cardinality(Later(k)' \cup {k}) = Cardinality(Later(k)') + 1
            <4>1. k \notin Later(k)'
                BY <2>1 DEF Later
            <4> QED  BY <1>4, <4>1, FS_AddElement
        <3>3. Later(k)' \cup {k} \subseteq R
            <4>1. \A j \in DOMAIN onAir' : onAir'[j].at \in Nat
                BY DEF TypesInv
            <4>2. k \in R
                BY <2>1, <2>3
            <4>3. ASSUME NEW j \in Later(k)' PROVE j \in R
                <5>1. j \in DOMAIN onAir' /\ k < j /\ onAir'[j].dst = d /\ k \in DOMAIN onAir'
                    BY <2>0, <2>1, <4>3 DEF Later
                <5>2. onAir'[k].at <= onAir'[j].at
                    BY <5>1 DEF OrderInv
                <5>3. clock - onAir'[j].at <= RepeatWithin
                    BY <1>0, <2>1, <4>1, <5>1, <5>2
                <5> QED  BY <5>1, <5>3
            <4> QED  BY <4>2, <4>3
        <3>4. IsFiniteSet(R)
            <4>1. IsFiniteSet(DOMAIN onAir')
                BY <2>1, FS_Interval
            <4> QED  BY <4>1, FS_Subset
        <3>5. Cardinality(Later(k)') + 1 <= Cardinality(R) /\ Cardinality(R) \in Nat
            <4> HIDE DEF R
            <4> QED  BY <3>2, <3>3, <3>4, FS_Subset, FS_CardinalityType
        <3> HIDE DEF R
        <3> QED  BY <1>0, <1>4, <2>5, <2>7, <2>8, <2>10, <3>1, <3>5
    <2>11. CASE \E q \in DOMAIN Remember(pruned[d], e) :
                  /\ Remember(pruned[d], e)[q] = pruned[d][p]
                  /\ Len(Remember(pruned[d], e)) - q = (Len(pruned[d]) - p) + 1
        <3>1. PICK q \in DOMAIN sent'[d] : /\ sent'[d][q] = pruned[d][p]
                                           /\ Len(sent'[d]) - q = (Len(pruned[d]) - p) + 1
            BY <2>9, <2>11
        <3>2. Len(sent'[d]) - q <= Cardinality(Later(k)')
            BY <1>4, <2>5, <2>7, <2>8, <3>1
        <3> QED  BY <1>2, <1>3, <2>1, <3>1, <3>2 DEF Kept
    <2>12. \/ Len(pruned[d]) - p = SentCap - 1
           \/ \E q \in DOMAIN Remember(pruned[d], e) :
                 /\ Remember(pruned[d], e)[q] = pruned[d][p]
                 /\ Len(Remember(pruned[d], e)) - q = (Len(pruned[d]) - p) + 1
        <3> HIDE DEF e, d
        <3> QED  BY <1>3, <2>6, RememberMoves
    <2> QED  BY <2>10, <2>11, <2>12
<1> QED  BY <1>5, <1>6

LEMMA LegEchoes ==
    ASSUME Prompt, TypesInv, ShapeInv, OrderInv, DelayInv, EchoInv, Spacious', OrderInv', TypesInv',
           NEW w \in Workers, NEW leg, NEW v, LegStep(w, leg, v), SentStep(w, leg, v)
    PROVE  EchoInv'
<1>1. clock' = clock
    BY DEF LegStep
<1>2. ASSUME NEW k \in DOMAIN onAir, clock - onAir[k].at <= RepeatWithin
      PROVE  Kept(k)'
    BY <1>2, LegKeepsSent
<1>3. CASE onAir' = onAir
    BY <1>1, <1>2, <1>3 DEF EchoInv
<1>4. CASE onAir' # onAir
    <2>0. PICK new \in Nat : new = Len(onAir) + 1
        BY <1>4, LegOnAir
    <2>1. /\ v = "send" /\ DOMAIN onAir' = 1 .. new /\ DOMAIN onAir = 1 .. Len(onAir) /\ Len(onAir) \in Nat
          /\ \A n \in DOMAIN onAir : onAir'[n] = onAir[n]
          /\ onAir'[new] = Sending(worker[w], leg)
        BY <1>4, <2>0, LegOnAir
    <2> DEFINE b == DstEnd(leg).adapter
               e == [t |-> worker[w].now, text |-> Shape(leg, worker[w].msg)]
    <2>2. onAir'[new].dst = b /\ onAir'[new].cause = e.t /\ onAir'[new].text = e.text
        BY <2>1 DEF Sending
    <2>3. b \in Adapters
        BY BridgeAssumption DEF LegStep, Legs, DstEnd, RuleOf
    <2>4. PICK q : sent'[b] = Remember(q, e) /\ IsQueue(q) /\ Len(q) <= SentCap
        <3>1. PICK pruned :
                /\ \A a \in Adapters : IsQueue(pruned[a]) /\ Len(pruned[a]) <= SentCap
                /\ sent'[b] = Remember(pruned[b], e)
            BY <2>1, <2>3, SentParts
        <3> QED  BY <2>3, <3>1
    <2> HIDE DEF e
    <2>5. Len(sent'[b]) \in DOMAIN sent'[b] /\ sent'[b][Len(sent'[b])] = e
        BY <2>4, RememberKeeps
    <2>6. Len(sent'[b]) - Len(sent'[b]) <= Cardinality(Later(new)')
        <3>1. Cardinality(Later(new)') \in Nat
            BY PartsAreFinite DEF TypesInv, Later
        <3>2. Len(sent'[b]) \in Nat
            BY <2>4, QueueLengths, QueueParts
        <3> QED  BY <3>1, <3>2
    <2>7. Kept(new)'
        BY <2>2, <2>5, <2>6 DEF Kept
    <2>8. \A k \in DOMAIN onAir' : k = new \/ k \in DOMAIN onAir
        BY <2>0, <2>1
    <2> QED  BY <1>1, <1>2, <2>1, <2>7, <2>8 DEF EchoInv
<1> QED  BY <1>3, <1>4

\* The other steps leave what was sent, and make it older.
LEMMA RestEchoes ==
    ASSUME TypesInv, EchoInv, UNCHANGED <<onAir, sent>>, clock' \in Nat, clock <= clock'
    PROVE  EchoInv'
<1>1. ASSUME NEW k \in DOMAIN onAir, clock' - onAir[k].at <= RepeatWithin
      PROVE  Kept(k)'
    <2>1. clock \in Nat /\ onAir[k].at \in Nat /\ RepeatWithin \in Nat
        BY BridgeAssumption DEF TypesInv
    <2>2. clock - onAir[k].at <= RepeatWithin
        BY <1>1, <2>1
    <2>3. Kept(k)
        BY <2>2 DEF EchoInv
    <2> QED  BY <2>3 DEF Kept, Later
<1> QED  BY <1>1 DEF EchoInv

-----------------------------------------------------------------------------
(* Where a text goes.                                                       *)

\* What the sender of a transmission hears of it again it drops.
LEMMA RepeatsStop ==
    ASSUME NEW reach, LongTexts, Prompt, TypesInv, ShapeInv, OrderInv, DelayInv, EchoInv, CarryInv(reach),
           NEW w \in Workers, NEW leg, LegStep(w, leg, "send")
    PROVE  ~ Repeats(worker[w])
<1> DEFINE m   == worker[w].msg
           now == worker[w].now
<1> SUFFICES ASSUME Repeats(worker[w]) PROVE IsEcho(m, now)
    BY LegVerdict
<1>1. PICK k \in DOMAIN onAir :
         /\ now = clock /\ m.src = onAir[k].dst /\ clock - onAir[k].at <= RepeatWithin
         /\ m.text = onAir[k].text \/ m.text = <<Deco>> \o onAir[k].text
    BY DEF Repeats
<1> DEFINE t == onAir[k].text
           q == sent[onAir[k].dst]
<1>2. IsQueue(t) /\ t # << >> /\ t \notin Short
    BY DEF CarryInv, Carried, LongTexts
<1>3. PICK i \in DOMAIN q : q[i].t = onAir[k].cause /\ q[i].text = t
    BY <1>1 DEF EchoInv, Kept
<1>4. now - q[i].t <= EchoWindow
    BY <1>1, <1>3, YoungEnough
<1>5. IsQueue(q)
    <2>1. onAir[k].dst \in Adapters
        BY BridgeAssumption DEF OrderInv, LegsFrom, Legs, DstEnd, RuleOf
    <2> QED  BY <2>1 DEF ShapeInv
<1>6. SameText(t, m.text)
    BY <1>1, <1>2, PrefixedIsSame
<1>7. \E n \in DOMAIN Fresh(q, now) : Fresh(q, now)[n] = q[i]
    <2> HIDE DEF q, now
    <2> QED  BY <1>4, <1>5, FreshFinds
<1>8. EchoQueue(m.src, now) = Fresh(q, now)
    BY <1>1 DEF EchoQueue
<1> HIDE DEF q, now, t
<1>9. q[i] \in Range(EchoQueue(m.src, now))
    BY <1>7, <1>8 DEF Range
<1> QED  BY <1>3, <1>6, <1>9 DEF IsEcho

LEMMA LegCarries ==
    ASSUME NEW reach, LongTexts, Prompt, TypesInv, ShapeInv, OrderInv, DelayInv, EchoInv, CarryInv(reach),
           NEW w \in Workers, NEW leg, NEW v, LegStep(w, leg, v)
    PROVE  CarryInv(reach)'
<1> DEFINE m == worker[w].msg
<1>1. /\ \A x \in Workers \ {w} : worker'[x] = worker[x]
      /\ worker[w] # Idle /\ worker'[w].msg = m /\ worker'[w].now = worker[w].now
      /\ worker'[w].state \in {"busy", "sending"} /\ clock' = clock
    BY LegWorkers DEF LegStep
<1>2. \A k \in DOMAIN onAir : k \in DOMAIN onAir' /\ onAir'[k] = onAir[k]
    BY LegOnAir
<1>3. ASSUME NEW j, Repeats(j) PROVE Repeats(j)'
    BY <1>1, <1>2, <1>3 DEF Repeats
<1>4. v = "send" => Carried(reach, m.text, m.src)
    BY <1>1, RepeatsStop DEF CarryInv
<1>5. v # "send" => worker'[w].state = "busy"
    BY DEF LegStep, TypesInv, AJob
<1>6. Carried(reach, m.text, m.src) \/ Repeats(worker[w])'
    <2>1. CASE Repeats(worker[w])
        <3>1. v # "send"
            BY <2>1, RepeatsStop
        <3>2. PICK j : j = worker'[w]
            OBVIOUS
        <3>3. Repeats(j)
            BY <1>1, <1>5, <2>1, <3>1, <3>2 DEF Repeats
        <3>4. Repeats(j)'
            BY <1>3, <3>3
        <3> QED  BY <3>2, <3>4 DEF Repeats
    <2>2. CASE ~ Repeats(worker[w])
        BY <1>1, <2>2 DEF CarryInv
    <2> QED  BY <2>1, <2>2
<1>7. ASSUME NEW x \in Workers
      PROVE  \/ worker'[x] = Idle \/ Repeats(worker[x])'
             \/ Carried(reach, worker'[x].msg.text, worker'[x].msg.src)
    <2>1. CASE x = w
        BY <1>1, <1>6, <2>1
    <2>2. CASE x # w
        <3>1. worker'[x] = worker[x]
            BY <1>1, <2>2
        <3> QED  BY <1>3, <3>1 DEF CarryInv
    <2> QED  BY <2>1, <2>2
<1>8. ASSUME NEW k \in DOMAIN onAir'
      PROVE  Carried(reach, onAir'[k].text, SrcEnd(onAir'[k].leg).adapter)
    <2>1. CASE k \in DOMAIN onAir
        BY <1>2, <2>1 DEF CarryInv
    <2>2. CASE k \notin DOMAIN onAir
        <3>1. v = "send" /\ onAir'[k] = Sending(worker[w], leg)
            BY <2>2, LegOnAir
        <3>2. onAir'[k].leg = leg /\ onAir'[k].text = Shape(leg, m)
            BY <3>1 DEF Sending
        <3>3. SrcEnd(leg).adapter = m.src
            <4>1. leg \in worker[w].todo /\ worker[w].todo \subseteq LegsFrom(m.src)
                BY <1>1, JobParts DEF LegStep
            <4> QED  BY <4>1 DEF LegsFrom
        <3>4. Carried(reach, m.text, m.src)
            BY <1>4, <3>1
        <3>5. Carried(reach, <<m.from>> \o m.text, m.src)
            BY <3>4, PrefixedText DEF Carried
        <3> QED  BY <3>2, <3>3, <3>4, <3>5 DEF Shape
    <2> QED  BY <2>1, <2>2
<1> QED  BY <1>7, <1>8 DEF CarryInv

\* A step that sends nothing and leaves the clock.
LEMMA RestCarries ==
    ASSUME NEW reach, CarryInv(reach), UNCHANGED <<onAir, clock>>,
           \A w \in Workers : \/ worker'[w] = worker[w] \/ worker'[w] = Idle \/ Repeats(worker'[w])
                              \/ Carried(reach, worker'[w].msg.text, worker'[w].msg.src)
    PROVE  CarryInv(reach)'
<1>1. ASSUME NEW j, Repeats(j) PROVE Repeats(j)'
    BY <1>1 DEF Repeats
<1>2. ASSUME NEW w \in Workers
      PROVE  \/ worker'[w] = Idle \/ Repeats(worker[w])'
             \/ Carried(reach, worker'[w].msg.text, worker'[w].msg.src)
    <2>1. PICK j : j = worker'[w]
        OBVIOUS
    <2>2. j = Idle \/ Repeats(j) \/ Carried(reach, j.msg.text, j.msg.src)
        BY <2>1 DEF CarryInv
    <2> QED  BY <1>1, <2>1, <2>2
<1> QED  BY <1>2 DEF CarryInv

LEMMA TickCarries ==
    ASSUME NEW reach, CarryInv(reach), Tick
    PROVE  CarryInv(reach)'
<1>1. worker' = worker /\ onAir' = onAir /\ \A w \in Workers : worker[w].state # "busy"
    BY DEF Tick, Busy
<1>2. \A w \in Workers : ~ Repeats(worker[w])
    BY <1>1 DEF Repeats
<1> QED  BY <1>1, <1>2 DEF CarryInv

LEMMA ReturnCarries ==
    ASSUME NEW reach, TypesInv, CarryInv(reach), NEW w \in Workers, SendReturns(w)
    PROVE  CarryInv(reach)'
<1>1. /\ \A x \in Workers \ {w} : worker'[x] = worker[x]
      /\ worker[w] # Idle /\ worker'[w].msg = worker[w].msg
    BY SendReturnsRests
<1>2. UNCHANGED <<onAir, clock>> /\ ~ Repeats(worker[w])
    BY DEF SendReturns, Repeats
<1>3. Carried(reach, worker'[w].msg.text, worker'[w].msg.src)
    BY <1>1, <1>2 DEF CarryInv
<1> QED  BY <1>1, <1>2, <1>3, RestCarries

\* A message is heard: a user's, or one that goes over its network.
LEMMA HeardCarries ==
    ASSUME NEW reach, TypesInv, CarryInv(reach), NEW m, Arrive(m),
           ~ m.bridged => Repeats(Job(m, {})) \/ Carried(reach, m.text, m.src)
    PROVE  CarryInv(reach)'
<1> DEFINE n == IF Ignored(m) THEN Idle ELSE Job(m, {})
<1>1. worker' = [worker EXCEPT ![WorkerOf[m.src]] = n] /\ UNCHANGED <<onAir, clock>> /\ DOMAIN worker = Workers
    BY DEF Arrive, TypesInv
<1>2. n = Idle \/ Repeats(n) \/ Carried(reach, n.msg.text, n.msg.src)
    <2>1. Job(m, {}).msg = m
        BY DEF Job
    <2> QED  BY <2>1 DEF Ignored
<1> HIDE DEF n
<1>3. \A w \in Workers : worker'[w] = worker[w] \/ worker'[w] = n
    BY <1>1
<1> QED  BY <1>1, <1>2, <1>3, RestCarries

LEMMA UsersCarry ==
    ASSUME NEW reach, LoopFree(reach), LongTexts, TypesInv, CarryInv(reach), UserSends
    PROVE  CarryInv(reach)'
<1>1. PICK m \in Inputs : Arrive(m)
    BY DEF UserSends
<1>2. ~ m.bridged => Carried(reach, m.text, m.src)
    BY DEF Carried, LoopFree, LongTexts
<1> QED  BY <1>1, <1>2, HeardCarries

LEMMA NetworksCarry ==
    ASSUME NEW reach, LoopFree(reach), LongTexts, TypesInv, OrderInv, CarryInv(reach), NetworkRepeats
    PROVE  CarryInv(reach)'
<1>1. PICK k \in DOMAIN onAir, a \in Adapters :
         /\ clock - onAir[k].at <= RepeatWithin
         /\ a = onAir[k].dst \/ <<onAir[k].dst, a>> \in SharedNet
         /\ \E text \in {onAir[k].text, <<Deco>> \o onAir[k].text} : Arrive(EchoOf(k, a, text))
    BY DEF NetworkRepeats
<1>2. PICK text : /\ text = onAir[k].text \/ text = <<Deco>> \o onAir[k].text
                  /\ Arrive(EchoOf(k, a, text))
    BY <1>1
<1> DEFINE m == EchoOf(k, a, text)
           j == Job(m, {})
<1>3. /\ m.src = a /\ m.text = text
      /\ j.msg = m /\ j.state = "busy" /\ j.now = clock
    BY DEF EchoOf, Job
<1> HIDE DEF m, j
<1>4. CASE a = onAir[k].dst
    <2>1. Repeats(j)
        BY <1>1, <1>2, <1>3, <1>4 DEF Repeats
    <2> QED  BY <1>2, <2>1, HeardCarries DEF m, j
<1>5. CASE <<onAir[k].dst, a>> \in SharedNet
    <2> DEFINE t == onAir[k].text
               s == SrcEnd(onAir[k].leg).adapter
    <2>1. Carried(reach, t, s)
        BY DEF CarryInv
    <2>2. Payload(t) \in Payloads /\ s \in reach[Payload(t)]
        BY <2>1 DEF Carried, Payloads
    <2>3. /\ onAir[k].leg \in Legs /\ RuleOf(onAir[k].leg).enabled
          /\ onAir[k].dst = DstEnd(onAir[k].leg).adapter
        BY DEF OrderInv, LegsFrom
    <2>4. a \in reach[Payload(t)]
        BY <1>5, <2>2, <2>3 DEF LoopFree
    <2>5. Carried(reach, t, a)
        BY <2>1, <2>4 DEF Carried
    <2>6. Carried(reach, <<Deco>> \o t, a)
        BY <2>5, PrefixedText DEF Carried
    <2>7. Carried(reach, m.text, m.src)
        BY <1>2, <1>3, <2>5, <2>6
    <2> QED  BY <1>2, <2>7, HeardCarries DEF m
<1> QED  BY <1>1, <1>4, <1>5

-----------------------------------------------------------------------------
(* Nothing returns.                                                         *)

ReturnInv(reach) == OrderInv /\ DelayInv /\ EchoInv /\ CarryInv(reach)

LEMMA ReturnStarts ==
    ASSUME NEW reach, BridgeInit
    PROVE  ReturnInv(reach)
<1>1. DOMAIN << >> = {} /\ onAir = << >> /\ \A w \in Workers : worker[w] = Idle
    BY DEF BridgeInit
<1> QED  BY <1>1 DEF ReturnInv, OrderInv, DelayInv, EchoInv, CarryInv

LEMMA ReturnSteps ==
    ASSUME NEW reach, LoopFree(reach), LongTexts, Prompt, TypesInv, ShapeInv, TypesInv', ReturnInv(reach),
           Spacious', [BridgeNext]_bridgeVars
    PROVE  ReturnInv(reach)'
<1> USE DEF ReturnInv
<1>0. clock \in Nat
    BY DEF TypesInv
<1>1. ASSUME NEW w \in Workers, RunLeg(w) PROVE ReturnInv(reach)'
    <2>1. worker[w].state = "busy"
        BY <1>1 DEF RunLeg
    <2>2. PICK leg, v : LegStep(w, leg, v) /\ SentStep(w, leg, v)
        BY <1>1, RunLegIsLegStep
    <2>3. OrderInv'
        BY <2>2, LegOrder
    <2> QED  BY <2>1, <2>2, <2>3, LegDelays, LegEchoes, LegCarries
<1>2. ASSUME UNCHANGED onAir PROVE OrderInv'
    BY <1>2 DEF OrderInv, LegsFrom, Legs, RuleOf, SrcEnd, DstEnd
<1>3. ASSUME NEW w \in Workers, SendReturns(w) PROVE ReturnInv(reach)'
    <2>1. UNCHANGED <<onAir, sent, clock>>
        BY <1>3 DEF SendReturns
    <2> QED  BY <1>0, <1>2, <1>3, <2>1, ReturnDelays, RestEchoes, ReturnCarries
<1>4. ASSUME NEW w \in Workers, Finish(w) PROVE ReturnInv(reach)'
    <2>1. UNCHANGED <<onAir, sent, clock>> /\ \A x \in Workers : worker'[x] = worker[x] \/ worker'[x] = Idle
        BY <1>4 DEF Finish, TypesInv
    <2> QED  BY <1>0, <1>2, <2>1, RestDelays, RestEchoes, RestCarries
<1>5. ASSUME NEW m, Arrive(m), CarryInv(reach)' PROVE ReturnInv(reach)'
    <2>1. /\ UNCHANGED <<onAir, sent, clock>>
          /\ \A x \in Workers : worker'[x] = worker[x] \/ worker'[x] = Idle \/ worker'[x] = Job(m, {})
        BY <1>5 DEF Arrive, TypesInv
    <2>2. DelayInv'
        BY <2>1, JobStarts, RestDelays
    <2> QED  BY <1>0, <1>2, <1>5, <2>1, <2>2, RestEchoes
<1>6. ASSUME UserSends PROVE ReturnInv(reach)'
    BY <1>5, <1>6, UsersCarry DEF UserSends
<1>7. ASSUME NetworkRepeats PROVE ReturnInv(reach)'
    BY <1>5, <1>7, NetworksCarry DEF NetworkRepeats
<1>8. ASSUME Tick PROVE ReturnInv(reach)'
    <2>1. UNCHANGED <<onAir, sent>> /\ clock' \in Nat /\ clock <= clock'
        BY <1>0, <1>8 DEF Tick
    <2> QED  BY <1>2, <1>8, <2>1, TickDelays, RestEchoes, TickCarries
<1>9. ASSUME UNCHANGED <<onAir, sent, clock, worker>> PROVE ReturnInv(reach)'
    BY <1>0, <1>2, <1>9, RestDelays, RestEchoes, RestCarries
<1>10. ASSUME Reload \/ AdapterChanges \/ UNCHANGED bridgeVars PROVE ReturnInv(reach)'
    BY <1>9, <1>10 DEF Reload, AdapterChanges, bridgeVars
<1> QED  BY <1>1, <1>3, <1>4, <1>6, <1>7, <1>8, <1>10 DEF BridgeNext

LEMMA CarriedIsGone ==
    ASSUME NEW reach, LoopFree(reach), OrderInv, CarryInv(reach)
    PROVE  NothingReturns
<1> SUFFICES ASSUME NEW k \in DOMAIN onAir, NEW m \in Inputs, Payload(onAir[k].text) = Payload(m.text)
             PROVE  onAir[k].dst # m.src
    BY DEF NothingReturns
<1>1. SrcEnd(onAir[k].leg).adapter \in reach[Payload(m.text)] /\ Payload(m.text) \in Payloads
    BY DEF CarryInv, Carried, Payloads
<1>2. /\ onAir[k].leg \in Legs /\ RuleOf(onAir[k].leg).enabled
      /\ onAir[k].dst = DstEnd(onAir[k].leg).adapter
    BY DEF OrderInv, LegsFrom
<1> QED  BY <1>1, <1>2 DEF LoopFree

\* "Network echoes are dropped": as long as the rules lead from no adapter that
\* may hear a text to its author's, the sends of one message and the repeat of
\* the last fit in the window, and the queue of texts sent has room for what may
\* still be repeated, no text goes back to its author's adapter.
THEOREM NothingEverReturns ==
    ASSUME NEW reach, LoopFree(reach), LongTexts, Prompt
    PROVE  BridgeSpec /\ []Spacious => []NothingReturns
<1> DEFINE I == TypesInv /\ ShapeInv /\ ReturnInv(reach)
<1>1. BridgeInit => I
    BY BridgeStarts, ShapeStarts, ReturnStarts
<1>2. I /\ Spacious' /\ [BridgeNext]_bridgeVars => I'
    BY BridgeStepKeepsTypes, StepKeepsShape, ReturnSteps
<1>3. I => NothingReturns
    BY CarriedIsGone DEF ReturnInv
<1> QED  BY <1>1, <1>2, <1>3, PTL DEF BridgeSpec
=============================================================================
