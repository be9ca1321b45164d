------------------------------- MODULE Bridge -------------------------------
(***************************************************************************)
(* The bridge engine (ech/core/bridge.py): forwarding of inbound messages  *)
(* between adapters by rules, with echo suppression, multi-path duplicate  *)
(* suppression and a token bucket per rule direction.                      *)
(*                                                                         *)
(* apply() is a coroutine that runs in the caller's task and gives the     *)
(* event loop up only while it awaits target.send().  A worker is a task   *)
(* that may be inside apply(); it handles one message at a time.  A worker *)
(* in state "busy" has the loop, and no other worker moves until it awaits *)
(* a send or is done.                                                      *)
(*                                                                         *)
(* Text is a sequence of words: the payload, after any attribution or      *)
(* decoration put in front of it.  What the engine tells apart is equality *)
(* and containment of long enough texts, and both are kept; a truncated    *)
(* text is its own payload.                                                *)
(***************************************************************************)
EXTENDS Integers, Sequences, FiniteSets, SequencesExt

CONSTANTS
    Adapters,       \* adapter names
    Aprs,           \* those whose class is an APRS adapter
    Rules,          \* the compiled rules, in order
    Inputs,         \* messages users may send on the networks
    SharedNet,      \* pairs of adapters that listen to one network
    Callsigns,      \* senders whose name holds an amateur callsign
    Workers,        \* tasks that run apply()
    WorkerOf,       \* the receive task of each adapter
    Short,          \* texts of fewer than eight characters
    Deco,           \* the word a network puts before a text it repeats
    Token,          \* one bucket token, in the units of the rates
    EchoWindow,     \* DEDUPE_WINDOW_S, in clock ticks
    TicksPerMinute,
    SentCap,        \* maxlen of each _sent queue
    RepeatWithin,   \* ticks within which a network repeats a transmission
    SendWithin,     \* ticks within which an adapter's send() returns
    Volatile,       \* adapters that come and go
    MaxTime, MaxHeard, MaxLoads,   \* bounds: clock, messages heard, rule saves
    None

\* Tokens are whole in these units, the rules are a finite list with ends that
\* are adapters, and no bucket is None.
ASSUME BridgeAssumption ==
    /\ {Token, EchoWindow, RepeatWithin, SendWithin, MaxTime, MaxHeard, MaxLoads} \subseteq Nat
    /\ {TicksPerMinute, SentCap} \subseteq Nat \ {0}
    /\ IsFiniteSet(DOMAIN Rules)
    /\ \A r \in DOMAIN Rules : /\ Rules[r].rate \in Nat
                              /\ {Rules[r].a.adapter, Rules[r].b.adapter} \subseteq Adapters
    /\ None \notin [rate : Nat, tokens : Nat, last : Nat]

VARIABLES
    clock,
    status,    \* adapter -> "absent", "down" (or paused), "up"
    worker,    \* what each worker is doing
    sent,      \* _sent: adapter -> queue of [t, text]
    seen,      \* _seen: queue of [t, key]
    buckets,   \* _buckets: rule name and direction -> [rate, tokens, last], or None
    outcomes,  \* decisions recorded so far: <<key, verdict>>
    onAir,     \* transmissions made by the bridge
    heard,     \* number of messages heard
    loads      \* number of times the rules were saved again

bridgeVars == <<clock, status, worker, sent, seen, buckets, outcomes, onAir, heard, loads>>

-----------------------------------------------------------------------------
(* Rules and messages.                                                      *)

RuleOf(leg) == Rules[leg[1]]

\* BridgeRule.legs: a leg is a rule and a direction it forwards along.
Legs == {leg \in (DOMAIN Rules) \X {"a_to_b", "b_to_a"} : RuleOf(leg).direction \in {leg[2], "both"}}

\* The order in which the legs are run.
Before(k, l) == k[1] < l[1] \/ (k[1] = l[1] /\ k[2] = "a_to_b" /\ l[2] = "b_to_a")

\* A bucket belongs to a rule's name and a direction.
BucketOf(leg) == <<RuleOf(leg).name, leg[2]>>
BucketKeys    == {Rules[r].name : r \in DOMAIN Rules} \X {"a_to_b", "b_to_a"}

\* setdefault: the bucket, a new one full, at the rate of the rule that asks.
Bucket(leg) ==
    IF buckets[BucketOf(leg)] # None
    THEN buckets[BucketOf(leg)]
    ELSE [rate |-> RuleOf(leg).rate, tokens |-> RuleOf(leg).rate, last |-> clock]
SrcEnd(leg) == IF leg[2] = "a_to_b" THEN RuleOf(leg).a ELSE RuleOf(leg).b
DstEnd(leg) == IF leg[2] = "a_to_b" THEN RuleOf(leg).b ELSE RuleOf(leg).a

\* _matches: does the message belong to the endpoint?
Matches(ep, m, types) ==
    /\ m.src = ep.adapter
    /\ IF m.src \in Aprs
       THEN m.kind = "text" /\ ep.listen # None /\ m.addr = ep.listen
       ELSE /\ m.kind \in types
            /\ ep.channel # None => m.chan = ep.channel

\* The legs of enabled rules that message m belongs to.
Itinerary(m) ==
    {leg \in Legs : RuleOf(leg).enabled /\ Matches(SrcEnd(leg), m, RuleOf(leg).types)}

IsLong(text) == text \notin Short

\* Seeded fault: only equal texts are taken for an echo.
SameTextExactly(s, t) == s = t

\* Equal texts, or one inside the other unless the shorter is too short.
SameText(s, t) ==
    \/ s = t
    \/ IsLong(s) /\ IsSuffix(s, t)
    \/ IsLong(t) /\ IsSuffix(t, s)

\* What is left of a queue once entries older than the window are popped.
Fresh(q, now) ==
    LET young == {k \in DOMAIN q : now - q[k].t <= EchoWindow}
    IN  IF young = {} THEN <<>> ELSE SubSeq(q, Min(young), Len(q))

EchoQueue(a, now) == Fresh(sent[a], now)

IsEcho(m, now) ==
    \E e \in Range(EchoQueue(m.src, now)) : SameText(e.text, m.text)

\* deque(maxlen=...).append
Remember(q, e) ==
    IF Len(q) < SentCap THEN Append(q, e) ELSE Append(Tail(q), e)

KeyOf(leg, m) == [rule |-> RuleOf(leg).name, dir |-> leg[2], from |-> m.from, text |-> m.text]

\* Seeded fault: only the newest key is looked at.
IsDuplicateOfLast(leg, m, now) ==
    LET q == Fresh(seen, now)
    IN  q # <<>> /\ Last(q).key = KeyOf(leg, m)

IsDuplicate(leg, m, now) ==
    \E e \in Range(Fresh(seen, now)) : e.key = KeyOf(leg, m)

\* Seeded fault: the elapsed time counts twice.
LevelTwiceAsFast(leg) ==
    LET b == Bucket(leg)
    IN  Min({b.rate, b.tokens + (2 * (clock - b.last) * b.rate) \div TicksPerMinute})

\* _Bucket.take: refill for the time elapsed, never above the bucket's rate.
Level(leg) ==
    LET b == Bucket(leg)
    IN  Min({b.rate, b.tokens + ((clock - b.last) * b.rate) \div TicksPerMinute})

Shape(leg, m) == IF RuleOf(leg).prefix THEN <<m.from>> \o m.text ELSE m.text

\* The verdicts of apply(), in the order of its checks.
Verdicts == <<"echo", "noCallsign", "duplicate", "alreadyHeard", "noTarget",
              "noAddressee", "rate", "dryRun", "notConnected", "send">>

\* The check of verdict v stops message m on its way along the leg.
Stops(v, leg, m, now, skip) ==
    LET dst == DstEnd(leg)
    IN  CASE v = "echo"         -> IsEcho(m, now)
          [] v = "noCallsign"   -> RuleOf(leg).callsignOnly /\ m.from \notin Callsigns
          [] v = "duplicate"    -> IsDuplicate(leg, m, now)
          [] v = "alreadyHeard" -> dst.adapter \in skip
          [] v = "noTarget"     -> status[dst.adapter] = "absent"
          [] v = "noAddressee"  -> dst.adapter \in Aprs /\ dst.to = None
          [] v = "rate"         -> Level(leg) < Token
          [] v = "dryRun"       -> RuleOf(leg).dryRun
          [] v = "notConnected" -> status[dst.adapter] # "up"
          [] v = "send"         -> TRUE

\* The first check that stops the message decides.
Verdict(leg, m, now, skip) ==
    Verdicts[CHOOSE k \in DOMAIN Verdicts :
                /\ Stops(Verdicts[k], leg, m, now, skip)
                /\ \A j \in 1..(k - 1) : ~Stops(Verdicts[j], leg, m, now, skip)]

\* The message got as far as the check of verdict w.
Reached(v, w) ==
    LET place(x) == CHOOSE k \in DOMAIN Verdicts : Verdicts[k] = x
    IN  place(v) >= place(w)

-----------------------------------------------------------------------------
(* apply()                                                                  *)

Idle == [state |-> "idle"]

Busy == \E w \in Workers : worker[w].state = "busy"

Job(m, skip) ==
    [state |-> "busy", msg |-> m, now |-> clock, start |-> heard, since |-> clock,
     todo |-> Itinerary(m), skip |-> skip]

\* The early returns: our own output, status notices, an unknown source.
Ignored(m) == m.bridged \/ m.notice \/ status[m.src] = "absent"

\* One leg, up to the await of the send if the message gets that far.
RunLeg(w) ==
    /\ worker[w].state = "busy"
    /\ \E leg \in worker[w].todo :
       LET job == worker[w]
           m   == job.msg
           dst == DstEnd(leg)
           out == Shape(leg, m)
       IN  \E v \in {Verdict(leg, m, job.now, job.skip)} :
           /\ \A other \in job.todo \ {leg} : Before(leg, other)
           /\ worker' = [worker EXCEPT ![w].todo = @ \ {leg}, ![w].since = clock,
                                       ![w].state = IF v = "send" THEN "sending" ELSE "busy"]
           /\ outcomes' = outcomes \cup {<<KeyOf(leg, m), v>>}
           /\ seen' = IF Reached(v, "alreadyHeard")
                      THEN Append(Fresh(seen, job.now), [t |-> job.now, key |-> KeyOf(leg, m)])
                      ELSE IF v = "duplicate" THEN Fresh(seen, job.now) ELSE seen
           /\ buckets' = IF Reached(v, "rate")
                         THEN [buckets EXCEPT ![BucketOf(leg)] =
                                 [rate   |-> Bucket(leg).rate,
                                  tokens |-> Level(leg) - (IF v = "rate" THEN 0 ELSE Token),
                                  last   |-> clock]]
                         ELSE buckets
           /\ LET pruned == [sent EXCEPT ![m.src] = Fresh(@, job.now)]
              IN  IF v = "send"
                  THEN /\ sent' = [pruned EXCEPT ![dst.adapter] =
                                      Remember(@, [t |-> job.now, text |-> out])]
                       /\ onAir' = Append(onAir, [leg |-> leg, dst |-> dst.adapter,
                                                  chan |-> dst.channel, addr |-> dst.to,
                                                  text |-> out, at |-> clock, load |-> loads,
                                                  of |-> m, cause |-> job.now,
                                                  start |-> job.start])
                  ELSE sent' = pruned /\ UNCHANGED onAir
    /\ UNCHANGED <<clock, status, heard, loads>>

\* The awaited send returns or raises; the loop over the legs goes on.
SendReturns(w) ==
    /\ ~Busy
    /\ worker[w].state = "sending"
    /\ worker' = [worker EXCEPT ![w].state = "busy"]
    /\ UNCHANGED <<clock, status, sent, seen, buckets, outcomes, onAir, heard, loads>>

Finish(w) ==
    /\ worker[w].state = "busy"
    /\ worker[w].todo = {}
    /\ worker' = [worker EXCEPT ![w] = Idle]
    /\ UNCHANGED <<clock, status, sent, seen, buckets, outcomes, onAir, heard, loads>>

\* The rule list was saved again: ensure_loaded compiles it anew.
Reload ==
    /\ ~Busy
    /\ loads < MaxLoads
    /\ loads' = loads + 1
    /\ buckets' = [k \in BucketKeys |-> None]
    /\ UNCHANGED <<clock, status, worker, sent, seen, outcomes, onAir, heard>>

-----------------------------------------------------------------------------
(* The networks.  A message is heard by an adapter whose receive task is     *)
(* free: its queue is not modelled, a later arrival stands for waiting.      *)

Arrive(m) ==
    LET w == WorkerOf[m.src]
    IN  /\ ~Busy
        /\ worker[w] = Idle
        /\ status[m.src] = "up"
        /\ heard < MaxHeard
        /\ heard' = heard + 1
        /\ worker' = [worker EXCEPT ![w] = IF Ignored(m) THEN Idle ELSE Job(m, {})]
        /\ UNCHANGED <<clock, status, sent, seen, buckets, outcomes, onAir, loads>>

UserSends == \E m \in Inputs : Arrive(m)

\* A transmission as an adapter on the same network hears it again.
EchoOf(k, a, text) ==
    [src |-> a, chan |-> onAir[k].chan, addr |-> onAir[k].addr, kind |-> "text",
     from |-> onAir[k].of.from, text |-> text, bridged |-> FALSE, notice |-> FALSE]

NetworkRepeats ==
    \E k \in DOMAIN onAir, a \in Adapters :
       /\ clock - onAir[k].at <= RepeatWithin
       /\ a = onAir[k].dst \/ <<onAir[k].dst, a>> \in SharedNet
       /\ \E text \in {onAir[k].text, <<Deco>> \o onAir[k].text} : Arrive(EchoOf(k, a, text))

\* Adapters connect, fail, are paused, removed and registered.
AdapterChanges ==
    /\ ~Busy
    /\ \E a \in Volatile, s \in {"absent", "down", "up"} :
          status[a] # s /\ status' = [status EXCEPT ![a] = s]
    /\ UNCHANGED <<clock, worker, sent, seen, buckets, outcomes, onAir, heard, loads>>

Tick ==
    /\ ~Busy
    /\ clock < MaxTime
    /\ \A w \in Workers : worker[w].state = "sending" => clock - worker[w].since < SendWithin
    /\ clock' = clock + 1
    /\ UNCHANGED <<status, worker, sent, seen, buckets, outcomes, onAir, heard, loads>>

BridgeInit ==
    /\ clock = 0
    /\ status = [a \in Adapters |-> "up"]
    /\ worker = [w \in Workers |-> Idle]
    /\ sent = [a \in Adapters |-> <<>>]
    /\ seen = <<>>
    /\ buckets = [k \in BucketKeys |-> None]
    /\ outcomes = {}
    /\ onAir = <<>>
    /\ heard = 0
    /\ loads = 0

BridgeNext ==
    \/ \E w \in Workers : RunLeg(w) \/ SendReturns(w) \/ Finish(w)
    \/ Reload \/ UserSends \/ NetworkRepeats \/ AdapterChanges \/ Tick

BridgeSpec == BridgeInit /\ [][BridgeNext]_bridgeVars

-----------------------------------------------------------------------------
(* Properties                                                               *)

Payload(text) == Last(text)

BridgeTypeOK ==
    /\ clock \in 0..MaxTime
    /\ status \in [Adapters -> {"absent", "down", "up"}]
    /\ \A w \in Workers : worker[w] = Idle \/
          /\ worker[w].state \in {"busy", "sending"}
          /\ worker[w].now \in 0..worker[w].since
          /\ worker[w].since \in 0..clock
          /\ worker[w].todo \subseteq Itinerary(worker[w].msg)
    /\ \A a \in Adapters : Len(sent[a]) <= SentCap
    /\ \A k \in BucketKeys : buckets[k] = None \/
          /\ buckets[k].tokens \in 0..buckets[k].rate
          /\ buckets[k].last \in 0..clock
    /\ heard \in 0..MaxHeard
    /\ loads \in 0..MaxLoads

\* "Network echoes are dropped" (README): a text never goes back, through any
\* chain of rules and repeats, to the adapter its author used.
NothingReturns ==
    \A k \in DOMAIN onAir, m \in Inputs :
       Payload(onAir[k].text) = Payload(m.text) => onAir[k].dst # m.src

\* "Multi-path duplicates are forwarded once" (README): a text of one sender
\* goes out on a leg again only when the message it first answered was heard
\* more than the window ago, even when copies come in while the first send is
\* awaited.  (Not when the copy was heard: while an earlier leg of the copy
\* awaits its send, a younger message may drop the first one from the queue.)
ForwardedOnce ==
    \A j, k \in DOMAIN onAir :
       j < k /\ onAir[j].leg = onAir[k].leg /\ onAir[j].of.text = onAir[k].of.text
             /\ onAir[j].of.from = onAir[k].of.from
       => onAir[k].at - onAir[j].cause > EchoWindow

\* "rate_per_min ... per direction; burst = same" (bridge.py): in any stretch
\* of time between two saves of the rules, a leg sends at most its burst and
\* what the rate adds meanwhile.
RateRespected ==
    \A j, k \in DOMAIN onAir :
       LET leg   == onAir[j].leg
           count == Cardinality({i \in j..k : onAir[i].leg = leg})
           full  == RuleOf(leg).rate
       IN  j <= k /\ onAir[k].leg = leg /\ onAir[j].load = onAir[k].load =>
              count * Token * TicksPerMinute <=
                 full * TicksPerMinute + (onAir[k].at - onAir[j].at) * full

\* "Forwarded once": a copy is dropped as a duplicate only of a message that
\* was in fact sent.
DuplicateOfSent ==
    \A o \in outcomes : o[2] = "duplicate" => <<o[1], "send">> \in outcomes
=============================================================================
