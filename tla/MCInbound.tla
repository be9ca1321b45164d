------------------------------ MODULE MCInbound ------------------------------
(* Instances of Inbound for TLC: two radios of one family, A and B, on one    *)
(* channel, with a bridge between them.  The radios agree on the name of the  *)
(* user u1; for u2, who speaks on a side channel, each has a name of its own. *)
EXTENDS Inbound

CONSTANTS A, B, h1, h2, ch, side, u1, u2, own1, own2, p1, p2

Mesh(a) == [adapter |-> a, channel |-> ch, to |-> None, listen |-> None]

Rule(n, x, y) ==
    [name |-> n, a |-> x, b |-> y, direction |-> "both", types |-> {"text", "dm"}, rate |-> 8,
     prefix |-> TRUE, callsignOnly |-> FALSE, dryRun |-> FALSE, enabled |-> TRUE]

SiteRules == << Rule("sites", Mesh(A), Mesh(B)) >>

OnChannel == [chan |-> ch, addr |-> None, kind |-> "text", from |-> u1, text |-> <<p1>>]
ToRadioA  == [chan |-> None, addr |-> A, kind |-> "dm", from |-> u1, text |-> <<p2>>]

ByOther   == [OnChannel EXCEPT !.chan = side, !.from = u2]

UserTexts == {OnChannel, ToRadioA, ByOther}

LabelAt(a, c) == c
NameAt(a, u)  == IF u = u2 THEN <<u, a>> ELSE u

Own == [r \in Radios |-> IF r = A THEN own1 ELSE own2]

\* The slots differ by nothing but their names.
Slots == Permutations(HoldSlots)

TaskOf == [a \in Adapters |-> a]
=============================================================================
