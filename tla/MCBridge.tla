------------------------------ MODULE MCBridge ------------------------------
(* Instances of Bridge for TLC: a mesh adapter A, two adapters B and D of the *)
(* APRS network with the group address emc, and a second mesh adapter C.      *)
EXTENDS Bridge

CONSTANTS A, B, C, D, emc, ch, u1, u2, p1, p2, p3

Mesh(a)  == [adapter |-> a, channel |-> ch, to |-> None, listen |-> None]
Group(a) == [adapter |-> a, channel |-> None, to |-> emc, listen |-> emc]

Rule(n, x, y, dir, rate) ==
    [name |-> n, a |-> x, b |-> y, direction |-> dir, types |-> {"text"}, rate |-> rate,
     prefix |-> TRUE, callsignOnly |-> FALSE, dryRun |-> FALSE, enabled |-> TRUE]

FromMesh(a, u, p) ==
    [src |-> a, chan |-> ch, addr |-> None, kind |-> "text", from |-> u,
     text |-> <<p>>, bridged |-> FALSE, notice |-> FALSE]
FromAprs(a, u, p) ==
    [src |-> a, chan |-> None, addr |-> emc, kind |-> "text", from |-> u,
     text |-> <<p>>, bridged |-> FALSE, notice |-> FALSE]

ReceiveTasks == [a \in Adapters |-> a]

\* Three networks in a line, A - (B, D) - C, joined in the middle by two radios
\* that hear each other: the second hop wants a callsign and has a twin in dry
\* run, the first has one switched off, and a rule between the two radios cannot
\* deliver, its target having no addressee.
NetRules    == << Rule("r1", Mesh(A), Group(B), "both", 2),
                  [Rule("r2", Group(D), Mesh(C), "both", 2) EXCEPT !.callsignOnly = TRUE],
                  [Rule("r3", Group(D), Mesh(C), "a_to_b", 2) EXCEPT !.dryRun = TRUE],
                  [Rule("r4", Mesh(A), Group(B), "a_to_b", 2) EXCEPT !.enabled = FALSE],
                  Rule("r5", Group(B), [Group(D) EXCEPT !.to = None], "a_to_b", 2) >>
NetShared   == {<<B, D>>, <<D, B>>}
NetInputs   == {FromMesh(A, u1, p1), FromMesh(A, u2, p1), FromMesh(C, u2, p3),
                [FromMesh(A, u2, p2) EXCEPT !.bridged = TRUE]}

\* One bridge alone.
PairRules   == << Rule("r1", Mesh(A), Group(B), "both", 2) >>
ShortTexts  == {<<p2>>}
PairInputs  == {FromMesh(A, u1, p1), FromMesh(A, u1, p3), FromAprs(B, u2, p2)}

=============================================================================
