---- MODULE MCServices ----
(* Instances of the services for TLC.                                      *)
EXTENDS Services

CONSTANTS d1, d2, d3, here, elsewhere, q1, q2, u1, u2, r1, r2, r3, c1, c2, t1, t2,
          e1, g1, g2, wa, wb, wc

ThreeDocuments == {d1, d2, d3}
OneDocument == {d1}
TwoGenerations == {1, 2}
BothWorkspaces == {here, elsewhere}
OneForeign == [d \in ThreeDocuments |-> IF d = d3 THEN elsewhere ELSE here]
\* The summary of d1 takes three batches, of which two are completed; the chunks of
\* d1 and d2 do not fit one comparison.
Tokens == [d \in ThreeDocuments |-> IF d = d1 THEN <<2, 2, 2>> ELSE <<2>>]
TwoQueries == {q1, q2}
OneQuery == {q1}
Matches == [q \in TwoQueries |->
    IF q = q1 THEN {<<d1, 1>>, <<d2, 1>>, <<d3, 1>>} ELSE {<<d2, 1>>, <<d3, 1>>}]
Pairs == {<<d1, d2>>, <<d2, d3>>}
NoFilter == {ThreeDocuments}

TwoUsers == {u1, u2}
\* Two requests of one user, which may meet in a conversation, and one of another.
ThreeAsks == {r1, r2, r3}
TwoOfOne == [r \in ThreeAsks |-> IF r = r3 THEN u2 ELSE u1]
AsksQuery == [r \in ThreeAsks |-> IF r = r1 THEN q1 ELSE q2]
TwoConversations == {c1, c2}

\* All texts of at most two segments with at most two paragraphs each.
Paragraphs == {[size |-> n, heading |-> FALSE] : n \in {1, 3, 9}} \cup {[size |-> 2, heading |-> TRUE]}
Segments == UNION {[1 .. n -> Paragraphs] : n \in 1 .. 2}
SmallTexts == UNION {[1 .. n -> Segments] : n \in 0 .. 2}
OneText == {<<>>}
\* Characters of two and three tokens at the cuts of long paragraphs, and elsewhere.
InsideCharacters == {<<1, 1, 5>>, <<1, 2, 4>>, <<1, 2, 5>>, <<2, 1, 2>>, <<2, 1, 7>>, <<2, 2, 9>>}

TwoThreads == {t1, t2}
OneEmail == {e1}
TwoRegistrations == {g1, g2}
SameEmail == [r \in TwoRegistrations |-> e1]

ThreeSites == {wa, wb, wc}
BothAdministered == {wa, wb}
====
