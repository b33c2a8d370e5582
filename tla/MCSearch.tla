------------------------------- MODULE MCSearch -------------------------------
(* Four symbols in two files, two of which share a vector; one search.       *)
EXTENDS Search

CONSTANTS k1, k2, k3

MCSymbol == {[path |-> 1, line |-> 1, key |-> k1], [path |-> 1, line |-> 2, key |-> k2],
             [path |-> 2, line |-> 1, key |-> k3], [path |-> 2, line |-> 2, key |-> k1]}

Word(text, doc, base, path) == [text |-> text, doc |-> doc, base |-> base, path |-> path]
MatchOf(inText, inDoc, words) == [inText |-> inText, inDoc |-> inDoc, words |-> words]

\* No word, one in the text, one in the path, both in the text.
Miss     == MatchOf(FALSE, FALSE, <<Word(0, 0, 0, 0), Word(0, 0, 0, 0)>>)
OneWord  == MatchOf(FALSE, FALSE, <<Word(72, 72, 0, 0), Word(0, 0, 0, 0)>>)
WithPath == MatchOf(FALSE, TRUE, <<Word(72, 100, 0, 100), Word(0, 100, 100, 100)>>)
Both     == MatchOf(TRUE, TRUE, <<Word(100, 100, 100, 100), Word(100, 100, 0, 100)>>)

MCDist  == {[k \in Key |-> CASE k = k1 -> 50 [] k = k2 -> 40 [] k = k3 -> 60],
            [k \in Key |-> CASE k = k1 -> 90 [] k = k2 -> 90 [] k = k3 -> 40],
            [k \in Key |-> CASE k = k1 -> 90 [] k = k2 -> 105 [] k = k3 -> 130]}
MCRules == {{}, {[paths |-> {1}, weight |-> 50]},
            {[paths |-> {2}, weight |-> 60], [paths |-> {1, 2}, weight |-> 90]}}
MCMatch == {[s \in Symbol |-> Miss],
            [s \in Symbol |-> IF s.path = 1 THEN OneWord ELSE WithPath],
            [s \in Symbol |-> IF s.key = k1 THEN Both ELSE IF s.key = k2 THEN WithPath ELSE OneWord]}

MCTrees == {{}, {s \in Symbol : s.key = k3}, {s \in Symbol : <<s.path, s.key>> \in {<<1, k2>>, <<2, k1>>}},
            Symbol}

\* Every distance with every rule, every match with every rule.
MCSettings == [dist : MCDist, rules : MCRules, match : {[s \in Symbol |-> Miss]}]
              \union [dist : {[k \in Key |-> 90]}, rules : MCRules, match : MCMatch]
=============================================================================
