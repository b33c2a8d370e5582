-------------------------------- MODULE Search --------------------------------
(***************************************************************************)
(* One search over the index of a provider and model (internal/search/     *)
(* service.go, the read side of internal/indexdb/sqlite.go) beside the     *)
(* runs that rebuild that index.  A search makes up to three reads, each   *)
(* of two statements, the snapshot and then its rows; a run writes rows    *)
(* and vectors one by one, activates its snapshot and cleans up.  How a    *)
(* run gets there is the subject of IndexRun and EmbeddingPipeline.        *)
(* Distances, weights and scores are integers: 100 stands for 1.           *)
(***************************************************************************)
EXTENDS Naturals, Integers, Sequences, FiniteSets, FiniteSetsExt, Functions

CONSTANTS
  Symbol,          \* records of path, line and key, the hash its vector is stored under
  Trees,           \* sets of symbols a run may find in the working tree
  Settings,        \* records of dist, the distances of the keys to the query, of rules, the file
                   \* weights, and of match, how well each symbol matches the words of the query
  None,
  Limits,          \* numbers of results that may be wanted
  CandidateFactor, \* 5 in the code
  CandidateFloor,  \* 20 in the code
  MaxDistance,     \* 85 by default; 0 for no bound
  Words,           \* number of different words in the query
  MaxSnapshots     \* bound on snapshots

Key == {s.key : s \in Symbol}

\* How well a word may be found: not at all, by a synonym, its plural, its singular or itself.
WordWeight == {0, 72, 88, 92, 100}
Match == [inText : BOOLEAN, inDoc : BOOLEAN,
          words : [1..Words -> [text : WordWeight, doc : WordWeight, base : WordWeight, path : WordWeight]]]

ASSUME SearchAssumption ==
  /\ IsFiniteSet(Symbol) /\ \A s \in Symbol : s.path \in Int /\ s.line \in Int
  /\ \A there \in Trees : there \subseteq Symbol
  /\ \A s \in Settings : /\ s.dist \in [Key -> Nat] /\ s.match \in [Symbol -> Match]
                         /\ \A r \in s.rules : r.weight \in 1..100
  /\ Limits \subseteq Nat \ {0} /\ CandidateFactor \in Nat /\ CandidateFloor \in Nat \ {0}
  /\ MaxDistance \in Nat /\ Words \in Nat \ {0} /\ MaxSnapshots \in Nat \ {0}
  /\ None \notin [symbols : SUBSET Symbol, missing : SUBSET Key, phase : {"fill", "rows", "vecs"}]

VARIABLES
  rows,    \* snapshot_symbols, as pairs of a snapshot and a symbol
  vecs,    \* the keys in the vector table
  active,  \* current_model_snapshots: 0 as long as there is none
  last,    \* the newest snapshot
  run,     \* the run that builds it: None, or the symbols and vectors still to be stored
  setting, \* one of Settings
  query,   \* the mode, whether the text looks like code, the number of results wanted
  at,      \* where the search is
  snap,    \* the snapshot it has read
  hits,    \* what it has found
  known,   \* semantic hits kept while auto mode reads lexical ones
  seen,    \* snapshots active at some time of the search
  from,    \* the snapshot the last rows were read from
  quiet    \* no run is at work during the search, and none that stopped has left vectors

dbVars == <<rows, vecs, active, last, run>>
searchVars == <<setting, query, at, snap, hits, known, seen, from, quiet>>
vars == <<dbVars, searchVars>>

RowsOf(s) == {r[2] : r \in {x \in rows : x[1] = s}}
KeysOf(s) == {r.key : r \in RowsOf(s)}

Init ==
  /\ \E there \in Trees :
       /\ rows = {1} \X there /\ vecs = {s.key : s \in there}
  /\ active = 1 /\ last = 1 /\ run = None
  /\ setting \in Settings
  /\ query \in [mode : {"auto", "semantic", "lexical"}, codeLike : BOOLEAN, limit : Limits]
  /\ at = "start" /\ snap = 0 /\ hits = <<>> /\ known = <<>>
  /\ seen = {} /\ from = 0 /\ quiet = TRUE

-----------------------------------------------------------------------------
(* Ranking                                                                   *)

\* FileWeights.Weight: the smallest weight of the rules that match the path.
Weight(path) == Min({100} \union {r.weight : r \in {x \in setting.rules : path \in x.paths}})

\* Faulty variant: the distance is scaled instead of the similarity.
ScaledDistance(distance, weight) == distance * weight

\* semanticSortDistance, in ten thousandths.
SemanticSortDistance(distance, weight) ==
  IF distance >= 100 THEN distance * 100 ELSE 10000 - (100 - distance) * weight

\* What the words add up to.
Sum(weights) ==
  LET upTo[n \in 0..Words] == IF n = 0 THEN 0 ELSE upTo[n - 1] + weights[n] IN upTo[Words]

\* What a word adds for the file name, or else for the path.
NameBonus(word) == IF word.base > 0 THEN 3 * word.base ELSE word.path

\* Faulty variant: the words found outside the text count against it.
LexicalMatchScoreSwapped(m) ==
  LET text == Sum([i \in 1..Words |-> m.words[i].text])
      doc  == Sum([i \in 1..Words |-> m.words[i].doc])
  IN  45 * text + 10 * (text - doc)

\* lexicalMatchScore, in ten thousandths times the number of words: the text holds the whole
\* query, or only with its path; each word by the best of its variants in text, document, file
\* name and path.
LexicalMatchScore(m) ==
  LET text  == Sum([i \in 1..Words |-> m.words[i].text])
      doc   == Sum([i \in 1..Words |-> m.words[i].doc])
      whole == IF m.inText THEN 7000 ELSE IF m.inDoc THEN 3500 ELSE 0
      names == Sum([i \in 1..Words |-> NameBonus(m.words[i])])
      full  == IF Words = 1 THEN 20 * doc
               ELSE IF 10 * text >= 999 * Words THEN 2500
               ELSE IF 10 * doc >= 999 * Words THEN 1200 ELSE 0
  IN  Min({10000 * Words,
           (whole + names + full) * Words + 45 * text + (IF doc > text THEN 10 * (doc - text) ELSE 0)})

Hit(s) == [sym |-> s, dist |-> setting.dist[s.key], weight |-> Weight(s.path),
           score |-> LexicalMatchScore(setting.match[s]) * Weight(s.path)]

\* Order by a list of numbers.
LessBy(a, b) == \E i \in DOMAIN a : a[i] < b[i] /\ \A j \in 1..i - 1 : a[j] = b[j]

SemanticOrder(a, b) ==
  LessBy(<<SemanticSortDistance(a.dist, a.weight), a.dist, -a.score, a.sym.path, a.sym.line>>,
         <<SemanticSortDistance(b.dist, b.weight), b.dist, -b.score, b.sym.path, b.sym.line>>)
LexicalOrder(a, b) ==
  LessBy(<<-a.score, a.sym.path, a.sym.line>>, <<-b.score, b.sym.path, b.sym.line>>)

\* sort.SliceStable: no element comes before one that is less; equal ones in the order of the
\* statement, which is any.
Sorted(S, Less(_,_)) ==
  CHOOSE q \in [1..Cardinality(S) -> S] :
    IsInjective(q) /\ \A i, j \in 1..Cardinality(S) : i < j => ~Less(q[j], q[i])

\* Faulty variant: all that was found.
AllOf(ranked) == ranked

FirstOf(ranked) == SubSeq(ranked, 1, Min({query.limit, Len(ranked)}))

\* The loop of searchSemanticCurrent over the candidates, bounded by a distance or by 0.
RankSemantic(candidates, bound) ==
  FirstOf(Sorted({h \in {Hit(s) : s \in candidates} : bound > 0 => h.dist <= bound}, SemanticOrder))

RankLexical(candidates) ==
  FirstOf(Sorted({h \in {Hit(s) : s \in candidates} : h.score > 0}, LexicalOrder))

-----------------------------------------------------------------------------
(* The statements of a search                                                *)

\* Faulty variant: no candidates in reserve for those that file weights move back.
CandidatesWanted == query.limit

CandidateLimit == Max({query.limit * CandidateFactor, CandidateFloor})

\* What the KNN statement may return: it takes the nearest vectors of the provider and model, and
\* only then keeps those of the snapshot.
Nearest ==
  {near \in SUBSET vecs :
     /\ Cardinality(near) = Min({CandidateLimit, Cardinality(vecs)})
     /\ \A a \in near, b \in vecs \ near : setting.dist[a] <= setting.dist[b]}

\* Service.Run: auto mode is lexical for a text that looks like code.
StartsWith == IF query.mode = "lexical" \/ (query.mode = "auto" /\ query.codeLike) THEN "lexical"
              ELSE "semantic"

Start ==
  /\ at = "start"
  /\ at' = StartsWith
  /\ seen' = {active} /\ quiet' = (run = None)
  /\ UNCHANGED <<dbVars, setting, query, snap, hits, known, from>>

Reading == {"semantic", "relaxed", "lexical"}

\* Faulty variant: the newest snapshot, built or not.
NewestSnapshot ==
  /\ at \in Reading /\ snap = 0
  /\ snap' = last
  /\ UNCHANGED <<dbVars, setting, query, at, hits, known, seen, from, quiet>>

\* CurrentSnapshot, the first statement of SearchCurrent and ListCurrentSymbols.
CurrentSnapshot ==
  /\ at \in Reading /\ snap = 0
  /\ snap' = active
  /\ UNCHANGED <<dbVars, setting, query, at, hits, known, seen, from, quiet>>

RowsRead ==
  /\ snap' = 0 /\ from' = snap
  /\ quiet' = (quiet /\ vecs = KeysOf(snap))
  /\ UNCHANGED <<dbVars, setting, query, seen>>

\* Faulty variant: a bound that keeps nothing is not given up.
AfterStrict(found) == IF found = <<>> THEN "lexical" ELSE "compare"

\* searchAutoSemanticCurrent: without a hit it searches again, without a bound on the distance.
AfterSemantic(found) == IF found = <<>> THEN IF MaxDistance > 0 THEN "relaxed" ELSE "lexical"
                        ELSE "compare"

\* SearchBySnapshot and searchSemanticCurrent.
ReadSemantic ==
  /\ at = "semantic" /\ snap # 0
  /\ \E near \in Nearest :
       LET found == RankSemantic({s \in RowsOf(snap) : s.key \in near}, MaxDistance)
           next  == AfterSemantic(found)
       IN  IF query.mode = "semantic" THEN hits' = found /\ at' = "done" /\ UNCHANGED known
           ELSE IF next = "compare" THEN known' = found /\ at' = "lexical" /\ UNCHANGED hits
           ELSE at' = next /\ UNCHANGED <<hits, known>>
  /\ RowsRead

ReadRelaxed ==
  /\ at = "relaxed" /\ snap # 0
  /\ \E near \in Nearest : known' = RankSemantic({s \in RowsOf(snap) : s.key \in near}, 0)
  /\ at' = "lexical"
  /\ UNCHANGED hits
  /\ RowsRead

\* shouldPreferLexicalResults, in the units of LexicalMatchScore with its weight.
PreferLexical(semantic, lexical) ==
  /\ lexical # <<>>
  /\ \/ semantic = <<>>
     \/ /\ query.codeLike
        /\ \/ semantic[1].dist > 88 /\ lexical[1].score >= 550000 * Words
           \/ semantic[1].dist > 82 /\ lexical[1].score >= 800000 * Words

\* ListSymbolsBySnapshot and searchLexicalCurrent; auto mode compares what it has.
ReadLexical ==
  /\ at = "lexical" /\ snap # 0
  /\ LET found == RankLexical(RowsOf(snap))
     IN  hits' = IF known = <<>> \/ PreferLexical(known, found) THEN found ELSE known
  /\ known' = <<>> /\ at' = "done"
  /\ RowsRead

\* The query cannot be embedded, or a statement fails.
SearchFails ==
  /\ at \in Reading
  /\ at' = "failed" /\ hits' = <<>> /\ known' = <<>> /\ snap' = 0
  /\ UNCHANGED <<dbVars, setting, query, seen, from, quiet>>

-----------------------------------------------------------------------------
(* The runs                                                                  *)

\* A run, new or after one that stopped, goes over any set of symbols.
BeginSnapshot ==
  /\ run = None /\ last < MaxSnapshots
  /\ last' = last + 1
  /\ \E todo \in Trees : run' = [symbols |-> todo, missing |-> {}, phase |-> "fill"]
  /\ quiet' = (quiet /\ at \notin Reading)
  /\ UNCHANGED <<rows, vecs, active, setting, query, at, snap, hits, known, seen, from>>

\* InsertSymbol; the vector comes later if there is none under the key.
InsertSymbol ==
  /\ run # None /\ run.phase = "fill"
  /\ \E s \in run.symbols :
       /\ rows' = rows \union {<<last, s>>}
       /\ run' = [run EXCEPT !.symbols = @ \ {s}, !.missing = @ \union ({s.key} \ vecs)]
  /\ UNCHANGED <<vecs, active, last, searchVars>>

AddEmbedding ==
  /\ run # None /\ run.phase = "fill"
  /\ \E k \in run.missing : vecs' = vecs \union {k} /\ run' = [run EXCEPT !.missing = @ \ {k}]
  /\ UNCHANGED <<rows, active, last, searchVars>>

ActivateSnapshot ==
  /\ run # None /\ run.phase = "fill" /\ run.symbols = {} /\ run.missing = {}
  /\ active' = last
  /\ run' = [run EXCEPT !.phase = "rows"]
  /\ seen' = IF at \in Reading THEN seen \union {last} ELSE seen
  /\ UNCHANGED <<rows, vecs, last, setting, query, at, snap, hits, known, from, quiet>>

CleanupInactiveSnapshots ==
  /\ run # None /\ run.phase = "rows"
  /\ rows' = {r \in rows : r[1] = active}
  /\ run' = [run EXCEPT !.phase = "vecs"]
  /\ UNCHANGED <<vecs, active, last, searchVars>>

CleanupUnusedEmbeddings ==
  /\ run # None /\ run.phase = "vecs"
  /\ vecs' = vecs \intersect {r[2].key : r \in rows}
  /\ run' = None
  /\ UNCHANGED <<rows, active, last, searchVars>>

\* A run fails or is killed; what it has written stays.
RunStops ==
  /\ run # None /\ run' = None
  /\ UNCHANGED <<rows, vecs, active, last, searchVars>>

Searching == Start \/ CurrentSnapshot \/ ReadSemantic \/ ReadRelaxed \/ ReadLexical \/ SearchFails
Running == BeginSnapshot \/ InsertSymbol \/ AddEmbedding \/ ActivateSnapshot
           \/ CleanupInactiveSnapshots \/ CleanupUnusedEmbeddings \/ RunStops

Next == Searching \/ Running

Spec == Init /\ [][Next]_vars

-----------------------------------------------------------------------------
Hits == {hits[i] : i \in DOMAIN hits}

TypeOK ==
  /\ rows \subseteq (1..MaxSnapshots) \X Symbol /\ vecs \subseteq Key
  /\ active \in 1..last /\ last \in 1..MaxSnapshots
  /\ at \in Reading \union {"start", "done", "failed"} /\ snap \in 0..last /\ from \in 0..last
  /\ \A h \in Hits : h.sym \in Symbol /\ h.weight \in 1..100
  /\ Len(hits) <= query.limit /\ Cardinality(Hits) = Len(hits)
  /\ seen \subseteq 1..last /\ quiet \in BOOLEAN

\* Every read of a search is of a snapshot that was active at some time of the search: never of one
\* still being built, whatever runs do between its statements.
ReadsActiveSnapshot == from # 0 => from \in seen

Shown(s) == s \in {h.sym : h \in Hits}
SearchedQuietly(mode) == at = "done" /\ query.mode = mode /\ quiet /\ from = active

\* In semantic mode, when no run touches the index and it has no more vectors than candidates are
\* wanted, the results are the symbols within the distance that come first when file weights are
\* applied, in that order.
NearestAreShown ==
  SearchedQuietly("semantic") /\ Cardinality(KeysOf(from)) <= CandidateFloor =>
    LET wanted == {h \in {Hit(s) : s \in RowsOf(from)} : MaxDistance > 0 => h.dist <= MaxDistance}
    IN  /\ Hits \subseteq wanted
        /\ Len(hits) = Min({query.limit, Cardinality(wanted)})
        /\ \A i, j \in DOMAIN hits : i < j => hits[i] # hits[j] /\ ~SemanticOrder(hits[j], hits[i])
        /\ \A h \in Hits, g \in wanted \ Hits : ~SemanticOrder(g, h)

\* File weights only move symbols back: none is shown in place of, or before, a nearer one with a
\* weight as high, whatever the weights and even if the candidates are only some of the symbols.
WeightsNeverPromote ==
  SearchedQuietly("semantic") =>
    \A i \in DOMAIN hits : \A s \in RowsOf(from) :
      setting.dist[s.key] < hits[i].dist /\ Weight(s.path) >= hits[i].weight
        => \E j \in 1..i - 1 : hits[j].sym = s

\* One match is at least as good as another in every respect.
AsGood(m, n) ==
  /\ n.inText => m.inText
  /\ n.inDoc => m.inDoc
  /\ \A i \in 1..Words : \A field \in {"text", "doc", "base", "path"} :
       m.words[i][field] >= n.words[i][field]

\* A symbol that matches the query at least as well as one that is shown in every respect, under
\* file weights at least as high, scores at least as much, and if it scores more is shown before.
BetterMatchesFirst ==
  at = "done" /\ query.mode = "lexical" =>
    \A s \in RowsOf(from) : \A i \in DOMAIN hits :
      AsGood(setting.match[s], setting.match[hits[i].sym]) /\ Weight(s.path) >= hits[i].weight
      => /\ Hit(s).score >= hits[i].score
         /\ Hit(s).score > hits[i].score => \E j \in 1..i - 1 : hits[j].sym = s

\* A search in auto mode for words of natural language finds something in an index that holds
\* something, as long as no run has touched it: too strict a distance is given up.
AutoFindsSomething ==
  SearchedQuietly("auto") /\ ~query.codeLike /\ RowsOf(from) # {} => hits # <<>>

\* As SearchBySnapshot is described, a search against one immutable snapshot: with the rows of
\* the snapshot and their vectors there, the nearest of them are found.
SnapshotSearchedAlone ==
  at = "done" /\ query.mode = "semantic" /\ from = active /\ KeysOf(from) \subseteq vecs
    => \A s \in RowsOf(from) : setting.dist[s.key] <= MaxDistance =>
         Shown(s) \/ Len(hits) = query.limit
=============================================================================
