---------------------------- MODULE ConnectionGraph ----------------------------
(***************************************************************************)
(* The graph of links a routed job uses (routing/ConnectionGraph.cpp,      *)
(* GraphImplementation.cpp and the graphs they choose from).  A graph is a *)
(* record: its type, its ranks 0 .. size-1, the links out of each rank,    *)
(* and for the graphs on words the base, the length and the word of each   *)
(* rank.                                                                   *)
(***************************************************************************)
EXTENDS Naturals, FiniteSetsExt

CONSTANT CoresPerNode       \* m_coresPerNode of the group graph, 8 in the code

ASSUME ConnectionGraphAssumption == CoresPerNode \in Nat \ {0}

Pt == INSTANCE Polytope
To == INSTANCE Torus
Ov == INSTANCE OverlapGraphs

ranksOf(n) == 0 .. n - 1

\* Every word of a shape.
wordsOf(shape) ==
  {Ov!convertToVertex(i, shape.base, shape.length) : i \in 0 .. shape.base ^ shape.length - 1}

\* The vertices of a graph: the first n of its words, in the order of their numbers.
vertices(n, shape, words) ==
  LET numbers == {Ov!convertToBase10(w, shape.base) : w \in words}
      nth(r)  == CHOOSE i \in numbers : Cardinality({j \in numbers : j < i}) = r
  IN  [r \in ranksOf(n) |-> Ov!convertToVertex(nth(r), shape.base, shape.length)]

\* A graph on words v, before its links are made.
unlinked(type, shape, v) ==
  [type |-> type, size |-> Cardinality(DOMAIN v), base |-> shape.base, length |-> shape.length,
   vertex |-> v, out |-> [a \in DOMAIN v |-> {}]]

polytope(n, degree) ==
  LET shape == Pt!configureGraph(n, degree)
      v     == vertices(n, shape, wordsOf(shape))
  IN  [unlinked("polytope", shape, v) EXCEPT
         !.out = [a \in DOMAIN v |-> {b \in DOMAIN v : Pt!computeConnection(v[a], v[b])}]]

torus(n, degree) ==
  LET shape == To!configureGraph(n, degree)
      v     == vertices(n, shape, wordsOf(shape))
  IN  [unlinked("torus", shape, v) EXCEPT
         !.out = [a \in DOMAIN v |-> {b \in DOMAIN v : To!computeConnection(v[a], v[b], shape.base)}]]

\* The graphs whose links are overlaps of words.
overlapGraph(type, n, shape, words) ==
  LET v == vertices(n, shape, words)
  IN  [unlinked(type, shape, v) EXCEPT
         !.out = [a \in DOMAIN v |-> {b \in DOMAIN v : Ov!computeConnection(v[a], v[b], shape.length)}]]

deBruijn(n, degree) ==
  LET shape == Ov!configureDeBruijn(n, degree)
  IN  overlapGraph("debruijn", n, shape, wordsOf(shape))

kautz(n) ==
  LET shape == Ov!configureKautz(n)
  IN  overlapGraph("kautz", n, shape,
                   {w \in wordsOf(shape) : Ov!isAKautzVertex(w, shape.length)})

experimental(n) ==
  LET shape == Ov!configureExperimental(n)
  IN  overlapGraph("experimental", n, shape,
                   {w \in wordsOf(shape) : Ov!isAExperimentalVertex(w, shape.length, shape.zone)})

complete(n) ==
  [type |-> "complete", size |-> n, out |-> [a \in ranksOf(n) |-> ranksOf(n) \ {a}]]

getIntermediateRank(rank) == rank - (rank % CoresPerNode)

\* Everyone reaches its own group, and the first ranks of the groups each other.
group(n) ==
  LET I(r) == getIntermediateRank(r)
  IN  [type |-> "group", size |-> n,
       out |-> [a \in ranksOf(n) |-> {b \in ranksOf(n) : I(a) = I(b) \/ (I(a) = a /\ I(b) = b)}]]

------------------------------------------------------------------------------
\* The undirected edges of the random graph are the first of a shuffled list:
\* any set of m_size * floor(log2(m_size)) / 2 of them.
connectionsPerVertex(n) == CHOOSE k \in 0 .. n : 2 ^ k <= n /\ n < 2 ^ (k + 1)
numberOfEdgesToAdd(n) == (n * connectionsPerVertex(n)) \div 2

randomGraphs(n) ==
  LET pairs == kSubset(2, ranksOf(n))
  IN  {[type |-> "random", size |-> n,
        out |-> [a \in ranksOf(n) |-> {b \in ranksOf(n) \ {a} : {a, b} \in edges}]] :
          edges \in kSubset(numberOfEdgesToAdd(n), pairs)}

------------------------------------------------------------------------------
\* buildGraph: a type that does not fit the number of ranks gives a complete
\* graph.  Only the random type leaves a choice.
graphs(type, n, degree) ==
  CASE type = "random" -> randomGraphs(n)
    [] type = "polytope" /\ Pt!isValid(n, degree) -> {polytope(n, degree)}
    [] type = "torus" /\ To!isValid(n, degree) -> {torus(n, degree)}
    [] type = "group" -> {group(n)}
    [] type = "debruijn" /\ Ov!deBruijnIsValid(n, degree) -> {deBruijn(n, degree)}
    [] type = "kautz" /\ Ov!kautzIsValid(n) -> {kautz(n)}
    [] type = "experimental" /\ Ov!experimentalIsValid(n) -> {experimental(n)}
    [] OTHER -> {complete(n)}

\* A rank may always talk to itself.
isConnected(g, a, b) == a = b \/ g.type = "complete" \/ b \in g.out[a]

\* The load counters of one rank; only these two graphs have them.
startLoad(g) ==
  CASE g.type = "polytope" -> Pt!start(g) [] g.type = "torus" -> To!start(g) [] OTHER -> << >>

------------------------------------------------------------------------------
\* findShortestPath: the ranks within k hops of a.
within(g, a) ==
  LET ball[k \in 0 .. g.size] ==
        IF k = 0 THEN {a} ELSE ball[k - 1] \union UNION {g.out[b] : b \in ball[k - 1]}
  IN  ball

reaches(g, a, b) == b \in within(g, a)[g.size]
distance(g, a, b) == Min({k \in 0 .. g.size : b \in within(g, a)[k]})

\* The entry of the routing table m_routes lies on a shortest path; which of
\* them depends on a shuffle and on the relay counters, so any may be taken.
onShortestPath(g, current, destination) ==
  {b \in g.out[current] :
     reaches(g, b, destination)
     /\ distance(g, b, destination) + 1 = distance(g, current, destination)}

\* getNextRankInRoute: the next ranks a graph may answer, with the loads after
\* it.  A routing table without an entry answers rank 0.
nextRanks(g, load, current, destination) ==
  LET same(rank) == [rank |-> rank, load |-> load]
  IN  CASE g.type = "polytope" -> {Pt!getNextRankInRoute(g, load, current, destination)}
        [] g.type = "torus" -> {To!getNextRankInRoute(g, load, current, destination)}
        [] g.type \in {"debruijn", "kautz", "experimental"} ->
             {same(Ov!getNextRankInRoute(g, current, destination))}
        [] g.type = "complete" -> {same(destination)}
        [] g.type \in {"group", "random"} ->
             IF reaches(g, current, destination)
             THEN {same(b) : b \in onShortestPath(g, current, destination)}
             ELSE {same(0)}

\* getRoute follows getNextRankInRoute until the destination: the ranks it can
\* be at after k hops, with the counters as they are at the start.
routeAfter(g, source, destination) ==
  LET at[k \in 0 .. g.size] ==
        IF k = 0 THEN {source}
        ELSE UNION {IF a = destination THEN {a}
                    ELSE {o.rank : o \in nextRanks(g, startLoad(g), a, destination)} : a \in at[k - 1]}
  IN  at

\* makeRoutes ends with computeRelayEvents, which follows every route to its
\* end.  A route that is not over after size hops visits a rank again and is
\* never over.
makeRoutesReturns(g) ==
  \A a, b \in ranksOf(g.size) : routeAfter(g, a, b)[g.size] = {b}
================================================================================
