---------------------------------- MODULE Torus ----------------------------------
(***************************************************************************)
(* routing/Torus.cpp: ranks are words of digits and two ranks are linked   *)
(* when one digit differs by one, modulo the radix.  A message moves in a  *)
(* direction that shortens its way, on the link its rank used least.       *)
(***************************************************************************)
EXTENDS Tuples

\* The radixes that give this number of vertices and the requested degree.
matching(vertices, degree) ==
  {r \in 2 .. vertices - 1 :
     vertices = r ^ wordLength(vertices, r) /\ degree = 2 * wordLength(vertices, r)}

\* The loop goes down and stops at the first match.
theRadix(vertices, degree) ==
  IF matching(vertices, degree) = {} THEN 2 ELSE Max(matching(vertices, degree))

isValid(vertices, degree) == isAPowerOf(vertices, theRadix(vertices, degree))

configureGraph(vertices, degree) ==
  LET radix == theRadix(vertices, degree)
  IN  [base |-> radix, length |-> wordLength(vertices, radix)]

getDistance(end, begin, radix) == (end + radix - begin) % radix
incrementSymbol(s, radix) == (s + 1) % radix
decrementSymbol(s, radix) == (s + radix - 1) % radix

\* Mutant: the first and the last symbol are not neighbours.
computeConnection_NoWrap(a, b, radix) ==
  LET differing == {p \in DOMAIN a : a[p] # b[p]}
  IN  /\ Cardinality(differing) = 1
      /\ \A p \in differing : b[p] = a[p] + 1 \/ a[p] = b[p] + 1

computeConnection(a, b, radix) ==
  LET differing == {p \in DOMAIN a : a[p] # b[p]}
  IN  /\ Cardinality(differing) = 1
      /\ \A p \in differing : b[p] \in {incrementSymbol(a[p], radix), decrementSymbol(a[p], radix)}

start(g) == [p \in 0 .. g.length - 1 |-> [s \in 0 .. g.base - 1 |-> 0]]

\* Is the way down from one symbol to the other no longer than the way up?
decrements(from, to, radix) == getDistance(from, to, radix) <= getDistance(to, from, radix)
increments(from, to, radix) == getDistance(to, from, radix) <= getDistance(from, to, radix)

\* The moves getNextRankInRoute weighs, numbered in the order it tries them.
moves(g, a, b) ==
  LET wrong == {p \in DOMAIN a : a[p] # b[p]}
  IN  {[order |-> 2 * p, at |-> p, symbol |-> decrementSymbol(a[p], g.base)] :
         p \in {q \in wrong : decrements(a[q], b[q], g.base)}}
      \union
      {[order |-> 2 * p + 1, at |-> p, symbol |-> incrementSymbol(a[p], g.base)] :
         p \in {q \in wrong : increments(a[q], b[q], g.base)}}

getNextRankInRoute(g, load, current, destination) ==
  LET a       == g.vertex[current]
      options == moves(g, a, g.vertex[destination])
      best    == CHOOSE m \in options :
                   \A o \in options :
                     \/ load[m.at][m.symbol] < load[o.at][o.symbol]
                     \/ load[m.at][m.symbol] = load[o.at][o.symbol] /\ m.order <= o.order
  IN  [rank |-> convertToBase10([a EXCEPT ![best.at] = best.symbol], g.base),
       load |-> [load EXCEPT ![best.at][best.symbol] = @ + 1]]
================================================================================
