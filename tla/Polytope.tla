-------------------------------- MODULE Polytope --------------------------------
(***************************************************************************)
(* routing/Polytope.cpp: ranks are words and two ranks are linked when     *)
(* their words differ in exactly one symbol (a hypercube when the alphabet *)
(* has two symbols).  Each rank counts the messages it sent along each     *)
(* link and picks, among the symbols still to be corrected, the link it    *)
(* used least.                                                             *)
(***************************************************************************)
EXTENDS Tuples

\* The alphabet sizes that give n vertices of the requested degree.
matching(n, degree) ==
  {a \in 2 .. n - 1 : n = a ^ wordLength(n, a) /\ degree = (a - 1) * wordLength(n, a)}

\* The loop has no break, so the smallest alphabet wins; without a match it is 2.
alphabetSize(n, degree) ==
  IF matching(n, degree) = {} THEN 2 ELSE Min(matching(n, degree))

isValid(n, degree) == isAPowerOf(n, alphabetSize(n, degree))

configureGraph(n, degree) ==
  LET base == alphabetSize(n, degree)
  IN  [base |-> base, length |-> wordLength(n, base)]

computeConnection(a, b) == Cardinality({p \in DOMAIN a : a[p] # b[p]}) = 1

\* start(): no link has been used.
start(g) == [p \in 0 .. g.length - 1 |-> [s \in 0 .. g.base - 1 |-> 0]]

\* Mutant: the position is chosen by load alone, corrected symbols included.
candidates_All(a, b) == DOMAIN a

\* The positions whose symbol is not the destination's yet.
candidates(a, b) == {p \in DOMAIN a : a[p] # b[p]}

\* computeNextRankInRoute: the first of the positions with the lowest load, and
\* the loads after this message.
getNextRankInRoute(g, load, current, destination) ==
  LET a    == g.vertex[current]
      b    == g.vertex[destination]
      best == CHOOSE p \in candidates(a, b) :
                \A q \in candidates(a, b) :
                  load[p][b[p]] < load[q][b[q]] \/ (load[p][b[p]] = load[q][b[q]] /\ p <= q)
  IN  [rank |-> convertToBase10([a EXCEPT ![best] = b[best]], g.base),
       load |-> [load EXCEPT ![best][b[best]] = @ + 1]]
================================================================================
