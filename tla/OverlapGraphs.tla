----------------------------- MODULE OverlapGraphs -----------------------------
(***************************************************************************)
(* The graphs whose links shift a word by one symbol:                      *)
(* GraphImplementationDeBruijn (all words), GraphImplementationKautz (no   *)
(* symbol follows itself) and GraphImplementationExperimental (no symbol   *)
(* occurs twice in a zone of consecutive positions).                       *)
(***************************************************************************)
EXTENDS Tuples

------------------------------------------------------------------------------
\* De Bruijn: the largest base below n that n is a power of.  The degree caps
\* the base when n is a power of it; 1024 does otherwise, and the cap is halved
\* until it is below n.
halveBelow(cap, n) ==
  cap \div 2 ^ (CHOOSE k \in 0 .. 10 : cap \div 2 ^ k < n /\ (k = 0 \/ cap \div 2 ^ (k - 1) >= n))

deBruijnBases(n, degree) ==
  LET cap == halveBelow(IF isAPowerOf(n, degree) THEN degree ELSE 1024, n)
  IN  {b \in 2 .. cap : isAPowerOf(n, b)}

deBruijnIsValid(n, degree) == deBruijnBases(n, degree) # {}

configureDeBruijn(n, degree) ==
  LET base == Max(deBruijnBases(n, degree))
  IN  [base |-> base, length |-> wordLength(n, base)]

------------------------------------------------------------------------------
\* Kautz: n = (degree + 1) * degree ^ (length - 1), the largest degree if several.
kautzMatches(n) ==
  {[degree |-> k, length |-> d] : k \in {k \in 2 .. n : k * (k + 1) <= n}, d \in 2 .. 9}

kautzShapes(n) == {m \in kautzMatches(n) : (m.degree + 1) * m.degree ^ (m.length - 1) = n}

kautzIsValid(n) == kautzShapes(n) # {}

configureKautz(n) ==
  LET shape == CHOOSE m \in kautzShapes(n) : \A o \in kautzShapes(n) : m.degree >= o.degree
  IN  [base |-> shape.degree + 1, length |-> shape.length]

isAKautzVertex(t, length) == \A p \in 0 .. length - 2 : t[p] # t[p + 1]

------------------------------------------------------------------------------
\* Experimental: words of length symbols in which the symbols of every zone of
\* consecutive positions differ.
experimentalMatches(n) ==
  {[degree |-> k, zone |-> z, length |-> d] :
     k \in {k \in 2 .. n : k * (k + 1) * (k + 2) <= n}, z \in 3 .. 4, d \in 3 .. 9}

leadingChoices(m) ==
  IF m.zone = 3 THEN (m.degree + 1) * (m.degree + 2)
  ELSE (m.degree + 1) * (m.degree + 2) * (m.degree + 3)

experimentalShapes(n) ==
  {m \in experimentalMatches(n) :
     /\ m.length >= m.zone
     /\ leadingChoices(m) * m.degree ^ (m.length - (m.zone - 1)) = n}

experimentalIsValid(n) == experimentalShapes(n) # {}

configureExperimental(n) ==
  LET shape == CHOOSE m \in experimentalShapes(n) :
                 \A o \in experimentalShapes(n) :
                   m.degree > o.degree \/ (m.degree = o.degree /\ m.zone >= o.zone)
  IN  [base |-> shape.degree + shape.zone - 1, length |-> shape.length, zone |-> shape.zone]

isAExperimentalVertex(t, length, zone) ==
  \A i \in 0 .. length - zone : \A j, k \in i .. i + zone - 1 : j # k => t[j] # t[k]

------------------------------------------------------------------------------
computeConnection(a, b, length) == getMaximumOverlap(a, b, length) = length - 1

\* computeNextRankInRoute.  A word that is no vertex has no entry in
\* m_kautzToGraph, and reading the missing entry gives rank 0.
getNextRankInRoute(g, current, destination) ==
  LET next == shiftTowards(g.vertex[current], g.vertex[destination], g.length)
      hits == {r \in DOMAIN g.vertex : g.vertex[r] = next}
  IN  IF hits = {} THEN 0 ELSE Min(hits)
================================================================================
