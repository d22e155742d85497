--------------------------------- MODULE Tuples ---------------------------------
(***************************************************************************)
(* Words over an alphabet of base symbols (struct Tuple), and the          *)
(* arithmetic that every routing graph repeats: a rank is written in the   *)
(* base of its graph, the least significant digit first.                   *)
(***************************************************************************)
EXTENDS Naturals, FiniteSetsExt

\* convertToVertex, convertToDeBruijn, convertToBase
convertToVertex(i, base, length) ==
  [p \in 0 .. length - 1 |-> (i % base ^ (p + 1)) \div base ^ p]

convertToBase10(t, base) == MapThenSumSet(LAMBDA p : t[p] * base ^ p, DOMAIN t)

\* The smallest number of digits, at least one, with which base reaches n.
wordLength(n, base) ==
  CHOOSE w \in 1 .. n : base ^ w >= n /\ (w = 1 \/ base ^ (w - 1) < n)

\* Divides n by base as long as it can; one is a power of everything.
isAPowerOf(n, base) == n = 1 \/ base ^ wordLength(n, base) = n

\* The longest proper suffix of a that is a prefix of b.
getMaximumOverlap(a, b, length) ==
  Max({k \in 0 .. length - 1 : \A p \in 0 .. k - 1 : a[length - k + p] = b[p]})

\* A shift to the left that appends the next symbol of b not yet matched.
shiftTowards(a, b, length) ==
  [p \in 0 .. length - 1 |-> IF p < length - 1 THEN a[p + 1]
                             ELSE b[getMaximumOverlap(a, b, length)]]
================================================================================
