---------------------------- MODULE MCMessageRouter ----------------------------
(* Jobs small enough for TLC, at least one of every type of graph. *)
EXTENDS MessageRouter

plain(a, b) == [from |-> a, to |-> b, actor |-> FALSE]
actor(a, b) == [from |-> a, to |-> b, actor |-> TRUE]

run(type, size, degree, sends, stops) ==
  [type |-> type, size |-> size, degree |-> degree, sends |-> sends, stops |-> stops,
   checksum |-> stops]

MCScenarios ==
  {run(type, 4, 2, {plain(0, 3), actor(3, 0)}, TRUE) :
     type \in {"polytope", "torus", "debruijn", "kautz", "group", "random", "complete"}}
  \union
  {run("polytope", 9, 4, {plain(0, 8), plain(0, 4), plain(3, 8)}, FALSE),
     run("torus", 9, 4, {plain(0, 8), plain(0, 4), actor(5, 1)}, FALSE),
     run("torus", 25, 4, {plain(0, 12), plain(0, 18), plain(12, 1)}, FALSE),
     run("debruijn", 8, 2, {plain(0, 7), plain(1, 6), actor(5, 2)}, FALSE),
     run("debruijn", 16, 4, {plain(0, 15), plain(1, 6)}, FALSE),
     run("kautz", 6, 2, {plain(0, 5), plain(1, 4), actor(5, 2)}, FALSE),
     run("kautz", 12, 2, {plain(0, 11), plain(1, 10)}, FALSE),
     run("experimental", 24, 2, {plain(0, 23)}, FALSE),
     run("random", 3, 2, {plain(0, 2)}, FALSE),
     run("group", 6, 2, {plain(1, 5), plain(5, 3), actor(3, 1)}, FALSE)}
================================================================================
