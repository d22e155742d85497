----------------------------- MODULE MCHashTable -----------------------------
(* An instance of HashTable for TLC: a table that is full before it grows. *)
EXTENDS HashTable

MCTableKeys == 0 .. 2
MCHash1 == [k \in MCTableKeys |-> k + 1]
MCHash2 == [k \in MCTableKeys |-> k]
==============================================================================
