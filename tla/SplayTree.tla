------------------------------- MODULE SplayTree -------------------------------
(***************************************************************************)
(* SplayTree: a binary search tree in which every operation first brings   *)
(* the key it is about, or a neighbour of it, to the root.  splay() cuts   *)
(* the tree top down along the path of the key into the nodes left of the  *)
(* path (the chain l) and right of it (the chain r) and hangs both under   *)
(* the node it ends at.                                                    *)
(***************************************************************************)
EXTENDS Integers, FiniteSets, SequencesExt

CONSTANT TreeKeys

ASSUME TreeKeysAssumption == TreeKeys \subseteq Int

VARIABLES
  m_root,   \* the tree: Nil, or [m_key, m_left, m_right]
  m_size,
  present   \* history: the keys that were inserted and not removed

treeVars == <<m_root, m_size, present>>

Nil == << >>
newNode(key) == [m_key |-> key, m_left |-> Nil, m_right |-> Nil]

------------------------------------------------------------------------------
\* The two rotations of the zig-zig case.
rotateRight(t) == [t.m_left EXCEPT !.m_right = [t EXCEPT !.m_left = t.m_left.m_right]]
rotateLeft(t) == [t.m_right EXCEPT !.m_left = [t EXCEPT !.m_right = t.m_right.m_left]]

\* The last four assignments: the chains, bottom up, and then the new root.
assemble(t, l, r) ==
  [t EXCEPT
     !.m_left = FoldRight(LAMBDA node, below : [node EXCEPT !.m_right = below], l, @),
     !.m_right = FoldRight(LAMBDA node, below : [node EXCEPT !.m_left = below], r, @)]

\* The loop of splay() at node t, with the chains l and r built so far.
RECURSIVE splayFrom(_, _, _, _)
splayFrom(t, key, l, r) ==
  LET right == IF key < t.m_left.m_key THEN rotateRight(t) ELSE t
      left == IF t.m_right.m_key < key THEN rotateLeft(t) ELSE t
  IN  IF key < t.m_key /\ t.m_left # Nil
      THEN IF right.m_left = Nil
           THEN assemble(right, l, r)
           ELSE splayFrom(right.m_left, key, l, Append(r, right))
      ELSE IF t.m_key < key /\ t.m_right # Nil
      THEN IF left.m_right = Nil
           THEN assemble(left, l, r)
           ELSE splayFrom(left.m_right, key, Append(l, left), r)
      ELSE assemble(t, l, r)

splay(t, key) == splayFrom(t, key, << >>, << >>)

\* The largest key of a tree.
RECURSIVE rightmost(_)
rightmost(t) == IF t.m_right = Nil THEN t.m_key ELSE rightmost(t.m_right)

\* Mutant: the right subtree is hung under the root of the left one as it is.
joined_NoSplay(left, right) ==
  IF left = Nil THEN right ELSE [left EXCEPT !.m_right = right]

\* remove(): what takes the place of the root.
joined(left, right) ==
  IF left = Nil THEN right ELSE [splay(left, rightmost(left)) EXCEPT !.m_right = right]

\* The search that moves nothing.
RECURSIVE findBinary(_, _)
findBinary(t, key) ==
  /\ t # Nil
  /\ \/ t.m_key = key
     \/ key < t.m_key /\ findBinary(t.m_left, key)
     \/ t.m_key < key /\ findBinary(t.m_right, key)

\* SplayTreeIterator: the keys in the order next() returns their nodes.
RECURSIVE iteratedFrom(_)
iteratedFrom(stack) ==
  IF stack = << >> THEN << >>
  ELSE LET c == Last(stack)
           pushed == SelectSeq(<<c.m_left, c.m_right>>, LAMBDA child : child # Nil)
       IN  <<c.m_key>> \o iteratedFrom(Front(stack) \o pushed)

iterator == iteratedFrom(IF m_root = Nil THEN << >> ELSE <<m_root>>)

------------------------------------------------------------------------------
TreeInit == m_root = Nil /\ m_size = 0 /\ present = {}

TreeInsert(key) ==
  LET root == splay(m_root, key)
      n == newNode(key)
  IN  /\ present' = present \cup {key}
      /\ IF m_root # Nil /\ root.m_key = key
         THEN m_root' = root /\ UNCHANGED m_size
         ELSE /\ m_size' = m_size + 1
              /\ m_root' = IF m_root = Nil THEN n
                           ELSE IF key < root.m_key
                           THEN [n EXCEPT !.m_left = root.m_left, !.m_right = [root EXCEPT !.m_left = Nil]]
                           ELSE [n EXCEPT !.m_right = root.m_right, !.m_left = [root EXCEPT !.m_right = Nil]]

\* remove() of a key that is there, and of one that is not.
TreeRemove(key) ==
  LET root == splay(m_root, key)
  IN  /\ m_root # Nil
      /\ present' = present \ {key}
      /\ IF root.m_key = key
         THEN m_root' = joined(root.m_left, root.m_right) /\ m_size' = m_size - 1
         ELSE m_root' = root /\ UNCHANGED m_size

\* find() without frozen moves nodes as well.
TreeFind(key) ==
  /\ m_root # Nil
  /\ m_root' = splay(m_root, key)
  /\ UNCHANGED <<m_size, present>>

TreeClear == m_root' = Nil /\ m_size' = 0 /\ present' = {}

TreeNext ==
  \/ \E key \in TreeKeys : TreeInsert(key) \/ TreeRemove(key) \/ TreeFind(key)
  \/ TreeClear

TreeSpec == TreeInit /\ [][TreeNext]_treeVars

------------------------------------------------------------------------------
\* After any sequence of insertions, removals, searches and clears: the frozen
\* (binary) and the splaying search find exactly the keys that are there, the
\* iterator visits each of them once, and size() counts them.
TreeIsSet ==
  /\ \A key \in TreeKeys :
       /\ findBinary(m_root, key) <=> key \in present
       /\ m_root # Nil => (splay(m_root, key).m_key = key <=> key \in present)
  /\ ToSet(iterator) = present
  /\ Len(iterator) = m_size
  /\ m_size = Cardinality(present)
==============================================================================
