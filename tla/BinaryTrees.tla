----------------------------- MODULE BinaryTrees -----------------------------
(***************************************************************************)
(* Reference definitions for binary search trees kept in memory cells.     *)
(* A tree is a record with a root and kid[0], kid[1]: the left and right   *)
(* child of every cell.  The three tree libraries of ulib (tree.c and the  *)
(* two AVL trees its benchmarks compare with) are checked against them.    *)
(***************************************************************************)
EXTENDS Integers, Sequences, FiniteSets, SequencesExt

NULL == 0

\* The cells of the subtree at n from left to right, at most d levels deep:
\* a depth the proper trees of these models never reach keeps a cyclic
\* structure from being walked for ever.
RECURSIVE InOrder(_, _, _)
InOrder(t, n, d) ==
  IF n = NULL \/ d = 0 THEN <<>>
  ELSE InOrder(t, t.kid[0][n], d - 1) \o <<n>> \o InOrder(t, t.kid[1][n], d - 1)

\* tree_height
RECURSIVE tree_height(_, _, _)
tree_height(t, n, d) ==
  IF n = NULL \/ d = 0 THEN 0
  ELSE LET hl == tree_height(t, t.kid[0][n], d - 1)
           hr == tree_height(t, t.kid[1][n], d - 1)
       IN IF hl > hr THEN hl + 1 ELSE hr + 1

\* Every cell of "held" is in the tree exactly once, and the keys ascend.
HoldsInOrder(t, key, held) ==
  LET s == InOrder(t, t.root, Cardinality(held) + 1)
  IN /\ Len(s) = Cardinality(held)
     /\ ToSet(s) = held
     /\ \A i \in 1..Len(s) - 1 : key[s[i]] <= key[s[i + 1]]

\* The balance field of every cell is the height of its right subtree less
\* that of its left one, and within -1..1.
IsBalanced(t, held) ==
  LET d == Cardinality(held) + 1
  IN \A n \in held :
       /\ t.bal[n] \in -1..1
       /\ t.bal[n] = tree_height(t, t.kid[1][n], d) - tree_height(t, t.kid[0][n], d)

\* The parent field of every cell names the cell it is a child of.
ParentsMatch(t, held) ==
  /\ t.root # NULL => t.parent[t.root] = NULL
  /\ \A n \in held, s \in 0..1 : t.kid[s][n] # NULL => t.parent[t.kid[s][n]] = n

\* The end of the chain of s-children that starts at n.
RECURSIVE Outermost(_, _, _)
Outermost(t, n, s) == IF t.kid[s][n] = NULL THEN n ELSE Outermost(t, t.kid[s][n], s)

=============================================================================
