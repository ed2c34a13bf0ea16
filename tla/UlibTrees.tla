------------------------------ MODULE UlibTrees ------------------------------
(***************************************************************************)
(* ulib's intrusive trees (ulib-svn/src/base/tree.c): plain binary search  *)
(* trees, splay trees with and without parent pointers, and AVL trees.     *)
(* nvm_malloc keeps its free page runs and its free huge regions in the    *)
(* plain tree, ordered by size, so equal keys are part of the model.       *)
(*                                                                         *)
(* A tree is [root, kid, parent, bal]; kid[0] is "left", kid[1] "right".   *)
(* The code's mirrored twins (left and right) are one definition with the  *)
(* side s as a parameter, and 1 - s for the other side.                    *)
(***************************************************************************)
EXTENDS BinaryTrees

CONSTANTS Node,   \* the cells a caller may link, a set of positive numbers
          Key     \* the key of each cell

\* The cell on the stack of splay_map and splay_search ("node").
Local == -1

Cell == Node \union {Local}

VARIABLES flavour,  \* which of the tree kinds this is
          t,        \* the tree in memory
          held      \* the cells linked into it

vars == <<flavour, t, held>>

Sgn(a, b) == IF Key[a] < Key[b] THEN -1 ELSE IF Key[a] = Key[b] THEN 0 ELSE 1

\* The child a descent for a key that compares as sgn takes.
Side(sgn) == IF sgn < 0 THEN 0 ELSE 1

Empty == [root |-> NULL, kid |-> [s \in 0..1 |-> [n \in Cell |-> NULL]],
          parent |-> [n \in Cell |-> NULL], bal |-> [n \in Cell |-> 0]]

\* INIT_TREE_ROOT
INIT_TREE_ROOT(m, n) == [m EXCEPT !.kid[0][n] = NULL, !.kid[1][n] = NULL, !.parent[n] = NULL]

SetParent(m, n, p) == IF n = NULL THEN m ELSE [m EXCEPT !.parent[n] = p]

\* "*root or the pointer of p that named old now names new".
Relink(m, p, old, new) ==
  IF p = NULL THEN [m EXCEPT !.root = new]
  ELSE [m EXCEPT !.kid[IF m.kid[0][p] = old THEN 0 ELSE 1][p] = new]

-----------------------------------------------------------------------------
(* Searching and walking.                                                  *)

RECURSIVE SearchFrom(_, _, _)
SearchFrom(m, key, n) ==
  IF n = NULL \/ Key[n] = key THEN n
  ELSE SearchFrom(m, key, m.kid[IF key < Key[n] THEN 0 ELSE 1][n])

tree_search(m, key) == SearchFrom(m, key, m.root)

tree_min(m, n) == IF n = NULL THEN NULL ELSE Outermost(m, n, 0)

tree_max(m, n) == IF n = NULL THEN NULL ELSE Outermost(m, n, 1)

\* Up from n while n is the s-child of its parent.
RECURSIVE Climb(_, _, _)
Climb(m, n, s) ==
  LET p == m.parent[n] IN IF p # NULL /\ n = m.kid[s][p] THEN Climb(m, p, s) ELSE p

tree_successor(m, n) ==
  IF n = NULL THEN NULL
  ELSE IF m.kid[1][n] # NULL THEN tree_min(m, m.kid[1][n]) ELSE Climb(m, n, 1)

tree_predecessor(m, n) ==
  IF n = NULL THEN NULL
  ELSE IF m.kid[0][n] # NULL THEN tree_max(m, m.kid[0][n]) ELSE Climb(m, n, 0)

\* tree_for_each and tree_for_each_prev, at most d steps of them.
RECURSIVE WalkUp(_, _, _)
WalkUp(m, n, d) == IF n = NULL \/ d = 0 THEN <<>> ELSE <<n>> \o WalkUp(m, tree_successor(m, n), d - 1)

RECURSIVE WalkDown(_, _, _)
WalkDown(m, n, d) == IF n = NULL \/ d = 0 THEN <<>> ELSE <<n>> \o WalkDown(m, tree_predecessor(m, n), d - 1)

tree_for_each(m, d) == WalkUp(m, tree_min(m, m.root), d)

tree_for_each_prev(m, d) == WalkDown(m, tree_max(m, m.root), d)

\* tree_count
RECURSIVE tree_count(_, _)
tree_count(m, n) ==
  IF n = NULL THEN 0 ELSE tree_count(m, m.kid[0][n]) + tree_count(m, m.kid[1][n]) + 1

\* tree_verify: every later cell of the walk is compared with the first one,
\* because "last" is not moved along.
tree_verify(m, d) ==
  LET s == tree_for_each(m, d)
  IN IF m.root # NULL /\ (\/ \E i \in 2..Len(s) : Sgn(s[i], s[1]) <= 0
                          \/ Len(s) # tree_count(m, m.root))
     THEN -1 ELSE 0

\* nvm_malloc's own descent over such a tree: the entry with the requested
\* size, or the last larger one met on the way down.
RECURSIVE UpperBound(_, _, _, _)
UpperBound(m, req, n, last_larger) ==
  IF n = NULL THEN last_larger
  ELSE IF Key[n] = req THEN n
  ELSE IF Key[n] < req THEN UpperBound(m, req, m.kid[1][n], last_larger)
  ELSE UpperBound(m, req, m.kid[0][n], n)

tree_upper_bound(m, req) == UpperBound(m, req, m.root, NULL)

-----------------------------------------------------------------------------
(* The plain tree.                                                         *)

\* __rotate_left (s = 0) and __rotate_right (s = 1).
Rotate(m, n, s) ==
  LET o == 1 - s
      child == m.kid[o][n]
      m1 == SetParent([m EXCEPT !.kid[o][n] = m.kid[s][child]], m.kid[s][child], n)
      m2 == Relink([m1 EXCEPT !.parent[child] = m.parent[n]], m.parent[n], n, child)
  IN [m2 EXCEPT !.kid[s][child] = n, !.parent[n] = child]

\* The last cell on the way down for the key of n; with "unique" the way
\* ends at a cell with the same key.
RECURSIVE Descend(_, _, _, _, _)
Descend(m, n, unique, cur, next) ==
  IF next = NULL THEN cur
  ELSE IF unique /\ Sgn(n, next) = 0 THEN next
  ELSE Descend(m, n, unique, next, m.kid[Side(Sgn(n, next))][next])

Hang(m, n, cur) ==
  LET m1 == [INIT_TREE_ROOT(m, n) EXCEPT !.parent[n] = cur]
  IN IF cur = NULL THEN [m1 EXCEPT !.root = n] ELSE [m1 EXCEPT !.kid[Side(Sgn(n, cur))][cur] = n]

tree_add(m, n) == Hang(m, n, Descend(m, n, FALSE, NULL, m.root))

\* The tree and the cell tree_map returns.
tree_map(m, n) ==
  LET cur == Descend(m, n, TRUE, NULL, m.root)
  IN IF cur # NULL /\ Sgn(n, cur) = 0 THEN [tree |-> INIT_TREE_ROOT(m, n), node |-> cur]
     ELSE [tree |-> Hang(m, n, cur), node |-> n]

\* Mutant of tree_del: the children of the deleted node keep their parent.
tree_del_upless(m, n) ==
  LET succ == IF NULL \in {m.kid[0][n], m.kid[1][n]} THEN n ELSE tree_successor(m, n)
      child == m.kid[IF m.kid[0][succ] # NULL THEN 0 ELSE 1][succ]
      m1 == Relink(SetParent(m, child, m.parent[succ]), m.parent[succ], succ, child)
      m2 == [m1 EXCEPT !.kid[0][succ] = m1.kid[0][n], !.kid[1][succ] = m1.kid[1][n],
                       !.parent[succ] = m1.parent[n]]
  IN IF succ = n THEN m1 ELSE Relink(m2, m1.parent[n], n, succ)

tree_del(m, n) ==
  LET succ == IF NULL \in {m.kid[0][n], m.kid[1][n]} THEN n ELSE tree_successor(m, n)
      child == m.kid[IF m.kid[0][succ] # NULL THEN 0 ELSE 1][succ]
      m1 == Relink(SetParent(m, child, m.parent[succ]), m.parent[succ], succ, child)
      m2 == [m1 EXCEPT !.kid[0][succ] = m1.kid[0][n], !.kid[1][succ] = m1.kid[1][n],
                       !.parent[succ] = m1.parent[n]]
      m3 == SetParent(SetParent(m2, m1.kid[0][n], succ), m1.kid[1][n], succ)
  IN IF succ = n THEN m1 ELSE Relink(m3, m1.parent[n], n, succ)

-----------------------------------------------------------------------------
(* Splay trees.  The loop of a top-down splay carries the memory, the head *)
(* of what is left of the tree, and the ends of the two trees split off:   *)
(* end[0] is "small", end[1] is "large".                                   *)

\* SPLAY_ROTATE_RIGHT (s = 0) and SPLAY_ROTATE_LEFT (s = 1).
SPLAY_ROTATE(l, s) ==
  LET tmp == l.m.kid[s][l.head]
      g == l.m.kid[1 - s][tmp]
      m1 == SetParent([l.m EXCEPT !.kid[s][l.head] = g], g, l.head)
  IN [l EXCEPT !.head = tmp,
               !.m = [m1 EXCEPT !.kid[1 - s][tmp] = l.head, !.parent[tmp] = m1.parent[l.head],
                                !.parent[l.head] = tmp]]

\* SPLAY_LINK_RIGHT (s = 0) and SPLAY_LINK_LEFT (s = 1).
SPLAY_LINK(l, s) ==
  LET o == 1 - s
  IN [l EXCEPT !.m = [l.m EXCEPT !.kid[s][l.end[o]] = l.head, !.parent[l.head] = l.end[o]],
               !.end[o] = l.head,
               !.head = l.m.kid[s][l.head]]

SPLAY_ASSEMBLE(l) ==
  LET h == l.head
      m1 == SetParent([l.m EXCEPT !.kid[1][l.end[0]] = l.m.kid[0][h]], l.m.kid[0][h], l.end[0])
      m2 == SetParent([m1 EXCEPT !.kid[0][l.end[1]] = m1.kid[1][h]], m1.kid[1][h], l.end[1])
      m3 == SetParent([m2 EXCEPT !.kid[0][h] = m2.kid[1][Local]], m2.kid[1][Local], h)
      m4 == SetParent([m3 EXCEPT !.kid[1][h] = m3.kid[0][Local]], m3.kid[0][Local], h)
  IN INIT_TREE_ROOT([m4 EXCEPT !.root = h], Local)   \* "node" goes out of scope

SplayStart(m) == [m |-> m, head |-> m.root, end |-> [s \in 0..1 |-> Local]]

RECURSIVE SearchLoop(_, _)
SearchLoop(l, key) ==
  LET h == l.head
      s == IF key < Key[h] THEN 0 ELSE 1
      tmp == l.m.kid[s][h]
      further == IF s = 0 THEN key < Key[tmp] ELSE key > Key[tmp]
      l1 == IF further THEN SPLAY_ROTATE(l, s) ELSE l
  IN IF key = Key[h] \/ tmp = NULL THEN l
     ELSE IF further /\ l1.m.kid[s][l1.head] = NULL THEN l1
     ELSE SearchLoop(SPLAY_LINK(l1, s), key)

splay_search(m, key) ==
  LET l == SearchLoop(SplayStart(m), key)
  IN [tree |-> SPLAY_ASSEMBLE([l EXCEPT !.m.parent[l.head] = NULL]),
      node |-> IF Key[l.head] = key THEN l.head ELSE NULL]

RECURSIVE MapLoop(_, _)
MapLoop(l, n) ==
  LET s == Side(Sgn(n, l.head))
      tmp == l.m.kid[s][l.head]
      same == Side(Sgn(n, tmp)) = s
  IN IF l.head = NULL THEN l
     ELSE IF Sgn(n, l.head) = 0 THEN l
     ELSE IF tmp = NULL THEN SPLAY_LINK(l, s)
     ELSE IF Sgn(n, tmp) = 0 THEN SPLAY_LINK(l, s)
     ELSE IF same THEN MapLoop(SPLAY_LINK(SPLAY_ROTATE(l, s), s), n)
     ELSE MapLoop(SPLAY_LINK(SPLAY_LINK(l, s), 1 - s), n)

splay_map(m, n) ==
  LET l == MapLoop(SplayStart(INIT_TREE_ROOT(m, n)), n)
      h == IF l.head = NULL THEN n ELSE l.head
  IN [tree |-> SPLAY_ASSEMBLE([l EXCEPT !.head = h, !.m.parent[h] = NULL]), node |-> h]

\* The _NP macros make the same stores but those to parent, which their
\* cells do not have.
WithoutParents(r) == [r EXCEPT !.tree.parent = [n \in Cell |-> NULL]]

splay_search_np(m, key) == WithoutParents(splay_search(m, key))

splay_map_np(m, n) == WithoutParents(splay_map(m, n))

-----------------------------------------------------------------------------
(* AVL trees.  Weight(s) is what a longer s-subtree adds to the balance.   *)

Weight(s) == IF s = 0 THEN -1 ELSE 1

SideOf(m, n) == IF n = m.kid[0][m.parent[n]] THEN 0 ELSE 1

\* The loop of __avl_balance that follows the parents of a new cell as long
\* as they were balanced before it came; the last cell it looked at.
RECURSIVE Ascend(_, _)
Ascend(m, n) ==
  LET p == m.parent[n]
      m1 == [m EXCEPT !.bal[p] = @ + Weight(SideOf(m, n))]
  IN IF p = NULL THEN [m |-> m, at |-> n]
     ELSE IF m.bal[p] = 0 THEN Ascend(m1, p) ELSE [m |-> m1, at |-> p]

\* The double rotation of n, its s-child and that one's other child.
DoubleRotate(m, n, s) ==
  LET child == m.kid[s][n]
      grandson == m.kid[1 - s][child]
      b == m.bal[grandson]
  IN [Rotate(Rotate(m, child, s), n, 1 - s) EXCEPT
        !.bal[child] = IF b = -Weight(s) THEN Weight(s) ELSE 0,
        !.bal[n] = IF b = Weight(s) THEN -Weight(s) ELSE 0,
        !.bal[grandson] = 0]

SingleRotate(m, n, s, childBal) ==
  [Rotate(m, n, 1 - s) EXCEPT !.bal[m.kid[s][n]] = childBal, !.bal[n] = -childBal]

avl_balance(m, n) ==
  LET a == Ascend(m, n)
      s == IF a.m.bal[a.at] < 0 THEN 0 ELSE 1
  IN IF a.m.bal[a.at] \notin {-2, 2} THEN a.m
     ELSE IF a.m.bal[a.m.kid[s][a.at]] = Weight(s) THEN SingleRotate(a.m, a.at, s, 0)
     ELSE DoubleRotate(a.m, a.at, s)

avl_add(m, n) == avl_balance(tree_add([m EXCEPT !.bal[n] = 0], n), n)

avl_map(m, n) ==
  LET r == tree_map([m EXCEPT !.bal[n] = 0], n)
  IN IF r.node # n THEN r ELSE [r EXCEPT !.tree = avl_balance(r.tree, n)]

\* The loop of avl_del: the dir-subtree of n has become shorter.
RECURSIVE Shrunk(_, _, _)
Shrunk(m, n, dir) ==
  LET o == 1 - dir
      p == m.parent[n]
      dir_next == IF p = NULL THEN dir ELSE SideOf(m, n)
      m1 == [m EXCEPT !.bal[n] = @ - Weight(dir)]
      child == m.kid[o][n]
      even == m1.bal[child] = 0
      m2 == IF m1.bal[n] \notin {-2, 2} THEN m1
            ELSE IF m1.bal[child] = Weight(dir) THEN DoubleRotate(m1, n, o)
            ELSE SingleRotate(m1, n, o, IF even THEN Weight(dir) ELSE 0)
  IN IF \/ m1.bal[n] = Weight(o)
        \/ m1.bal[n] \in {-2, 2} /\ even
        \/ p = NULL
     THEN m2 ELSE Shrunk(m2, p, dir_next)

avl_del(m, n) ==
  LET l == m.kid[0][n]
      r == m.kid[1][n]
      p == m.parent[n]
      succ == tree_successor(m, n)
      sp == m.parent[succ]
      \* Case 1: entry has no right child
      m1 == Relink(SetParent(m, l, p), p, n, l)
      \* Case 2: entry's right child has no left child
      m2 == Relink([SetParent([m EXCEPT !.kid[0][r] = l], l, r)
                       EXCEPT !.parent[r] = p, !.bal[r] = m.bal[n]], p, n, r)
      \* Case 3: the successor of entry takes its place
      m3a == [SetParent(m, m.kid[1][succ], sp) EXCEPT !.kid[0][sp] = m.kid[1][succ]]
      m3b == [m3a EXCEPT !.kid[0][succ] = l, !.parent[l] = succ, !.kid[1][succ] = r,
                         !.parent[r] = succ, !.parent[succ] = p, !.bal[succ] = m.bal[n]]
  IN IF r = NULL THEN IF p = NULL THEN m1 ELSE Shrunk(m1, p, SideOf(m, n))
     ELSE IF m.kid[0][r] = NULL THEN Shrunk(m2, r, 1)
     ELSE Shrunk(Relink(m3b, p, n, succ), sp, 0)

-----------------------------------------------------------------------------
(* A caller links and unlinks cells in any order the interface allows; an  *)
(* unlinked cell goes back to the caller.                                  *)

Back(m, n) == [INIT_TREE_ROOT(m, n) EXCEPT !.bal[n] = 0]

MapIn(m, n) ==
  CASE flavour = "tree" -> tree_map(m, n)
    [] flavour = "splay" -> splay_map(m, n)
    [] flavour = "splay_np" -> splay_map_np(m, n)
    [] flavour = "avl" -> avl_map(m, n)

Init == /\ flavour \in {"tree", "splay", "splay_np", "avl"}
        /\ t = Empty
        /\ held = {}

Add(n) ==
  /\ flavour \in {"tree", "avl"} /\ n \notin held
  /\ t' = IF flavour = "avl" THEN avl_add(t, n) ELSE tree_add(t, n)
  /\ held' = held \union {n}
  /\ UNCHANGED flavour

Map(n) ==
  /\ n \notin held
  /\ t' = MapIn(t, n).tree
  /\ held' = held \union ({n} \intersect {MapIn(t, n).node})
  /\ UNCHANGED flavour

Del(n) ==
  /\ flavour # "splay_np" /\ n \in held
  /\ t' = Back(IF flavour = "avl" THEN avl_del(t, n) ELSE tree_del(t, n), n)
  /\ held' = held \ {n}
  /\ UNCHANGED flavour

Search(key) ==
  /\ flavour \in {"splay", "splay_np"} /\ held # {}
  /\ t' = (IF flavour = "splay" THEN splay_search(t, key) ELSE splay_search_np(t, key)).tree
  /\ UNCHANGED <<flavour, held>>

Next == \/ \E n \in Node : Add(n) \/ Map(n) \/ Del(n)
        \/ \E key \in {Key[n] : n \in Node} : Search(key)

Spec == Init /\ [][Next]_vars

-----------------------------------------------------------------------------

TypeOK == /\ t.root \in held \union {NULL}
          /\ \A n \in held : {t.kid[0][n], t.kid[1][n], t.parent[n]} \subseteq held \union {NULL}

\* Whatever the order of insertions, deletions and splays, the tree holds
\* exactly the linked cells in key order, and a parent pointer names the
\* cell above.
WellFormed == /\ HoldsInOrder(t, Key, held)
              /\ flavour # "splay_np" => ParentsMatch(t, held)

\* The balance fields of an AVL tree are right and within one: no insertion
\* or deletion leaves a subtree two levels deeper than its sibling.
AvlBalanced == flavour = "avl" => IsBalanced(t, held)

\* tree_map, avl_map and splay_map return a linked cell with an equal key if
\* there is one and the new cell otherwise; tree_search finds a key exactly
\* when a linked cell has it.
FindsEqual ==
  /\ \A n \in Node \ held :
       LET r == MapIn(t, n).node
           equal == {x \in held : Key[x] = Key[n]}
       IN IF equal = {} THEN r = n ELSE r \in equal
  /\ \A n \in Node : LET r == tree_search(t, Key[n])
                     IN IF \E x \in held : Key[x] = Key[n] THEN r \in held /\ Key[r] = Key[n] ELSE r = NULL

\* Walking by tree_successor from tree_min visits every linked cell in
\* order, and by tree_predecessor from tree_max in the opposite order; and
\* tree_verify, which counts that walk, accepts every tree that holds
\* different keys.
WalksAll ==
  LET d == Cardinality(Node) + 1
      s == InOrder(t, t.root, d)
  IN flavour # "splay_np" =>
       /\ tree_for_each(t, d) = s /\ tree_for_each_prev(t, d) = Reverse(s)
       /\ (\A x, y \in held : x # y => Key[x] # Key[y]) => tree_verify(t, d) = 0

\* tree_upper_bound, by which arena.c and nvm_malloc.c choose a free page
\* run or huge region, returns a smallest entry that is large enough, and
\* NULL only when none is.
BestFit ==
  \A req \in 1..Cardinality(Node) :
    LET fit == {x \in held : Key[x] >= req}
        r == tree_upper_bound(t, req)
    IN IF fit = {} THEN r = NULL ELSE r \in fit /\ \A x \in fit : Key[r] <= Key[x]

=============================================================================
