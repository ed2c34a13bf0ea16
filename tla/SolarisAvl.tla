------------------------------ MODULE SolarisAvl ------------------------------
(***************************************************************************)
(* The kernel AVL tree of ulib's benchmark (perf/avl/solaris/avl.c).  As   *)
(* in the code, a left-handed manipulation with the side as a parameter    *)
(* does both hands, and the parent pointer, the index of a node in its     *)
(* parent and its balance share the word avl_pcb.                          *)
(***************************************************************************)
EXTENDS BinaryTrees

CONSTANTS Node,   \* nodes, positive numbers; a node lies at address 8 * n
          Key     \* the key of each node, all different

Local == -1       \* the stack variable "tmp" of avl_remove

Cell == Node \union {Local}

VARIABLES t,       \* [root, kid, pcb, num]
          held,    \* the nodes in the tree
          cookie,  \* avl_destroy_nodes: its cookie; 0 (NULL) outside of it
          given    \* the nodes avl_destroy_nodes has returned, in order

vars == <<t, held, cookie, given>>

avl_child2balance == [c \in 0..1 |-> IF c = 0 THEN -1 ELSE 1]

avl_balance2child == [b \in -1..1 |-> IF b = 1 THEN 1 ELSE 0]

\* avl_pcb: |parent|child index|balance + 1|, three low bits for the last two.
AVL_XPARENT(m, n) == m.pcb[n] \div 8
AVL_SETPARENT(m, n, p) == [m EXCEPT !.pcb[n] = (@ % 8) + 8 * p]
AVL_XCHILD(m, n) == (m.pcb[n] \div 4) % 2
AVL_SETCHILD(m, n, c) == [m EXCEPT !.pcb[n] = @ - 4 * ((@ \div 4) % 2) + 4 * c]
AVL_XBALANCE(m, n) == (m.pcb[n] % 4) - 1
AVL_SETBALANCE(m, n, b) == [m EXCEPT !.pcb[n] = @ - (@ % 4) + (b + 1)]

\* avl_index_t: where a new node would go.
AVL_MKINDEX(n, c) == [node |-> n, child |-> c]

\* Three stores that always come together: node n becomes the c-child of p.
Place(m, n, p, c) == IF n = NULL THEN m ELSE AVL_SETPARENT(AVL_SETCHILD(m, n, c), n, p)

\* "if (parent != NULL) parent->avl_child[c] = n; else tree->avl_root = n".
Hook(m, p, c, n) == IF p = NULL THEN [m EXCEPT !.root = n] ELSE [m EXCEPT !.kid[c][p] = n]

avl_create == [root |-> NULL, kid |-> [c \in 0..1 |-> [n \in Cell |-> NULL]],
               pcb |-> [n \in Cell |-> 0], num |-> 0]

-----------------------------------------------------------------------------

\* Up until the node was reached from its side-child.
RECURSIVE WalkUp(_, _, _)
WalkUp(m, n, side) ==
  LET p == AVL_XPARENT(m, n)
  IN IF p = NULL \/ AVL_XCHILD(m, n) = side THEN p ELSE WalkUp(m, p, side)

avl_walk(m, n, left) ==
  IF n = NULL THEN NULL
  ELSE IF m.kid[left][n] # NULL THEN Outermost(m, m.kid[left][n], 1 - left)
  ELSE WalkUp(m, n, 1 - left)

AVL_NEXT(m, n) == avl_walk(m, n, 1)
AVL_PREV(m, n) == avl_walk(m, n, 0)

avl_first(m) == IF m.root = NULL THEN NULL ELSE Outermost(m, m.root, 0)

avl_last(m) == IF m.root = NULL THEN NULL ELSE Outermost(m, m.root, 1)

\* The node with the value, or where it would be inserted.
RECURSIVE FindFrom(_, _, _, _, _)
FindFrom(m, K, value, prev, child) ==
  LET n == IF prev = NULL THEN m.root ELSE m.kid[child][prev]
      diff == IF value < K[n] THEN -1 ELSE IF value = K[n] THEN 0 ELSE 1
  IN IF n = NULL THEN [node |-> NULL, where |-> AVL_MKINDEX(prev, child)]
     ELSE IF diff = 0 THEN [node |-> n, where |-> AVL_MKINDEX(NULL, 0)]
     ELSE FindFrom(m, K, value, n, avl_balance2child[diff])

avl_find(m, K, value) == FindFrom(m, K, value, NULL, 0)

avl_nearest(m, where, direction) ==
  IF where.node = NULL THEN NULL
  ELSE IF where.child # direction THEN where.node
  ELSE avl_walk(m, where.node, direction)

-----------------------------------------------------------------------------

\* The tree after the rotation, and whether the subtree got shorter.
avl_rotation(m, n, balance) ==
  LET left == IF balance < 0 THEN 0 ELSE 1
      right == 1 - left
      left_heavy == balance \div 2
      right_heavy == -left_heavy
      parent == AVL_XPARENT(m, n)
      which_child == AVL_XCHILD(m, n)
      child == m.kid[left][n]
      child_bal == AVL_XBALANCE(m, child) + right_heavy
      cright == m.kid[right][child]
      \* case 1: node moves below child
      a1 == Place([m EXCEPT !.kid[left][n] = cright, !.kid[right][child] = n], cright, n, left)
      a2 == AVL_SETBALANCE(AVL_SETBALANCE(a1, n, -child_bal), child, child_bal)
      a3 == Place(Place(a2, n, child, right), child, parent, which_child)
      \* case 2: child and node both move below gchild
      gchild == cright
      gleft == m.kid[left][gchild]
      gright == m.kid[right][gchild]
      gbal == AVL_XBALANCE(m, gchild)
      b1 == [m EXCEPT !.kid[left][n] = gright, !.kid[right][child] = gleft,
                      !.kid[left][gchild] = child, !.kid[right][gchild] = n]
      b2 == Place(Place(b1, gright, n, left), gleft, child, right)
      b3 == AVL_SETBALANCE(AVL_SETBALANCE(AVL_SETBALANCE(b2,
              child, IF gbal = right_heavy THEN left_heavy ELSE 0),
              n, IF gbal = left_heavy THEN right_heavy ELSE 0),
              gchild, 0)
      b4 == Place(Place(Place(b3, child, gchild, left), n, gchild, right), gchild, parent, which_child)
  IN IF AVL_XBALANCE(m, child) # right_heavy
     THEN [tree |-> Hook(a3, parent, which_child, child), shorter |-> child_bal = 0]
     ELSE [tree |-> Hook(b4, parent, which_child, gchild), shorter |-> TRUE]

\* The way up after an insertion below the which_child-child of n.
RECURSIVE Grown(_, _, _)
Grown(m, n, which_child) ==
  LET old_balance == AVL_XBALANCE(m, n)
      new_balance == old_balance + avl_child2balance[which_child]
      m1 == AVL_SETBALANCE(m, n, new_balance)
  IN IF n = NULL THEN m
     ELSE IF new_balance = 0 THEN m1
     ELSE IF old_balance # 0 THEN avl_rotation(m, n, new_balance).tree
     ELSE Grown(m1, AVL_XPARENT(m, n), AVL_XCHILD(m, n))

avl_insert(m, n, where) ==
  LET m1 == [m EXCEPT !.num = @ + 1, !.kid[0][n] = NULL, !.kid[1][n] = NULL]
      m2 == AVL_SETBALANCE(Place(m1, n, where.node, where.child), n, 0)
  IN Grown(Hook(m2, where.node, where.child, n), where.node, where.child)

avl_insert_here(m, n, here, direction) ==
  LET first == m.kid[direction][here]
  IN IF first = NULL THEN avl_insert(m, n, AVL_MKINDEX(here, direction))
     ELSE avl_insert(m, n, AVL_MKINDEX(Outermost(m, first, 1 - direction), 1 - direction))

avl_add(m, K, n) == avl_insert(m, n, avl_find(m, K, K[n]).where)

\* The do-while loop of avl_remove: the which_child-subtree of n is shorter.
RECURSIVE Shrunk(_, _, _)
Shrunk(m, n, which_child) ==
  LET old_balance == AVL_XBALANCE(m, n)
      new_balance == old_balance - avl_child2balance[which_child]
      parent == AVL_XPARENT(m, n)
      r == IF new_balance = 0 THEN [tree |-> AVL_SETBALANCE(m, n, 0), shorter |-> TRUE]
           ELSE avl_rotation(m, n, new_balance)
  IN IF old_balance = 0 THEN AVL_SETBALANCE(m, n, new_balance)
     ELSE IF parent = NULL \/ ~r.shorter THEN r.tree
     ELSE Shrunk(r.tree, parent, AVL_XCHILD(m, n))

\* The parent of n, by its avl_pcb, gets n as its child, ...
Reseat(m, n) == Hook(m, AVL_XPARENT(m, n), AVL_XCHILD(m, n), n)

\* ... both children of n get n as their parent, ...
Claim(m, n) == AVL_SETPARENT(AVL_SETPARENT(m, m.kid[0][n], n), m.kid[1][n], n)

\* ... and so does the only child of n, if there is one.
ClaimOnly(m, n) ==
  LET below == m.kid[IF m.kid[1][n] # NULL THEN 1 ELSE 0][n]
  IN IF below = NULL THEN m ELSE AVL_SETPARENT(m, below, n)

\* A node with two children first trades places with its neighbour in the
\* taller subtree; "tmp" stands in for it there.
TradePlaces(m, delete) ==
  LET left == avl_balance2child[AVL_XBALANCE(m, delete)]
      right == 1 - left
      n == Outermost(m, m.kid[left][delete], right)
      m1 == [m EXCEPT !.kid[0][Local] = m.kid[0][n], !.kid[1][Local] = m.kid[1][n],
                      !.pcb[Local] = m.pcb[n],
                      !.kid[left][n] = IF m.kid[left][delete] = n THEN Local ELSE m.kid[left][delete],
                      !.kid[right][n] = m.kid[right][delete], !.pcb[n] = m.pcb[delete]]
  IN ClaimOnly(Reseat(Claim(Reseat(m1, n), n), Local), Local)

\* A node with at most one child leaves the tree.
CutOut(m, delete) ==
  LET parent == AVL_XPARENT(m, delete)
      which_child == AVL_XCHILD(m, delete)
      below == m.kid[IF m.kid[0][delete] # NULL THEN 0 ELSE 1][delete]
      m1 == Hook(Place([m EXCEPT !.num = @ - 1], below, parent, which_child), parent, which_child, below)
  IN IF parent = NULL THEN m1 ELSE Shrunk(m1, parent, which_child)

avl_remove(m, n) ==
  IF m.kid[0][n] # NULL /\ m.kid[1][n] # NULL THEN CutOut(TradePlaces(m, n), Local) ELSE CutOut(m, n)

AVL_REINSERT(m, K, n) == avl_add(avl_remove(m, n), K, n)

BelowPrev(m, K, n) == LET p == AVL_PREV(m, n) IN p # NULL /\ K[n] < K[p]

AboveNext(m, K, n) == LET p == AVL_NEXT(m, n) IN p # NULL /\ K[n] > K[p]

avl_update_lt(m, K, n) == IF BelowPrev(m, K, n) THEN AVL_REINSERT(m, K, n) ELSE m

avl_update_gt(m, K, n) == IF AboveNext(m, K, n) THEN AVL_REINSERT(m, K, n) ELSE m

avl_update(m, K, n) ==
  IF BelowPrev(m, K, n) \/ AboveNext(m, K, n) THEN AVL_REINSERT(m, K, n) ELSE m

-----------------------------------------------------------------------------
(* avl_destroy_nodes.  The cookie is the parent of the node just returned, *)
(* with bit 0 saying which child that node was; CHILDBIT alone means done. *)

CHILDBIT == 1

\* To the right child of a node without a left one: a leaf.
CheckRightSide(m, n) ==
  IF m.kid[1][n] # NULL THEN m.kid[1][n] ELSE n

avl_destroy_nodes(m, c) ==
  LET parent == c \div 2
      child == c % 2
      m1 == [m EXCEPT !.kid[child][parent] = NULL, !.num = @ - 1]
      up == child = 1 \/ m1.kid[1][parent] = NULL
      next == IF c = 0 THEN CheckRightSide(m, avl_first(m))
              ELSE IF up THEN parent ELSE CheckRightSide(m1, Outermost(m1, m1.kid[1][parent], 0))
      m2 == IF c = 0 THEN m ELSE m1
      above == AVL_XPARENT(m2, next)
  IN IF c = 0 /\ m.root = NULL THEN [tree |-> m, cookie |-> CHILDBIT, node |-> NULL]
     ELSE IF c # 0 /\ parent = NULL
     THEN [tree |-> [m EXCEPT !.root = NULL, !.num = 0], cookie |-> c, node |-> NULL]
     ELSE [tree |-> m2, node |-> next,
           cookie |-> IF above = NULL THEN CHILDBIT ELSE 2 * above + AVL_XCHILD(m2, next)]

\* A node's memory goes back to the caller.
Back(m, S) == [m EXCEPT !.kid = [c \in 0..1 |-> [n \in Cell |-> IF n \in S THEN NULL ELSE m.kid[c][n]]],
                        !.pcb = [n \in Cell |-> IF n \in S THEN 0 ELSE m.pcb[n]]]

-----------------------------------------------------------------------------

Init == t = avl_create /\ held = {} /\ cookie = 0 /\ given = <<>>

Add(n) ==
  /\ cookie = 0 /\ n \notin held
  /\ t' = avl_add(t, Key, n)
  /\ held' = held \union {n}
  /\ UNCHANGED <<cookie, given>>

\* The new node belongs right before or after "here".
InsertHere(n, here, direction) ==
  /\ cookie = 0 /\ n \notin held /\ here \in held
  /\ LET where == avl_find(t, Key, Key[n]).where
     IN here = avl_nearest(t, where, 1 - direction)
  /\ t' = avl_insert_here(t, n, here, direction)
  /\ held' = held \union {n}
  /\ UNCHANGED <<cookie, given>>

Unlink(n) ==
  /\ cookie = 0 /\ n \in held
  /\ t' = Back(avl_remove(t, n), {n, Local})
  /\ held' = held \ {n}
  /\ UNCHANGED <<cookie, given>>

\* The loop of the example above avl_destroy_nodes, one call at a time.
DestroyNodes ==
  LET r == avl_destroy_nodes(t, cookie)
  IN IF r.node = NULL
     THEN t' = Back(r.tree, Node) /\ held' = {} /\ cookie' = 0 /\ given' = <<>>
     ELSE t' = r.tree /\ cookie' = r.cookie /\ given' = Append(given, r.node) /\ UNCHANGED held

Next == \/ \E n \in Node : Add(n) \/ Unlink(n)
        \/ \E n, here \in Node, direction \in 0..1 : InsertHere(n, here, direction)
        \/ DestroyNodes

Spec == Init /\ [][Next]_vars

-----------------------------------------------------------------------------

\* The fields of avl_pcb unpacked.
View(m) == [root |-> m.root, kid |-> m.kid,
            parent |-> [n \in Cell |-> AVL_XPARENT(m, n)], bal |-> [n \in Cell |-> AVL_XBALANCE(m, n)]]

Proper(m, K, S) ==
  /\ HoldsInOrder(m, K, S)
  /\ IsBalanced(View(m), S)
  /\ ParentsMatch(View(m), S)
  /\ \A n \in S : n # m.root => n = m.kid[AVL_XCHILD(m, n)][AVL_XPARENT(m, n)]
  /\ m.num = Cardinality(S)

\* Through every sequence of avl_add, avl_insert_here and avl_remove the
\* tree holds its nodes in key order, balanced, with the parent, the child
\* index and the balance in avl_pcb right and avl_numnodes exact.
WellFormed == cookie = 0 => Proper(t, Key, held)

\* After a change of one node's key avl_update, avl_update_lt (for a smaller
\* key) and avl_update_gt (for a larger one) restore the order.
UpdateRestores ==
  cookie = 0 =>
    \A n \in held, k \in {Key[x] : x \in Node \ held} :
      LET K == [Key EXCEPT ![n] = k]
      IN /\ Proper(Back(avl_update(t, K, n), {Local}), K, held)
         /\ Proper(Back(IF k < Key[n] THEN avl_update_lt(t, K, n) ELSE avl_update_gt(t, K, n), {Local}),
                   K, held)

\* avl_find returns the node with the key or a place whose neighbours, by
\* avl_nearest, are the next smaller and the next larger node; avl_first and
\* avl_last are the ends.
NearestAreNeighbours ==
  cookie = 0 =>
    /\ held # {} => \A n \in held : Key[avl_first(t)] <= Key[n] /\ Key[n] <= Key[avl_last(t)]
    /\ \A x \in Node :
         LET f == avl_find(t, Key, Key[x])
             Less == {n \in held : Key[n] < Key[x]}
             More == {n \in held : Key[n] > Key[x]}
             before == avl_nearest(t, f.where, 0)
             after == avl_nearest(t, f.where, 1)
         IN IF x \in held THEN f.node = x
            ELSE /\ f.node = NULL
                 /\ IF Less = {} THEN before = NULL
                    ELSE before \in Less /\ \A n \in Less : Key[n] <= Key[before]
                 /\ IF More = {} THEN after = NULL
                    ELSE after \in More /\ \A n \in More : Key[n] >= Key[after]

\* avl_destroy_nodes returns every node once, no node before its children,
\* and when it is done the tree is empty (what avl_destroy asserts).
DestroysInPostOrder ==
  /\ IsInjective(given) /\ ToSet(given) \subseteq held
  /\ \A n \in ToSet(given), c \in 0..1 : t.kid[c][n] = NULL
  /\ cookie # 0 => t.num = Cardinality(held) - Len(given) + 1
  /\ cookie = CHILDBIT => ToSet(given) = held

=============================================================================
