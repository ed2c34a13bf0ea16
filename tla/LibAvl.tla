-------------------------------- MODULE LibAvl --------------------------------
(***************************************************************************)
(* The libavl tree of ulib's benchmark (perf/avl/libavl/avl.c): nodes      *)
(* without parent pointers that point at the caller's items, and a         *)
(* traverser that keeps the path to its node and rebuilds it when the      *)
(* table's generation has moved on.                                        *)
(*                                                                         *)
(* Only equality of generation numbers is used, and they only grow, so     *)
(* the traverser carries "stale": its generation is not the table's.       *)
(***************************************************************************)
EXTENDS BinaryTrees

CONSTANTS Item,    \* the caller's items
          Key      \* the key of each item, a positive number

\* Cells are named by the key they are allocated for: no two cells of a
\* table have the same key, and no address is ever compared for order.
Cell == {Key[i] : i \in Item}

Top == -1          \* the table seen as a node: its avl_link[0] is avl_root

Junk == -2         \* what a fresh cell holds

VARIABLES t,       \* [kid, data, bal, count]
          trav     \* the traverser [node, stack, stale]

vars == <<t, trav>>

Used(m) == LET Reach[d \in 0..Cardinality(Cell)] ==
                 IF d = 0 THEN {m.kid[0][Top]} \ {NULL}
                 ELSE Reach[d - 1] \union ({m.kid[s][n] : s \in 0..1, n \in Reach[d - 1]} \ {NULL})
           IN Reach[Cardinality(Cell)]

avl_create == [kid |-> [s \in 0..1 |-> [n \in Cell \union {Top} |-> NULL]],
               data |-> [n \in Cell |-> NULL], bal |-> [n \in Cell |-> 0], count |-> 0]

\* The cells from Top down to the one with the key, or to the last before
\* NULL; side i is the link taken from cell i.
Side(m, n, key) == IF n = Top \/ key < Key[m.data[n]] THEN 0 ELSE 1

RECURSIVE PathTo(_, _, _)
PathTo(m, key, path) ==
  LET n == Last(path)
      next == m.kid[Side(m, n, key)][n]
  IN IF (n # Top /\ Key[m.data[n]] = key) \/ next = NULL THEN path
     ELSE PathTo(m, key, Append(path, next))

Found(m, key, path) == Last(path) # Top /\ Key[m.data[Last(path)]] = key

avl_find(m, key) ==
  LET path == PathTo(m, key, <<Top>>) IN IF Found(m, key, path) THEN m.data[Last(path)] ELSE NULL

-----------------------------------------------------------------------------

Weight(s) == IF s = 0 THEN -1 ELSE 1

\* y leans two to side s.  The new root of its subtree is x, its s-child ...
SingleRotate(m, y, s, xbal) ==
  LET x == m.kid[s][y]
  IN [m EXCEPT !.kid[s][y] = m.kid[1 - s][x], !.kid[1 - s][x] = y, !.bal[x] = xbal, !.bal[y] = -xbal]

\* ... or w, the child of x on the other side.
DoubleRotate(m, y, s) ==
  LET x == m.kid[s][y]
      w == m.kid[1 - s][x]
      b == m.bal[w]
  IN [m EXCEPT !.kid[1 - s][x] = m.kid[s][w], !.kid[s][w] = x,
               !.kid[s][y] = m.kid[1 - s][w], !.kid[1 - s][w] = y,
               !.bal[x] = IF b = -Weight(s) THEN Weight(s) ELSE 0,
               !.bal[y] = IF b = Weight(s) THEN -Weight(s) ELSE 0,
               !.bal[w] = 0]

\* The way from y down to the new cell is balanced again: y itself, whose
\* parent is z, may have to be rotated (and then the generation advances).
Rebalance(m, y, z) ==
  LET s == IF m.bal[y] < 0 THEN 0 ELSE 1
      x == m.kid[s][y]
      single == m.bal[x] = Weight(s)
      w == IF single THEN x ELSE m.kid[1 - s][x]
      Relink(m1) == [m1 EXCEPT !.kid[IF m1.kid[0][z] = y THEN 0 ELSE 1][z] = w]
  IN IF m.bal[y] \notin {-2, 2} THEN [tree |-> m, newer |-> FALSE]
     ELSE [tree |-> Relink(IF single THEN SingleRotate(m, y, s, 0) ELSE DoubleRotate(m, y, s)),
           newer |-> TRUE]

\* The new cell at the end of the path.
Attach(m, item, path) ==
  LET key == Key[item]
      q == Last(path)
  IN [m EXCEPT !.kid[Side(m, q, key)][q] = key, !.count = @ + 1, !.data[key] = item,
               !.kid[0][key] = NULL, !.kid[1][key] = NULL, !.bal[key] = 0]

\* ... and the balance of the cells on the path, from y on, the last one
\* that was not balanced, else the root.
Adjust(m, item, path) ==
  LET Leaning == {i \in 2..Len(path) : m.bal[path[i]] # 0}
      iy == IF Leaning = {} THEN 2 ELSE CHOOSE i \in Leaning : \A j \in Leaning : j <= i
      m1 == [Attach(m, item, path) EXCEPT !.bal = [c \in Cell |->
               IF \E i \in iy..Len(path) : path[i] = c THEN @[c] + Weight(Side(m, c, Key[item])) ELSE @[c]]]
  IN Rebalance(m1, path[iy], path[iy - 1])

\* The table, the cell that holds the item or its duplicate (NULL when
\* malloc fails), and whether the generation advanced.
avl_probe(m, item, mallocOk) ==
  LET key == Key[item]
      path == PathTo(m, key, <<Top>>)
      Put(r) == [tree |-> r.tree, node |-> key, newer |-> r.newer]
  IN IF Found(m, key, path) THEN [tree |-> m, node |-> Last(path), newer |-> FALSE]
     ELSE IF ~mallocOk THEN [tree |-> m, node |-> NULL, newer |-> FALSE]
     ELSE IF Last(path) = Top THEN [tree |-> Attach(m, item, path), node |-> key, newer |-> FALSE]
     ELSE Put(Adjust(m, item, path))

avl_insert(m, item, mallocOk) == avl_probe(m, item, mallocOk)

avl_replace(m, item, mallocOk) ==
  LET Overwrite(r) == IF r.node = NULL THEN r ELSE [r EXCEPT !.tree.data[r.node] = item]
  IN Overwrite(avl_probe(m, item, mallocOk))

\* The way up of avl_delete over the stack pa of cells and the links da
\* taken: the da[k]-subtree of pa[k] is shorter.
RECURSIVE Retrace(_, _, _, _)
Retrace(m, pa, da, k) ==
  LET y == pa[k]
      s == 1 - da[k]
      m1 == [m EXCEPT !.bal[y] = @ + Weight(s)]
      x == m.kid[s][y]
      double == m.bal[x] = -Weight(s)
      even == m.bal[x] = 0
      w == IF double THEN m.kid[1 - s][x] ELSE x
      m2 == IF double THEN DoubleRotate(m1, y, s) ELSE SingleRotate(m1, y, s, IF even THEN -Weight(s) ELSE 0)
      m3 == [m2 EXCEPT !.kid[da[k - 1]][pa[k - 1]] = w]
  IN IF k = 1 THEN m
     ELSE IF m1.bal[y] = Weight(s) THEN m1
     ELSE IF m1.bal[y] = 2 * Weight(s) THEN IF even THEN m3 ELSE Retrace(m3, pa, da, k - 1)
     ELSE Retrace(m1, pa, da, k - 1)

\* The chain of left links from r down to the cell above the last one.
RECURSIVE LeftChain(_, _)
LeftChain(m, chain) ==
  LET s == m.kid[0][Last(chain)]
  IN IF m.kid[0][s] = NULL THEN chain ELSE LeftChain(m, Append(chain, s))

Back(m, n) == [m EXCEPT !.kid[0][n] = NULL, !.kid[1][n] = NULL, !.data[n] = NULL, !.bal[n] = 0]

avl_delete(m, key) ==
  LET path == PathTo(m, key, <<Top>>)
      p == Last(path)
      pa == Front(path)
      da == [i \in 1..Len(pa) |-> Side(m, pa[i], key)]
      k == Len(pa)
      r == m.kid[1][p]
      chain == LeftChain(m, <<r>>)
      rl == Last(chain)
      s == m.kid[0][rl]
      m1 == [m EXCEPT !.kid[da[k]][pa[k]] = m.kid[0][p]]
      m2 == [m EXCEPT !.kid[0][r] = m.kid[0][p], !.bal[r] = m.bal[p], !.kid[da[k]][pa[k]] = r]
      m3 == [m EXCEPT !.kid[0][s] = m.kid[0][p], !.kid[0][rl] = m.kid[1][s],
                      !.kid[1][s] = r, !.bal[s] = m.bal[p], !.kid[da[k]][pa[k]] = s]
      m4 == IF r = NULL THEN Retrace(m1, pa, da, k)
            ELSE IF m.kid[0][r] = NULL THEN Retrace(m2, Append(pa, r), Append(da, 1), k + 1)
            ELSE Retrace(m3, pa \o <<s>> \o chain, da \o <<1>> \o [i \in 1..Len(chain) |-> 0],
                         k + 1 + Len(chain))
  IN IF Found(m, key, path) THEN [Back(m4, p) EXCEPT !.count = @ - 1] ELSE m

-----------------------------------------------------------------------------
(* Traversers.                                                             *)

avl_t_init == [node |-> NULL, stack |-> <<>>, stale |-> FALSE]

\* Down the s-links from n, with the cells passed pushed on the stack.
RECURSIVE Down(_, _, _, _)
Down(m, n, stack, s) ==
  IF m.kid[s][n] = NULL THEN [node |-> n, stack |-> stack, stale |-> FALSE]
  ELSE Down(m, m.kid[s][n], Append(stack, n), s)

avl_t_end(m, s) ==
  LET root == m.kid[0][Top] IN IF root = NULL THEN avl_t_init ELSE Down(m, root, <<>>, s)

avl_t_first(m) == avl_t_end(m, 0)

avl_t_last(m) == avl_t_end(m, 1)

trav_refresh(m, tr) ==
  IF tr.node = NULL THEN [tr EXCEPT !.stale = FALSE]
  ELSE [tr EXCEPT !.stale = FALSE, !.stack = Front(Tail(PathTo(m, Key[m.data[tr.node]], <<Top>>)))]

avl_t_find(m, key) ==
  LET path == PathTo(m, key, <<Top>>)
  IN IF Found(m, key, path) THEN [node |-> Last(path), stack |-> Front(Tail(path)), stale |-> FALSE]
     ELSE avl_t_init

\* Up the stack while x is the s-link of the cell it is popped to.
RECURSIVE Up(_, _, _, _)
Up(m, x, stack, s) ==
  IF stack = <<>> THEN avl_t_init
  ELSE IF m.kid[s][Last(stack)] = x THEN Up(m, Last(stack), Front(stack), s)
  ELSE [node |-> Last(stack), stack |-> Front(stack), stale |-> FALSE]

\* avl_t_next is Move to side 1, avl_t_prev to side 0.
Move(m, tr0, s) ==
  LET tr == IF tr0.stale THEN trav_refresh(m, tr0) ELSE tr0
      x == tr.node
  IN IF x = NULL THEN avl_t_end(m, 1 - s)
     ELSE IF m.kid[s][x] # NULL THEN Down(m, m.kid[s][x], Append(tr.stack, x), 1 - s)
     ELSE Up(m, x, tr.stack, s)

avl_t_next(m, tr) == Move(m, tr, 1)

avl_t_prev(m, tr) == Move(m, tr, 0)

\* Into a traverser whose stack holds nothing of use.
avl_t_copy(src) == IF src.stale THEN [src EXCEPT !.stack = <<Junk>>] ELSE src

-----------------------------------------------------------------------------
(* avl_copy.  A loop state is the new table, the cells x and y at hand in  *)
(* the two tables, the stack of pairs, the cells allocated so far and how  *)
(* many allocations succeed.  Copies are the cells of the same number.     *)

Fresh(m, n) == [m EXCEPT !.kid[0][n] = Junk, !.kid[1][n] = Junk, !.data[n] = Junk]

CopyInit(budget) ==
  [m |-> avl_create, x |-> Top, stack |-> <<>>, got |-> {}, budget |-> budget, down |-> TRUE, out |-> "go"]

\* copy_error_recovery: the right links of the cells on the stack, but the
\* table itself, are cleared before avl_destroy.
Fail(c) ==
  [c EXCEPT !.out = "failed",
            !.m.kid[1] = [n \in DOMAIN @ |-> IF n # Top /\ n \in ToSet(c.stack) THEN NULL ELSE @[n]]]

CopyDown(org, c) ==
  LET n == org.kid[0][c.x]
  IN IF n = NULL THEN [c EXCEPT !.m.kid[0][c.x] = NULL, !.down = FALSE]
     ELSE IF Cardinality(c.got) = c.budget
     THEN Fail([c EXCEPT !.m.kid[0][c.x] = NULL,
                         !.m.kid[1][c.x] = NULL,
                         !.m.data = [y \in DOMAIN @ |-> IF y = c.x THEN NULL ELSE @[y]]])
     ELSE [c EXCEPT !.m = Fresh([@ EXCEPT !.kid[0][c.x] = n], n), !.stack = Append(@, c.x),
                    !.x = n, !.got = @ \union {n}]

CopyRest(org, c) ==
  LET n == org.kid[1][c.x]
      m1 == [c.m EXCEPT !.bal[c.x] = org.bal[c.x], !.data[c.x] = org.data[c.x]]
  IN IF n # NULL
     THEN IF Cardinality(c.got) = c.budget THEN Fail([c EXCEPT !.m = [m1 EXCEPT !.kid[1][c.x] = NULL]])
          ELSE [c EXCEPT !.m = Fresh([m1 EXCEPT !.kid[1][c.x] = n], n), !.x = n,
                         !.got = @ \union {n}, !.down = TRUE]
     ELSE IF Len(c.stack) <= 1
     THEN [c EXCEPT !.m = [m1 EXCEPT !.kid[1][c.x] = NULL, !.count = org.count], !.out = "done"]
     ELSE [c EXCEPT !.m = [m1 EXCEPT !.kid[1][c.x] = NULL], !.x = Last(c.stack), !.stack = Front(@)]

RECURSIVE CopyLoop(_, _)
CopyLoop(org, c) ==
  IF c.out # "go" THEN c ELSE CopyLoop(org, IF c.down THEN CopyDown(org, c) ELSE CopyRest(org, c))

\* With how many cells the allocator can give.
avl_copy(org, budget) ==
  IF org.count = 0 THEN [CopyInit(budget) EXCEPT !.out = "done"] ELSE CopyLoop(org, CopyInit(budget))

\* The cells avl_destroy frees, in order; it rotates right until a cell has
\* no left link.  The walk stops at a junk link.
RECURSIVE DestroyFrom(_, _, _)
DestroyFrom(m, p, freed) ==
  LET q == m.kid[0][p]
  IN IF p \in {NULL, Junk} THEN IF p = NULL THEN freed ELSE Append(freed, Junk)
     ELSE IF q = Junk THEN Append(freed, Junk)
     ELSE IF q = NULL THEN DestroyFrom(m, m.kid[1][p], Append(freed, p))
     ELSE DestroyFrom([m EXCEPT !.kid[0][p] = m.kid[1][q], !.kid[1][q] = p], q, freed)

avl_destroy(m) == DestroyFrom(m, m.kid[0][Top], <<>>)

-----------------------------------------------------------------------------

Init == t = avl_create /\ trav = avl_t_init

\* The table and the traverser after an insertion with result r.
Store(r) == t' = r.tree /\ trav' = [trav EXCEPT !.stale = @ \/ r.newer]

Insert(item, ok) == Store(avl_insert(t, item, ok))

Replace(item) == Store(avl_replace(t, item, TRUE))

\* The interface forbids deleting the item a traverser is at.
Delete(item) ==
  /\ avl_find(t, Key[item]) # NULL
  /\ trav.node # NULL => Key[t.data[trav.node]] # Key[item]
  /\ t' = avl_delete(t, Key[item])
  /\ trav' = [trav EXCEPT !.stale = TRUE]

\* avl_t_insert sets the traverser's generation back by one, so that the
\* next move rebuilds its stack.
TInsert(item, ok) ==
  LET StoreAt(r) ==
        /\ t' = r.tree
        /\ trav' = IF r.node = NULL THEN avl_t_init ELSE [trav EXCEPT !.node = r.node, !.stale = TRUE]
  IN StoreAt(avl_probe(t, item, ok))

TFind(item) == trav' = avl_t_find(t, Key[item]) /\ UNCHANGED t

TMove == trav' \in {avl_t_next(t, trav), avl_t_prev(t, trav)} /\ UNCHANGED t

TEnd == trav' \in {avl_t_first(t), avl_t_last(t)} /\ UNCHANGED t

\* avl_t_replace, with an item of the same key.
TReplace(item) ==
  /\ trav.node # NULL /\ Key[item] = Key[t.data[trav.node]]
  /\ t' = [t EXCEPT !.data[trav.node] = item]
  /\ UNCHANGED trav

Next == \/ \E item \in Item, ok \in BOOLEAN : Insert(item, ok) \/ TInsert(item, ok)
        \/ \E item \in Item : Replace(item) \/ Delete(item) \/ TFind(item) \/ TReplace(item)
        \/ TMove
        \/ TEnd

Spec == Init /\ [][Next]_vars

-----------------------------------------------------------------------------

View(m) == [root |-> m.kid[0][Top], kid |-> m.kid, bal |-> m.bal]

KeyAt(m) == [n \in Cell |-> IF m.data[n] = NULL THEN 0 ELSE Key[m.data[n]]]

Order(m) == InOrder(View(m), m.kid[0][Top], Cardinality(Cell) + 1)

\* Insertions, replacements and deletions, with allocation failures, leave a
\* balanced tree of different keys in order, and avl_count is exact.
WellFormed ==
  /\ HoldsInOrder(View(t), KeyAt(t), Used(t))
  /\ IsBalanced(View(t), Used(t))
  /\ t.count = Cardinality(Used(t))
  /\ \A i, j \in 1..Len(Order(t)) : i # j => KeyAt(t)[Order(t)[i]] # KeyAt(t)[Order(t)[j]]

\* However the table changed since the traverser was placed, a move goes to
\* the neighbour of its item in the present order, and from no item to an
\* end: the stack is used only while the generations agree.
MovesToNeighbour ==
  LET s == Order(t)
      at == IF trav.node = NULL THEN 0 ELSE CHOOSE i \in 1..Len(s) : s[i] = trav.node
      Nth(i) == IF i \in 1..Len(s) THEN s[i] ELSE NULL
  IN /\ trav.node # NULL => trav.node \in ToSet(s)
     /\ avl_t_next(t, trav).node = Nth(at + 1)
     /\ avl_t_prev(t, trav).node = Nth((IF at = 0 THEN Len(s) + 1 ELSE at) - 1)
     /\ avl_t_next(t, avl_t_copy(trav)).node = Nth(at + 1)

\* avl_copy makes an equal table; when an allocation fails, the clean-up
\* frees every cell allocated so far exactly once and follows no link that
\* was never set.
CopyOrFreeAll ==
  \A budget \in 0..Cardinality(Used(t)) :
    LET c == avl_copy(t, budget)
        freed == avl_destroy(c.m)
    IN /\ IF budget = Cardinality(Used(t))
          THEN c.out = "done" /\ View(c.m) = View(t) /\ c.m.data = t.data /\ c.m.count = t.count
          ELSE c.out = "failed"
       /\ ToSet(freed) = c.got /\ Len(freed) = Cardinality(c.got)

\* What the comment of copy_error_recovery says: after it has cleared the
\* right links of the cells on the stack, avl_destroy touches no
\* uninitialized data.  It reads avl_data of every cell it frees.
CleanupReadsNoJunk ==
  \A budget \in 0..Cardinality(Used(t)) :
    LET c == avl_copy(t, budget) IN \A n \in c.got : c.m.data[n] # Junk

=============================================================================
