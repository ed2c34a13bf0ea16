-------------------------------- MODULE Lists ---------------------------------
(***************************************************************************)
(* The circular doubly linked list of ulib (list.h) and its merge sort     *)
(* (sort_list.c).  A list head and a list entry are the same structure, so *)
(* every cell has a next and a prev field.  "lists" is the abstract        *)
(* specification: the entries of each list in order.  Every operation      *)
(* changes the fields as the code does and the sequences as its            *)
(* description says; Represents relates the two.                           *)
(*                                                                         *)
(* The hlist of list.h has a head with one pointer, and nodes with a next  *)
(* pointer and "pprev", the address of the pointer that points at them.    *)
(* An address is <<"first", head>> or <<"next", node>>; "chains" is the    *)
(* abstract specification.  The two kinds of list are independent.         *)
(***************************************************************************)
EXTENDS Integers, Sequences, FiniteSets, SequencesExt

CONSTANTS Anchor,    \* the list heads
          Entry,     \* the entries, numbers that name the positions of keys
          Key,       \* the key list_sort compares, for each entry
          Node       \* the nodes of hash lists, positive numbers

Cell == Anchor \union Entry

NIL == 0

Stale == <<NIL>>     \* a head whose list was spliced away and not reinitialised

VARIABLES m,         \* [next, prev]: the fields of every cell
          lists,     \* for each head its entries in order, or Stale
          p,         \* of hash lists, what every pointer points at, by its address
          pprev,     \* the pprev field of every node
          chains     \* for each head its nodes in order

vars == <<m, lists, p, pprev, chains>>

Linked == UNION {ToSet(lists[h]) : h \in Anchor}

Fresh == Entry \ Linked

Live == {h \in Anchor : lists[h] # Stale}

-----------------------------------------------------------------------------

INIT_LIST_HEAD(f, l) == [f EXCEPT !.next[l] = l, !.prev[l] = l]

\* Four assignments in the order of the code: with prev = next (the empty
\* list) the order matters.
__list_add(f, new, prev, next) ==
  [f EXCEPT !.prev[next] = new, !.next[new] = next, !.prev[new] = prev, !.next[prev] = new]

list_add(f, new, head) == __list_add(f, new, head, f.next[head])

list_add_tail(f, new, head) == __list_add(f, new, f.prev[head], head)

__list_del(f, prev, next) == [f EXCEPT !.prev[next] = prev, !.next[prev] = next]

__list_del_entry(f, entry) == __list_del(f, f.prev[entry], f.next[entry])

list_del(f, entry) ==
  [__list_del_entry(f, entry) EXCEPT !.next[entry] = NIL, !.prev[entry] = NIL]

list_del_init(f, entry) == INIT_LIST_HEAD(__list_del_entry(f, entry), entry)

list_replace(f, old, new) ==
  LET f1 == [f EXCEPT !.next[new] = f.next[old]]
      f2 == [f1 EXCEPT !.prev[f1.next[new]] = new]
      f3 == [f2 EXCEPT !.prev[new] = f2.prev[old]]
  IN [f3 EXCEPT !.next[f3.prev[new]] = new]

list_replace_init(f, old, new) == INIT_LIST_HEAD(list_replace(f, old, new), old)

list_move(f, l, head) == list_add(__list_del_entry(f, l), l, head)

list_move_tail(f, l, head) == list_add_tail(__list_del_entry(f, l), l, head)

list_is_last(f, l, head) == f.next[l] = head

list_empty(f, head) == f.next[head] = head

list_empty_careful(f, head) == f.next[head] = head /\ f.prev[head] = head

list_is_singular(f, head) == ~list_empty(f, head) /\ f.next[head] = f.prev[head]

list_rotate_left(f, head) ==
  IF list_empty(f, head) THEN f ELSE list_move_tail(f, f.next[head], head)

__list_cut_position(f, l, head, entry) ==
  LET new_first == f.next[entry]
      f1 == [f EXCEPT !.next[l] = f.next[head]]
      f2 == [f1 EXCEPT !.prev[f1.next[l]] = l, !.prev[l] = entry, !.next[entry] = l]
  IN [f2 EXCEPT !.next[head] = new_first, !.prev[new_first] = head]

list_cut_position(f, l, head, entry) ==
  IF \/ list_empty(f, head)
     \/ list_is_singular(f, head) /\ f.next[head] # entry /\ head # entry THEN f
  ELSE IF entry = head THEN INIT_LIST_HEAD(f, l)
  ELSE __list_cut_position(f, l, head, entry)

\* Mutant of __list_splice: the back link of the follower is not set.
__list_splice_oneway(f, l, prev, next) ==
  LET first == f.next[l]
      last == f.prev[l]
  IN [f EXCEPT !.prev[first] = prev, !.next[prev] = first, !.next[last] = next]

__list_splice(f, l, prev, next) ==
  LET first == f.next[l]
      last == f.prev[l]
  IN [f EXCEPT !.prev[first] = prev, !.next[prev] = first, !.next[last] = next, !.prev[next] = last]

list_splice(f, l, head) ==
  IF list_empty(f, l) THEN f ELSE __list_splice(f, l, head, f.next[head])

list_splice_tail(f, l, head) ==
  IF list_empty(f, l) THEN f ELSE __list_splice(f, l, f.prev[head], head)

list_splice_init(f, l, head) ==
  IF list_empty(f, l) THEN f ELSE INIT_LIST_HEAD(list_splice(f, l, head), l)

list_splice_tail_init(f, l, head) ==
  IF list_empty(f, l) THEN f ELSE INIT_LIST_HEAD(list_splice_tail(f, l, head), l)

-----------------------------------------------------------------------------
(* The loops.  A cell is visited at most once: fuel bounds a broken ring.  *)

RECURSIVE VisitFrom(_, _, _, _)
VisitFrom(link, pos, head, fuel) ==
  IF pos = head \/ fuel = 0 THEN <<>>
  ELSE <<pos>> \o VisitFrom(link, link[pos], head, fuel - 1)

Fuel == Cardinality(Cell)

list_for_each(f, head) == VisitFrom(f.next, f.next[head], head, Fuel)

list_for_each_prev(f, head) == VisitFrom(f.prev, f.prev[head], head, Fuel)

list_for_each_entry_continue(f, pos, head) == VisitFrom(f.next, f.next[pos], head, Fuel)

list_for_each_entry_continue_reverse(f, pos, head) == VisitFrom(f.prev, f.prev[pos], head, Fuel)

list_for_each_entry_from(f, pos, head) == VisitFrom(f.next, pos, head, Fuel)

\* The safe loops read the neighbour before the body runs.  The body deletes
\* the entries of "gone" it is called with; the result is the fields after
\* the loop and the entries it was called with.  "dir" is next or prev.
RECURSIVE SafeLoop(_, _, _, _, _, _)
SafeLoop(f, pos, head, dir, gone, fuel) ==
  IF pos = head \/ fuel = 0 THEN [f |-> f, seen |-> <<>>]
  ELSE LET n == f[dir][pos]
           r == SafeLoop(IF pos \in gone THEN list_del(f, pos) ELSE f, n, head, dir, gone, fuel - 1)
       IN [r EXCEPT !.seen = <<pos>> \o @]

list_for_each_entry_safe(f, head, gone) == SafeLoop(f, f.next[head], head, "next", gone, Fuel)

list_for_each_entry_safe_reverse(f, head, gone) == SafeLoop(f, f.prev[head], head, "prev", gone, Fuel)

list_for_each_entry_safe_continue(f, pos, head, gone) ==
  SafeLoop(f, f.next[pos], head, "next", gone, Fuel)

list_for_each_entry_safe_from(f, pos, head, gone) == SafeLoop(f, pos, head, "next", gone, Fuel)

-----------------------------------------------------------------------------
(* The merge sort.  Its intermediate lists are NIL-terminated chains of    *)
(* next fields, here the sequences of their entries.                       *)

RECURSIVE merge(_, _)
merge(a, b) ==
  IF a = <<>> THEN b
  ELSE IF b = <<>> THEN a
  ELSE IF Key[a[1]] <= Key[b[1]] THEN <<a[1]>> \o merge(Tail(a), b)
  ELSE <<b[1]>> \o merge(a, Tail(b))

\* part[lev] is empty or a sorted chain of 2^lev entries: a new entry climbs
\* the levels the way a carry climbs a binary counter.
RECURSIVE Carry(_, _, _)
Carry(part, cur, lev) ==
  IF part[lev] = <<>> THEN [part EXCEPT ![lev] = cur]
  ELSE Carry([part EXCEPT ![lev] = <<>>], merge(part[lev], cur), lev + 1)

RECURSIVE Build(_, _)
Build(part, chain) ==
  IF chain = <<>> THEN part ELSE Build(Carry(part, <<chain[1]>>, 0), Tail(chain))

\* The levels below "top" merged into one chain, the lower ones last.
RECURSIVE Gather(_, _, _, _)
Gather(part, lev, top, l) == IF lev = top THEN l ELSE Gather(part, lev + 1, top, merge(part[lev], l))

MaxLevel(part) == CHOOSE lev \in DOMAIN part :
                    \/ part[lev] # <<>> /\ \A hi \in DOMAIN part : hi > lev => part[hi] = <<>>
                    \/ lev = 0 /\ \A hi \in DOMAIN part : part[hi] = <<>>

merge_and_restore_back_links(f, head, a, b) ==
  LET s == <<head>> \o merge(a, b)
      at(i) == s[((i - 1) % Len(s)) + 1]
      pos(c) == CHOOSE i \in 1..Len(s) : s[i] = c
  IN [next |-> [c \in Cell |-> IF c \in ToSet(s) THEN at(pos(c) + 1) ELSE f.next[c]],
      prev |-> [c \in Cell |-> IF c \in ToSet(s) THEN at(pos(c) + Len(s) - 1) ELSE f.prev[c]]]

Parts(chain) == Build([lev \in 0..Cardinality(Entry) |-> <<>>], chain)

list_sort(f, head) ==
  IF list_empty(f, head) THEN f
  ELSE LET part == Parts(list_for_each(f, head))
           top == MaxLevel(part)
       IN merge_and_restore_back_links(f, head, part[top], Gather(part, 0, top, <<>>))

\* The variant for lists with only a next field takes and returns a chain.
list_sort_forward(chain) ==
  IF chain = <<>> THEN chain
  ELSE LET part == Parts(chain) IN Gather(part, 0, MaxLevel(part) + 1, <<>>)

-----------------------------------------------------------------------------

ListInit ==
  /\ m = [next |-> [c \in Cell |-> IF c \in Anchor THEN c ELSE NIL],
          prev |-> [c \in Cell |-> IF c \in Anchor THEN c ELSE NIL]]
  /\ lists = [h \in Anchor |-> <<>>]

Add == \E new \in Fresh, h \in Live :
  \/ m' = list_add(m, new, h) /\ lists' = [lists EXCEPT ![h] = <<new>> \o @]
  \/ m' = list_add_tail(m, new, h) /\ lists' = [lists EXCEPT ![h] = @ \o <<new>>]

Without(entry) == [h \in Anchor |-> SelectSeq(lists[h], LAMBDA e : e # entry)]

Del == \E entry \in Linked \ {NIL} :
  /\ lists' = Without(entry)
  /\ m' \in {list_del(m, entry), list_del_init(m, entry)}

\* What a cell that left its list without being reinitialised still holds is
\* never read again: it is forgotten.
Forget(f, c) == [f EXCEPT !.next[c] = NIL, !.prev[c] = NIL]

Replace == \E old \in Linked \ {NIL}, new \in Fresh :
  /\ lists' = [h \in Anchor |-> [i \in DOMAIN lists[h] |-> IF lists[h][i] = old THEN new ELSE lists[h][i]]]
  /\ m' \in {Forget(list_replace(m, old, new), old), list_replace_init(m, old, new)}

Move == \E entry \in Linked \ {NIL}, h \in Live :
  \/ m' = list_move(m, entry, h) /\ lists' = [Without(entry) EXCEPT ![h] = <<entry>> \o @]
  \/ m' = list_move_tail(m, entry, h) /\ lists' = [Without(entry) EXCEPT ![h] = @ \o <<entry>>]

Rotate == \E h \in Live :
  /\ m' = list_rotate_left(m, h)
  /\ lists' = [lists EXCEPT ![h] = IF @ = <<>> THEN @ ELSE Append(Tail(@), @[1])]

\* The head that receives the cut part is empty, or its list is lost.
Cut == \E l \in Anchor, h \in Live, i \in 0..Cardinality(Entry) :
  /\ l # h /\ lists[l] \in {<<>>, Stale} /\ lists[h] # <<>> /\ i <= Len(lists[h])
  /\ m' = list_cut_position(m, l, h, IF i = 0 THEN h ELSE lists[h][i])
  /\ lists' = [lists EXCEPT ![l] = SubSeq(lists[h], 1, i), ![h] = SubSeq(lists[h], i + 1, Len(lists[h]))]

Splice == \E l, h \in Live :
  /\ l # h
  /\ \/ /\ m' = list_splice_init(m, l, h)
        /\ lists' = [lists EXCEPT ![l] = <<>>, ![h] = lists[l] \o lists[h]]
     \/ /\ m' = list_splice_tail_init(m, l, h)
        /\ lists' = [lists EXCEPT ![l] = <<>>, ![h] = lists[h] \o lists[l]]
     \/ /\ m' = IF lists[l] = <<>> THEN list_splice(m, l, h) ELSE Forget(list_splice(m, l, h), l)
        /\ lists' = [lists EXCEPT ![l] = IF @ = <<>> THEN @ ELSE Stale, ![h] = lists[l] \o lists[h]]
     \/ /\ m' = IF lists[l] = <<>> THEN list_splice_tail(m, l, h) ELSE Forget(list_splice_tail(m, l, h), l)
        /\ lists' = [lists EXCEPT ![l] = IF @ = <<>> THEN @ ELSE Stale, ![h] = lists[h] \o lists[l]]

Reinit == \E h \in Anchor \ Live :
  m' = INIT_LIST_HEAD(m, h) /\ lists' = [lists EXCEPT ![h] = <<>>]

\* Stable: entries with equal keys keep their order.
Sorted(s) == SortSeq(s, LAMBDA a, b : \/ Key[a] < Key[b]
                                      \/ Key[a] = Key[b] /\ \E i, j \in DOMAIN s : i < j /\ s[i] = a /\ s[j] = b)

Sort == \E h \in Live : m' = list_sort(m, h) /\ lists' = [lists EXCEPT ![h] = Sorted(@)]

Purge == \E h \in Live, gone \in SUBSET Entry :
  /\ m' \in {list_for_each_entry_safe(m, h, gone).f, list_for_each_entry_safe_reverse(m, h, gone).f}
  /\ lists' = [lists EXCEPT ![h] = SelectSeq(@, LAMBDA e : e \notin gone)]

ListNext == Add \/ Del \/ Replace \/ Move \/ Rotate \/ Cut \/ Splice \/ Reinit \/ Sort \/ Purge

-----------------------------------------------------------------------------
(* Hash lists.                                                             *)

NoAddr == <<"none", NIL>>

First(h) == <<"first", h>>

NextOf(n) == <<"next", n>>

mem == [p |-> p, pprev |-> pprev]

Hashed == UNION {ToSet(chains[h]) : h \in Anchor}

-----------------------------------------------------------------------------

INIT_HLIST_NODE(f, n) == [f EXCEPT !.p[NextOf(n)] = NIL, !.pprev[n] = NoAddr]

hlist_unhashed(f, n) == f.pprev[n] = NoAddr

hlist_empty(f, h) == f.p[First(h)] = NIL

\* if (next) next->pprev = addr
FixBack(f, next, addr) == IF next = NIL THEN f ELSE [f EXCEPT !.pprev[next] = addr]

__hlist_del(f, n) ==
  LET next == f.p[NextOf(n)]
      addr == f.pprev[n]
  IN FixBack([f EXCEPT !.p[addr] = next], next, addr)

hlist_del(f, n) == INIT_HLIST_NODE(__hlist_del(f, n), n)

hlist_del_init(f, n) ==
  IF hlist_unhashed(f, n) THEN f ELSE INIT_HLIST_NODE(__hlist_del(f, n), n)

hlist_add_head(f, n, h) ==
  LET first == f.p[First(h)]
      f1 == FixBack([f EXCEPT !.p[NextOf(n)] = first], first, NextOf(n))
  IN [f1 EXCEPT !.p[First(h)] = n, !.pprev[n] = First(h)]

hlist_add_before(f, n, next) ==
  LET f1 == [f EXCEPT !.pprev[n] = f.pprev[next], !.p[NextOf(n)] = next]
      f2 == [f1 EXCEPT !.pprev[next] = NextOf(n)]
  IN [f2 EXCEPT !.p[f2.pprev[n]] = n]

hlist_add_after(f, n, next) ==
  LET f1 == [f EXCEPT !.p[NextOf(next)] = f.p[NextOf(n)]]
      f2 == [f1 EXCEPT !.p[NextOf(n)] = next, !.pprev[next] = NextOf(n)]
  IN FixBack(f2, f2.p[NextOf(next)], NextOf(next))

hlist_add_fake(f, n) == [f EXCEPT !.pprev[n] = NextOf(n)]

hlist_move_list(f, old, new) ==
  LET f1 == [f EXCEPT !.p[First(new)] = f.p[First(old)]]
  IN [FixBack(f1, f1.p[First(new)], First(new)) EXCEPT !.p[First(old)] = NIL]

RECURSIVE hlist_for_each(_, _, _)
hlist_for_each(f, pos, fuel) ==
  IF pos = NIL \/ fuel = 0 THEN <<>>
  ELSE <<pos>> \o hlist_for_each(f, f.p[NextOf(pos)], fuel - 1)

hlist_for_each_entry_continue(f, pos) == hlist_for_each(f, f.p[NextOf(pos)], Cardinality(Node))

hlist_for_each_entry_from(f, pos) == hlist_for_each(f, pos, Cardinality(Node))

\* n = pos->next is read before the body, which deletes the nodes of gone.
RECURSIVE hlist_for_each_safe(_, _, _, _)
hlist_for_each_safe(f, pos, gone, fuel) ==
  IF pos = NIL \/ fuel = 0 THEN [f |-> f, seen |-> <<>>]
  ELSE LET n == f.p[NextOf(pos)]
           r == hlist_for_each_safe(IF pos \in gone THEN hlist_del(f, pos) ELSE f, n, gone, fuel - 1)
       IN [r EXCEPT !.seen = <<pos>> \o @]

Sweep(f, h, gone) == hlist_for_each_safe(f, f.p[First(h)], gone, Cardinality(Node))

-----------------------------------------------------------------------------

HListInit ==
  /\ p = [a \in {First(h) : h \in Anchor} \union {NextOf(n) : n \in Node} |-> NIL]
  /\ pprev = [n \in Node |-> NoAddr]
  /\ chains = [h \in Anchor |-> <<>>]

Becomes(f) == p' = f.p /\ pprev' = f.pprev

Fake(n) == pprev[n] = NextOf(n)

AddHead == \E n \in Node \ Hashed, h \in Anchor :
  /\ Becomes(hlist_add_head(mem, n, h))
  /\ chains' = [chains EXCEPT ![h] = <<n>> \o @]

AddBeside == \E n \in Node \ Hashed, h \in Anchor : \E i \in DOMAIN chains[h] :
  \/ /\ Becomes(hlist_add_before(mem, n, chains[h][i]))
     /\ chains' = [chains EXCEPT ![h] = InsertAt(@, i, n)]
  \/ /\ Becomes(hlist_add_after(mem, chains[h][i], n))
     /\ chains' = [chains EXCEPT ![h] = InsertAt(@, i + 1, n)]

\* hlist_del is for hashed nodes and nodes marked with hlist_add_fake;
\* hlist_del_init may be called on any node.
HDel == \E n \in Node :
  /\ \/ (n \in Hashed \/ Fake(n)) /\ Becomes(hlist_del(mem, n))
     \/ Becomes(hlist_del_init(mem, n))
  /\ chains' = [h \in Anchor |-> SelectSeq(chains[h], LAMBDA e : e # n)]

AddFake == \E n \in Node \ Hashed :
  /\ Becomes(hlist_add_fake(mem, n))
  /\ UNCHANGED chains

MoveList == \E old, new \in Anchor :
  /\ old # new /\ chains[new] = <<>>
  /\ Becomes(hlist_move_list(mem, old, new))
  /\ chains' = [chains EXCEPT ![new] = chains[old], ![old] = <<>>]

HPurge == \E h \in Anchor, gone \in SUBSET Node :
  /\ Becomes(Sweep(mem, h, gone).f)
  /\ chains' = [chains EXCEPT ![h] = SelectSeq(@, LAMBDA e : e \notin gone)]

HListNext == AddHead \/ AddBeside \/ HDel \/ AddFake \/ MoveList \/ HPurge

-----------------------------------------------------------------------------

Init == ListInit /\ HListInit

Next == \/ ListNext /\ UNCHANGED <<p, pprev, chains>>
        \/ HListNext /\ UNCHANGED <<m, lists>>

Spec == Init /\ [][Next]_vars

-----------------------------------------------------------------------------

\* Read forwards and backwards, every live list is the sequence its
\* operations describe, and the tests on it agree (list.h, list_sort).
Represents ==
  \A h \in Live :
    LET s == lists[h]
    IN /\ list_for_each(m, h) = s
       /\ list_for_each_prev(m, h) = Reverse(s)
       /\ list_empty(m, h) = (s = <<>>) /\ list_empty_careful(m, h) = (s = <<>>)
       /\ list_is_singular(m, h) = (Len(s) = 1)
       /\ \A e \in ToSet(s) : list_is_last(m, e, h) = (e = Last(s))

\* A loop that is safe against removal calls its body with every entry it
\* would have met, once and in order, whichever of them the body deletes
\* (list_for_each_entry_safe and its continue, from and reverse forms).
SafeLoopsVisitAll ==
  \A h \in Live, gone \in SUBSET Entry :
    LET s == lists[h]
    IN /\ list_for_each_entry_safe(m, h, gone).seen = s
       /\ list_for_each_entry_safe_reverse(m, h, gone).seen = Reverse(s)
       /\ \A i \in 1..Len(s) :
            /\ list_for_each_entry_safe_from(m, s[i], h, gone).seen = SubSeq(s, i, Len(s))
            /\ list_for_each_entry_safe_continue(m, s[i], h, gone).seen = SubSeq(s, i + 1, Len(s))
            /\ list_for_each_entry_from(m, s[i], h) = SubSeq(s, i, Len(s))
            /\ list_for_each_entry_continue(m, s[i], h) = SubSeq(s, i + 1, Len(s))
            /\ list_for_each_entry_continue_reverse(m, s[i], h) = Reverse(SubSeq(s, 1, i - 1))
       /\ list_sort_forward(s) = Sorted(s)

\* Every chain is the one its operations describe; the pointer whose address
\* a node keeps in pprev is the one that points at the node, so it can be
\* unlinked without knowing its list; a node outside every list is unhashed
\* or fake; a safe loop meets every node whichever ones its body deletes.
ChainsMatch ==
  /\ \A h \in Anchor :
       /\ hlist_for_each(mem, p[First(h)], Cardinality(Node)) = chains[h]
       /\ hlist_empty(mem, h) = (chains[h] = <<>>)
       /\ \A gone \in SUBSET Node : Sweep(mem, h, gone).seen = chains[h]
       /\ \A i \in DOMAIN chains[h] :
            /\ hlist_for_each_entry_from(mem, chains[h][i]) = SubSeq(chains[h], i, Len(chains[h]))
            /\ hlist_for_each_entry_continue(mem, chains[h][i]) = SubSeq(chains[h], i + 1, Len(chains[h]))
  /\ \A n \in Hashed : p[pprev[n]] = n
  /\ \A n \in Node \ Hashed : hlist_unhashed(mem, n) \/ Fake(n)

=============================================================================
