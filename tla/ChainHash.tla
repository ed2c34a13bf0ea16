----------------------------- MODULE ChainHash -----------------------------
(***************************************************************************)
(* ulib's hash table with chains (base/hash_chain_prot.h) and the map made *)
(* of it (ext1/c++/hash_chain.h), as one thread uses it: chains, iterators,*)
(* and the snapshot list that is threaded through the entries and sorted   *)
(* in place.  The hash function is the identity; an entry is its address,  *)
(* and 0 is NULL.                                                          *)
(***************************************************************************)
EXTENDS Integers, FiniteSets, SequencesExt

CONSTANTS
  Entry,       \* addresses, positive naturals
  KeyOf,       \* the key an entry is allocated for
  MinChains,         \* the number of chains asked for
  Dups,        \* chainhash_set may add a key that is there
  DelInSnap    \* duplicates are deleted through iterators of a snapshot

VARIABLES
  c,           \* the table: tbl, head (ch->snap), and next and snap of the entries
  live,        \* ghost: the entries that are allocated
  shown,       \* ghost: the entries of the snapshot, in order
  stale        \* ghost: an entry of the snapshot has been freed

vars == <<c, live, shown, stale>>

\* chainhash_init: the number of chains is rounded up to a power of two.
Mask == CHOOSE m \in 0..(2 * MinChains) :
          /\ m >= MinChains - 1
          /\ \E k \in 0..10 : m = 2^k - 1
          /\ \A k \in 0..10 : 2^k - 1 >= MinChains - 1 => m <= 2^k - 1

Bucket(key) == key % (Mask + 1)

chainhash_init ==
  [tbl |-> [i \in 0..Mask |-> 0], head |-> 0,
   next |-> [e \in Entry |-> 0], snap |-> [e \in Entry |-> 0]]

\* An iterator: the entry, its parent in the chain, the chain.
Itr(e, p, i) == [entry |-> e, parent |-> p, index |-> i]
End == Itr(0, 0, 0)

\* The first entry from e on with the key, and the entry before it.
RECURSIVE FindFrom(_, _, _, _)
FindFrom(h, key, e, p) ==
  IF e = 0 \/ KeyOf[e] = key THEN Itr(e, p, Bucket(key))
  ELSE FindFrom(h, key, h.next[e], e)

chainhash_get(h, key) == FindFrom(h, key, h.tbl[Bucket(key)], 0)

\* New entry e at the end of its chain, unless the key is there.
chainhash_set_uniq(h, e) ==
  LET it == chainhash_get(h, KeyOf[e])
      new == [h EXCEPT !.next[e] = 0, !.snap[e] = 0]
  IN  IF it.entry # 0 THEN h
      ELSE IF it.parent # 0 THEN [new EXCEPT !.next[it.parent] = e]
      ELSE [new EXCEPT !.tbl[it.index] = e]

\* New entry e at the head of its chain.
chainhash_set(h, e) ==
  LET i == Bucket(KeyOf[e])
  IN  [h EXCEPT !.next[e] = h.tbl[i], !.snap[e] = 0, !.tbl[i] = e]

\* What a freed entry holds is not read again: it is forgotten.
Forget(h, e) == [h EXCEPT !.next[e] = 0, !.snap[e] = 0]

chainhash_del(h, it) ==
  IF it.entry = 0 THEN h
  ELSE IF it.parent = 0 THEN Forget([h EXCEPT !.tbl[it.index] = h.next[it.entry]], it.entry)
  ELSE Forget([h EXCEPT !.next[it.parent] = h.next[it.entry]], it.entry)

\* The first chain from i on that is not empty, or Mask + 1.
RECURSIVE NonEmptyFrom(_, _)
NonEmptyFrom(h, i) == IF i > Mask \/ h.tbl[i] # 0 THEN i ELSE NonEmptyFrom(h, i + 1)

\* The iterator of an entry of the snapshot: the parent is looked up by key.
AtSnap(h, e) ==
  IF e = 0 THEN End
  ELSE [chainhash_get(h, KeyOf[e]) EXCEPT !.entry = e]

chainhash_iterator(h) ==
  LET i == NonEmptyFrom(h, 0)
  IN  IF h.head # 0 THEN AtSnap(h, h.head)
      ELSE IF i <= Mask THEN Itr(h.tbl[i], 0, i) ELSE End

\* chainhash_advance and operator++, which ends the loop when it fails.
chainhash_advance(h, it) ==
  LET i == NonEmptyFrom(h, it.index + 1)
  IN  IF h.head # 0 THEN AtSnap(h, h.snap[it.entry])
      ELSE IF h.next[it.entry] # 0 THEN Itr(h.next[it.entry], it.entry, it.index)
      ELSE IF i <= Mask THEN Itr(h.tbl[i], 0, i)
      ELSE End

\* The iterators of a loop from begin() to end().
RECURSIVE LoopFrom(_, _)
LoopFrom(h, it) ==
  IF it.entry = 0 THEN <<>> ELSE <<it>> \o LoopFrom(h, chainhash_advance(h, it))
Loop(h) == LoopFrom(h, chainhash_iterator(h))

Entries(loop) == [i \in 1..Len(loop) |-> loop[i].entry]

\* The entries in the order of the table.
TableOrder(h) == Entries(Loop([h EXCEPT !.head = 0]))

\* Threads a snapshot through the entries; that of an empty table leaves the
\* old one.
chainhash_snap(h) ==
  LET s == TableOrder(h)
  IN  IF s = <<>> THEN h
      ELSE [h EXCEPT !.head = s[1],
                     !.snap = [e \in Entry |-> IF e \notin ToSet(s) THEN h.snap[e]
                                               ELSE LET i == CHOOSE i \in 1..Len(s) : s[i] = e
                                                    IN  IF i < Len(s) THEN s[i + 1] ELSE 0]]

\* Merges two lists; on a tie the entry of a comes first.
RECURSIVE MergeAfter(_, _, _, _)
MergeAfter(snap, tail, a, b) ==
  IF a = 0 \/ b = 0 THEN [snap EXCEPT ![tail] = IF a # 0 THEN a ELSE b]
  ELSE IF KeyOf[a] <= KeyOf[b] THEN MergeAfter([snap EXCEPT ![tail] = a], a, snap[a], b)
  ELSE MergeAfter([snap EXCEPT ![tail] = b], b, a, snap[b])

__chainhash_merge(snap, a, b) ==
  IF a = 0 \/ b = 0 THEN [snap |-> snap, head |-> IF a # 0 THEN a ELSE b]
  ELSE IF KeyOf[a] <= KeyOf[b]
       THEN [snap |-> MergeAfter(snap, a, snap[a], b), head |-> a]
       ELSE [snap |-> MergeAfter(snap, b, a, snap[b]), head |-> b]

\* Carries cur upwards through the levels of sorted lists.
RECURSIVE Carry(_, _, _, _)
Carry(snap, part, lev, cur) ==
  IF part[lev] = 0 THEN [snap |-> snap, part |-> [part EXCEPT ![lev] = cur]]
  ELSE LET r == __chainhash_merge(snap, part[lev], cur)
       IN  Carry(r.snap, [part EXCEPT ![lev] = 0], lev + 1, r.head)

RECURSIVE Distribute(_, _, _)
Distribute(snap, part, list) ==
  IF list = 0 THEN [snap |-> snap, part |-> part]
  ELSE LET r == Carry([snap EXCEPT ![list] = 0], part, 0, list)
       IN  Distribute(r.snap, r.part, snap[list])

RECURSIVE Gather(_, _, _, _)
Gather(snap, part, lev, list) ==
  IF lev \notin DOMAIN part THEN [snap |-> snap, head |-> list]
  ELSE IF part[lev] = 0 THEN Gather(snap, part, lev + 1, list)
  ELSE LET r == __chainhash_merge(snap, part[lev], list)
       IN  Gather(r.snap, part, lev + 1, r.head)

chainhash_sort(h) ==
  IF h.head = 0 THEN h
  ELSE LET d == Distribute(h.snap, [lev \in 0..4 |-> 0], h.head)
           g == Gather(d.snap, d.part, 0, 0)
       IN  [h EXCEPT !.snap = g.snap, !.head = g.head]

-----------------------------------------------------------------------------

\* Reference: a sequence of entries sorted by key, equal keys in their order.
StableSort(s) ==
  LET before(i, j) == \/ KeyOf[s[i]] < KeyOf[s[j]]
                      \/ KeyOf[s[i]] = KeyOf[s[j]] /\ i < j
      at == SetToSortSeq(1..Len(s), before)
  IN  [i \in 1..Len(s) |-> s[at[i]]]

Init == c = chainhash_init /\ live = {} /\ shown = <<>> /\ stale = FALSE

HasKey(key) == \E e \in live : KeyOf[e] = key

Set(e) ==
  /\ e \notin live
  /\ Dups \/ ~HasKey(KeyOf[e])
  /\ c' = chainhash_set(c, e)
  /\ live' = live \cup {e}
  /\ UNCHANGED <<shown, stale>>

SetUniq(e) ==
  /\ e \notin live
  /\ c' = chainhash_set_uniq(c, e)
  /\ live' = IF HasKey(KeyOf[e]) THEN live ELSE live \cup {e}
  /\ UNCHANGED <<shown, stale>>

\* Entry e is freed; a snapshot that it was part of must not be walked again.
Freed(e) ==
  /\ live' = live \ {e}
  /\ stale' = (stale \/ e \in ToSet(shown))
  /\ shown' = IF stale' THEN <<>> ELSE shown

EraseKey(key) ==
  LET it == chainhash_get(c, key)
  IN  it.entry # 0 /\ c' = chainhash_del(c, it) /\ Freed(it.entry)

\* Deletion through an iterator that a loop has come to.
EraseAt(n) ==
  /\ ~stale
  /\ c.head # 0 /\ Dups => DelInSnap
  /\ n \in DOMAIN Loop(c)
  /\ LET it == Loop(c)[n] IN c' = chainhash_del(c, it) /\ Freed(it.entry)

Clear ==
  /\ c' = chainhash_init
  /\ live' = {} /\ shown' = <<>> /\ stale' = FALSE

Snap ==
  /\ c' = chainhash_snap(c)
  /\ IF live = {} THEN UNCHANGED <<shown, stale>>
     ELSE shown' = TableOrder(c) /\ stale' = FALSE
  /\ UNCHANGED live

\* Sorting reads every entry of the snapshot.
Sort ==
  /\ ~stale
  /\ c' = chainhash_sort(c)
  /\ shown' = StableSort(shown)
  /\ UNCHANGED <<live, stale>>

Next ==
  \/ \E e \in Entry : Set(e) \/ SetUniq(e)
  \/ \E e \in Entry : EraseKey(KeyOf[e])
  \/ \E n \in 1..Cardinality(Entry) : EraseAt(n)
  \/ Clear \/ Snap \/ Sort

Spec == Init /\ [][Next]_vars

-----------------------------------------------------------------------------
(* Properties.                                                              *)

\* The chains hold exactly the live entries, each once and in the chain of its
\* key, and get finds every key that is there.
ChainsHoldLive ==
  LET s == TableOrder(c)
  IN  /\ ToSet(s) = live /\ Len(s) = Cardinality(live)
      /\ \A e \in Entry :
           LET it == chainhash_get(c, KeyOf[e])
           IN  it.entry # 0 <=> \E d \in live : KeyOf[d] = KeyOf[e]

\* While no entry of the snapshot is freed, a loop visits the entries of the
\* snapshot in the order it was taken or sorted in, insertions since then left
\* out; without a snapshot it visits the whole table.
LoopsFollowSnapshot ==
  ~stale => Entries(Loop(c)) = IF shown = <<>> THEN TableOrder(c) ELSE shown

\* An iterator names the link that leads to its entry, which is what deleting
\* through it relies on.
IteratorsAreExact ==
  ~stale /\ (c.head # 0 /\ Dups => DelInSnap) => \A n \in DOMAIN Loop(c) :
    LET it == Loop(c)[n]
    IN  it.entry = IF it.parent = 0 THEN c.tbl[it.index] ELSE c.next[it.parent]
=============================================================================
