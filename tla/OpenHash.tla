------------------------------ MODULE OpenHash ------------------------------
(***************************************************************************)
(* ulib's open-addressing hash table (base/hash_open_prot.h), the maps and *)
(* sets made of it (ext1/c++/hash_open.h) and the map of several such      *)
(* tables (ext2/reentrant/hash_multi_r.h, used by one thread here).        *)
(* Iterators are bucket numbers; the hash function is the identity.        *)
(***************************************************************************)
EXTENDS Integers, Sequences, FiniteSets

CONSTANTS
  Key,         \* a finite set of naturals
  Val,         \* a finite set of positive naturals
  Tables,      \* number of tables of the map, a power of two
  MaxBuckets   \* bound: no table is resized beyond

VARIABLES
  ht,          \* the tables, numbered from 0
  map          \* ghost: the value of each key, 0 if it is absent

vars == <<ht, map>>

\* Results of openhash_set.
OH_INS_ERR == 0
OH_INS_NEW == 1
OH_INS_DEL == 2

OH_LOAD(n) == (7 * n) \div 10

openhash_init ==
  [nbucket |-> 0, nelem |-> 0, noccupied |-> 0, bound |-> 0,
   flags |-> <<>>, keys |-> <<>>, vals |-> <<>>]

\* Whether bucket x holds an element (openhash_exist).
openhash_exist(h, x) == h.flags[x] = "live"

openhash_clear(h) ==
  IF h.nbucket = 0 THEN h
  ELSE [h EXCEPT !.flags = [i \in DOMAIN h.flags |-> "empty"], !.nelem = 0, !.noccupied = 0]

\* Triangular probing, until the key, an empty bucket or the first bucket again.
RECURSIVE GetFrom(_, _, _, _, _)
GetFrom(h, key, i, step, last) ==
  IF h.flags[i] = "empty" THEN h.nbucket
  ELSE IF h.flags[i] = "live" /\ h.keys[i] = key THEN i
  ELSE LET j == (i + step + 1) % h.nbucket
       IN  IF j = last THEN h.nbucket ELSE GetFrom(h, key, j, step + 1, last)

openhash_get(h, key) ==
  IF h.nbucket = 0 THEN 0
  ELSE LET i == key % h.nbucket IN GetFrom(h, key, i, 0, i)

RECURSIVE FirstEmptyFrom(_, _, _)
FirstEmptyFrom(flags, i, step) ==
  IF flags[i] = "empty" THEN i
  ELSE FirstEmptyFrom(flags, (i + step + 1) % Cardinality(DOMAIN flags), step + 1)

\* An element goes to its bucket of the new flags; an element that is still
\* waiting there is kicked out and goes on.
RECURSIVE Rehash(_, _, _, _)
Rehash(h, flags, key, val) ==
  LET n == Cardinality(DOMAIN flags)
      i == FirstEmptyFrom(flags, key % n, 0)
      taken == [flags EXCEPT ![i] = "live"]
      put == [h EXCEPT !.keys[i] = key, !.vals[i] = val]
  IN  IF i < h.nbucket /\ h.flags[i] = "live"
      THEN Rehash([put EXCEPT !.flags[i] = "del"], taken, h.keys[i], h.vals[i])
      ELSE [h |-> put, flags |-> taken]

RECURSIVE RehashFrom(_, _, _)
RehashFrom(h, flags, j) ==
  IF j = h.nbucket THEN [h |-> h, flags |-> flags]
  ELSE IF h.flags[j] # "live" THEN RehashFrom(h, flags, j + 1)
  ELSE LET r == Rehash([h EXCEPT !.flags[j] = "del"], flags, h.keys[j], h.vals[j])
       IN  RehashFrom(r.h, r.flags, j + 1)

\* The first n buckets of an array, new ones arbitrary (0).
Resized(a, n) == [i \in 0..(n - 1) |-> IF i \in DOMAIN a THEN a[i] ELSE 0]

\* Rehashes in place; the table is unchanged if it would be too full or if
\* memory runs out.
openhash_resize(h, n, oom) ==
  IF h.nelem >= OH_LOAD(n) \/ oom THEN h
  ELSE LET wide == IF n > h.nbucket THEN n ELSE h.nbucket
           old == [h EXCEPT !.keys = Resized(h.keys, wide), !.vals = Resized(h.vals, wide)]
           r == RehashFrom(old, [i \in 0..(n - 1) |-> "empty"], 0)
       IN  [r.h EXCEPT !.keys = Resized(@, n), !.vals = Resized(@, n), !.flags = r.flags,
                       !.nbucket = n, !.noccupied = h.nelem, !.bound = OH_LOAD(n)]

\* Where openhash_set puts a key: its bucket, else the last deleted bucket on
\* the way, else the empty bucket at the end of the way.
RECURSIVE SiteFrom(_, _, _, _, _, _)
SiteFrom(h, key, i, step, last, site) ==
  IF h.flags[i] = "empty" THEN IF site # h.nbucket THEN site ELSE i
  ELSE IF h.flags[i] = "live" /\ h.keys[i] = key THEN i
  ELSE LET here == IF h.flags[i] = "del" THEN i ELSE site
           j == (i + step + 1) % h.nbucket
       IN  IF j = last THEN IF here # h.nbucket THEN here ELSE j
           ELSE SiteFrom(h, key, j, step + 1, last, here)

\* The key goes to bucket x of a table with room.
SetAt(h, key, x) ==
  LET new == [h EXCEPT !.keys[x] = key, !.flags[x] = "live", !.nelem = @ + 1]
  IN  IF h.flags[x] = "empty"
           THEN [h |-> [new EXCEPT !.noccupied = @ + 1], x |-> x, ret |-> OH_INS_NEW]
      ELSE IF h.flags[x] = "del" THEN [h |-> new, x |-> x, ret |-> OH_INS_DEL]
      ELSE [h |-> h, x |-> x, ret |-> OH_INS_ERR]

\* The table, the bucket (nbucket: no memory) and the result.
openhash_set(h, key, oom) ==
  LET n == IF h.nbucket = 0 THEN 2 ELSE 2 * h.nbucket
      Set(g) == LET i == key % g.nbucket IN SetAt(g, key, SiteFrom(g, key, i, 0, i, g.nbucket))
      Grown(g) == IF g.nbucket # n THEN [h |-> g, x |-> g.nbucket, ret |-> OH_INS_ERR] ELSE Set(g)
  IN  IF h.noccupied >= h.bound THEN Grown(openhash_resize(h, n, oom)) ELSE Set(h)

\* Mutant of openhash_del: frees the bucket at once.
openhash_del_empty(h, x) ==
  IF x = h.nbucket \/ ~openhash_exist(h, x) THEN h
  ELSE [h EXCEPT !.flags[x] = "empty", !.nelem = @ - 1, !.noccupied = @ - 1]

openhash_del(h, x) ==
  IF x = h.nbucket \/ ~openhash_exist(h, x) THEN h
  ELSE [h EXCEPT !.flags[x] = "del", !.nelem = @ - 1]

\* insert of the map; an exception (no memory) leaves the values alone.
insert(h, key, val, replace, oom) ==
  LET Assign(r) == IF r.x # r.h.nbucket /\ (r.ret # OH_INS_ERR \/ replace)
                   THEN [r.h EXCEPT !.vals[r.x] = val] ELSE r.h
  IN  Assign(openhash_set(h, key, oom))

\* begin() and operator++: the next bucket from x on that holds an element.
RECURSIVE Forward(_, _)
Forward(h, x) == IF x = h.nbucket \/ openhash_exist(h, x) THEN x ELSE Forward(h, x + 1)

\* The elements a loop from begin() to end() visits.
RECURSIVE WalkFrom(_, _)
WalkFrom(h, x) ==
  IF x = h.nbucket THEN <<>>
  ELSE <<<<h.keys[x], h.vals[x]>>>> \o WalkFrom(h, Forward(h, x + 1))
Walk(h) == WalkFrom(h, Forward(h, 0))

\* The copy constructor and operator=: a cleared table filled from another.
RECURSIVE InsertAll(_, _)
InsertAll(h, walk) ==
  IF walk = <<>> THEN h
  ELSE InsertAll(insert(h, Head(walk)[1], Head(walk)[2], FALSE, FALSE), Tail(walk))
Copied(h, other) == InsertAll(openhash_clear(h), Walk(other))

-----------------------------------------------------------------------------
(* The map of several tables.                                               *)

TableOf(key) == key % Tables

find(key) == openhash_get(ht[TableOf(key)], key)

\* A loop over all tables, from begin() to end(): the iterator moves on to the
\* next table that is not empty (size() # 0) when it has come to the end of one.
RECURSIVE MultiFrom(_)
MultiFrom(hid) ==
  IF hid = Tables THEN <<>>
  ELSE IF ht[hid].nelem = 0 THEN MultiFrom(hid + 1)
  ELSE Walk(ht[hid]) \o MultiFrom(hid + 1)

size == LET Sum[i \in 0..Tables] == IF i = 0 THEN 0 ELSE Sum[i - 1] + ht[i - 1].nelem
        IN  Sum[Tables]

Init ==
  /\ ht = [i \in 0..(Tables - 1) |-> openhash_init]
  /\ map = [k \in Key |-> 0]

\* insert, find_or_insert and operator[] (which differ in replace and value).
Insert(key, val, replace, oom) ==
  LET m == TableOf(key)
      h == insert(ht[m], key, val, replace, oom)
      grows == ht[m].noccupied >= ht[m].bound
  IN  /\ grows => IF oom THEN TRUE ELSE 2 * ht[m].nbucket <= MaxBuckets
      /\ ht' = [ht EXCEPT ![m] = h]
      /\ map' = IF (map[key] = 0 \/ replace) /\ ~(grows /\ oom)
                THEN [map EXCEPT ![key] = val] ELSE map

Erase(key) ==
  /\ ht' = [ht EXCEPT ![TableOf(key)] = openhash_del(@, find(key))]
  /\ map' = [map EXCEPT ![key] = 0]

Clear ==
  /\ ht' = [i \in 0..(Tables - 1) |-> openhash_clear(ht[i])]
  /\ map' = [k \in Key |-> 0]

\* resize() of a single table takes powers of two only.
Resize(n, oom) ==
  /\ Tables = 1
  /\ ht' = [ht EXCEPT ![0] = openhash_resize(@, n, oom)]
  /\ UNCHANGED map

Next ==
  \/ \E key \in Key, val \in Val, replace, oom \in BOOLEAN : Insert(key, val, replace, oom)
  \/ \E key \in Key : Erase(key)
  \/ Clear
  \/ \E n \in {1, 2, 4, 8}, oom \in BOOLEAN : n <= MaxBuckets /\ Resize(n, oom)

Spec == Init /\ [][Next]_vars

-----------------------------------------------------------------------------
(* Properties.                                                              *)

\* find answers for every key what the insertions and deletions so far say,
\* tombstones, reused tombstones and kicked-out elements of a resize included.
FindsWhatIsStored ==
  \A k \in Key :
    LET h == ht[TableOf(k)]
        x == openhash_get(h, k)
    IN  IF map[k] = 0 THEN x = h.nbucket
        ELSE x # h.nbucket /\ openhash_exist(h, x) /\ h.keys[x] = k /\ h.vals[x] = map[k]

\* The counters agree with the buckets, and an empty bucket always remains, so
\* that every probe sequence ends.
CountersMatch ==
  \A i \in DOMAIN ht :
    LET h == ht[i]
        B(f) == {x \in DOMAIN h.flags : h.flags[x] = f}
    IN  /\ h.nelem = Cardinality(B("live"))
        /\ h.noccupied = Cardinality(B("live")) + Cardinality(B("del"))
        /\ h.nbucket # 0 => B("empty") # {}

\* A loop over the map visits each of its elements once, and size() counts them.
LoopsVisitAll ==
  LET w == MultiFrom(0)
      E == {<<k, map[k]>> : k \in {k \in Key : map[k] # 0}}
  IN  Len(w) = Cardinality(E) /\ {w[i] : i \in 1..Len(w)} = E /\ size = Len(w)

\* Copying a table, into a new one or over an old one, gives the same map and
\* leaves the probe sequences of the copy sound.
CopiesAgree ==
  \A i, j \in DOMAIN ht :
    LET c == Copied(ht[i], ht[j])
        new == InsertAll(openhash_init, Walk(ht[j]))
    IN  \A k \in Key :
          \A copy \in {c, new} :
            LET x == openhash_get(copy, k)
            IN  IF TableOf(k) # j \/ map[k] = 0 THEN x = copy.nbucket
                ELSE x # copy.nbucket /\ copy.keys[x] = k /\ copy.vals[x] = map[k]
=============================================================================
