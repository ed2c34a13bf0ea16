----------------------------- MODULE MakaluIndex -----------------------------
(***************************************************************************)
(* The two-level block index of the Makalu allocator and the header caches *)
(* in front of it (makalu_hdr.c, makalu_hdr.h).  A hashed top level leads  *)
(* to bottom indices, each with an entry for BOTTOM_SZ blocks; the bottom  *)
(* indices are also linked by ascending and descending key.  An entry is   *)
(* nil, a forwarding count of at most MAX_JUMP, or a header.               *)
(*                                                                         *)
(* The allocator changes the index under its lock, while MAK_free looks    *)
(* headers up without it: get_index publishes a new bottom index in two    *)
(* steps, and a reader walks a hash chain one link at a time.              *)
(***************************************************************************)
EXTENDS Integers, Sequences, FiniteSets, FiniteSetsExt

CONSTANTS
  NKeys, BOTTOM_SZ, TOP_SZ, MAX_JUMP,
  HC,           \* entries of a header cache
  Expansions,   \* sizes of a heap expansion
  Thread        \* the threads that call MAK_free

VARIABLES
  bi,       \* bottom indices by number: [key, hash, asc, desc, index]
  top,      \* MAK_top_index: a bottom index, or 0 for MAK_all_nils
  ends,     \* [first, last]: MAK_all_bottom_indices and its end
  hb,       \* hb_block of each header
  ext,      \* the extents of the heap: block -> [n, free, h]
  w,        \* the call in progress under the lock
  rd,       \* each reader's walk
  cache     \* each reader's header cache

vars == <<bi, top, ends, hb, ext, w, rd, cache>>

Blk == BOTTOM_SZ..(NKeys * BOTTOM_SZ - 1)   \* block 0 is no valid address
HdrBase == 100
Hdr == HdrBase..(HdrBase + Cardinality(Blk) - 1)
Key(b) == b \div BOTTOM_SZ
Lo(b) == b % BOTTOM_SZ
TL_HASH(hi) == hi % TOP_SZ
IsForwardingOrNil(x) == x < HdrBase
NoBlock == 0
Idle == [op |-> "none", need |-> {}, half |-> 0, b |-> 0, n |-> 0]
Resting == [pc |-> "rest", b |-> 0, at |-> 0, cur |-> 0, res |-> 0]

-----------------------------------------------------------------------------
(* Reading the index.                                                       *)

RECURSIVE Chain(_, _)
Chain(x, hi) == IF x = 0 \/ bi[x].key = hi THEN x ELSE Chain(bi[x].hash, hi)

GET_BI(b) == Chain(top[TL_HASH(Key(b))], Key(b))
HDR_FROM_BI(x, b) == IF x = 0 THEN 0 ELSE bi[x].index[Lo(b)]
HDR(b) == HDR_FROM_BI(GET_BI(b), b)
IsFree(h) == \E b \in DOMAIN ext : ext[b].h = h /\ ext[b].free
SizeOf(h) == LET b == CHOOSE b \in DOMAIN ext : ext[b].h = h IN ext[b].n

RECURSIVE UsedFrom(_, _)
UsedFrom(x, j) ==
  IF x = 0 THEN NoBlock
  ELSE IF j >= BOTTOM_SZ THEN UsedFrom(bi[x].asc, 0)
  ELSE LET h == bi[x].index[j] IN
       IF IsForwardingOrNil(h) THEN UsedFrom(x, j + 1)
       ELSE IF IsFree(h) THEN UsedFrom(x, j + SizeOf(h))
       ELSE bi[x].key * BOTTOM_SZ + j

RECURSIVE AscTo(_, _)
AscTo(x, hi) == IF x # 0 /\ bi[x].key < hi THEN AscTo(bi[x].asc, hi) ELSE x

MAK_next_used_block(b) ==
  IF GET_BI(b) = 0 THEN UsedFrom(AscTo(ends.first, Key(b)), 0)
  ELSE UsedFrom(GET_BI(b), Lo(b))

RECURSIVE PrevFrom(_, _)
PrevFrom(x, j) ==
  IF x = 0 THEN NoBlock
  ELSE IF j < 0 THEN PrevFrom(bi[x].desc, BOTTOM_SZ - 1)
  ELSE LET h == bi[x].index[j] IN
       IF h = 0 THEN PrevFrom(x, j - 1)
       ELSE IF IsForwardingOrNil(h) THEN PrevFrom(x, j - h)
       ELSE bi[x].key * BOTTOM_SZ + j

RECURSIVE DescTo(_, _)
DescTo(x, hi) == IF x # 0 /\ bi[x].key > hi THEN DescTo(bi[x].desc, hi) ELSE x

MAK_prev_block(b) ==
  IF GET_BI(b) = 0 THEN PrevFrom(DescTo(ends.last, Key(b)), BOTTOM_SZ - 1)
  ELSE PrevFrom(GET_BI(b), Lo(b))

\* The blocks MAK_apply_to_all_blocks calls its function for, in order.
RECURSIVE Applied(_, _)
Applied(x, j) ==
  IF x = 0 THEN <<>>
  ELSE IF j < 0 THEN Applied(bi[x].asc, BOTTOM_SZ - 1)
  ELSE LET h == bi[x].index[j] IN
       IF ~ IsForwardingOrNil(h)
       THEN (IF IsFree(h) THEN <<>> ELSE <<bi[x].key * BOTTOM_SZ + j>>) \o Applied(x, j - 1)
       ELSE Applied(x, IF h = 0 THEN j - 1 ELSE j - h)

MAK_apply_to_all_blocks == Applied(ends.first, BOTTOM_SZ - 1)

RECURSIVE Forwarded(_)
Forwarded(b) == IF HDR(b) # 0 /\ IsForwardingOrNil(HDR(b)) THEN Forwarded(b - HDR(b)) ELSE b

MAK_free_block_ending_at(b) ==
  LET p == Forwarded(b - 1)
      q == MAK_prev_block(b - 1)
  IN  IF b - 1 \notin Blk THEN NoBlock
      ELSE IF HDR(p) # 0 THEN (IF IsFree(HDR(p)) THEN p ELSE NoBlock)
      ELSE IF q # NoBlock /\ IsFree(HDR(q)) /\ q + SizeOf(HDR(q)) = b THEN q
      ELSE NoBlock

-----------------------------------------------------------------------------
(* Writing it.                                                              *)

Init ==
  /\ bi = <<>> /\ top = [i \in 0..(TOP_SZ - 1) |-> 0] /\ ends = [first |-> 0, last |-> 0]
  /\ hb = [h \in Hdr |-> 0]
  /\ ext = <<>>
  /\ w = Idle
  /\ rd = [t \in Thread |-> Resting]
  /\ cache = [t \in Thread |-> [i \in 0..(HC - 1) |-> <<0, HdrBase>>]]

\* get_index, first step: the empty bottom index heads its hash chain while
\* its key is still zero.
get_index_publish(k) ==
  /\ w.half = 0 /\ k \in w.need
  /\ bi' = Append(bi, [key |-> 0, hash |-> top[TL_HASH(k)], asc |-> 0, desc |-> 0,
                       index |-> [j \in 0..(BOTTOM_SZ - 1) |-> 0]])
  /\ top' = [top EXCEPT ![TL_HASH(k)] = Len(bi) + 1]
  /\ w' = [w EXCEPT !.half = k]
  /\ UNCHANGED <<ends, hb, ext, rd, cache>>

\* Second step: its key, and its place in the two lists.
get_index_link ==
  /\ w.half # 0
  /\ LET k == w.half
         r == Len(bi)
         p == AscTo(ends.first, k)              \* the bottom index that follows
         before == {x \in 1..(r - 1) : bi[x].asc = p /\ bi[x].key < k}
         pi == IF before = {} THEN 0 ELSE CHOOSE x \in before : TRUE
     IN  /\ bi' = [x \in DOMAIN bi |->
                     IF x = r THEN [bi[r] EXCEPT !.key = k, !.asc = p, !.desc = pi]
                     ELSE [bi[x] EXCEPT !.desc = IF x = p THEN r ELSE @,
                                        !.asc = IF x = pi THEN r ELSE @]]
         /\ ends' = [first |-> IF pi = 0 THEN r ELSE ends.first,
                     last |-> IF p = 0 THEN r ELSE ends.last]
         /\ w' = [w EXCEPT !.half = 0, !.need = @ \ {k}]
  /\ UNCHANGED <<top, hb, ext, rd, cache>>

Keys(S) == {Key(b) : b \in S}
Missing(S) == {k \in Keys(S) : \A x \in DOMAIN bi : bi[x].key # k}

\* SET_HDR for several blocks at once; f gives the new entries.
SetHdrs(x, f) ==
  [i \in DOMAIN x |-> [x[i] EXCEPT !.index = [j \in 0..(BOTTOM_SZ - 1) |->
     LET b == x[i].key * BOTTOM_SZ + j IN IF b \in DOMAIN f THEN f[b] ELSE @[j]]]]

Counts(b, n) == [c \in (b + 1)..(b + n - 1) |-> IF c - b > MAX_JUMP THEN MAX_JUMP ELSE c - b]
NoCounts(b, n) == [c \in (b + 1)..(b + n - 1) |-> 0]
Entry(b, x) == [c \in {b} |-> x]
Without(f, S) == [x \in DOMAIN f \ S |-> f[x]]
Also(f, g) == [x \in DOMAIN f \cup DOMAIN g |-> IF x \in DOMAIN g THEN g[x] ELSE f[x]]
FreeHdr == {h \in Hdr : \A b \in DOMAIN ext : ext[b].h # h}
NewHdr == Max(FreeHdr)          \* the header list hands out the latest returned

\* A call under the lock begins by naming the bottom indices it needs.
Start(op, b, n, S) ==
  /\ w = Idle
  /\ w' = [Idle EXCEPT !.op = op, !.need = Missing(S), !.b = b, !.n = n]
  /\ UNCHANGED <<bi, top, ends, hb, ext, rd, cache>>

StartExpand(b, n) ==
  /\ n \in Expansions /\ b..(b + n - 1) \subseteq Blk
  /\ \A x \in DOMAIN ext : (x..(x + ext[x].n - 1)) \cap (b..(b + n - 1)) = {}
  /\ Start("expand", b, n, IF MAK_free_block_ending_at(b) # NoBlock THEN {} ELSE {b})

\* MAK_get_first_part, and the counts MAK_allochblk_nth installs.
StartAlloc(b, n) ==
  /\ b \in DOMAIN ext /\ ext[b].free /\ ext[b].n >= n
  /\ Start("alloc", b, n, (b..(b + n - 1)) \cup (IF ext[b].n > n THEN {b + n} ELSE {}))

Ready(op) == w.op = op /\ w.need = {} /\ w.half = 0

\* Mutant of MAK_remove_header: the header keeps its block.
MAK_remove_header_lazily(x, b) == x

\* MAK_remove_header forgets the block, for the caches' sake.
MAK_remove_header(x, b) == [x EXCEPT ![ext[b].h] = 0]

\* MAK_newfreehblk: the new region joins its free neighbours.
Expand ==
  /\ Ready("expand")
  /\ LET prev == MAK_free_block_ending_at(w.b)
         next == w.b + w.n
         joinNext == next \in DOMAIN ext /\ ext[next].free
         gone == IF joinNext THEN {next} ELSE {}
         size == w.n + (IF joinNext THEN ext[next].n ELSE 0)
         h1 == IF joinNext THEN MAK_remove_header(hb, next) ELSE hb
     IN  IF prev # NoBlock
         THEN /\ ext' = Without([ext EXCEPT ![prev].n = @ + size], gone)
              /\ hb' = h1
              /\ bi' = SetHdrs(bi, [g \in gone |-> 0])
         ELSE /\ ext' = Also(Without(ext, gone), Entry(w.b, [n |-> size, free |-> TRUE, h |-> NewHdr]))
              /\ hb' = [h1 EXCEPT ![NewHdr] = w.b]
              /\ bi' = SetHdrs(bi, Also([g \in gone |-> 0], Entry(w.b, NewHdr)))
  /\ w' = Idle
  /\ UNCHANGED <<top, ends, rd, cache>>

Alloc ==
  /\ Ready("alloc")
  /\ LET b == w.b
         rest == ext[b].n - w.n
         mine == [ext EXCEPT ![b].n = w.n, ![b].free = FALSE]
     IN  IF rest = 0
         THEN /\ ext' = mine /\ UNCHANGED hb
              /\ bi' = SetHdrs(bi, Counts(b, w.n))
         ELSE /\ ext' = Also(mine, Entry(b + w.n, [n |-> rest, free |-> TRUE, h |-> NewHdr]))
              /\ hb' = [hb EXCEPT ![NewHdr] = b + w.n]
              /\ bi' = SetHdrs(bi, Also(Counts(b, w.n), Entry(b + w.n, NewHdr)))
  /\ w' = Idle
  /\ UNCHANGED <<top, ends, rd, cache>>

\* MAK_freehblk: counts go, and the block joins its free neighbours.
Free(b) ==
  /\ w = Idle /\ b \in DOMAIN ext /\ ~ ext[b].free
  /\ \A t \in Thread : rd[t].b # b
  /\ LET n == ext[b].n
         prev == MAK_free_block_ending_at(b)
         next == b + n
         joinNext == next \in DOMAIN ext /\ ext[next].free
         first == IF prev # NoBlock THEN prev ELSE b
         gone == (IF prev # NoBlock THEN {b} ELSE {}) \cup (IF joinNext THEN {next} ELSE {})
         size == n + (IF prev # NoBlock THEN ext[prev].n ELSE 0)
                   + (IF joinNext THEN ext[next].n ELSE 0)
         h1 == IF prev # NoBlock THEN MAK_remove_header(hb, b) ELSE hb
     IN  /\ hb' = IF joinNext THEN MAK_remove_header(h1, next) ELSE h1
         /\ ext' = Without([ext EXCEPT ![first].n = size, ![first].free = TRUE], gone)
         /\ bi' = SetHdrs(bi, Also(NoCounts(b, n), [g \in gone |-> 0]))
  /\ UNCHANGED <<top, ends, w, rd, cache>>

-----------------------------------------------------------------------------
(* MAK_free's lookup, without the lock (MAK_hc_base_with_hdr).               *)

\* The cache answers when the entry is for the block and the header agrees.
Lookup(t, b, p) ==
  /\ rd[t].pc = "rest" /\ b \in DOMAIN ext /\ ~ ext[b].free
  /\ p \in b..(b + ext[b].n - 1)
  /\ LET e == cache[t][p % HC] IN
     rd' = [rd EXCEPT ![t] =
       IF e[1] = p /\ hb[e[2]] = p
       THEN [pc |-> "done", b |-> b, at |-> p, cur |-> 0, res |-> e[2]]
       ELSE [pc |-> "walk", b |-> b, at |-> p, cur |-> top[TL_HASH(Key(p))], res |-> 0]]
  /\ UNCHANGED <<bi, top, ends, hb, ext, w, cache>>

\* GET_BI, one link; then the entry, and the walk again from where it forwards.
Walk(t) ==
  /\ rd[t].pc = "walk"
  /\ LET r == rd[t]
         h == HDR_FROM_BI(r.cur, r.at)
     IN  IF r.cur # 0 /\ bi[r.cur].key # Key(r.at)
         THEN /\ rd' = [rd EXCEPT ![t].cur = bi[r.cur].hash]
              /\ UNCHANGED cache
         ELSE IF h # 0 /\ IsForwardingOrNil(h)
         THEN /\ rd' = [rd EXCEPT ![t].at = r.at - h,
                                  ![t].cur = top[TL_HASH(Key(r.at - h))]]
              /\ UNCHANGED cache
         ELSE /\ rd' = [rd EXCEPT ![t].pc = "done", ![t].res = h]
              /\ cache' = IF h = 0 THEN cache
                          ELSE [cache EXCEPT ![t][r.at % HC] = <<r.at, h>>]
  /\ UNCHANGED <<bi, top, ends, hb, ext, w>>

Done(t) ==
  /\ rd[t].pc = "done"
  /\ rd' = [rd EXCEPT ![t] = Resting]
  /\ UNCHANGED <<bi, top, ends, hb, ext, w, cache>>

Next ==
  \/ \E b \in Blk, n \in 1..Cardinality(Blk) : StartExpand(b, n) \/ StartAlloc(b, n)
  \/ \E k \in 0..(NKeys - 1) : get_index_publish(k)
  \/ get_index_link
  \/ Expand \/ Alloc
  \/ \E b \in Blk : Free(b)
  \/ \E t \in Thread : (\E b, p \in Blk : Lookup(t, b, p)) \/ Walk(t) \/ Done(t)

Spec == Init /\ [][Next]_vars

-----------------------------------------------------------------------------
Quiet == w.half = 0

\* A lookup made without the lock finds the header of the object's block,
\* whatever the allocator does meanwhile to the index and to other blocks, and
\* whatever the cache remembers (MAK_hc_base_with_hdr, "Called without the
\* allocation lock held").
LookupFindsHeader ==
  \A t \in Thread : rd[t].pc = "done" => rd[t].res = ext[rd[t].b].h

\* The walks through the index agree with the extents of the heap: the next
\* used block, the last block before an address, the free block ending at it,
\* and every allocated block exactly once (makalu_hdr.c:607-700).
WalksMatchExtents ==
  Quiet =>
    /\ \A b \in Blk :
         LET used == {x \in DOMAIN ext : ~ ext[x].free /\ x >= b}
             below == {x \in DOMAIN ext : x <= b}
             ending == {x \in DOMAIN ext : ext[x].free /\ x + ext[x].n = b}
         IN  /\ MAK_next_used_block(b) = IF used = {} THEN NoBlock ELSE Min(used)
             /\ MAK_prev_block(b) = IF below = {} THEN NoBlock ELSE Max(below)
             /\ (\A x \in DOMAIN ext : b \notin (x + 1)..(x + ext[x].n - 1)) =>
                  MAK_free_block_ending_at(b) = IF ending = {} THEN NoBlock ELSE Max(ending)
    /\ LET a == MAK_apply_to_all_blocks IN
       /\ {a[i] : i \in DOMAIN a} = {x \in DOMAIN ext : ~ ext[x].free}
       /\ Len(a) = Cardinality({x \in DOMAIN ext : ~ ext[x].free})

RECURSIVE Asc(_)
Asc(x) == IF x = 0 THEN <<>> ELSE <<x>> \o Asc(bi[x].asc)
RECURSIVE Desc(_)
Desc(x) == IF x = 0 THEN <<>> ELSE Desc(bi[x].desc) \o <<x>>

\* Ascending and descending links visit the bottom indices in key order
\* (get_index, lines 355-374).
BottomIndicesSorted ==
  Quiet =>
    LET a == Asc(ends.first) IN
    /\ a = Desc(ends.last)
    /\ {a[i] : i \in DOMAIN a} = DOMAIN bi
    /\ \A i \in 1..(Len(a) - 1) : bi[a[i]].key < bi[a[i + 1]].key
=============================================================================
