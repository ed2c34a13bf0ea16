----------------------------- MODULE MakaluHeap ------------------------------
(***************************************************************************)
(* The block layer of the Makalu allocator: heap blocks, their persistent  *)
(* headers, the header pool, the block index and the block free lists      *)
(* (makalu_block.c, makalu_hdr.c), the region manager they take memory     *)
(* from, and what a crash in the middle of an operation leaves for         *)
(* MAK_start_off to recover.                                               *)
(*                                                                         *)
(* An operation is computed as the sequence of its stores.  Run through,   *)
(* it takes effect as a whole, for every caller holds the allocator lock;  *)
(* a crash picks any prefix of it, undoes what the prefix logged           *)
(* (module MakaluLog), and lets every other store of the prefix survive or *)
(* not, a cache line at a time.                                            *)
(*                                                                         *)
(* Addresses are counted in heap blocks, header addresses in headers, and  *)
(* sizes in half blocks, so that 1 is the size of a small object and       *)
(* OBJ_SZ_TO_BLOCKS rounds.                                                *)
(***************************************************************************)
EXTENDS Integers, Sequences, SequencesExt, FiniteSets, FiniteSetsExt

CONSTANTS
  FILESIZE,            \* blocks the region manager can hand out
  HPS,                 \* headers in one block
  MAX_HEAP_SECTS,      \* header spaces
  MINHINCR,            \* least expansion of the heap and of the headers
  UNIQUE_THRESHOLD, HUGE_THRESHOLD,   \* of the free list index
  Sizes,               \* sizes requested
  PowerFails,          \* does a crash lose the cache, or only the process?
  CrashInside,         \* may a crash interrupt an operation?
  MaxCrash

VARIABLES
  s,        \* the machine: persistent words, and the transient structures
  nvm,      \* the persistent words as a power failure would leave them
  mode,     \* "online", "offline" or "down"
  heap,     \* the blocks that completed expansions have added
  owned,    \* the blocks handed to callers, by their address
  may,      \* what owned may be once a crash has been recovered from
  crashes

vars == <<s, nvm, mode, heap, owned, may, crashes>>

Addr == 1..FILESIZE
HdrAt(b) == HPS * (FILESIZE + b)      \* the first header in block b, above any count
HdrId == HdrAt(1)..(HdrAt(FILESIZE + 1) - 1)
Space == 0..(MAX_HEAP_SECTS - 1)
Blocks(sz) == (sz + 1) \div 2         \* OBJ_SZ_TO_BLOCKS
HBLKSIZE == 2
N_HBLK_FLS == HUGE_THRESHOLD

\* A persistent word: a field of a header, hs_start or hs_bytes of a space, or a
\* global.
Global == {"fptr", "nsp", "heapsize", "lfb", "last", "lastsz", "prev", "curr", "state"}
Loc == ({"sz", "block", "free"} \X HdrId) \cup ({"hs", "bytes"} \X Space) \cup (Global \X {0})
G(g) == <<g, 0>>

\* A header's fields share a cache line, and so do the first header spaces.
LineOf(l) == IF l[1] \in {"sz", "block", "free"} THEN <<"hdr", l[2]>>
             ELSE IF l[1] \in {"hs", "bytes"} THEN <<"hs", 0>> ELSE l

-----------------------------------------------------------------------------
(* Stores, with the events a crash may fall between.                        *)

Event(st, k, l, v) == [st EXCEPT !.mem[l] = v, !.ev = Append(@, [k |-> k, l |-> l, v |-> v])]
LogOnly(st, l) == Event(st, "log", l, st.mem[l])       \* MAK_LOG_NVM_*
NoLog(st, l, v) == Event(st, "fas", l, v)              \* MAK_NO_LOG_STORE_NVM
Store(st, l, v) == NoLog(LogOnly(st, l), l, v)         \* MAK_STORE_NVM_*
Plain(st, l, v) == Event(st, "plain", l, v)
Sync(st, l, v) == Event(st, "sync", l, v)              \* MAK_STORE_NVM_SYNC
End(st) == Event(st, "end", G("state"), st.mem[G("state")])   \* MAK_END_NVM_ATOMIC

SetHdr(st, a, x) == [st EXCEPT !.idx[a] = x]
HDR(st, a) == IF a \in Addr THEN st.idx[a] ELSE 0
IsHdr(x) == x \in HdrId                \* otherwise nil, or a forwarding count
Sz(st, h) == st.mem[<<"sz", h>>]
Block(st, h) == st.mem[<<"block", h>>]
HBLK_IS_FREE(st, h) == st.mem[<<"free", h>>] = 1

\* Operations mark an inconsistent state before they start.
MarkInconsistent(st) ==
  IF st.mem[G("state")] = 0 THEN Sync(st, G("state"), 2) ELSE st

-----------------------------------------------------------------------------
(* The region manager and the header pool.                                  *)

HasRegion(st, n) == st.mem[G("curr")] + n <= FILESIZE + 1

\* __nvm_region_allocator: the manager's own pointer is flushed, the caller's
\* word is not.
__nvm_region_allocator(st, l, n) ==
  Plain(Sync(st, G("curr"), st.mem[G("curr")] + n), l, st.mem[G("curr")])

\* The current space is now the one at hs_start[i], and taken to have n blocks.
UseSpace(st, i, n) ==
  LET first == HdrAt(st.mem[<<"hs", i>>])
  IN  [Plain(st, G("fptr"), first) EXCEPT !.ep = first + n * HPS]

\* n blocks of headers; what is left when there is no room is a space less.
scratch_alloc_hdr_space(st, n) ==
  LET i == st.mem[G("nsp")]
      asked == Sync(Sync(st, G("nsp"), i + 1), <<"bytes", i>>, n)
  IN  IF st.cs < i THEN [ok |-> TRUE, st |-> UseSpace(st, st.cs, n)]
      ELSE IF i >= MAX_HEAP_SECTS THEN [ok |-> FALSE, st |-> [st EXCEPT !.abort = TRUE]]
      ELSE IF ~ HasRegion(st, n) THEN [ok |-> FALSE, st |-> Sync(asked, G("nsp"), i)]
      ELSE [ok |-> TRUE, st |-> UseSpace(__nvm_region_allocator(asked, <<"hs", i>>, n), i, n)]

\* Room for as many headers as the last expansion of the heap may need, or the
\* least increment, or one block.
MoreHeaders(st) ==
  LET want == Max({MINHINCR, (st.mem[G("lastsz")] + HPS - 1) \div HPS})
      r1 == scratch_alloc_hdr_space([st EXCEPT !.cs = @ + 1], want)
      r2 == IF r1.ok \/ r1.st.abort \/ want = MINHINCR THEN r1
            ELSE scratch_alloc_hdr_space(r1.st, MINHINCR)
      r3 == IF r2.ok \/ r2.st.abort THEN r2 ELSE scratch_alloc_hdr_space(r2.st, 1)
  IN  IF r3.ok THEN r3.st ELSE [r3.st EXCEPT !.abort = TRUE]

FromPtr(st) ==
  [h |-> st.mem[G("fptr")],
   st |-> IF st.abort THEN st ELSE NoLog(st, G("fptr"), st.mem[G("fptr")] + 1)]

\* Mutant of alloc_hdr: a header taken from the list is not logged.
alloc_hdr_unlogged(st) ==
  IF st.hfl # <<>> THEN [h |-> Head(st.hfl), st |-> [st EXCEPT !.hfl = Tail(@)]]
  ELSE IF st.mem[G("fptr")] + 1 <= st.ep THEN FromPtr(st)
  ELSE FromPtr(MoreHeaders(st))

\* The header list first, then the current space, then a further space.
alloc_hdr(st) ==
  IF st.hfl # <<>>
  THEN [h |-> Head(st.hfl),
        st |-> LogOnly([st EXCEPT !.hfl = Tail(@)], <<"sz", Head(st.hfl)>>)]
  ELSE IF st.mem[G("fptr")] + 1 <= st.ep THEN FromPtr(st)
  ELSE FromPtr(MoreHeaders(st))

MAK_install_header(st, a) ==
  LET Install(r) == [h |-> r.h, st |-> IF r.st.abort THEN r.st
                                       ELSE SetHdr(NoLog(r.st, <<"block", r.h>>, a), a, r.h)]
  IN  Install(alloc_hdr(st))

MAK_remove_header(st, a) ==
  LET h == HDR(st, a)
      s1 == Store(NoLog(st, <<"sz", h>>, 0), <<"block", h>>, 0)
  IN  SetHdr([s1 EXCEPT !.hfl = <<h>> \o @], a, 0)

MAK_install_counts(st, a, sz) ==
  [st EXCEPT !.idx = [x \in Addr |-> IF x > a /\ x < a + Blocks(sz) THEN x - a ELSE @[x]]]

MAK_remove_counts(st, a, sz) ==
  [st EXCEPT !.idx = [x \in Addr |-> IF x > a /\ x < a + Blocks(sz) THEN 0 ELSE @[x]]]

-----------------------------------------------------------------------------
(* Block free lists.                                                        *)

MAK_hblk_fl_from_blocks(n) ==
  IF n <= UNIQUE_THRESHOLD THEN n
  ELSE IF n >= HUGE_THRESHOLD THEN N_HBLK_FLS
  ELSE (n - UNIQUE_THRESHOLD) \div 2 + UNIQUE_THRESHOLD

MAK_remove_from_fl(st, h) ==
  LET i == MAK_hblk_fl_from_blocks(Blocks(Sz(st, h)))
      out == [st EXCEPT !.fl[i] = SelectSeq(@, LAMBDA a : a # Block(st, h))]
  IN  LogOnly(LogOnly(out, <<"sz", h>>), <<"free", h>>)

MAK_add_to_fl(st, a, h) ==
  LET i == MAK_hblk_fl_from_blocks(Blocks(Sz(st, h)))
  IN  NoLog([st EXCEPT !.fl[i] = <<a>> \o @], <<"free", h>>, 1)

\* The block before a, if it is free: by its header, or by the nearest header
\* below (MAK_prev_block), for the inside of a free block has no entries.
MAK_free_block_ending_at(st, a) ==
  LET below == {x \in Addr : x < a /\ IsHdr(st.idx[x])}
      p == IF below = {} THEN 0 ELSE Max(below)
  IN  IF p # 0 /\ HBLK_IS_FREE(st, st.idx[p]) /\ p + Blocks(Sz(st, st.idx[p])) = a
      THEN p ELSE 0

\* "hhdr->hb_sz += d", of a header whose size has been logged.
Enlarge(st, h, d) == NoLog(st, <<"sz", h>>, Sz(st, h) + d)

\* The block at b becomes part of the one before it, whose header is h.
Absorb(st, h, b) == MAK_remove_header(Enlarge(st, h, Sz(st, HDR(st, b))), b)

\* The block at next, if it is free, becomes part of the one with header h;
\* listed: are there free lists to take it from?
JoinNext(st, h, next, listed) ==
  LET nexthdr == HDR(st, next)
  IN  IF nexthdr = 0 \/ ~ HBLK_IS_FREE(st, nexthdr) THEN st
      ELSE IF listed THEN Absorb(MAK_remove_from_fl(st, nexthdr), h, next)
      ELSE Absorb(LogOnly(LogOnly(st, <<"free", nexthdr>>), <<"sz", nexthdr>>), h, next)

Add(st, l, d) == Store(st, l, st.mem[l] + d)

MAK_newfreehblk(st, a, n) ==
  LET sz == n * HBLKSIZE
      prev == MAK_free_block_ending_at(st, a)
      ph == HDR(st, prev)
      Finish(st1, b, h) == MAK_add_to_fl(Add(JoinNext(st1, h, a + n, TRUE), G("lfb"), sz), b, h)
      New(r) == IF r.st.abort THEN r.st
                ELSE Finish(NoLog(NoLog(r.st, <<"sz", r.h>>, sz), <<"free", r.h>>, 0), a, r.h)
  IN  IF prev # 0
      THEN Finish(LogOnly(Enlarge(MAK_remove_from_fl(st, ph), ph, sz), G("fptr")), prev, ph)
      ELSE New(MAK_install_header(LogOnly(st, G("fptr")), a))

MAK_add_to_heap(st, a, n) ==
  LET Count(r) == IF r.abort THEN r ELSE Add(r, G("heapsize"), n)
  IN  Count(MAK_newfreehblk(st, a, n))

MAK_finish_expand_hp_inner(st) ==
  LET a == st.mem[G("last")]
      Finish(r) == IF r.abort THEN r ELSE End(Store(Store(r, G("prev"), a), G("last"), 0))
  IN  IF a = 0 THEN st ELSE Finish(MAK_add_to_heap(st, a, st.mem[G("lastsz")]))

MAK_expand_hp_inner(st, n) ==
  LET m == IF n < MINHINCR THEN MINHINCR ELSE n
      s1 == Sync(MarkInconsistent(st), G("lastsz"), m)
  IN  IF HasRegion(st, m)
      THEN MAK_finish_expand_hp_inner(__nvm_region_allocator(s1, G("last"), m))
      ELSE [s1 EXCEPT !.abort = TRUE]

-----------------------------------------------------------------------------
(* Allocating and freeing a block.                                          *)

MAK_get_first_part(st, h, n) ==
  LET rest == Sz(st, h) - n * HBLKSIZE
      a == Block(st, h) + n
      Split(r) == IF r.st.abort THEN r.st
                  ELSE MAK_add_to_fl(
                         Plain(NoLog(r.st, <<"sz", r.h>>, rest), <<"free", r.h>>, 0), a, r.h)
  IN  IF rest = 0 THEN MAK_remove_from_fl(st, h)
      ELSE Split(MAK_install_header(MAK_remove_from_fl(st, h), a))

\* Mutant of setup_header: the flag is not stored back with the size.
setup_header_free(st, h, a, sz) ==
  NoLog(NoLog(st, <<"sz", h>>, sz), <<"block", h>>, a)

setup_header(st, h, a, sz) ==
  NoLog(NoLog(NoLog(st, <<"sz", h>>, sz), <<"free", h>>, 0), <<"block", h>>, a)

\* Would MAK_allochblk_nth settle for entry k of list i?  A block that must be
\* split is passed over when the next one is smaller and still large enough.
Suits(st, i, k, n, may_split) ==
  LET avail == Blocks(Sz(st, HDR(st, st.fl[i][k])))
      next == IF k < Len(st.fl[i]) THEN Blocks(Sz(st, HDR(st, st.fl[i][k + 1]))) ELSE 0
  IN  /\ avail >= n
      /\ avail # n => may_split /\ ~ (next < avail /\ next >= n)

\* Exact match in the first list, then the larger lists in turn.
Found(st, n) ==
  LET start == MAK_hblk_fl_from_blocks(n)
      up == IF start < UNIQUE_THRESHOLD THEN start + 1 ELSE start
      In(i, split) == {k \in DOMAIN st.fl[i] : Suits(st, i, k, n, split)}
      lists == {i \in up..N_HBLK_FLS : In(i, TRUE) # {}}
  IN  IF In(start, FALSE) # {} THEN st.fl[start][Min(In(start, FALSE))]
      ELSE IF lists = {} THEN 0
      ELSE st.fl[Min(lists)][Min(In(Min(lists), TRUE))]

MAK_allochblk(st, sz) ==
  LET n == Blocks(sz)
      a == Found(st, n)
      h == HDR(st, a)
      Finish(s1) ==
        IF s1.abort THEN s1
        ELSE MAK_install_counts(End(Add(setup_header(s1, h, a, sz), G("lfb"), -(n * HBLKSIZE))), a, sz)
  IN  Finish(MAK_get_first_part(LogOnly(MarkInconsistent(st), G("fptr")), h, n))

\* MAK_freehblk within its section; the offline collector keeps no free lists.
MAK_freehblk(st, a) ==
  LET h == HDR(st, a)
      listed == mode # "offline"
      size == Blocks(Sz(st, h)) * HBLKSIZE
      prev == MAK_free_block_ending_at(st, a)
      ph == HDR(st, prev)
      s1 == Store(MAK_remove_counts(MarkInconsistent(st), a, size), <<"sz", h>>, size)
      s2 == Store(s1, <<"free", h>>, 1)
      Unlist(x) == IF listed THEN MAK_remove_from_fl(x, ph) ELSE LogOnly(x, <<"sz", ph>>)
      Finish(x, b, bh) ==
        LET s3 == Add(JoinNext(x, bh, a + Blocks(size), listed), G("lfb"), size)
        IN  End(IF listed THEN MAK_add_to_fl(s3, b, bh) ELSE s3)
  IN  IF prev = 0 THEN Finish(s2, a, h) ELSE Finish(Absorb(Unlist(s2), ph, a), prev, ph)

-----------------------------------------------------------------------------
(* What a crash leaves.                                                     *)

\* The words that may be newer in the cache than in persistent memory.
Lagging == IF PowerFails THEN {l \in Loc : nvm[l] # s.mem[l]} ELSE {}

\* One store: n is the set of what persistent memory may hold, und the values
\* the log would restore, fas the lines the section's end will flush.
Replay(c, e) ==
  LET m == [c.m EXCEPT ![e.l] = e.v]
      line == LineOf(e.l)
      Flushed(x, ls) == [l \in Loc |-> IF LineOf(l) \in ls THEN m[l] ELSE x[l]]
      logged == e.l \in DOMAIN c.und
      n == IF e.k = "log" THEN c.n
           ELSE IF e.k = "sync" THEN {Flushed(x, {line}) : x \in c.n}
           ELSE IF e.k = "end" THEN {Flushed(x, c.fas) : x \in c.n}
           ELSE IF ~ PowerFails THEN {Flushed(x, {line}) : x \in c.n}
           ELSE IF logged THEN c.n
           ELSE c.n \cup {Flushed(x, {line}) : x \in c.n}
      und == IF e.k = "end" THEN <<>>
             ELSE IF e.k = "log" /\ ~ logged
                  THEN [l \in DOMAIN c.und \cup {e.l} |-> IF l = e.l THEN c.m[l] ELSE c.und[l]]
             ELSE c.und
      Undo(x) == [l \in Loc |-> IF l \in DOMAIN und THEN und[l] ELSE x[l]]
  IN  [m |-> m, n |-> n, und |-> und,
       fas |-> IF e.k = "end" THEN {} ELSE IF e.k = "fas" THEN c.fas \cup {line} ELSE c.fas,
       out |-> c.out \cup {Undo(x) : x \in n}]

\* Everything a crash during these stores may leave after MAK_recover_metadata.
CrashStates(ev) ==
  LET n0 == {[l \in Loc |-> IF l \in late THEN s.mem[l] ELSE nvm[l]] : late \in SUBSET Lagging}
      c0 == [m |-> s.mem, n |-> n0, und |-> <<>>, fas |-> {}, out |-> n0]
  IN  FoldLeft(Replay, c0, ev).out

\* What persistent memory holds once the stores have all been made.
Durable(ev) ==
  LET step(c, e) ==
        LET m == [c.m EXCEPT ![e.l] = e.v]
            fas == IF e.k = "fas" THEN c.fas \cup {LineOf(e.l)} ELSE c.fas
            now == IF e.k = "sync" THEN {LineOf(e.l)} ELSE IF e.k = "end" THEN fas ELSE {}
        IN  [m |-> m, fas |-> fas,
             n |-> [l \in Loc |-> IF LineOf(l) \in now THEN m[l] ELSE c.n[l]]]
  IN  IF PowerFails THEN FoldLeft(step, [m |-> s.mem, fas |-> {}, n |-> nvm], ev).n
      ELSE FoldLeft(step, [m |-> s.mem, fas |-> {}, n |-> nvm], ev).m

-----------------------------------------------------------------------------
(* Recovery.                                                                *)

\* The header cells a scan of the header spaces looks at.
Scanned(mem, nsp) ==
  UNION { LET first == HdrAt(mem[<<"hs", i>>])
              fp == mem[G("fptr")]
              space == first + mem[<<"bytes", i>>] * HPS
              end == IF fp >= first /\ fp < space THEN fp ELSE space
          IN  first..(end - 1) : i \in 0..(nsp - 1) }

\* An acquisition whose address never became durable is taken back.
LastSpaces(mem) ==
  LET n == mem[G("nsp")] IN IF mem[<<"hs", n - 1>>] = 0 THEN n - 1 ELSE n

MAK_restart_persistent_scratch_alloc(st) ==
  LET n == LastSpaces(st.mem)
      fp == st.mem[G("fptr")]
      end(i) == HdrAt(st.mem[<<"hs", i>>] + st.mem[<<"bytes", i>>])
      in == {i \in 0..(n - 1) : fp >= HdrAt(st.mem[<<"hs", i>>]) /\ fp < end(i)}
      r == Plain(st, G("nsp"), n)
  IN  IF in = {} THEN [r EXCEPT !.cs = n, !.ep = 0]
      ELSE [r EXCEPT !.cs = Max(in), !.ep = end(Max(in))]

\* The scan of all headers: an unused header joins the header list, any other
\* is entered in the index with its counts.  A later header overwrites an
\* earlier one.
MAK_rebuild_metadata_from_headers(st) ==
  LET cells == Scanned(st.mem, st.mem[G("nsp")])
      used == {h \in cells : Sz(st, h) # 0}
      Covers(h, a) == a = Block(st, h)
                      \/ (~ HBLK_IS_FREE(st, h) /\ a > Block(st, h)
                          /\ a < Block(st, h) + Blocks(Sz(st, h)))
  IN  [st EXCEPT
         !.hfl = Reverse(SetToSortSeq(cells \ used, <)),
         !.idx = [a \in Addr |->
                    LET hs == {h \in used : Covers(h, a)} IN
                    IF hs = {} THEN 0
                    ELSE IF Block(st, Max(hs)) = a THEN Max(hs) ELSE a - Block(st, Max(hs))],
         !.fl = [i \in 1..N_HBLK_FLS |-> <<>>]]

\* Every free block joins the list of its size; the walk is by address.
MAK_restart_block_freelists(st) ==
  LET free == {a \in Addr : IsHdr(st.idx[a]) /\ HBLK_IS_FREE(st, st.idx[a])}
      In(i) == {a \in free : MAK_hblk_fl_from_blocks(Blocks(Sz(st, st.idx[a]))) = i}
  IN  [st EXCEPT !.fl = [i \in 1..N_HBLK_FLS |-> SetToSortSeq(In(i), <)]]

-----------------------------------------------------------------------------
(* The machine.                                                             *)

Fresh ==
  [mem |-> [l \in Loc |-> IF l \in {<<"hs", 0>>, G("nsp")} THEN 1
                          ELSE IF l = <<"bytes", 0>> THEN MINHINCR
                          ELSE IF l = G("fptr") THEN HdrAt(1)
                          ELSE IF l = G("curr") THEN MINHINCR + 1 ELSE 0],
   ev |-> <<>>, idx |-> [a \in Addr |-> 0], fl |-> [i \in 1..N_HBLK_FLS |-> <<>>],
   hfl |-> <<>>, cs |-> 0, ep |-> HdrAt(MINHINCR + 1), abort |-> FALSE]

Region(st) == st.mem[G("prev")]..(st.mem[G("prev")] + st.mem[G("lastsz")] - 1)

\* MAK_start: one header space, and the first heap expansion.
Init ==
  LET Started(st) == s = [st EXCEPT !.ev = <<>>] /\ nvm = st.mem /\ heap = Region(st) IN
  /\ Started(MAK_expand_hp_inner(Fresh, MINHINCR))
  /\ mode = "online" /\ owned = {} /\ may = {} /\ crashes = 0

\* A process is no more, and persistent memory holds n.  The index and the header
\* list are there too, and whole if the state says so: MAK_sync_alloc_metadata
\* flushed them, and an operation marks the state before it changes them.
Down(n) ==
  /\ nvm' = n
  /\ s' = IF n[G("state")] = 0 THEN [Fresh EXCEPT !.mem = n, !.idx = s.idx, !.hfl = s.hfl]
          ELSE [Fresh EXCEPT !.mem = n]

\* An operation runs through, or a crash interrupts it.
Perform(st, o) ==
  \/ /\ ~ st.abort
     /\ s' = [st EXCEPT !.ev = <<>>]
     /\ nvm' = Durable(st.ev)
     /\ heap' = IF \E e \in Range(st.ev) : e.l = G("prev") /\ e.k = "fas"
                THEN heap \cup Region(st) ELSE heap
     /\ owned' = o
     /\ UNCHANGED <<mode, may, crashes>>
  \/ /\ CrashInside /\ crashes < MaxCrash
     /\ \E n \in CrashStates(st.ev) : Down(n)
     /\ mode' = "down" /\ may' = {owned, o} /\ crashes' = crashes + 1
     /\ UNCHANGED <<heap, owned>>

Alloc(sz) ==
  /\ mode = "online" /\ Found(s, Blocks(sz)) # 0
  /\ Perform(MAK_allochblk(s, sz), owned \cup {Found(s, Blocks(sz))})

\* MAK_try_expand_hp, when no list has a block.
Expand(sz) ==
  /\ mode = "online" /\ Found(s, Blocks(sz)) = 0
  /\ LET want == s.mem[G("heapsize")] \div 4 + Blocks(sz)
         n == IF HasRegion(s, Max({want, MINHINCR})) THEN want ELSE Blocks(sz)
     IN  Perform(MAK_expand_hp_inner(s, n), owned)

Free(a) ==
  /\ mode \in {"online", "offline"} /\ a \in owned
  /\ Perform(MAK_freehblk(s, a), owned \ {a})

\* A crash between operations.
Crash ==
  /\ mode # "down" /\ crashes < MaxCrash
  /\ \E n \in CrashStates(<<>>) : Down(n)
  /\ mode' = "down" /\ may' = {owned} /\ crashes' = crashes + 1
  /\ UNCHANGED <<heap, owned>>

Allocated(st) == {a \in Addr : IsHdr(st.idx[a]) /\ ~ HBLK_IS_FREE(st, st.idx[a])}

\* The offline process is up; nothing it found or rebuilt is in the cache only.
ComeUp(st) ==
  /\ s' = [st EXCEPT !.ev = <<>>, !.fl = [i \in 1..N_HBLK_FLS |-> <<>>]]
  /\ nvm' = [Durable(st.ev) EXCEPT ![G("nsp")] = st.mem[G("nsp")]]
  /\ mode' = "offline"
  /\ heap' = IF st.mem[G("prev")] \in heap THEN heap ELSE heap \cup Region(st)
  /\ owned' = Allocated(st)
  /\ UNCHANGED <<may, crashes>>

\* MAK_sync_alloc_metadata
MAK_sync_alloc_metadata(st) == IF st.mem[G("state")] = 0 THEN st ELSE Sync(st, G("state"), 0)

\* An expansion cut short is finished, and this may be cut short too.
FinishExpansion(st) ==
  \/ ~ st.abort /\ ComeUp(MAK_sync_alloc_metadata(st))
  \/ /\ CrashInside /\ crashes < MaxCrash /\ s.mem[G("last")] # 0
     /\ \E n \in CrashStates(st.ev) : Down(n)
     /\ crashes' = crashes + 1
     /\ UNCHANGED <<mode, heap, owned, may>>

\* MAK_start_off up to the collection; the log has been undone in the crash.
MAK_start_off ==
  LET st == [MAK_restart_persistent_scratch_alloc(s) EXCEPT !.ev = <<>>] IN
  /\ mode = "down"
  /\ IF s.mem[G("state")] = 0 THEN ComeUp(st)
     ELSE FinishExpansion(MAK_finish_expand_hp_inner(MAK_rebuild_metadata_from_headers(st)))

\* MAK_close, and MAK_restart in the next process.
MAK_restart ==
  LET st == MAK_sync_alloc_metadata(s) IN
  /\ mode = "offline"
  /\ s' = MAK_restart_block_freelists([st EXCEPT !.ev = <<>>])
  /\ nvm' = Durable(st.ev)
  /\ mode' = "online" /\ may' = {}
  /\ UNCHANGED <<heap, owned, crashes>>

Next ==
  \/ \E sz \in Sizes : Alloc(sz) \/ Expand(sz)
  \/ \E a \in Addr : Free(a)
  \/ Crash
  \/ MAK_start_off
  \/ MAK_restart

Spec == Init /\ [][Next]_vars

-----------------------------------------------------------------------------
(* Properties.                                                              *)

\* The headers a scan would find, were the process to stop now.
Live(mem) == {h \in Scanned(mem, LastSpaces(mem)) : mem[<<"sz", h>>] # 0}
Extent(mem, h) == mem[<<"block", h>>]..(mem[<<"block", h>>] + Blocks(mem[<<"sz", h>>]) - 1)

\* The headers a crash would leave cover every block of the heap exactly once
\* (MAK_rebuild_metadata_from_headers rebuilds everything from them).
HeadersTile ==
  mode # "down" =>
    /\ UNION {Extent(s.mem, h) : h \in Live(s.mem)} = heap
    /\ \A g, h \in Live(s.mem) : g # h => Extent(s.mem, g) \cap Extent(s.mem, h) = {}

\* The index leads from every block of an allocated extent to its header, and
\* from the first block of a free one, and knows nothing else (SET_HDR,
\* MAK_install_counts, MAK_remove_counts).
IndexMatchesHeaders ==
  mode # "down" =>
    \A a \in Addr :
      LET hs == {h \in Live(s.mem) : a \in Extent(s.mem, h)} IN
      s.idx[a] = IF hs = {} THEN 0
                 ELSE LET h == CHOOSE x \in hs : TRUE IN
                      IF Block(s, h) = a THEN h
                      ELSE IF HBLK_IS_FREE(s, h) THEN 0 ELSE a - Block(s, h)

\* The free lists hold each free block once, in the list of its size, and
\* MAK_large_free_bytes and MAK_heapsize add up (MAK_add_to_fl's assertions,
\* MAK_remove_from_fl, MAK_allochblk_nth).
FreeBlocksListed ==
  mode = "online" =>
    LET free == {h \in Live(s.mem) : HBLK_IS_FREE(s, h)} IN
    /\ \A i \in 1..N_HBLK_FLS :
         /\ IsInjective(s.fl[i])
         /\ Range(s.fl[i]) = {Block(s, h) : h \in {g \in free :
                               MAK_hblk_fl_from_blocks(Blocks(Sz(s, g))) = i}}
    /\ s.mem[G("lfb")] = MapThenSumSet(LAMBDA h : Sz(s, h), free)
    /\ s.mem[G("heapsize")] = Cardinality(heap)

\* No two free blocks touch: whatever is freed is merged with the free blocks
\* before and behind it (MAK_freehblk, MAK_newfreehblk).
NoFreeNeighbours ==
  mode = "online" =>
    \A g, h \in Live(s.mem) :
      HBLK_IS_FREE(s, g) /\ HBLK_IS_FREE(s, h) =>
        Block(s, h) # Block(s, g) + Blocks(Sz(s, g))

\* No header is lost or handed out twice: the header list holds exactly the
\* unused headers below the free pointer (alloc_hdr, MAK_remove_header).
HeadersAccounted ==
  mode # "down" =>
    /\ IsInjective(s.hfl)
    /\ Range(s.hfl) \cup Live(s.mem) = Scanned(s.mem, LastSpaces(s.mem))
    /\ Range(s.hfl) \cap Live(s.mem) = {}

\* A call interrupted by a crash has happened entirely or not at all
\* (MAK_START_NVM_ATOMIC ... MAK_END_NVM_ATOMIC around every operation).
AtomicStep ==
  /\ mode = "down" /\ mode' = "offline" => owned' \in may
  /\ mode' # "down" => Allocated(s)' = owned'
CallsAreFailureAtomic == [][AtomicStep]_vars
=============================================================================
