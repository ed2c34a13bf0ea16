---------------------------- MODULE MakaluObjects ----------------------------
(***************************************************************************)
(* Small objects of one size class of the Makalu allocator: the threads'   *)
(* local free lists (makalu_local_heap.c), the global list                 *)
(* (makalu_malloc.c), the mark bits and mark count of the block headers    *)
(* and the list of blocks with room (makalu_reclaim.c), and what closing,  *)
(* crashing, collecting and restarting make of them.                       *)
(*                                                                         *)
(* A mark says that an object is not free for others: it is with the       *)
(* application or on some thread's list.  Classes below TINY_FREELISTS     *)
(* granules use the local lists, the others only the global one; a thread  *)
(* outside Local has no local lists.  A circular list is a sequence.       *)
(***************************************************************************)
EXTENDS Integers, Sequences, SequencesExt, FiniteSets, FiniteSetsExt

CONSTANTS
  Thread, Local,        \* threads, and those with thread-local lists
  NBlocks, NObj,        \* blocks of the heap, objects in a block
  Tiny,                 \* is the class below TINY_FREELISTS?
  MaxCount, Keep,       \* tlfs_max_count / MAK_fl_max_count, and the optimal count
  TrunTb,               \* entries of the truncation table
  PowerFails,           \* does a crash lose what was not flushed?
  MaxRestart

VARIABLES
  used,     \* blocks allocated to the class
  hdr,      \* block -> [marks, n_marks, state, next, prev]
  rl,       \* MAK_reclaim_list: its first block, or 0
  loc,      \* local free lists
  glob,     \* the global free list
  gfl,      \* has the global list its array?
  held,     \* objects the application holds
  pc, job,  \* a thread's pending work without the granule lock
  fault,    \* the process touched memory it should not
  up,       \* "up", "down" (to be collected offline) or "closed"
  short,    \* history: blocks of which markers lost increments of hb_n_marks
  restarts

vars == <<used, hdr, rl, loc, glob, gfl, held, pc, job, fault, up, short, restarts>>

Block == 1..NBlocks
Obj == Block \X (1..NObj)
ObjsOf(b) == {b} \X (1..NObj)
JUNK == -1                    \* a link left over from another list
IN_RECLAIMLIST == 0
IN_FLOATING == 1
Threshold == (7 * NObj) \div 8          \* BLOCK_NEARLY_FULL_THRESHOLD
Unlisted == [marks |-> {}, n_marks |-> 0, state |-> IN_RECLAIMLIST, next |-> JUNK, prev |-> JUNK]
Minus(n, k) == (n - k) % 2^16            \* hb_n_marks is an unsigned word
Objs(S) == SetToSortSeq(S, LAMBDA x, y : x[2] < y[2])

\* The unmarked objects of a block, in the order of their addresses: found by a
\* walk over its words for the global list, and from a copy of its mark bits for
\* the list of a thread.  The clear and the uninit variants differ in whether
\* they zero the objects.
MAK_reclaim_to_array(m, b) == Objs(ObjsOf(b) \ m.hdr[b].marks)

MAK_build_fl_array_from_mark_bits(m, b) == Objs(ObjsOf(b) \ m.hdr[b].marks)

\* The part of the state the list operations work on.
M == [hdr |-> hdr, rl |-> rl, used |-> used, fault |-> fault]
Becomes(m) == hdr' = m.hdr /\ rl' = m.rl /\ used' = m.used /\ fault' = m.fault

Init ==
  /\ used = {} /\ hdr = [b \in Block |-> Unlisted] /\ rl = 0
  /\ loc = [t \in Thread |-> <<>>] /\ glob = <<>> /\ gfl = FALSE
  /\ held = {} /\ pc = [t \in Thread |-> "ready"] /\ job = [t \in Thread |-> <<>>]
  /\ fault = FALSE /\ up = "up" /\ short = {} /\ restarts = 0

-----------------------------------------------------------------------------
(* The reclaim list, doubly linked through the headers.                     *)

PushReclaim(m, b) ==
  LET top == m.rl
      linked == [m EXCEPT !.hdr[b].state = IN_RECLAIMLIST, !.hdr[b].next = top,
                          !.hdr[b].prev = 0, !.rl = b]
  IN  IF top = 0 THEN linked ELSE [linked EXCEPT !.hdr[top].prev = b]

\* Following a leftover link is a fault.
Unlink(m, b) ==
  LET n == m.hdr[b].next
      p == m.hdr[b].prev
      m1 == IF n \in Block THEN [m EXCEPT !.hdr[n].prev = p, !.hdr[b].next = 0] ELSE m
      m2 == IF p \in Block THEN [m1 EXCEPT !.hdr[p].next = n, !.hdr[b].prev = 0] ELSE m1
  IN  [m2 EXCEPT !.rl = IF m.rl = b THEN n ELSE @,
                 !.fault = @ \/ n = JUNK \/ p = JUNK]

\* The first block with room leaves the list, all its objects marked.
PopReclaim(m) ==
  LET b == m.rl
      n == m.hdr[b].next
      m1 == [m EXCEPT !.rl = n,
                      !.hdr[b] = [marks |-> ObjsOf(b), n_marks |-> NObj, state |-> IN_FLOATING,
                                  next |-> 0, prev |-> m.hdr[b].prev]]
  IN  IF n = 0 THEN m1 ELSE [m1 EXCEPT !.hdr[n].prev = 0]

\* MAK_freehblk gives the block back to the heap.
FreeBlock(m, b) == [m EXCEPT !.used = @ \ {b}, !.hdr[b] = [@ EXCEPT !.next = JUNK, !.prev = JUNK]]

\* The list of all objects of a new block (MAK_allochblk, MAK_build_array_fl).
MAK_build_array_fl(m, b) ==
  [m EXCEPT !.hdr[b].marks = ObjsOf(b), !.hdr[b].n_marks = NObj, !.hdr[b].state = IN_FLOATING]

NewBlock(m, b) == [m EXCEPT !.used = @ \cup {b}, !.hdr[b].marks = {}, !.hdr[b].n_marks = 0]

-----------------------------------------------------------------------------
(* MAK_malloc of a thread with local lists.                                 *)

MallocFast(t) ==
  /\ up = "up" /\ pc[t] = "ready" /\ Tiny /\ t \in Local /\ loc[t] # <<>>
  /\ held' = held \cup {Last(loc[t])}
  /\ loc' = [loc EXCEPT ![t] = Front(@)]
  /\ UNCHANGED <<used, hdr, rl, glob, gfl, pc, job, fault, up, short, restarts>>

\* MAK_generic_malloc_many under the granule lock: a block with room, or a copy
\* of the global list, or else a new block.
MAK_generic_malloc_many(t) ==
  /\ up = "up" /\ pc[t] = "ready" /\ Tiny /\ t \in Local /\ loc[t] = <<>>
  /\ IF rl # 0
     THEN /\ Becomes(PopReclaim(M))
          /\ loc' = [loc EXCEPT ![t] = MAK_build_fl_array_from_mark_bits(M, rl)]
          /\ UNCHANGED <<glob, pc>>
     ELSE IF glob # <<>>
     THEN /\ loc' = [loc EXCEPT ![t] = SubSeq(glob, 1, Min({NObj, Len(glob)}))]
          /\ glob' = SubSeq(glob, 1, Len(glob) - Min({NObj, Len(glob)}))
          /\ UNCHANGED <<used, hdr, rl, fault, pc>>
     ELSE /\ pc' = [pc EXCEPT ![t] = "new"]
          /\ UNCHANGED <<used, hdr, rl, fault, loc, glob>>
  /\ UNCHANGED <<gfl, held, job, up, short, restarts>>

\* The new block, under the allocator lock ...
ManyNew(t) ==
  /\ pc[t] = "new" /\ used # Block
  /\ LET b == Min(Block \ used) IN
     /\ Becomes(NewBlock(M, b))
     /\ job' = [job EXCEPT ![t] = <<[b |-> b, objs |-> {}]>>]
  /\ pc' = [pc EXCEPT ![t] = "build"]
  /\ UNCHANGED <<loc, glob, gfl, held, up, short, restarts>>

\* ... or none, which aborts the program; its objects, under no lock.
ManyBuild(t) ==
  /\ pc[t] = "build"
  /\ Becomes(MAK_build_array_fl(M, Head(job[t]).b))
  /\ loc' = [loc EXCEPT ![t] = Objs(ObjsOf(Head(job[t]).b))]
  /\ pc' = [pc EXCEPT ![t] = "ready"] /\ job' = [job EXCEPT ![t] = <<>>]
  /\ UNCHANGED <<glob, gfl, held, up, short, restarts>>

-----------------------------------------------------------------------------
(* MAK_core_malloc: the global list.                                        *)

UsesCore(t) == ~ Tiny \/ t \notin Local

CoreMallocFast(t) ==
  /\ up = "up" /\ pc[t] = "ready" /\ UsesCore(t) /\ glob # <<>>
  /\ held' = held \cup {Last(glob)}
  /\ glob' = Front(glob)
  /\ UNCHANGED <<used, hdr, rl, loc, gfl, pc, job, fault, up, short, restarts>>

\* MAK_generic_malloc, after another look at the list, under the granule lock:
\* MAK_continue_reclaim sweeps blocks until one has room, else MAK_new_hblk.
MAK_generic_malloc(t) ==
  /\ up = "up" /\ pc[t] = "ready" /\ UsesCore(t) /\ glob = <<>>
  /\ gfl' = TRUE
  /\ LET b == IF rl # 0 THEN rl ELSE Min(Block \ used)
         found == IF rl # 0 THEN MAK_reclaim_to_array(M, b) ELSE Objs(ObjsOf(b))
     IN  /\ rl = 0 => used # Block
         /\ Becomes(IF rl # 0 THEN PopReclaim(M) ELSE MAK_build_array_fl(NewBlock(M, b), b))
         /\ glob' = IF found = <<>> THEN <<>> ELSE Front(found)
         /\ held' = IF found = <<>> THEN held ELSE held \cup {Last(found)}
  /\ UNCHANGED <<loc, pc, job, up, short, restarts>>

-----------------------------------------------------------------------------
(* MAK_free.                                                                *)

\* MAK_truncate_freelist on one object: its mark goes, and its block goes back
\* to the heap when it was the last, or to the reclaim list when room enough.
TruncateOne(m, o) ==
  LET b == o[1]
      m1 == [m EXCEPT !.hdr[b].marks = @ \ {o}, !.hdr[b].n_marks = Minus(@, 1)]
  IN  IF o \notin m.hdr[b].marks THEN m           \* "Double deallocation detected"
      ELSE IF m1.hdr[b].n_marks = 0 THEN FreeBlock(Unlink(m1, b), b)
      ELSE IF m1.hdr[b].state = IN_FLOATING /\ m1.hdr[b].n_marks <= Threshold
      THEN PushReclaim(m1, b)
      ELSE m1

MAK_core_free(t, o) ==
  /\ up = "up" /\ pc[t] = "ready" /\ ~ Tiny /\ o \in held
  /\ held' = held \ {o}
  /\ LET all == Append(glob, o)
         over == Len(all) >= MaxCount
         cut == IF over /\ Keep < Len(all) THEN Len(all) - Keep ELSE 0
     IN  IF ~ gfl THEN /\ fault' = TRUE /\ UNCHANGED <<hdr, rl, used, glob>>
         ELSE /\ Becomes(FoldLeft(TruncateOne, M, SubSeq(all, 1, cut)))
              /\ glob' = SubSeq(all, cut + 1, Len(all))
  /\ UNCHANGED <<loc, gfl, pc, job, up, short, restarts>>

\* The truncation table: objects gathered by block, an entry being worked off
\* when another block needs its place.
Gather(c, o) ==
  LET b == o[1]
      i == b % TrunTb
      e == c.tab[i]
  IN  IF e.b = b THEN [c EXCEPT !.tab[i].objs = @ \cup {o}]
      ELSE [tab |-> [c.tab EXCEPT ![i] = [b |-> b, objs |-> {o}]],
            out |-> IF e.b = 0 THEN c.out ELSE Append(c.out, e)]

TruncationJobs(os) ==
  LET empty == [i \in 0..(TrunTb - 1) |-> [b |-> 0, objs |-> {}]]
      c == FoldLeft(Gather, [tab |-> empty, out |-> <<>>], os)
      rest == [i \in 1..TrunTb |-> c.tab[i - 1]]
  IN  c.out \o SelectSeq(rest, LAMBDA e : e.b # 0)

\* Mutant of MAK_free: the list keeps one object of those given back.
MAK_free_short(t, o) ==
  /\ up = "up" /\ pc[t] = "ready" /\ Tiny /\ t \in Local /\ o \in held
  /\ held' = held \ {o}
  /\ LET all == Append(loc[t], o)
         over == Len(all) >= MaxCount
         cut == IF over /\ Keep < Len(all) THEN Len(all) - Keep ELSE 0
     IN  /\ loc' = [loc EXCEPT ![t] = SubSeq(all, IF cut = 0 THEN 1 ELSE cut, Len(all))]
         /\ job' = [job EXCEPT ![t] = TruncationJobs(SubSeq(all, 1, cut))]
         /\ pc' = [pc EXCEPT ![t] = IF cut = 0 THEN "ready" ELSE "cut"]
  /\ UNCHANGED <<used, hdr, rl, glob, gfl, fault, up, short, restarts>>

MAK_free(t, o) ==
  /\ up = "up" /\ pc[t] = "ready" /\ Tiny /\ t \in Local /\ o \in held
  /\ held' = held \ {o}
  /\ LET all == Append(loc[t], o)
         over == Len(all) >= MaxCount
         cut == IF over /\ Keep < Len(all) THEN Len(all) - Keep ELSE 0
     IN  /\ loc' = [loc EXCEPT ![t] = SubSeq(all, cut + 1, Len(all))]
         /\ job' = [job EXCEPT ![t] = TruncationJobs(SubSeq(all, 1, cut))]
         /\ pc' = [pc EXCEPT ![t] = IF cut = 0 THEN "ready" ELSE "cut"]
  /\ UNCHANGED <<used, hdr, rl, glob, gfl, fault, up, short, restarts>>

Rest(t) ==
  /\ job' = [job EXCEPT ![t] = Tail(@)]
  /\ pc' = [pc EXCEPT ![t] = IF Tail(job[t]) = <<>> THEN "ready" ELSE "cut"]

\* One entry, under the granule lock.
remove_trun_tb_entry(t) ==
  /\ pc[t] = "cut"
  /\ LET e == Head(job[t])
         m1 == [M EXCEPT !.hdr[e.b].n_marks = Minus(@, Cardinality(e.objs))]
         m2 == [m1 EXCEPT !.hdr[e.b].marks = @ \ e.objs]
         b == m1.hdr[e.b]
     IN  IF b.n_marks = 0
         THEN /\ Becomes(IF b.state = IN_RECLAIMLIST THEN Unlink(m1, e.b) ELSE m1)
              /\ pc' = [pc EXCEPT ![t] = "empty"] /\ UNCHANGED job
         ELSE /\ Becomes(IF b.state = IN_FLOATING /\ b.n_marks <= Threshold
                         THEN PushReclaim(m2, e.b) ELSE m2)
              /\ Rest(t)
  /\ UNCHANGED <<loc, glob, gfl, held, up, short, restarts>>

\* The empty block goes back, the granule lock released, the allocator's held.
RemoveEmpty(t) ==
  /\ pc[t] = "empty"
  /\ Becomes(FreeBlock(M, Head(job[t]).b))
  /\ Rest(t)
  /\ UNCHANGED <<loc, glob, gfl, held, up, short, restarts>>

\* MAK_teardown_thread_local: everything on the thread's list is given back.
MAK_teardown_thread_local(t) ==
  /\ up = "up" /\ pc[t] = "ready" /\ loc[t] # <<>>
  /\ job' = [job EXCEPT ![t] = TruncationJobs(loc[t])]
  /\ pc' = [pc EXCEPT ![t] = "cut"]
  /\ loc' = [loc EXCEPT ![t] = <<>>]
  /\ UNCHANGED <<used, hdr, rl, glob, gfl, held, fault, up, short, restarts>>

-----------------------------------------------------------------------------
(* Close, crash, collection and restart.                                    *)

Quiet == \A t \in Thread : pc[t] = "ready"

\* MAK_close, the other threads having exited: only the lists of threads are
\* given back.
MAK_close ==
  /\ up = "up" /\ Quiet /\ restarts < MaxRestart /\ \A t \in Thread : loc[t] = <<>>
  /\ up' = "closed" /\ restarts' = restarts + 1
  /\ glob' = <<>> /\ gfl' = FALSE
  /\ UNCHANGED <<used, hdr, rl, loc, held, pc, job, fault, short>>

Crash ==
  /\ up = "up" /\ restarts < MaxRestart
  /\ up' = "down" /\ restarts' = restarts + 1
  /\ loc' = [t \in Thread |-> <<>>] /\ glob' = <<>> /\ gfl' = FALSE
  /\ pc' = [t \in Thread |-> "ready"] /\ job' = [t \in Thread |-> <<>>]
  /\ UNCHANGED <<used, hdr, rl, held, fault, short>>

\* MAK_collect_off marks what the roots reach, frees the blocks without marks
\* (hb_n_marks is zero: the markers may lose increments of it, but not all)
\* and leaves page_reclaim_state as it finds it: never flushed on its own, it
\* may be the one the header had before.
MAK_collect_off ==
  /\ up = "down"
  /\ \E reach \in SUBSET held, counts \in [Block -> 0..NObj], old \in SUBSET Block :
       LET marked(b) == reach \cap ObjsOf(b) IN
       /\ \A b \in Block :
            IF b \in used /\ marked(b) # {}
            THEN counts[b] \in 1..Cardinality(marked(b))
            ELSE counts[b] = 0
       /\ old = {} \/ PowerFails
       /\ held' = reach
       /\ short' = {b \in used : counts[b] < Cardinality(marked(b))}
       /\ used' = {b \in used : marked(b) # {}}
       /\ hdr' = [b \in Block |->
                    [marks |-> marked(b), n_marks |-> counts[b],
                     state |-> IF b \in old THEN IN_RECLAIMLIST ELSE hdr[b].state,
                     next |-> JUNK, prev |-> JUNK]]
  /\ up' = "closed"
  /\ UNCHANGED <<rl, loc, glob, gfl, pc, job, fault, restarts>>

\* MAK_restart_block_freelists lists the blocks with room, by address.
MAK_restart_block_freelists ==
  LET listed == SetToSortSeq({b \in used : hdr[b].n_marks <= Threshold}, >)
  IN  FoldLeft(PushReclaim, [M EXCEPT !.rl = 0], listed)

MAK_restart ==
  /\ up = "closed"
  /\ Becomes(MAK_restart_block_freelists)
  /\ up' = "up"
  /\ UNCHANGED <<loc, glob, gfl, held, pc, job, short, restarts>>

Next ==
  \/ \E t \in Thread :
       \/ MallocFast(t) \/ MAK_generic_malloc_many(t) \/ ManyNew(t) \/ ManyBuild(t)
       \/ CoreMallocFast(t) \/ MAK_generic_malloc(t)
       \/ \E o \in Obj : MAK_core_free(t, o) \/ MAK_free(t, o)
       \/ remove_trun_tb_entry(t) \/ RemoveEmpty(t)
       \/ MAK_teardown_thread_local(t)
  \/ MAK_close \/ Crash \/ MAK_collect_off \/ MAK_restart

Spec == Init /\ [][Next]_vars

-----------------------------------------------------------------------------
(* Properties.                                                              *)

Counted(os) == {o \in os : o[1] \notin short}
CountedOf(l) == SelectSeq(l, LAMBDA o : o[1] \notin short)
InTransit(t) == UNION {job[t][i].objs : i \in DOMAIN job[t]}
Listed(t) == Range(loc[t])

\* No object is in two places at once: with the application, on one thread's
\* list, on the global list, or free inside a block that has room; so no two
\* calls of MAK_malloc return the same object.  Objects of a block are excepted
\* whose hb_n_marks the markers left too low ("only approximate",
\* makalu_hdr.h:62-65): truncation frees such a block while some are held.
NoObjectTwice ==
  /\ IsInjective(CountedOf(glob)) /\ \A t \in Thread : IsInjective(CountedOf(loc[t]))
  /\ Counted(held \cap Range(glob)) = {}
  /\ \A t \in Thread :
       /\ Counted(Listed(t) \cap (held \cup Range(glob))) = {}
       /\ Counted(InTransit(t) \cap (held \cup Range(glob) \cup Listed(t))) = {}
       /\ \A u \in Thread \ {t} :
            Counted((Listed(t) \cup InTransit(t)) \cap (Listed(u) \cup InTransit(u))) = {}

\* What the application holds or a list offers is marked in a block that is
\* still allocated: no truncation frees a block, or hands out an object, that
\* somebody still has (remove_trun_tb_entry, MAK_truncate_freelist), with the
\* same exception.
InUseIsMarked ==
  LET out == held \cup Range(glob) \cup UNION {Listed(t) : t \in Thread} IN
  up = "up" => \A o \in Counted(out) : o[1] \in used /\ o \in hdr[o[1]].marks

\* While a block is in use hb_n_marks counts its marks, so that a truncation
\* finds zero exactly with the last object (remove_trun_tb_entry), unless the
\* collection has already left it too low.
CountMatches ==
  \A b \in used \ short :
    LET emptying == \E t \in Thread : pc[t] \in {"empty", "build"} /\ Head(job[t]).b = b IN
    up = "up" /\ ~ emptying => hdr[b].n_marks = Cardinality(hdr[b].marks) /\ hdr[b].n_marks > 0

\* The blocks from rl on, by their links.
RECURSIVE Linked(_, _)
Linked(b, n) == IF b \notin Block \/ n = 0 THEN <<>> ELSE <<b>> \o Linked(hdr[b].next, n - 1)

\* A block is in the reclaim list exactly when its header says so, and links
\* agree both ways; no unlinking follows a leftover link (makalu_reclaim.c:535,
\* "add it back to the reclaim list").
ReclaimListExact ==
  up = "up" =>
    LET l == Linked(rl, NBlocks + 1) IN
    /\ ~ fault
    /\ IsInjective(l)
    /\ \A i \in DOMAIN l : hdr[l[i]].prev = IF i = 1 THEN 0 ELSE l[i - 1]
    /\ \A b \in used :
         LET leaving == \E t \in Thread : pc[t] \in {"empty", "build"} /\ Head(job[t]).b = b IN
         ~ leaving => ((b \in Range(l)) <=> (hdr[b].state = IN_RECLAIMLIST))

\* Nothing is lost while the process runs: an object of an allocated block is
\* somewhere (malloc_many, truncation).
NoObjectLost ==
  (up = "up" /\ restarts = 0) =>
    \A b \in used : \A o \in ObjsOf(b) :
      \/ o \in held \cup Range(glob)
      \/ \E t \in Thread : o \in Listed(t) \cup InTransit(t)
      \/ o \notin hdr[b].marks /\ b \in Range(Linked(rl, NBlocks + 1))
      \/ o \notin hdr[b].marks /\ hdr[b].n_marks > Threshold
      \/ \E t \in Thread : pc[t] \in {"empty", "build"} /\ Head(job[t]).b = b

\* MAK_close "synchronizes all persistent metadata for clean restart in next
\* execution cycle" (makalu_init.c:308-310): marks are the application's.
CloseLeaksNothing ==
  up = "closed" => \A b \in used : hdr[b].marks \subseteq held
=============================================================================
