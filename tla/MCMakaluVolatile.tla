-------------------------- MODULE MCMakaluVolatile --------------------------
(***************************************************************************)
(* Makalu inside one process, part by part, for TLC: the block index and   *)
(* its lookups without the lock, the small objects of a class, the mark    *)
(* phase, and the maps of sizes.  "kind" says which part a behaviour is    *)
(* about, and a to p are its variables.                                    *)
(***************************************************************************)
EXTENDS Integers, Sequences

CONSTANT Kinds     \* the parts to check

VARIABLES kind, a, b, c, d, e, f, g, h, i, j, k, l, m, n, o, p

vars == <<kind, a, b, c, d, e, f, g, h, i, j, k, l, m, n, o, p>>

\* Two blocks to a bottom index, all in one hash chain, one reader.
Index == INSTANCE MakaluIndex WITH
  NKeys <- 3, BOTTOM_SZ <- 2, TOP_SZ <- 1, MAX_JUMP <- 2, HC <- 1, Expansions <- {2}, Thread <- {"t1"},
  bi <- a, top <- b, ends <- c, hb <- d, ext <- e, w <- f, rd <- g, cache <- h

\* Two chains, and extents longer than a forwarding count reaches; no reader.
Wide == INSTANCE MakaluIndex WITH
  NKeys <- 3, BOTTOM_SZ <- 2, TOP_SZ <- 2, MAX_JUMP <- 2, HC <- 1, Expansions <- {1, 3}, Thread <- {},
  bi <- a, top <- b, ends <- c, hb <- d, ext <- e, w <- f, rd <- g, cache <- h

\* A class with thread-local lists.
Lists == INSTANCE MakaluObjects WITH
  Thread <- {"t1", "t2"}, Local <- {"t1", "t2"}, NBlocks <- 2, NObj <- 2, Tiny <- TRUE,
  MaxCount <- 3, Keep <- 1, TrunTb <- 1, PowerFails <- FALSE, MaxRestart <- 1,
  used <- a, hdr <- b, rl <- c, loc <- d, glob <- e, gfl <- f, held <- g, pc <- h, job <- i,
  fault <- j, up <- k, short <- m, restarts <- l

\* A class that only has the global list.
Core == INSTANCE MakaluObjects WITH
  Thread <- {"t1", "t2"}, Local <- {}, NBlocks <- 2, NObj <- 2, Tiny <- FALSE,
  MaxCount <- 3, Keep <- 1, TrunTb <- 1, PowerFails <- FALSE, MaxRestart <- 0,
  used <- a, hdr <- b, rl <- c, loc <- d, glob <- e, gfl <- f, held <- g, pc <- h, job <- i,
  fault <- j, up <- k, short <- m, restarts <- l

\* Heaps of four objects in two blocks: more roots than a stack holds, with a
\* child behind the one that is dropped, and a cycle; shared children and a cycle.
Heaps ==
  {[x \in 0..4 |-> <<<<1, 2, 3>>, <<3>>, <<4>>, <<1>>, <<>>>>[x + 1]],
   [x \in 0..4 |-> <<<<1, 2>>, <<3>>, <<3, 4>>, <<>>, <<2>>>>[x + 1]]}

Marking == INSTANCE MakaluMark WITH
  Obj <- 1..4, BlockOf <- <<1, 1, 2, 2>>, Small <- {2}, Graphs <- Heaps, Marker <- {1, 2},
  Size <- 3, LocalSize <- 2, Discards <- 1,
  graph <- a, marked <- b, n_marks <- c, state <- d, objects_are_marked <- e, scan_ptr <- f,
  too_small <- g, stack <- h, size <- i, first_nonempty <- j, help_wanted <- k, helper_count <- l,
  active_count <- m, asleep <- n, init <- o, k <- p

Sizes == INSTANCE MakaluSizes WITH
  GRANULE_BYTES <- 4, HBLK_GRANULES <- 64, MAXOBJGRANULES <- 32, TINY_FREELISTS <- 9, WORD <- 2,
  Requests <- {33, 38, 45, 55, 70, 90, 100, 127, 128}, ScratchUnit <- 16,
  ScratchSizes <- {2, 10, 16}, MaxScratch <- 3,
  size_map <- a, free_ptr <- b, end_ptr <- c, mapped <- d, given <- e

Objects == {"local", "core"}
few == <<m, n, o, p>>
Zero(v) == v = 0
NoFew == Zero(m) /\ Zero(n) /\ Zero(o) /\ Zero(p)

Init ==
  /\ kind \in Kinds
  /\ \/ /\ kind \in {"index", "wide"}
        /\ kind = "index" => Index!Init
        /\ kind = "wide" => Wide!Init
        /\ Zero(i) /\ Zero(j) /\ Zero(k) /\ Zero(l) /\ NoFew
     \/ kind \in Objects /\ Lists!Init /\ Zero(n) /\ Zero(o) /\ Zero(p)
     \/ kind = "mark" /\ Marking!Init
     \/ /\ kind = "sizes" /\ Sizes!Init
        /\ Zero(f) /\ Zero(g) /\ Zero(h) /\ Zero(i) /\ Zero(j) /\ Zero(k) /\ Zero(l) /\ NoFew

Next ==
  /\ UNCHANGED kind
  /\ \/ kind = "index" /\ Index!Next /\ UNCHANGED <<i, j, k, l, few>>
     \/ kind = "wide" /\ Wide!Next /\ UNCHANGED <<i, j, k, l, few>>
     \/ kind = "local" /\ Lists!Next /\ UNCHANGED <<n, o, p>>
     \/ kind = "core" /\ Core!Next /\ UNCHANGED <<n, o, p>>
     \/ kind = "mark" /\ Marking!Next
     \/ kind = "sizes" /\ Sizes!Next /\ UNCHANGED <<f, g, h, i, j, k, l, few>>

\* The markers' fairness (Spec of MakaluMark): every thread runs on, and the
\* initiating thread at some time gets the mark lock while no marker is active.
Coordinates == kind = "mark" /\ Marking!MarkSome /\ UNCHANGED kind
Steps(x) == kind = "mark" /\ Marking!Step(x) /\ UNCHANGED kind
Wakes == kind = "mark" /\ m = 0 /\ Marking!Wait(1) /\ UNCHANGED kind

Spec ==
  /\ Init /\ [][Next]_vars
  /\ WF_vars(Coordinates) /\ WF_vars(Steps(1)) /\ WF_vars(Steps(2)) /\ SF_vars(Wakes)

-----------------------------------------------------------------------------
(* The properties, each for the parts it is about.                          *)

\* A lookup without the lock finds the header of the object's block, whatever
\* happens to the index meanwhile; the walks through the index agree with the
\* extents of the heap, and the bottom indices are in order (makalu_hdr.c).
IndexFindsHeaders ==
  /\ kind = "index" => Index!LookupFindsHeader /\ Index!WalksMatchExtents /\ Index!BottomIndicesSorted
  /\ kind = "wide" => Wide!WalksMatchExtents /\ Wide!BottomIndicesSorted

\* No object is in two places at once or, in one process, lost; what the
\* application holds or a list offers is marked in an allocated block, and
\* hb_n_marks counts the marks of a block in use: all but the blocks of which the
\* markers lost increments in the collection after a crash of the process, and
\* those do no harm to another block.  A block is in the reclaim list exactly when
\* its header says so (makalu_malloc.c, makalu_reclaim.c).  An object is as large as the
\* request, whatever the order of requests that filled the size map
\* (MAK_extend_size_map); MAK_free and the marker agree on the object of a
\* pointer; pieces of scratch memory do not overlap.
ObjectsConserved ==
  /\ kind \in Objects => /\ Lists!NoObjectTwice /\ Lists!InUseIsMarked
                         /\ Lists!CountMatches /\ Lists!ReclaimListExact
  /\ kind = "local" => Lists!NoObjectLost
  /\ kind = "core" => Core!NoObjectLost
  /\ kind = "sizes" => Sizes!SizesServed /\ Sizes!PointersFindObjects /\ Sizes!ScratchApart

\* At the end of the mark phase exactly what the roots reach is marked, and a
\* count of zero means that no object of the block is, though increments are
\* lost; until then the counts under the mark lock are those of the markers at
\* work (MAK_mark_some, MAK_do_parallel_mark, MAK_mark_local).
MarksReachable ==
  kind = "mark" => Marking!MarksReachable /\ Marking!SomeMarkCounted /\ Marking!NobodyWorksAlone

\* The mark phase ends (MAK_mark_some, MAK_mark_local, MAK_wait_marker).
MarkingEnds == <>(kind = "mark" => o = "done")

=============================================================================
