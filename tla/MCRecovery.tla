----------------------------- MODULE MCRecovery -----------------------------
(***************************************************************************)
(* What nvm_malloc does to its persistent structures across crashes and    *)
(* restarts, structure by structure, for TLC: huge regions (whose module   *)
(* this one extends), large blocks, the pages of an arena, the object      *)
(* table and the chunks.  "kind" says which one a behaviour is about; the  *)
(* huge region has its own variables, the others have a to n.              *)
(***************************************************************************)
EXTENDS RegionProtocol

CONSTANT Kinds    \* the structures to check

VARIABLES kind, a, b, c, d, e, f, g, h, i, j, k, l, m, n

others == <<a, b, c, d, e, f, g, h, i, j, k, l, m, n>>
mcvars == <<kind, vars, others>>

\* One thread, which waits for the recovery thread.
Block == INSTANCE RegionProtocol WITH
  Thread <- {"t1"}, Cell <- {"c1", "c2"}, NoCell <- "none", Kind <- "block",
  AppWaits <- TRUE, CrashAnywhere <- FALSE, MaxCrash <- 3,
  hdr <- a, link <- b, logged <- c, tree <- d, phase <- e, rec <- f, scan <- g,
  pc <- h, op <- i, asked <- j, crashes <- k

\* Two chunks of three pages, blocks of one and of two, and a run.
Heap == INSTANCE PageHeap WITH
  Thread <- {"t1"}, NoThread <- "none", Pages <- 3, Sizes <- {1, 2}, AppWaits <- TRUE,
  MaxChunks <- 2, MaxRuns <- 1, MaxCrash <- 1,
  chunk <- a, hdr <- b, tree <- c, owned <- d, mtx <- e, pc <- f, op <- g, scan <- h, crashes <- i

\* More frees than the fifo of the table has places; its restarts are in MCArena.
Table == INSTANCE ObjectTable WITH
  Thread <- Thread, Id <- {"x", "y"}, NoId <- "none", NSlots <- 2, BufferSize <- 1,
  MaxRemove <- 2, MaxCrash <- 0,
  table <- a, data <- b, map <- c, next_slot <- d, buffer <- e, next_idx <- f, head_idx <- g,
  tail_idx <- h, n_free <- i, pc <- j, loc <- k, promised <- l, raced <- m, crashes <- n

\* An arena and two chunks for huge regions.
Space == INSTANCE ChunkSpace WITH
  Thread <- {"t1", "t2"}, MaxChunks <- 3, INITIAL_ARENAS <- 1, Sizes <- {1, 2},
  MaxCrash <- 2,
  backing <- a, meta <- b, hdr <- c, up <- d, next_chunk <- e, current_version <- f,
  tree <- g, held <- h, op <- i, scan <- j, used <- k, crashes <- l

Unused == 0
Unused2 == m = Unused /\ n = Unused
Unused3 == l = Unused /\ Unused2
Unused5 == j = Unused /\ k = Unused /\ Unused3

MCInit ==
  /\ kind \in Kinds
  /\ Init
  /\ \/ /\ kind = "huge" /\ Unused5
        /\ a = Unused /\ b = Unused /\ c = Unused /\ d = Unused /\ e = Unused
        /\ f = Unused /\ g = Unused /\ h = Unused /\ i = Unused
     \/ kind = "block" /\ Block!Init /\ Unused3
     \/ kind = "heap" /\ Heap!Init /\ Unused5
     \/ kind = "table" /\ Table!Init
     \/ kind = "space" /\ Space!Init /\ Unused2

MCNext ==
  /\ UNCHANGED kind
  /\ \/ kind = "huge" /\ Next /\ UNCHANGED others
     \/ /\ UNCHANGED vars
        /\ \/ kind = "block" /\ Block!Next /\ UNCHANGED <<l, m, n>>
           \/ kind = "heap" /\ Heap!Next /\ UNCHANGED <<j, k, l, m, n>>
           \/ kind = "table" /\ Table!Next
           \/ kind = "space" /\ Space!Next /\ UNCHANGED <<m, n>>

\* Calls that were made, the recovery and the recovery thread keep running, and
\* crashes come to an end.
BlockCalls == kind = "block" /\ Block!ThreadStep("t1") /\ UNCHANGED <<kind, vars, l, m, n>>
BlockRecovers == kind = "block" /\ Block!RecoveryStep /\ UNCHANGED <<kind, vars, l, m, n>>
BlockScans == kind = "block" /\ (Block!ScanRead \/ Block!ScanAdd) /\ UNCHANGED <<kind, vars, l, m, n>>
HeapScans == kind = "heap" /\ Heap!ScanStep /\ UNCHANGED <<kind, vars, j, k, l, m, n>>
HeapCalls == /\ kind = "heap"
             /\ Heap!CreateStep("t1") \/ Heap!Add("t1")
             /\ UNCHANGED <<kind, vars, j, k, l, m, n>>
TableSteps(t) == kind = "table" /\ Table!Step(t) /\ UNCHANGED <<kind, vars>>
SpaceWalks == kind = "space" /\ Space!Walk /\ UNCHANGED <<kind, vars, m, n>>

MCSpec ==
  /\ MCInit /\ [][MCNext]_mcvars
  /\ <>[][~(kind = "block" /\ Block!Crash)]_mcvars
  /\ WF_mcvars(BlockCalls) /\ WF_mcvars(BlockRecovers) /\ WF_mcvars(BlockScans)
  /\ WF_mcvars(HeapScans) /\ WF_mcvars(HeapCalls)
  /\ \A t \in Thread : WF_mcvars(TableSteps(t))
  /\ WF_mcvars(SpaceWalks)

-----------------------------------------------------------------------------
(* Properties; SingleOwner, QuietIsSettled and CallsAreFailureAtomic of huge *)
(* regions are in their module.                                              *)

\* arena.c, nvm_malloc.c: when no call is in progress, no half-done call is
\* recorded in the header of a block, and a cell names an allocated block only;
\* the variables of blocks and huge regions have their types.
BlocksSettle ==
  /\ TypeOK
  /\ kind = "block" => Block!TypeOK /\ Block!QuietIsSettled

\* nvm_initialize, nvm_recovery_thread: wherever processes are killed, none works
\* with a version of an earlier one, and the walk over the chunks never stands
\* inside a region.
ChunksSurvive == kind = "space" => Space!TypeOK /\ Space!VersionIsFresh /\ Space!WalkOnHeaders

\* nvm_recovery_thread: a free block that a restart finds gets back into the tree,
\* and the walks over pages and chunks end or are held up by zeros: a chunk that a
\* killed process gave no header or no block, or a run header it had cleared.
\* ot_remove returns as long as its fifo has not come round.
RecoveryReturns ==
  /\ (kind = "block" /\ Block!Lost) ~> (kind = "block" => ~Block!Lost)
  /\ (kind = "heap" /\ h.at # "off") ~> (kind = "heap" => h.at = "off" \/ Heap!HeldUp)
  /\ (kind = "space" /\ j.i # -1) ~> (kind = "space" => j.i = -1 \/ d = "exited" \/ Space!HeldUp)
  /\ \A t \in Thread : (kind = "table" /\ Table!EarlyTail(t)) ~> (kind = "table" => ~Table!EarlyTail(t))
=============================================================================
