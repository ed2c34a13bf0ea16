------------------------------- MODULE MCArena -------------------------------
(***************************************************************************)
(* The volatile side of nvm_malloc for TLC: threads that allocate and free *)
(* pages (whose module this one extends) and chunks, the bins and their    *)
(* run headers, the object table, and the arithmetic of sizes and          *)
(* addresses.  "kind" says which of them a behaviour is about; the pages   *)
(* have their own variables, the others have a to n.                       *)
(***************************************************************************)
EXTENDS PageHeap, TLC

CONSTANTS
  Kinds,     \* the parts to check
  VHeader    \* addresses of VHeaders

VARIABLES kind, a, b, c, d, e, f, g, h, i, j, k, l, m, n

others == <<a, b, c, d, e, f, g, h, i, j, k, l, m, n>>
mcvars == <<kind, vars, others>>

\* An arena and three chunks for huge regions, so that two calls can split one.
Chunked == INSTANCE ChunkSpace WITH
  Thread <- Thread, MaxChunks <- 4, INITIAL_ARENAS <- 1, Sizes <- {1, 2},
  MaxCrash <- 1,
  backing <- a, meta <- b, hdr <- c, up <- d, next_chunk <- e, current_version <- f,
  tree <- g, held <- h, op <- i, scan <- j, used <- k, crashes <- l

\* Two runs of two slots.
Bin == INSTANCE Bins WITH
  Thread <- Thread, NoThread <- NoThread, Run <- {1, 2}, NSlots <- 2, VHeader <- VHeader,
  LogSize <- 2, MaxObjects <- 3, MaxRestart <- 1,
  nvm <- a, v <- b, heap <- c, bin <- d, mtx <- e, reserved <- f, active <- g, op <- h,
  scan <- i, log <- j, fault <- k, restarts <- l

\* Enough slots and restarts for ot_recover to find a gap, and more frees than the
\* fifo has places.
Table == INSTANCE ObjectTable WITH
  Thread <- Thread, Id <- {"x", "y"}, NoId <- "none", NSlots <- 3, BufferSize <- 2,
  MaxRemove <- 3, MaxCrash <- 1,
  table <- a, data <- b, map <- c, next_slot <- d, buffer <- e, next_idx <- f, head_idx <- g,
  tail_idx <- h, n_free <- i, pc <- j, loc <- k, promised <- l, raced <- m, crashes <- n

\* Lines of 4 bytes, pages of 32, chunks of 128; the sizes around every bound.
Size == INSTANCE SizeClasses WITH
  LINE <- 4, BLOCK_SIZE <- 32, CHUNK_SIZE <- 128, BITMAP <- 8, Space <- 3,
  Requests <- {1, 2, 3, 4, 5, 8, 11, 12, 13, 16, 28, 29, 31, 32, 33, 60, 61, 64, 65, 124, 125, 128, 129, 256},
  kind <- a, asked <- b, ptr <- c, room <- d

\* Threads are interchangeable, and so are the addresses that malloc returns.
Interchangeable == Permutations(Thread) \union Permutations(VHeader)

Unused == 0
Unused2 == m = Unused /\ n = Unused
Unused10 == /\ e = Unused /\ f = Unused /\ g = Unused /\ h = Unused
            /\ i = Unused /\ j = Unused /\ k = Unused /\ l = Unused /\ Unused2

MCInit ==
  /\ kind \in Kinds
  /\ Init
  /\ \/ kind = "heap" /\ a = Unused /\ b = Unused /\ c = Unused /\ d = Unused /\ Unused10
     \/ kind = "space" /\ Chunked!Init /\ Unused2
     \/ kind = "bin" /\ Bin!Init /\ Unused2
     \/ kind = "table" /\ Table!Init
     \/ kind = "size" /\ Size!Init /\ Unused10

MCNext ==
  /\ UNCHANGED kind
  /\ \/ kind = "heap" /\ Next /\ UNCHANGED others
     \/ /\ UNCHANGED vars
        /\ \/ kind = "space" /\ Chunked!Next /\ UNCHANGED <<m, n>>
           \/ kind = "bin" /\ Bin!Next /\ UNCHANGED <<m, n>>
           \/ kind = "table" /\ Table!Next
           \/ kind = "size" /\ Size!Next /\ UNCHANGED <<e, f, g, h, i, j, k, l, m, n>>

MCSpec == MCInit /\ [][MCNext]_mcvars

-----------------------------------------------------------------------------
(* Properties; PagesSurvive of the page heap is in its module.              *)

\* nvm_malloc.c: no chunk belongs to two regions, and none lies beyond the file.
ChunksApart == kind = "space" => Chunked!NoOverlap

\* arena.c, nvm_malloc.c: until a restart the counters of a bin, its current run and
\* its list say what the run headers say, and teardown frees no VHeader twice.
\* Always, while a run has one VHeader: a slot in use on NVRAM is taken in the
\* VHeader, and a slot the bin would give out belongs to nobody.  A run that the
\* log names twice has two, and so has one that arena_free and the recovery
\* thread met at the same time; nothing is said of their slots.
BinsAgree ==
  kind = "bin" => /\ Bin!TypeOK /\ Bin!BinAccounts /\ Bin!UsedOnNvmIsUsed
                  /\ Bin!FreeSlotsUnowned /\ Bin!TeardownFreesOnce

\* object_table.c: as long as no n_free += 1 has undone what another thread did
\* to slot_buffer_n_free, two IDs never have the same slot, before or after a
\* restart, and no slot but slot 0 is lost.
SlotsConserved ==
  kind = "table" => /\ Table!TypeOK
                    /\ ~m => Table!SlotsUnique /\ Table!NoOtherSlotLost

\* nvm_activate_id, ot_recover: as long as n_free is right, an ID whose activation
\* has returned names its object, whenever the process is killed afterwards, and
\* what a restart keeps is active.
NamesSurvive == kind = "table" /\ ~m => Table!NamedIsActive /\ Table!ActivatedIsNamed

\* nvm_malloc.c, arena.c, util.c: a slot or a huge region has room for what was
\* asked for, within its block, in a bin that exists; the kind worked out from
\* an address is the kind placed there; the loop of nvm_persist comes to each of
\* its lines (that clflush flushes them is not said: it does not).
RequestsPlaced ==
  kind = "size" => Size!PlacedWhole /\ Size!KindIsRecovered /\ Size!LoopVisitsLines

-----------------------------------------------------------------------------
\* types.h:40, "half chunk - 64B for header", README.md:68, "the requested size":
\* besides the header there are as many bytes as nvm_reserve was asked for.
RequestFits == kind = "size" => Size!RequestFits
=============================================================================
