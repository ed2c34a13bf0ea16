------------------------- MODULE MCMakaluPersistence -------------------------
(***************************************************************************)
(* What Makalu keeps across crashes, part by part, for TLC: the undo log   *)
(* (whose module this one extends), the block layer with and without       *)
(* crashes, the life of a heap from process to process, and the region     *)
(* file.  "kind" says which part a behaviour is about, and a to p are its  *)
(* variables.                                                              *)
(***************************************************************************)
EXTENDS MakaluLog

CONSTANT Kinds    \* the parts to check

VARIABLES kind, a, b, c, d, f, g, h, i, j, k, l, m, n, o, p

few == <<j, k, l, m, n, o, p>>
all == <<a, b, c, d, f, g, h, i, few>>
mcvars == <<vars, kind, all>>

\* Header spaces of two headers, or of one when no more is left; no crash.
Blocks == INSTANCE MakaluHeap WITH
  FILESIZE <- 10, HPS <- 1, MAX_HEAP_SECTS <- 4, MINHINCR <- 2, UNIQUE_THRESHOLD <- 2,
  HUGE_THRESHOLD <- 4, Sizes <- {1, 3}, PowerFails <- FALSE, CrashInside <- FALSE, MaxCrash <- 0,
  s <- a, nvm <- b, mode <- c, heap <- d, owned <- f, may <- g, crashes <- h

\* One header space of six headers, which is never used up; crashes anywhere, with
\* loss of the cache.
Crashing == INSTANCE MakaluHeap WITH
  FILESIZE <- 7, HPS <- 3, MAX_HEAP_SECTS <- 1, MINHINCR <- 2, UNIQUE_THRESHOLD <- 2,
  HUGE_THRESHOLD <- 4, Sizes <- {1, 3}, PowerFails <- TRUE, CrashInside <- TRUE, MaxCrash <- 2,
  s <- a, nvm <- b, mode <- c, heap <- d, owned <- f, may <- g, crashes <- h

Life == INSTANCE MakaluLife WITH
  Block <- {1, 2}, Global <- {}, NLines <- 1, MaxCrash <- 2,
  power <- a, run <- b, pc <- c, magic <- d, base <- f, state <- g, gc <- h, used <- i,
  mem <- j, nvm <- k, pending <- l, lists <- m, live <- n, doubt <- o, crashes <- p

File == INSTANCE RegionFile WITH
  Base <- {16, 32}, FILESIZE <- 12, Header <- 3, Alignment <- {1, 4}, Size <- {1, 3}, MaxCrash <- 2,
  pc <- a, base_addr <- b, curr_addr <- c, line <- d, durable <- f, req <- g, extents <- h,
  root <- i, crashes <- j

Zero(v) == v = 0
NoLog == Init /\ stable = [x \in Word |-> CHOOSE v \in Value : TRUE]
NoFew == Zero(j) /\ Zero(k) /\ Zero(l) /\ Zero(m) /\ Zero(n) /\ Zero(o) /\ Zero(p)
NoParts == Zero(a) /\ Zero(b) /\ Zero(c) /\ Zero(d) /\ Zero(f) /\ Zero(g) /\ Zero(h) /\ Zero(i) /\ NoFew

MCInit ==
  /\ kind \in Kinds
  /\ \/ kind = "log" /\ Init /\ NoParts
     \/ /\ NoLog
        /\ \/ kind = "blocks" /\ Blocks!Init /\ Zero(i) /\ NoFew
           \/ kind = "crashing" /\ Crashing!Init /\ Zero(i) /\ NoFew
           \/ kind = "life" /\ Life!Init
           \/ kind = "file" /\ File!Init /\ Zero(k) /\ Zero(l) /\ Zero(m) /\ Zero(n) /\ Zero(o) /\ Zero(p)

MCNext ==
  /\ UNCHANGED kind
  /\ \/ kind = "log" /\ Next /\ UNCHANGED all
     \/ /\ UNCHANGED vars
        /\ \/ kind = "blocks" /\ Blocks!Next /\ UNCHANGED <<i, few>>
           \/ kind = "crashing" /\ Crashing!Next /\ UNCHANGED <<i, few>>
           \/ kind = "life" /\ Life!Next
           \/ kind = "file" /\ File!Next /\ UNCHANGED <<k, l, m, n, o, p>>

\* A log recovery that began runs on; who runs a heap finishes the collections
\* that were begun, and closes and restarts it when that is possible time and again.
LogRuns == kind = "log" /\ Finish /\ UNCHANGED <<kind, all>>
LifeRecovers == kind = "life" /\ Life!Recover /\ UNCHANGED <<vars, kind>>
LifeCloses == kind = "life" /\ Life!CloseOffline /\ UNCHANGED <<vars, kind>>
LifeRestarts == kind = "life" /\ Life!MAK_restart /\ UNCHANGED <<vars, kind>>

MCSpec == MCInit /\ [][MCNext]_mcvars

FairMCSpec ==
  /\ MCSpec
  /\ WF_mcvars(LogRuns) /\ WF_mcvars(LifeRecovers)
  /\ SF_mcvars(LifeCloses) /\ SF_mcvars(LifeRestarts)

-----------------------------------------------------------------------------
(* The properties, each for the parts it is about.                          *)

\* makalu_hdr.c, makalu_block.c: after every operation, and with one header space
\* after every crash and rebuilding, the headers cover the heap's blocks exactly
\* once and none is lost or given out twice, the index and the free lists agree
\* with them, and no two free blocks touch.
BlocksConsistent ==
  /\ kind = "blocks" => /\ Blocks!HeadersTile /\ Blocks!HeadersAccounted /\ Blocks!IndexMatchesHeaders
                        /\ Blocks!FreeBlocksListed /\ Blocks!NoFreeNeighbours
  /\ kind = "crashing" => /\ Crashing!HeadersTile /\ Crashing!HeadersAccounted
                          /\ Crashing!IndexMatchesHeaders
                          /\ Crashing!FreeBlocksListed /\ Crashing!NoFreeNeighbours

\* An operation on the heap's blocks that a crash interrupts has happened
\* entirely or not at all (MAK_START_NVM_ATOMIC ... MAK_END_NVM_ATOMIC).
CallsAreFailureAtomic == [][kind = "crashing" => Crashing!AtomicStep]_mcvars

\* In an online process every object the roots reach is marked, however often it
\* and the collector were killed, unless a power failure took marks or a collector
\* was closed that had a collection to do: MAK_restart (makalu_init.c) is refused
\* after a process died in a collection, but not after those.
LiveIsMarked == kind = "life" => Life!LiveIsMarked

\* region_manager.c: the region manager hands nothing out twice, across crashes,
\* closes and failed requests, and a region that is up can be mapped and found
\* again.
RegionSurvives == kind = "file" => File!ExtentsApart /\ File!RestartFinds

\* A heap that is down comes up again (MAK_start, MAK_start_off, MAK_collect_off,
\* MAK_close, MAK_restart), and the undoing of a section ends (MAK_recover_metadata).
ComesUpAgain ==
  /\ (kind = "life" /\ Life!IsDown) ~> (kind = "life" => Life!IsUp)
  /\ (kind = "log" /\ pc = "down") ~> (kind = "log" => pc = "idle")
=============================================================================
