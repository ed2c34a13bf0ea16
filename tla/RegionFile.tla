------------------------------ MODULE RegionFile ------------------------------
(***************************************************************************)
(* Makalu's region manager (region_manager.c): the heap file begins with   *)
(* three words, the address it must be mapped at, the end of what has been *)
(* handed out and the start of the heap's metadata; __nvm_region_allocator *)
(* hands out the rest of the file, aligned, from its start to its end.     *)
(* The words share a cache line; a crash keeps the line as it was last     *)
(* flushed, or any later state of it that was evicted.                     *)
(***************************************************************************)
EXTENDS Integers, FiniteSets

CONSTANTS
  Base,         \* the addresses mmap may choose
  FILESIZE, Header,           \* in words; 3 words are in use
  Alignment, Size,            \* of the requests
  MaxCrash

VARIABLES
  pc,           \* "none": not mapped, "up", or inside a function
  base_addr, curr_addr,       \* volatile
  line, durable,              \* the three words, in the cache and in the file
  req,          \* what the call in progress will return
  extents,      \* ghost: what was handed out, as <<first, last>>
  root,         \* ghost: what __store_heap_start has stored durably
  crashes

vars == <<pc, base_addr, curr_addr, line, durable, req, extents, root, crashes>>

NONE == -1
Zero == [base |-> 0, curr |-> 0, root |-> 0]

Init ==
  /\ pc = "none" /\ base_addr = 0 /\ curr_addr = 0
  /\ line = Zero /\ durable = Zero
  /\ req = NONE /\ extents = {} /\ root = 0 /\ crashes = 0

\* A store to the line, and CLFLUSH with its fences.
Store(w, v) == line' = [line EXCEPT ![w] = v] /\ UNCHANGED durable
Flush(then) ==
  /\ durable' = line /\ pc' = then
  /\ UNCHANGED <<base_addr, curr_addr, line, crashes>>

-----------------------------------------------------------------------------
\* __map_persistent_region: a new file, of zeroes; called until it returned once.
__map_persistent_region ==
  /\ pc = "none" /\ durable.curr = 0
  /\ \E b \in Base : base_addr' = b /\ line' = [Zero EXCEPT !.base = b]
  /\ durable' = Zero
  /\ pc' = "map"
  /\ UNCHANGED <<curr_addr, req, extents, root, crashes>>

FlushBase == pc = "map" /\ Flush("mapped") /\ UNCHANGED <<req, extents, root>>

SetCurr ==
  /\ pc = "mapped"
  /\ curr_addr' = base_addr + Header
  /\ Store("curr", base_addr + Header)
  /\ pc' = "curr"
  /\ UNCHANGED <<base_addr, req, extents, root, crashes>>

FlushCurr == pc = "curr" /\ Flush("up") /\ UNCHANGED <<req, extents, root>>

\* __remap_persistent_region, of a file whose first mapping was completed;
\* it ends in an assertion when the address is taken.
__remap_persistent_region ==
  /\ pc = "none" /\ durable.curr # 0
  /\ line' = durable
  /\ base_addr' = durable.base /\ curr_addr' = durable.curr
  /\ pc' = "up"
  /\ UNCHANGED <<durable, req, extents, root, crashes>>

\* The next address a multiple of the alignment; it stays moved even when the
\* request fails.
Aligned(a) == IF curr_addr % a = 0 THEN curr_addr ELSE curr_addr + a - (curr_addr % a)

\* Mutant of StoreNext: the end is only stored by a close.
StoreNext_late(next) == UNCHANGED <<line, durable>>
StoreNext(next) == Store("curr", next)

__nvm_region_allocator ==
  /\ pc = "up"
  /\ \E a \in Alignment, n \in Size :
       LET res == Aligned(a)
       IN  IF res + n > base_addr + FILESIZE
           THEN curr_addr' = res /\ UNCHANGED <<pc, line, durable, req>>
           ELSE /\ curr_addr' = res + n /\ StoreNext(res + n)
                /\ pc' = "next" /\ req' = <<res, res + n - 1>>
  /\ UNCHANGED <<base_addr, extents, root, crashes>>

FlushNext ==
  /\ pc = "next" /\ Flush("up")
  /\ extents' = extents \cup {req} /\ req' = NONE
  /\ UNCHANGED root

\* __store_heap_start.
__store_heap_start ==
  /\ pc = "up"
  /\ \E e \in extents : line' = [line EXCEPT !.root = e[1]]
  /\ pc' = "root"
  /\ UNCHANGED <<base_addr, curr_addr, durable, req, extents, root, crashes>>

FlushRoot == pc = "root" /\ Flush("up") /\ root' = line.root /\ UNCHANGED <<req, extents>>

\* __close_persistent_region.
__close_persistent_region ==
  /\ pc = "up"
  /\ Store("curr", curr_addr)
  /\ pc' = "close"
  /\ UNCHANGED <<base_addr, curr_addr, req, extents, root, crashes>>

FlushClose == pc = "close" /\ Flush("none") /\ UNCHANGED <<req, extents, root>>

Crash ==
  /\ pc # "none" /\ crashes < MaxCrash /\ crashes' = crashes + 1
  /\ pc' = "none"
  /\ durable' \in {durable, line}
  /\ root' = IF pc = "root" THEN durable'.root ELSE root
  /\ line' = Zero /\ base_addr' = 0 /\ curr_addr' = 0 /\ req' = NONE
  /\ UNCHANGED extents

Next ==
  \/ __map_persistent_region \/ FlushBase \/ SetCurr \/ FlushCurr
  \/ __remap_persistent_region \/ __nvm_region_allocator \/ FlushNext
  \/ __store_heap_start \/ FlushRoot \/ __close_persistent_region \/ FlushClose \/ Crash

Spec == Init /\ [][Next]_vars

-----------------------------------------------------------------------------
\* What the allocator hands out, before and after crashes, closes and failed
\* requests, lies behind the header, within the file, and never twice
\* (__nvm_region_allocator's order of store, flush and return).
ExtentsApart ==
  \A e \in extents :
    /\ e[1] >= durable.base + Header /\ e[2] < durable.base + FILESIZE
    /\ \A f \in extents : e = f \/ e[2] < f[1] \/ f[2] < e[1]
    /\ pc = "up" => e[2] < curr_addr

\* Once the region is up, the address to map at, and the metadata's start as
\* far as __store_heap_start has returned, are what a restart will read.
RestartFinds ==
  pc = "up" => /\ durable.base = base_addr /\ durable.root = root
               /\ \A e \in extents : e[2] < durable.curr
=============================================================================
