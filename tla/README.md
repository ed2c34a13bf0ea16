# Verification of nvm_malloc

TLA+ models of the programs of this repository: nvm_malloc, an allocator for
non-volatile memory (NVRAM) that promises failure-atomic allocation and a fast
restart; Makalu, the persistent allocator with an undo log and an offline collector that
it is compared with (`makalu_alloc`); ulib, the library of containers, locks and threads both
the allocator and the benchmarks use (`ulib-svn`); and the bitmap allocator of the benchmark. The models are
checked with TLC on small instances; the run protocol, the regions and the page heap of
nvm_malloc, the ticket lock of ulib and the undo log of Makalu are proved with TLAPS for all instances.
Paths below are relative to the root of the repository (`src/` there is `src/src/`
in PROJECT.json); file names without a directory are nvm_malloc's, Makalu's (`makalu_*`) or ulib's.

## The system

**nvm_malloc** maps a file of 4 MB chunks. An allocation has two steps: `nvm_reserve`
finds memory and records that only in volatile memory; `nvm_activate` marks it as
used on NVRAM and stores up to two *link pointers* of the application that name
it. `nvm_free` does both in reverse. `nvm_reserve_id`, `nvm_activate_id` and
`nvm_free_id` use a persistent table of names instead of link pointers. Its parts interact
through NVRAM headers. The page heap decides where headers are; the region and the run protocol change one
header each; the log tells recovery which headers to look at; the recovery thread
walks over all of them, while the application is already running.

**Makalu** keeps block headers, free lists and mark bits in a mapped file and changes
them in failure-atomic sections, whose stores an undo log takes back after a crash.
What is allocated is decided by the mark bits alone: closing the heap writes the marks of
free objects back, and after a crash a collection computes them anew from
the roots.

**ulib** provides the AVL trees (the free blocks of an arena), the chained hash table (threads to arenas,
names to slots), the bitmaps and lists, and the spin locks, region locks and map-reduce
engine used above it.

| part | code | module |
|---|---|---|
| small objects: a *run* is one page cut into up to 63 slots; its header is a lock and a redo record | `nvm_malloc.c` 252-293, `arena.c` 89-137, 202-274 | `RunProtocol` |
| large blocks and huge regions: pages of a chunk, or whole chunks | `nvm_malloc.c` 124-160, 193-251, 339-374, 728-739, `arena.c` 162-200 | `RegionProtocol` |
| bins of an arena: the runs of one size class, and their volatile headers | `arena.c` 89-160, 202-274, 464-491 | `Bins` |
| page heap of an arena: carving blocks and runs, adding chunks | `arena.c` 38-87, 282-433 | `PageHeap` |
| activation log and replay | `nvm_malloc.c` 528-726, 741-746 | `RunProtocol`, `RegionProtocol` |
| recovery thread: rebuilds volatile state by a walk over the chunks | `nvm_malloc.c` 463-526 | `ChunkSpace` (chunks), `PageHeap` (pages), `RegionProtocol` (a block), `RunProtocol` and `Bins` (a run) |
| object table and named objects | `object_table.c`, `nvm_malloc.c` 166-181, 297-332, 381-396 | `ObjectTable` |
| chunk space, start-up, teardown | `chunk.c`, `nvm_malloc.c` 71-113, 398-461, 748-786 | `ChunkSpace` |
| size classes, address arithmetic, range flushes | `arena.c` 89-160, `util.c` | `SizeClasses` |
| what the calls promise | `README.md` 94, 121, 125 | `AtomicRun` |
| Makalu: undo log | `makalu_persistent.c` | `MakaluLog` |
| Makalu: block headers and free blocks | `makalu_block.c`, `makalu_hdr.c` | `MakaluHeap` |
| Makalu: block index and header caches | `makalu_hdr.c`, `makalu_hdr.h` | `MakaluIndex` |
| Makalu: small objects, local and global lists, reclaiming | `makalu_malloc.c`, `makalu_local_heap.c`, `makalu_reclaim.c` | `MakaluObjects`, `MakaluSizes` |
| Makalu: parallel marking | `makalu_mark.c` | `MakaluMark` |
| Makalu: start, restart, collect, close | `makalu_init.c`, `makalu_mark.c` 645-760 | `MakaluLife` |
| Makalu: the file | `region_manager.c` | `RegionFile` |
| ulib: trees, and the two AVL trees they are measured against | `tree.c`, `perf/avl` | `BinaryTrees`, `UlibTrees`, `SolarisAvl`, `LibAvl` |
| ulib: lists, bitmaps, bit tricks, heaps and searches | `list.h`, `sort_list.c`, `bitmap.c`, `math_bit.h`, `heap_prot.h`, `search_line.c` | `Lists`, `Bitmap`, `Algorithms` |
| ulib: ciphers and digests | `crypt_aes.c`, `crypt_rc4.c`, `crypt_md5.c`, `crypt_sha1.c`, `crypt_sha256.c` | `Crypt` |
| ulib: hash tables, alone and under threads | `hash_chain_prot.h`, `hash_open_prot.h`, `hash_chain_r.h` | `ChainHash`, `OpenHash`, `RegionHash` |
| ulib: locks | `os_spinlock.h`, `os_typelock.h`, `os_regionlock.h` | `TicketLock`, `FifoLock`, `SpinLocks`, `TypeLocks` |
| ulib: map-reduce and threads | `mr_engine.h`, `mr_interm.h`, `os_thread.h` | `MapReduce` |
| bitmap allocator of the benchmark | `benchmark/src/kiss_alloc.c` | `KissAlloc` |

## The modules

A module models one component; the modules `MC...` put the components that share a
question side by side. Such a module EXTENDS the component that theorems are about, if
there is one (`MCRecovery` the region, `MCArena` the page heap), so that the run and the theorem speak of the same
formula, and instantiates the others. There the variable `kind` says which instance a behaviour is about, and the other
components stutter, so that one run asks one question of several components.
The definitions whose comment begins with "Mutant of" are the plausible bugs
that show that each property can fail.

### nvm_malloc

**RunProtocol.** One run. `hdr`, `link` and `log` are NVRAM as the CPU sees it and
`nvm` what survives a crash. A step is one store (or one compare-and-swap) of
`nvm_activate` or `arena_free`, which share their body: `Cas` takes the header,
`Prepare` creates the VHeader if there is none (free only) and stores `bit_idx`,
`StoreOn1`/`StoreOn2` write the redo record, `Commit` the state that makes it count, `Link1`/`Link2` the
cells, `Bitmap` the bit, `Release` the state that lets others in, `Unset` and
`Clear` the cleaning up after it, `VFree` the volatile bitmap. `Crash` keeps
`nvm` only; `RecScan` to `RecDone` are the steps of the replay, which may crash
too. `RecoveryThread` gives a run its VHeader. `fresh` stands for
`version = current_version`. `Durability` says what a flush does: every store is durable at
once, lines are flushed as the code asks, or lines only leave the cache by eviction.

**RegionProtocol.** One block or huge region. No lock, so the actions are those
above without it, plus the volatile tree (`tree` counts its nodes for this region) and
the two steps of the recovery thread (`ScanRead` without and `ScanAdd` with the mutex).

**Bins.** All runs of one size class: `current_run`, the list `runs` and `n_free` (`n_runs` is never read),
and each run's VHeader, which `arena_free`, the replay and the recovery thread each create when
`version` is stale. What the mutex of the bin protects is one step, the unlocked accesses to `vdata`
and `version` are steps of their own.

**PageHeap.** The headers of the pages of one arena, the tree of free blocks as a
set, the mutex, and per thread the steps of `arena_create_block`,
`arena_create_run` and `arena_add_chunk`, one per header store. `owned` is what
the application has. The walk is `ScanChunk`, `ScanPage`, `ScanAdd`, `ScanNext`.

**ObjectTable.** `table` is on NVRAM, `map` is the hash map, `buffer` with its
indices the fifo of free slots, which the threads share without a lock; the
non-atomic `slot_buffer_n_free += 1` is a load and a store. `Restart` is `ot_init`
and `ot_recover`.

**ChunkSpace.** The two files, the version, the chunk headers in cache and in NVRAM, the
tree of free huge regions, and the walk over the chunks. `nvm_initialize` is the steps from
"are the files there" to the start of the recovery thread; a crash may come between any two stores.

**SizeClasses.** `nvm_reserve` puts a request of any size anywhere it may end up; `identify_usage` is what `nvm_free` makes of the
pointer, `clflush_range` the set of lines the loop flushes.

**AtomicRun.** The abstract specification: a call adds a request to `asked` (`Ask`);
`Do` fulfils a request, changing the allocated objects and the cells in one step;
a crash may only forget requests (`Forget`). `RunProtocol` and `RegionProtocol` (huge
regions) implement it with the mapping "what recovery would make of NVRAM as it is
now" (`RecoveredUsed`, `RecoveredCell`) and the calls that have not got to that point
(`Pending`). So a replay that changes anything no call asked for, or does it
twice, is an error. The mapping counts a committed header as done, so the refinement must be
read together with `QuietHeaderIsFree` and `QuietIsSettled`, which say that none
stays committed.

### Makalu

**MakaluLog.** Words, log entries and the version, in the cache (`mem`) and in NVRAM (`nvm`);
`tab` is the table of lines to flush. `create_log_entry` and `FlushLog` are the two halves of
logging a word, `MAK_STORE_NVM` the store, `flush_all_entry`, `BumpVersion` and `SyncVersion` the end of a
section, `Seek`, `Undo` and `Undone` the recovery. `Evict` writes any line back at any moment. `stable`
is a history variable: the words of the last section whose version is durable.

**MakaluHeap.** Headers and the persistent and transient free lists of blocks. A call of the block
allocator is computed as the sequence of its stores, logged or not (`MAK_allochblk`, `MAK_freehblk`,
`MAK_newfreehblk`, `MAK_add_to_heap`, `MAK_get_first_part`), and the steps carry out one store each, so that a
crash may come between any two; recovery takes back the logged ones. That this is what the
log does is `MakaluLog`.

**MakaluIndex.** The two-level index with its hash chains and forwarding counts, changed under the
allocator's lock, while `MAK_free` looks up without it, one link at a time, through a cache.

**MakaluObjects.** The objects of one size class: `mark` and `hb_n_marks` of the headers, the reclaim
list, the global list, each thread's local list and its table of truncated blocks; and what
closing, crashing and restarting make of them.

**MakaluMark.** The states of `MAK_mark_some`, the mark stack with overflow and doubling, and the helpers that
steal from it, wait and give entries back.

**MakaluLife.** `MAK_persistent_state` and `MAK_mandatory_gc`, the marks in cache and NVRAM and the
line table, from `MAK_start` to `MAK_close`, with `MAK_collect_off` in between.

**MakaluSizes**, **RegionFile.** The size map and object displacements; the three words at the start of
the file.

### ulib and the benchmark

The containers are modelled as the pointers the code changes, and compared with the
mathematical object the calls describe: a set or bag (`UlibTrees`, `SolarisAvl`, `LibAvl`), a sequence (`Lists`, and the
sorts and searches of `Algorithms`), a set of bits (`Bitmap`, and the bit tricks of `Algorithms`), a map (`OpenHash`, `ChainHash`). `BinaryTrees` has the
definitions the three tree modules share. `RegionHash` is the chained table under threads, one step per read or store
of a chain; in one of its scenes it is the map from thread ids to arenas in `nvm_reserve`.
`Crypt` has a sender and a receiver who hand over one message in pieces of any length. AES in CBC mode and RC4 are computed byte by byte, the lookup
tables of AES from the formulas in its comments; of the digests the buffering, the counting and the padding are modelled and the compression functions are free: the
chaining value is the sequence of the blocks compressed.
`TicketLock` and `SpinLocks` have one step per access to the lock word; `FifoLock` is what a fair
lock promises, and `TicketLock` implements it with the queue of the threads that hold
tickets. `MapReduce` is a job, its tasks and the store they share. `KissAlloc` is the bit set of the
benchmark's allocator, its per-cpu hints and the compare-and-swap that claims a unit.

## What is checked

| run | instance | shows |
|---|---|---|
| RunThreads | 2 threads, 2 slots, 2 cells | `HeaderExclusion`, `NoDoubleAllocation`, `HeaderIsReleased`: in all interleavings of activations and frees on one run header |
| RunCrash | 1 thread, 2 slots, 2 cells, 2 crashes, any number during recovery | `CallsAreFailureAtomic` (the refinement of `AtomicRun`), `QuietHeaderIsFree`, `LinksNameAllocatedObjects` |
| RunPersist | 2 threads, 1 cell, caches, 2 power failures | `QuietHeaderIsDurable`: what a call that returned did to the header is not lost |
| Recovery | block: 1 thread, 2 cells, 3 crashes. Huge: 2 threads, 2 cells, 3 crashes. Page heap: 2 threads, 6 pages, 2 crashes. Table: 3 IDs, 2 slots, a fifo of 3 that wraps, 2 crashes. Chunks: 2 threads, 3 chunks, 2 crashes | `SingleOwner`, `QuietIsSettled`, `BlocksSettle`, `SlotsConserved`, `NamesSurvive`, `ChunksSurvive`, `CallsAreFailureAtomic`, and `RecoveryReturns` (liveness) |
| Arena | page heap: 2 threads, 2 chunks of 3 pages, 2 runs, 1 crash. Huge regions: 2 threads, 4 chunks, 1 crash. Bin: 2 runs of 2 slots, 3 VHeaders, 1 restart. Sizes: a line of 4, a block of 32, a chunk of 128 bytes, every size near a bound | `PagesSurvive`, `ChunksApart`, `BinsAgree`, `RequestsPlaced` |
| Containers | trees of 6 or 7 nodes with a repeated key; 4 list entries and 2 anchors; bitmaps of 2 and 3 words with unused bits; arrays of up to 5; texts of up to 4 lines; tables of up to 8 buckets; 2 threads on the locked map; 2 threads and 8 units in the bit set; AES with keys of 128 and 192 bits and 3 blocks, RC4 with 16 values of a byte, digests of up to 580 bytes with counter words of 9 bits | `StreamsSurvivePieces`, `TreesRepresent`, `SequencesRepresent`, `BitmapsRepresent`, `TablesRepresent`, `SharedMapIsAsCalled`, `NoUnitTwice` |
| Locks | 3 threads, 4 tickets, all flavours of spin lock; 3 threads on typed and region locks; a job of up to 4 tasks | `LocksExclude`, `ServesInOrder` (the refinement of `FifoLock`), `ResultIsSum`, `WaitersGetIn` (liveness) |
| MakaluPersistence | log: 3 words on 2 lines, 1 slot of the flush table, 3 entries, 2 crashes. Blocks: 8 blocks growing by 2; 6 blocks with a power failure anywhere. Life: 2 blocks, 2 crashes. File: 2 crashes | `SectionsAreAtomic`, `BlocksConsistent`, `CallsAreFailureAtomic`, `LiveIsMarked`, `RegionSurvives`, `ComesUpAgain` (liveness) |
| MakaluVolatile | index: 1 reader beside the allocator, one hash chain; a wide heap. Objects: 2 threads, 2 blocks of 2 objects, with and without local lists. Marking: 4 objects, 2 markers, a stack of 2. Sizes | `IndexFindsHeaders`, `ObjectsConserved` (and that the size map serves every request), `MarksReachable`, `MarkingEnds` (liveness) |
| RunTwoThreadsCrash | 2 threads, 1 crash | refutes `LinksNameAllocatedObjects` |
| HeapCarveDuringScan | 2 threads, 1 crash, no waiting for the recovery thread | refutes `NoOverlap` |
| RequestFits | the sizes of Arena | refutes `RequestFits` |

The property of a run is a conjunction of the properties of its components,
each stated in the component's module, for the value of `kind` it is about.

**Bounds.** They are the constants `Max...` and the sizes of the sets; nothing else is
cut off. Two threads are enough for every race found: the protocol of a
header has two roles, holder and waiter; a queue lock gets three threads, so that somebody waits behind a
waiter, and four tickets, so that they wrap. Two slots, so that calls meet on the
header and not on an object; two cells, the number a call can name. Two or three crashes in a row, so that
what one recovery leaves is there when the next crash hits; recovery itself may
crash any number of times. Chunks have 3 or 6 pages, so that
blocks are split, used up exactly and neighbours of runs. In Recovery, where the walk must end, the page heap
has sizes 2 and 4 and one run, so that no free block of one page is ever turned into a run,
and one chunk, so that none is added: a crash in those two operations may keep the walk from ending
(below). In Arena both happen, with a crash at any store: what the pages are is kept even so. Seven nodes are the smallest AVL trees in which a removal rotates twice on
its way up. Bitmaps have a last word that is partly used; open hash tables grow and shrink
through every size up to 8 with tombstones in between. The log of Makalu has one slot in its flush table, so that
two lines collide in it. Its mark stack is smaller than the number of objects, so that it overflows. Digested messages are longer than `2^WordBits` bits and go past a block by every length that decides how
the padding is laid out (55, 56, 63, 64, 65), so that the count carries and the padding takes one block or two.

**Crashes.** With `CrashAnywhere = FALSE` (RunCrash; block, huge and space in Recovery) no crash
interrupts a call while no entry of the log names its header, or an extension of the file before the new
chunks have headers. Recovery does not settle such a crash, see below. Everywhere else crashes hit
any step. The life of a Makalu heap is checked for the processes that are killed with the machine
staying up, and for power failures if a heap is only restarted after the collection has been synced.

**The application.** It passes NULL cells to `nvm_activate`, frees what is
allocated, once, with the cells that name it, and does not use one ID in two threads.
With `AppWaits` it makes no call before the recovery thread is done, and with `Turns` no free meets the recovery thread
at one run header. Users of a lock release what they took; users of the locked map either erase by key or have keys of their own.

**Fairness.** A call that was made keeps running (weak fairness of each thread's
steps, which the operating system's scheduler gives), and so do recovery and its
thread; crashes come to an end. The application need not call anything, and a thread in a
critical section does leave it. Strong fairness is assumed in two places. The initiating marker
of Makalu, woken time and again while no helper is active, gets the mark lock at some
time (`pthread_cond_wait` contends with helpers that come back). Who runs a Makalu heap closes and restarts it if that is possible time and again.
`CHECK_DEADLOCK FALSE` stands where a system may stop: after an assertion failed, when every thread spins on a header
nobody repairs, after the end of a job or a search, or when a bound on calls is used up.

## What the code refutes

The three runs above that end in a violation, and the findings in PROJECT.json,
quote the sentences of the documentation that they contradict. The following
statements, kept in the modules, are not part of any run. Each is refuted by TLC in the instance given:
take the component's instance from its MC module, set the constants named, and check the property alone.

| module: property | instance | what the code does |
|---|---|---|
| RunProtocol: `HeaderIsReleased` | 1 thread, `MaxCrash` 2, `CrashAnywhere` | frees are not logged (`arena.c:207`); one that a crash interrupts with no entry for the run leaves the header locked |
| RunProtocol: `LinksNameAllocatedObjects` | `LogSize` 2, `MaxForeign` 2, `CrashAnywhere` | the ring of the log (`nvm_malloc.c:743`) drops the entry of an activation in progress |
| RunProtocol: `LinksAreRelative` | `MaxCrash` 1 | the replay stores absolute addresses (`nvm_malloc.c:571` and 11 more), against README.md:36 |
| RunProtocol: `QuietLinksAreDurable` | `Durability` "flush" | `PERSIST(*link_ptr1)` names the value, not the cell (`nvm_malloc.c:277`) |
| RunProtocol: `QuietHeaderIsDurable` | `Durability` "evict" | the operand of `clflush` is the parameter (`util.c:44`) |
| RegionProtocol: `SingleOwner` | block, no `AppWaits`; or 2 threads and a replayed free | the recovery thread reads the usage without the mutex (`nvm_malloc.c:480`) |
| RegionProtocol: `QuietIsSettled` | block, `CrashAnywhere` | frees are not logged |
| RegionProtocol: `OnlyAskedCellsChange` | block | `on[1]` of an earlier call is replayed (`nvm_malloc.c:231`), against README.md:138 |
| RegionProtocol: `RecoveryNeverAborts` | huge | `STATE_INITIALIZING` fails the assertion at `nvm_malloc.c:611` |
| RegionProtocol: `FreeRegionsReturn` | huge | nothing rebuilds `free_chunks` (`nvm_malloc.c:518`) |
| PageHeap: `ScanEnds` | `Pages` 2, `MaxChunks` 2 | a chunk of zeros is skipped by 0 chunks (`nvm_malloc.c:518-520`), against the comment at `arena.c:424` |
| PageHeap: `ScanEnds` | `Pages` 1, `MaxRuns` 1 | a header of zeros is skipped by 0 pages (`arena.c:339`, `nvm_malloc.c:508-513`) |
| ObjectTable: `NoLeak` | a crash in a call | the state byte is compared with its usage bits (`object_table.c:107-127`), against the comment at 102 |
| ObjectTable: `RemoveReturns` | the fifo comes round | the expected tail after a wrap is -1 (`object_table.c:226`) |
| ObjectTable: `ReservedIsNamed` | more IDs than slots | the result of `ot_insert` is ignored (`nvm_malloc.c:178`) |
| ObjectTable: `NoSlotLost` | 1 crash | slot 0 is not listed (`object_table.c:147`) |
| ObjectTable: `SlotsUnique` | 2 threads | the fifo has no lock (`object_table.c:179`) |
| ChunkSpace: `SkipsAHugeRegion` | `CrashAnywhere` | between `activate_more_chunks` and the first store to the header a new huge region is zeros, which the walk skips by 0 chunks (`nvm_malloc.c:518`) |
| ChunkSpace: `StartIsPossible` | `CrashAnywhere` | a crash between the creation of the two files leaves a backing file without a meta file, and every later start exits (`chunk.c:118`, 139; comment at `nvm_malloc.c:88`) |
| Bins: `FreeSlotsUnowned` | `LogSize` 2, 1 restart | a run that the log names twice is given a VHeader each time (`nvm_malloc.c:528-726`) |
| Bins: `AlwaysSpace` | 1 restart | a free adds to `n_free` of the bin, but puts the run on the list only if it had no free slot (`arena.c:266-273`); after a restart such a run is on no list (comment at `arena.c:125`) |
| Bins: `NoDanglingVHeader` | no `Turns` | `arena_free` and the recovery thread both find the version stale (`arena.c:215`, `nvm_malloc.c:495`) |
| Bins: `TeardownFreesAll` | | runs that are full are neither current nor on the list (comment at `arena.c:475`) |
| Bitmap: `UnusedDoNotAnswer` | the unused bits hold junk | the result of `bitmap_and` counts unused bits, against `bitmap.c:44-46` |
| Algorithms: `StartsWithN` | `n` = `W` | `1ULL << n` with `n` = 64 is undefined (`math_comb.c:35`), against `math_comb.h:49` |
| LibAvl: `CleanupReadsNoJunk` | the copy runs out of memory | cells that were allocated and not filled yet are destroyed with their data (`avl.c:712-714`), against the comment of `copy_error_recovery` |
| Algorithms: `FindsWithMaxlen` | `Slack` 0 | the buffer keeps one byte back (`search_line.c:54`), so a line of the full length behind another is not seen whole, against `search_line.h:44` |
| ChainHash: `IteratorsAreExact` | `Dups`, `DelInSnap` | deleting one of two equal keys through a snapshot leaves the parent of the other iterator behind |
| KissAlloc: `HintsInRange` | the instance of the run | who resets the hint returns the value it replaced, not 0 (`kiss_alloc.c:169-176`) |
| KissAlloc: `LayoutCounts` | `W` 4 | the count is off if the units of the header end within a word |
| RegionHash: `NoFreedEntryUsed` | scene "any" | an iterator is used after the lock it was found under is released, and another thread has erased its entry |
| RegionHash: `LocksAreReturned` | scene "shared", fewer entries than keys | an insertion that finds no memory throws with the region locked |
| RegionHash: `TidKeepsArena` | scene "tidmap" | of two insertions into one chain of the thread map one may be lost (`nvm_malloc.c:116`) |
| TypeLocks: `RWLockIsMutex` | a `region_mutex` of reader-writer locks | it does not exclude, against `os_typelock.h:84` |
| MakaluHeap: `HeadersTile` | `HPS` 2, crashes | with more than one header space, a crash while the heap grows loses a header |
| MakaluLife: `LiveIsMarked` | power failures, restart without waiting for the collection to be synced; or no collection | a crash in the offline collection is followed by a restart that trusts cleared marks, against `makalu_mark.c:694-697` |
| MakaluLife: `InitializedIsDurable` | power failures | flushing a range enters its first line only, once for each line (`add_to_flush_table`), against `makalu_init.c:64` |
| MakaluLife: `CloseIsDurable` | `Global` {2} | marks of classes without local lists that are pending when the heap is consistent are not flushed, against `makalu_init.c:308-310` |
| MakaluObjects: `CloseLeaksNothing` | a class with the global list only | objects on the global list stay marked, against `makalu_init.c:308-310` |
| MakaluObjects: `ReclaimListExact` | `PowerFails` | `page_reclaim_state` is not flushed on its own, so a restart may find the state a header had before (`makalu_reclaim.c:535`) |
| MakaluObjects: `InUseIsMarked` | `LossyMarks` | increments of `hb_n_marks` that concurrent markers lose let a later truncation free a block that is in use |
| MakaluMark: `ActiveStaysZero` | the instance "mark" | the count may rise again, against `makalu_mark.c:992-994` |

## What is proved

**The run protocol.** For every number of threads, slots, cells, log entries, crashes and foreign
activations, and for each `Durability`, from the single assumption `RunAssumption` (types of the
constants):

- `TypeCorrect`: `Spec => []TypeOK`.
- `MutualExclusion`: `Spec => []HeaderExclusion`. At most one thread is between the
  compare-and-swap and the store of `STATE_INITIALIZED`, and the state on NVRAM is the
  one its call has got to.
- `AllocationIsExclusive`: `Spec => []NoDoubleAllocation`. No slot is handed out
  while it is allocated or another call's.

None of these is inductive. `IInv` adds, for each thread, what it knows of its slot
(`CallOK`: until its bit is written the slot of an activation is clear on NVRAM and set
in the VHeader, that of a free is set in both), that two calls never have the same
slot (`SlotsDistinct`: without it one thread's store of a bit breaks another's `CallOK`), that a live VHeader
has every bit that NVRAM has, and that recovery replays a header before it gives the
run a VHeader (`ReplayOK`: a replay after that would add bits which the VHeader does not
have). `NextTypeOK` and `NextCallsOK` have one step per action; an action that
stores to the header is split by conjunct. A crash needs no fact about `nvm` beyond its type, because it sets
`fresh` to FALSE and ends all calls; this is why exclusion and exclusive allocation hold for every durability
although recovery does not always repair a header.

**The abstract specification.** `AtomicRun!CellsNameAllocatedObjects`: no cell
ever names a slot that is not allocated. The invariant adds that no two requests are
about one object and that a request to free knows every cell that names its object. It is what a failure-atomic allocator gives
its application; by the refinements below it carries over to
what recovery makes of NVRAM.

**The run protocol with crashes** (`RunCrashProofs`). Two results, with different assumptions.

- `ReturnedCallsAreDurable`: `QuietHeaderIsDurable` for any number of threads and crashes at any step, as long as flushes do
  something (`Durability # "evict"`). `PersistInv` says how the header may differ from NVRAM: only
  while a call or the replay is between its first store and its flush.
- For one thread whose calls a crash only interrupts when the log names them, with every store durable (`LoggedThread`), and any number of slots, cells,
  log entries and crashes: `RecoveredHeaderIsFree` (`QuietHeaderIsFree`), `CallsImplementAtomicOnes` (the
  refinement of `AtomicRun`) and `LinksNameObjects` (`LinksNameAllocatedObjects`). Each of the assumptions is
  needed: RunTwoThreadsCrash and the table above have the counterexamples.

`CrashInv` (`CrashInvHolds`) adds to `IInv` what ties the header, the cells and the log together at each step. `UpOK` with `CallAt` says
which of the stores of a call have been made when it is at a given `pc`; `RecoverOK` the same for the replay, which finds any
prefix of them; `LinksOrdered` that a committed record with a second cell has a first and another one; `ScanEnds` that past the last entry of the log
nothing is being replayed; `NullOnly` that a cell which names no object is NULL. The refinement is proved step by step (`StepSimulates`): `Commit` is the `Do` of a call with cells and the store of the bit that of one without, a crash before it a `Forget`, and everything else, the
whole replay included, a stutter. `LinksNameObjects` does not use the invariant for cells at all: it follows from the
refinement, from `AtomicRun!CellsNameAllocatedObjects` and from `RecoveredHeaderIsFree`.

**Regions** (`RegionProofs`). With crashes in calls that the log names (`Logged`), for any number of cells and crashes:

- `HugeHasOneOwner` (`SingleOwner`) and `HugeCallsImplementAtomicOnes` (the refinement of `AtomicRun`), for huge regions and any number of threads.
- `RestartsAreSettled` (`QuietIsSettled`), for huge regions with any number of threads and for blocks with one.

`RInv` (`RInvHolds`) has for each `pc` what is on NVRAM and who has the region: the tree, one call or the
application (`HugeAt`, `HugeOK`); and for the replay which prefix of an interrupted call it has found. There is no lock in the header here, so exclusion comes from the tree
alone: a region taken out of it has one holder until it is put back. For a block this fails with two threads, since the recovery thread may add a block
the replay has added.

**The page heap** (`PageHeapTiles`, `PageHeapProofs`). `PagesAreKept`: `Waits => (Spec => []PagesSurvive)`, for every number of threads, pages, chunks, runs and
crashes, at any store. `Waits` says that requests fit into a chunk and that the application makes no call before the recovery thread is done, or nothing
crashes; HeapCarveDuringScan shows what happens otherwise.

What the headers mean depends on where one starts to read: a page inside a block has a header left from an earlier life of that page. The invariant
therefore names the pages that count, `HInv == \E T : TileInv(T)` where `T` gives for each chunk the first pages of its tiles. The existential is needed
since `T` is not a function of the headers alone: a header that `arena_create_run` has cleared does not say how long its tile is, and a free block that shrinks becomes
two tiles by one store, that of its own length, when the header behind it is already there. `Tiled` says that the headers on `T` cover each chunk without overlap,
`TreeOK` and `OwnedOK` that the tree and the application have whole tiles, `UsedAreOwned` that no header says otherwise, `OpOK` what a call has stored so far,
`OwnersApart` that no two of them start on one page, `ScanOK` where the walk is, and `NoTileLost` that every tile has an owner or is ahead of the walk.
`PageHeapTiles` has the lemmas about tiles and claims, the steps of the walk, of adding a chunk and of carving a block; `PageHeapProofs` the
other steps, the crash and what the invariant implies. A step that changes the tiling is proved with the new one as the witness. That pages of distinct tiles are disjoint gives `NoOverlap`; that every
page of a chunk is in a tile (`PagesCovered`) gives `NoPageLost`: take the last first page at or before it, which exists since the natural numbers are well-founded.
`WalkMeetsActive` is the same argument along the walk.

**The ticket lock.** From `TicketAssumption` (finitely many threads, fewer than
tickets): `TicketExclusion` (at most one thread inside) and `TicketImplementsFifo`, the refinement of
`FifoLock`. The invariant `TicketInv` (`TicketInvHolds`) relates the two halves of the lock word and the queue: the threads that
hold tickets are queued without repetition, the ticket of the i-th is the head plus i - 1 modulo
`T`, and the tail is the head plus the length of the queue. `QueueBound` is where the assumption is used: the queue is shorter than
`T`, so that no two of its tickets are equal although they wrap around. Without it, as with 256 threads and
8 bits, the lock does not exclude.

**The undo log.** From `LogAssumption` (types and non-empty sets), for every number of words, flush-table
slots, log entries, sections and crashes: `LogIsFailureAtomic`, `Spec => []SectionsAreAtomic`. `CrashSafe` speaks of NVRAM only
and is not inductive. `LogInv` adds how far cache and NVRAM may differ: the version lags only between `BumpVersion` and
`SyncVersion`, and no entry is ahead of it (`Versions`); only the entry being written differs, and it is not valid in NVRAM before it is
flushed (`Entries`); a word that differs has its line in the flush table (`Flushing`). It adds what the log means for the cache: the entries of a
section are those that carry its version (`Prefix`), every word it may store to is in one of them (`LoggedFirst`), a word that no valid entry is about
has its stable value (`Unlogged`), and the undo, having come down to entry `e`, has given each word of a later entry the value
of the first of those (`Recovering`). `LineKeeps`, `StoreKeeps`, `EntryKeeps` and `VersionKeeps` say what writing back a line, a store through the flush table,
writing back an entry and the version becoming durable keep; the steps of `NextLogInv` cite them, eviction included. A crash needs only the
parts about NVRAM, since the cache then holds what NVRAM does.

Only model-checked: all liveness (the prover does not handle fairness and
`ENABLED`): `HeaderIsReleased`, `RecoveryReturns`, `WaitersGetIn`, `ComesUpAgain` and `MarkingEnds`; what the recursive operators compute (walks through trees,
lists, chains and indices: the provers have no induction over data); `BlocksSettle` and the other properties of Recovery and Arena that are not named above; and every module not named here.

## What is not modelled

- The hash functions, big numbers, random numbers and number theory of ulib (`hash_func.c`, `math_bn.c`,
  `math_rand_prot.h`, `ext1/rng`, `math_gcd.c`, `math_lcm.c`): fixed sequences of word operations without state
  between calls. A model would be a copy of the code and TLC would only recompute it; hashes appear as arbitrary functions where
  tables use them. The Bloom filter is one of these with a bit set.
- The compression functions of the digests, for the same reason; buffers of `aes_cbc_decrypt` that overlap, NULL arguments, and pieces of 2^32 bytes and more, of whose length
  `md5_update` drops the high bits (`(uint32_t) len`). A digest is used once: `sha1_finalize` does not do what the comment "The handle is prepared
  for a new cycle" says.
- Console, command line, hex dump and field splitting (`ext1/console`, `util_hexdump.c`, `str_util.c`
  but for `nextline`), `mr_dataset.cpp` and the mapping of the benchmark's file: formatting and I/O.
- `cpu.c`, `open_alloc_map` (which nothing calls), `typemutex_destroy`, and Makalu's wrapper of `pthread_create`, which only
  registers a thread.
- The benchmark drivers and tests: they are clients. The copies of ulib's headers under
  `include` are the same text as the sources modelled.
- Several arenas: they differ in `arena_id`, share only the chunk space, and a thread keeps to one.
- The chain of chunks of the object table, which is one array of slots here.
- Kinds of objects in Makalu: one kind; large objects are the blocks of `MakaluHeap`.
- Partial cache lines: stores to one line reach NVRAM in program order, as on the processors the code is written for.
- Memory models weaker than that of the x86 the atomic instructions and fences are written for.
