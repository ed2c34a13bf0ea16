------------------------------- MODULE PageHeap -------------------------------
(******************************************************************************)
(* The pages of one arena.  A chunk is tiled by blocks and runs; the header on  *)
(* the first page of each says what it is and, for a block, how many pages it   *)
(* has.  arena_create_block and arena_create_run carve pages off the end of a   *)
(* free block under the mutex of the arena; arena_add_chunk adds a chunk when   *)
(* none is large enough.  The free blocks are in a volatile tree that            *)
(* nvm_recovery_thread rebuilds after a restart by walking over the headers     *)
(* while the application may already be allocating.                             *)
(*                                                                            *)
(* nvm_activate and nvm_free of a block are one store to its header here (see   *)
(* RegionProtocol); what happens inside a run is RunProtocol.  Every store is   *)
(* durable at once.                                                             *)
(******************************************************************************)
EXTENDS Integers, FiniteSets

CONSTANTS
  Thread,     \* application threads
  NoThread,   \* the mutex is free
  Pages,      \* CHUNK_SIZE / BLOCK_SIZE - 1
  Sizes,      \* the numbers of pages that blocks are asked for
  AppWaits,   \* the application waits for the recovery thread before it calls
  MaxChunks,  \* bound: chunks
  MaxRuns,    \* bound: runs
  MaxCrash    \* bound: crashes

VARIABLES
  chunk,    \* per chunk: "absent", "raw" (zeros), "initializing" or "initialized"
  hdr,      \* per chunk and page: usage and n_pages of the header there
  tree,     \* free_pageruns: the free blocks by chunk, page and number of pages
  owned,    \* what the application has: blocks, reserved or active, and runs
  mtx,      \* the holder of arena->mtx
  pc, op,   \* per thread, the next step and what it works on
  scan,     \* the recovery thread
  crashes

vars == <<chunk, hdr, tree, owned, mtx, pc, op, scan, crashes>>

--------------------------------------------------------------------------------

Chunk == 1 .. MaxChunks
Page  == 1 .. Pages

Header == [usage : {"DEFAULT", "FREE", "BLOCK", "RUN"}, n : 0 .. Pages]
Label == {"idle", "add_chunk", "chunk_header", "chunk_block", "chunk_done",
          "carve", "shrink", "zero", "set_run", "add"}

Zero == [usage |-> "DEFAULT", n |-> 0]
Node(c, p, n) == [c |-> c, p |-> p, n |-> n]
NoOp  == [kind |-> "none", n |-> 0, node |-> Node(0, 0, 0)]
NoScan == [at |-> "off", c |-> 0, j |-> 0, last |-> 0, node |-> Node(0, 0, 0)]

Init ==
  /\ chunk = [c \in Chunk |-> IF c = 1 THEN "initialized" ELSE "absent"]
  /\ hdr = [c \in Chunk |-> [p \in Page |->
              IF c = 1 /\ p = 1 THEN [usage |-> "FREE", n |-> Pages] ELSE Zero]]
  /\ tree = {Node(1, 1, Pages)}
  /\ owned = {}
  /\ mtx = NoThread
  /\ pc = [t \in Thread |-> "idle"]
  /\ op = [t \in Thread |-> NoOp]
  /\ scan = NoScan
  /\ crashes = 0

At(t, from) == pc[t] = from
Goto(t, to) == pc' = [pc EXCEPT ![t] = to]
Return(t)   == Goto(t, "idle") /\ op' = [op EXCEPT ![t] = NoOp]
MayCall(t)  == At(t, "idle") /\ (AppWaits => scan.at = "off")
Unlock(t)   == mtx' = NoThread
SetHeader(c, p, u, n) == hdr' = [hdr EXCEPT ![c][p] = [usage |-> u, n |-> n]]

\* The object that a call which has carved n pages at page p returns.
Object(t, c, p) == [c |-> c, p |-> p, n |-> op[t].n, kind |-> op[t].kind,
                    active |-> op[t].kind = "run"]
Runs == {o \in owned : o.kind = "run"} \cup {t \in Thread : op[t].kind = "run"}

--------------------------------------------------------------------------------
(* arena_create_block and arena_create_run. *)

\* tree_upper_bound: a smallest free block that is large enough.
UpperBound(n) ==
  {x \in tree : x.n >= n /\ \A y \in tree : y.n >= n => x.n <= y.n}

\* The mutex is taken; the block that is found is taken out of the tree.  When
\* there is none and no chunk is left the process exits, which is not modelled.
Create(t) ==
  /\ MayCall(t)
  /\ mtx = NoThread /\ mtx' = t
  /\ \E k \in {"block", "run"}, n \in Sizes \cup {1} :
       /\ IF k = "run" THEN n = 1 /\ Cardinality(Runs) < MaxRuns ELSE n \in Sizes
       /\ \/ \E x \in UpperBound(n) :
               /\ tree' = tree \ {x}
               /\ op' = [op EXCEPT ![t] = [kind |-> k, n |-> n, node |-> x]]
               /\ Goto(t, "carve")
          \/ /\ UpperBound(n) = {}
             /\ \E c \in Chunk : chunk[c] = "absent"
             /\ op' = [op EXCEPT ![t] = [kind |-> k, n |-> n, node |-> Node(0, 0, 0)]]
             /\ Goto(t, "add_chunk")
             /\ UNCHANGED tree
  /\ UNCHANGED <<chunk, hdr, owned, scan, crashes>>

\* arena_add_chunk: activate_more_chunks extends the file by a chunk of zeros ...
ActivateChunk(t) ==
  /\ At(t, "add_chunk")
  /\ LET c == CHOOSE c \in Chunk : /\ chunk[c] = "absent"
                                   /\ \A d \in Chunk : chunk[d] = "absent" => c <= d
     IN /\ chunk' = [chunk EXCEPT ![c] = "raw"]
        /\ op' = [op EXCEPT ![t].node = Node(c, 1, Pages)]
  /\ Goto(t, "chunk_header")
  /\ UNCHANGED <<hdr, tree, owned, mtx, scan, crashes>>

\* ... its header is written with STATE_INITIALIZING ...
ChunkHeader(t) ==
  /\ At(t, "chunk_header")
  /\ chunk' = [chunk EXCEPT ![op[t].node.c] = "initializing"]
  /\ Goto(t, "chunk_block")
  /\ UNCHANGED <<hdr, tree, owned, mtx, op, scan, crashes>>

\* ... then the header of the free block that fills it ...
ChunkBlock(t) ==
  /\ At(t, "chunk_block")
  /\ SetHeader(op[t].node.c, 1, "FREE", Pages)
  /\ Goto(t, "chunk_done")
  /\ UNCHANGED <<chunk, tree, owned, mtx, op, scan, crashes>>

\* ... and STATE_INITIALIZED.
ChunkDone(t) ==
  /\ At(t, "chunk_done")
  /\ chunk' = [chunk EXCEPT ![op[t].node.c] = "initialized"]
  /\ Goto(t, "carve")
  /\ UNCHANGED <<hdr, tree, owned, mtx, op, scan, crashes>>

\* The first page of what is carved off the end of the free block.
CarvedPage(t) == op[t].node.p + op[t].node.n - op[t].n

\* The block is larger than needed: first the header of the new block or run.
Carve(t) ==
  /\ At(t, "carve")
  /\ op[t].node.n > op[t].n
  /\ IF op[t].kind = "run" THEN SetHeader(op[t].node.c, CarvedPage(t), "RUN", 0)
     ELSE SetHeader(op[t].node.c, CarvedPage(t), "FREE", op[t].n)
  /\ Goto(t, "shrink")
  /\ UNCHANGED <<chunk, tree, owned, mtx, op, scan, crashes>>

\* Mutant of Shrink: the free block on NVRAM keeps its number of pages.
ShrinkVolatile(t) ==
  /\ At(t, "shrink")
  /\ LET x == op[t].node IN
       /\ tree' = tree \cup {Node(x.c, x.p, x.n - op[t].n)}
       /\ owned' = owned \cup {Object(t, x.c, CarvedPage(t))}
  /\ Unlock(t) /\ Return(t)
  /\ UNCHANGED <<chunk, hdr, scan, crashes>>

\* Then the free block gets smaller and goes back into the tree.
Shrink(t) ==
  /\ At(t, "shrink")
  /\ LET x == op[t].node IN
       /\ SetHeader(x.c, x.p, hdr[x.c][x.p].usage, x.n - op[t].n)
       /\ tree' = tree \cup {Node(x.c, x.p, x.n - op[t].n)}
       /\ owned' = owned \cup {Object(t, x.c, CarvedPage(t))}
  /\ Unlock(t) /\ Return(t)
  /\ UNCHANGED <<chunk, scan, crashes>>

\* The block has the size that is needed: the mutex is released; a block is
\* returned as it is, a run is made of it.
CarveWhole(t) ==
  /\ At(t, "carve")
  /\ op[t].node.n <= op[t].n
  /\ Unlock(t)
  /\ IF op[t].kind = "run"
     THEN Goto(t, "zero") /\ UNCHANGED <<op, owned>>
     ELSE Return(t) /\ owned' = owned \cup {Object(t, op[t].node.c, op[t].node.p)}
  /\ UNCHANGED <<chunk, hdr, tree, scan, crashes>>

\* The header is cleared and then written as that of a run.
ZeroHeader(t) ==
  /\ At(t, "zero")
  /\ SetHeader(op[t].node.c, op[t].node.p, "DEFAULT", 0)
  /\ Goto(t, "set_run")
  /\ UNCHANGED <<chunk, tree, owned, mtx, op, scan, crashes>>

SetRun(t) ==
  /\ At(t, "set_run")
  /\ SetHeader(op[t].node.c, op[t].node.p, "RUN", 0)
  /\ owned' = owned \cup {Object(t, op[t].node.c, op[t].node.p)}
  /\ Return(t)
  /\ UNCHANGED <<chunk, tree, mtx, scan, crashes>>

CreateStep(t) == ActivateChunk(t) \/ ChunkHeader(t) \/ ChunkBlock(t) \/ ChunkDone(t)
                 \/ Carve(t) \/ Shrink(t) \/ CarveWhole(t) \/ ZeroHeader(t) \/ SetRun(t)

--------------------------------------------------------------------------------
(* nvm_activate and nvm_free of a block. *)

Activate(t) ==
  /\ MayCall(t)
  /\ \E o \in owned :
       /\ o.kind = "block" /\ ~o.active
       /\ hdr' = [hdr EXCEPT ![o.c][o.p].usage = "BLOCK"]
       /\ owned' = (owned \ {o}) \cup {[o EXCEPT !.active = TRUE]}
  /\ UNCHANGED <<chunk, tree, mtx, pc, op, scan, crashes>>

Free(t) ==
  /\ MayCall(t)
  /\ \E o \in owned :
       /\ o.kind = "block" /\ o.active
       /\ hdr' = [hdr EXCEPT ![o.c][o.p].usage = "FREE"]
       /\ owned' = owned \ {o}
       /\ op' = [op EXCEPT ![t] = [kind |-> "free", n |-> o.n,
                                   node |-> Node(o.c, o.p, hdr[o.c][o.p].n)]]
  /\ Goto(t, "add")
  /\ UNCHANGED <<chunk, tree, mtx, scan, crashes>>

Add(t) ==
  /\ At(t, "add")
  /\ mtx = NoThread
  /\ tree' = tree \cup {op[t].node}
  /\ Return(t)
  /\ UNCHANGED <<chunk, hdr, owned, mtx, scan, crashes>>

--------------------------------------------------------------------------------
(* A crash of the process, and nvm_recovery_thread in the next one. *)

\* The length of the backing file.
LastChunk == CHOOSE c \in Chunk : /\ chunk[c] # "absent"
                                  /\ \A d \in Chunk : chunk[d] # "absent" => d <= c

Crash ==
  /\ crashes < MaxCrash
  /\ crashes' = crashes + 1
  /\ tree' = {}
  /\ owned' = {o \in owned : o.active}
  /\ mtx' = NoThread
  /\ pc' = [t \in Thread |-> "idle"]
  /\ op' = [t \in Thread |-> NoOp]
  /\ scan' = [at |-> "chunk", c |-> 1, j |-> 0, last |-> LastChunk, node |-> Node(0, 0, 0)]
  /\ UNCHANGED <<chunk, hdr>>

\* A chunk that is not an arena's is skipped by its n_chunks, which is 0 in a
\* chunk of zeros; the state of the chunk is not looked at.
ScanChunk ==
  /\ scan.at = "chunk"
  /\ IF scan.c > scan.last THEN scan' = NoScan
     ELSE IF chunk[scan.c] = "raw" THEN UNCHANGED scan
     ELSE scan' = [scan EXCEPT !.at = "page", !.j = 1]
  /\ UNCHANGED <<chunk, hdr, tree, owned, mtx, pc, op, crashes>>

\* Pages that the walk moves on by: n_pages of a block, one for a run.
Width(h) == IF h.usage = "RUN" THEN 1 ELSE h.n

\* The header at page j is read without the mutex.
ScanPage ==
  /\ scan.at = "page"
  /\ scan' = IF scan.j > Pages THEN [scan EXCEPT !.at = "chunk", !.c = @ + 1]
             ELSE LET h == hdr[scan.c][scan.j] IN
                  IF h.usage = "FREE"
                  THEN [scan EXCEPT !.at = "add", !.node = Node(scan.c, scan.j, h.n)]
                  ELSE [scan EXCEPT !.j = @ + Width(h)]
  /\ UNCHANGED <<chunk, hdr, tree, owned, mtx, pc, op, crashes>>

ScanAdd ==
  /\ scan.at = "add"
  /\ mtx = NoThread
  /\ tree' = tree \cup {scan.node}
  /\ scan' = [scan EXCEPT !.at = "next"]
  /\ UNCHANGED <<chunk, hdr, owned, mtx, pc, op, crashes>>

\* After the mutex is released n_pages is read again.
ScanNext ==
  /\ scan.at = "next"
  /\ scan' = [scan EXCEPT !.at = "page", !.j = @ + hdr[scan.c][@].n]
  /\ UNCHANGED <<chunk, hdr, tree, owned, mtx, pc, op, crashes>>

ScanStep == ScanChunk \/ ScanPage \/ ScanAdd \/ ScanNext

--------------------------------------------------------------------------------

Next ==
  \/ \E t \in Thread : Create(t) \/ CreateStep(t) \/ Activate(t) \/ Free(t) \/ Add(t)
  \/ Crash
  \/ ScanStep

Spec == Init /\ [][Next]_vars

\* Calls that were made and the recovery thread keep running.
FairSpec == Spec /\ WF_vars(ScanStep) /\ \A t \in Thread : WF_vars(CreateStep(t) \/ Add(t))

--------------------------------------------------------------------------------
(* Properties. *)

\* Every variable keeps its type; in particular what is carved off a free block
\* starts at a page of its chunk.
TypeOK ==
  /\ chunk \in [Chunk -> {"absent", "raw", "initializing", "initialized"}]
  /\ hdr \in [Chunk -> [Page -> Header]]
  /\ tree \subseteq [c : Chunk, p : Page, n : Page]
  /\ owned \subseteq [c : Chunk, p : Page, n : Page, kind : {"block", "run"}, active : BOOLEAN]
  /\ mtx \in Thread \cup {NoThread}
  /\ pc \in [Thread -> Label]
  /\ crashes \in 0 .. MaxCrash

PagesOf(x) == {x.c} \X (x.p .. x.p + x.n - 1)

\* Who claims which pages: the tree, the application and the calls in progress.
Claims == {<<"tree", x>> : x \in tree} \cup {<<"app", o>> : o \in owned}
          \cup {<<t, op[t].node>> : t \in {u \in Thread : op[u].kind # "none"}}

\* No page has two owners: the pages that a reservation returns are neither in
\* the tree nor part of anything else the application has.
NoOverlap == \A a, b \in Claims : a # b => PagesOf(a[2]) \cap PagesOf(b[2]) = {}

\* The pages at which a walk over the headers of chunk c stops: the first page,
\* and from every such page the one that its header leads to.
Starts(c) ==
  {p \in Page : \A W \in SUBSET Page :
     /\ 1 \in W
     /\ \A q \in W : q + Width(hdr[c][q]) \in Page => q + Width(hdr[c][q]) \in W
     => p \in W}

\* At every moment a walk over the headers, which a crash may start right then,
\* meets every active block and every run, with its size, unless it is held up
\* before by the header that arena_create_run has just cleared: none is hidden
\* in a free block that recovery would give out again.
ActiveAreScanned ==
  \A o \in owned : o.active =>
    /\ \/ o.p \in Starts(o.c)
       \/ \E p \in Starts(o.c) : p < o.p /\ Width(hdr[o.c][p]) = 0
    /\ hdr[o.c][o.p].usage = IF o.kind = "run" THEN "RUN" ELSE "BLOCK"
    /\ Width(hdr[o.c][o.p]) = o.n

\* When no call is in progress and the recovery thread is done, every page of
\* the arena is in the tree or the application's: none was lost on the way,
\* carving, freeing or restarting ("regions must be tracked at all times").
NoPageLost ==
  (\A t \in Thread : pc[t] = "idle") /\ scan.at = "off" =>
    \A c \in Chunk : chunk[c] # "absent" =>
      {c} \X Page \subseteq UNION {PagesOf(a[2]) : a \in Claims}

\* With any number of threads and crashes no page has two owners, none is lost,
\* and none hides an active block from the recovery thread.
PagesSurvive == TypeOK /\ NoOverlap /\ NoPageLost /\ ActiveAreScanned

\* The walk stands on zeros, which it skips by no pages or chunks: a chunk that a
\* killed process mapped and gave no header or no block, or the header of a run
\* that arena_create_run was killed in.
HeldUp ==
  \/ scan.at = "chunk" /\ scan.c <= scan.last /\ chunk[scan.c] = "raw"
  \/ scan.at = "page" /\ scan.j \in Page /\ hdr[scan.c][scan.j] = Zero

\* nvm_recovery_thread comes to an end, unless it is held up by zeros.
ScanEnds == scan.at # "off" ~> (scan.at = "off" \/ HeldUp)

================================================================================
