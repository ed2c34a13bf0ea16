------------------------------ MODULE ChunkSpace ------------------------------
(***************************************************************************)
(* The chunks of the backing file, from nvm_initialize to nvm_teardown:    *)
(* the two files, the version in the meta file, the chunk headers, huge    *)
(* regions reserved from the tree of free regions or from new chunks, and  *)
(* the walk of the recovery thread over the chunk headers.                 *)
(*                                                                         *)
(* A crash is one of the process: what was stored is there afterwards.  A  *)
(* power failure may lose any of it, the version included, since PERSIST   *)
(* flushes nothing of NVRAM (util.c:43-52; see RunProtocol).               *)
(* Activating and freeing a huge region are one step each (RegionProtocol  *)
(* has their steps); what is inside an arena chunk is PageHeap.            *)
(***************************************************************************)
EXTENDS Integers, FiniteSets, FiniteSetsExt, TLC

CONSTANTS
  Thread,
  MaxChunks,       \* MAX_NVM_CHUNKS
  INITIAL_ARENAS,
  Sizes,           \* numbers of chunks that huge objects need
  MaxCrash         \* bound: restarts

VARIABLES
  backing,   \* the whole chunks of the backing file, -1 if there is none
  meta,      \* the meta file: exists, and the version
  hdr,       \* per chunk, the header
  up,        \* "down", a step of nvm_initialize, "ready" or "exited"
  next_chunk, current_version,
  tree,      \* free_chunks: <<chunk, n_chunks>>
  held,      \* huge regions of the application: <<chunk, n_chunks>>
  op,        \* per thread, the step of nvm_reserve and what it works on
  scan,      \* the chunk the recovery thread is at, or -1, and how many it was given
  used,      \* versions that earlier processes stamped run headers with
  crashes

vars == <<backing, meta, hdr, up, next_chunk, current_version, tree, held, op, scan,
          used, crashes>>
process == <<next_chunk, current_version, tree, held, op, scan>>

Chunk == 0 .. MaxChunks - 1
Zero == [usage |-> "DEFAULT", ready |-> FALSE, n |-> 0]
Idle == [at |-> "idle", want |-> 0, huge |-> <<0, 0>>, chunk |-> 0]
NoScan == [i |-> -1, n |-> 0]
Chunks(r) == r[1] .. r[1] + r[2] - 1

Init ==
  /\ backing = -1 /\ meta = [exists |-> FALSE, version |-> 0]
  /\ hdr = [c \in Chunk |-> Zero]
  /\ up = "down"
  /\ next_chunk = 0 /\ current_version = 0
  /\ tree = {} /\ held = {}
  /\ op = [t \in Thread |-> Idle]
  /\ scan = NoScan
  /\ used = {}
  /\ crashes = 0

-----------------------------------------------------------------------------
(* nvm_initialize. *)

HasChunks == backing > 0

\* recover_chunks maps what is there; without a whole chunk it returns 0, and
\* with a backing file but no meta file to map the process exits.
nvm_initialize(recover) ==
  /\ up = "down"
  /\ up' = IF ~recover \/ backing = -1 THEN "empty"
           ELSE IF ~meta.exists THEN "exited"
           ELSE IF HasChunks THEN "bump" ELSE "empty"
  /\ next_chunk' = IF recover /\ HasChunks THEN backing ELSE 0
  /\ UNCHANGED <<backing, meta, hdr, current_version, tree, held, op, scan, used, crashes>>

\* initialize_chunks: the backing file is emptied and given 1 MB ...
OpenBacking ==
  /\ up = "empty" /\ up' = "meta"
  /\ backing' = 0
  /\ hdr' = [c \in Chunk |-> Zero]
  /\ used' = {} /\ held' = {}
  /\ UNCHANGED <<meta, next_chunk, current_version, tree, op, scan, crashes>>

\* ... then the meta file is emptied and mapped, and gets version 1.
OpenMeta ==
  /\ up = "meta" /\ up' = "version"
  /\ meta' = [exists |-> TRUE, version |-> 0]
  /\ UNCHANGED <<backing, hdr, process, used, crashes>>

FirstVersion ==
  /\ up = "version" /\ up' = "activate"
  /\ meta' = [meta EXCEPT !.version = 1]
  /\ current_version' = 0
  /\ UNCHANGED <<backing, hdr, next_chunk, tree, held, op, scan, used, crashes>>

\* activate_more_chunks(INITIAL_ARENAS)
ActivateInitial ==
  /\ up = "activate" /\ up' = "headers"
  /\ backing' = INITIAL_ARENAS
  /\ next_chunk' = INITIAL_ARENAS
  /\ UNCHANGED <<meta, hdr, current_version, tree, held, op, scan, used, crashes>>

\* The next of the first chunks gets its header, in the state INITIALIZING.
WriteHeader ==
  /\ up = "headers"
  /\ \E c \in Chunk :
       /\ c < INITIAL_ARENAS /\ hdr[c] = Zero /\ \A d \in 0 .. c - 1 : hdr[d] # Zero
       /\ hdr' = [hdr EXCEPT ![c] = [Zero EXCEPT !.usage = "ARENA"]]
       /\ up' = IF c = INITIAL_ARENAS - 1 THEN "mark" ELSE "headers"
  /\ UNCHANGED <<backing, meta, process, used, crashes>>

\* Then they are marked INITIALIZED one after the other and the arenas made.
MarkHeader ==
  /\ up = "mark"
  /\ LET left == {c \in Chunk : c < INITIAL_ARENAS /\ ~hdr[c].ready}
         c == Min(left)
     IN /\ hdr' = [hdr EXCEPT ![c].ready = TRUE]
        /\ up' = IF left = {c} THEN "ready" ELSE "mark"
  /\ UNCHANGED <<backing, meta, process, used, crashes>>

\* A restart: this process takes the version in the file and adds one ...
BumpVersion ==
  /\ up = "bump" /\ up' = "walk"
  /\ current_version' = meta.version
  /\ meta' = [meta EXCEPT !.version = @ + 1]
  /\ UNCHANGED <<backing, hdr, next_chunk, tree, held, op, scan, used, crashes>>

\* ... and starts the walk when the log is replayed.
StartWalk ==
  /\ up = "walk" /\ up' = "ready"
  /\ scan' = [i |-> 0, n |-> next_chunk]
  /\ UNCHANGED <<backing, meta, hdr, next_chunk, current_version, tree, held, op, used, crashes>>

Initialize ==
  \/ \E recover \in BOOLEAN : nvm_initialize(recover)
  \/ OpenBacking \/ OpenMeta \/ FirstVersion \/ ActivateInitial
  \/ WriteHeader \/ MarkHeader \/ BumpVersion \/ StartWalk

-----------------------------------------------------------------------------
(* Chunks for the application. *)

At(t, step) == up = "ready" /\ op[t].at = step
Set(t, o) == op' = [op EXCEPT ![t] = o]
quiet == <<up, meta, current_version, used, crashes>>

\* The file grows and the chunks are mapped; too many, and the process exits.
activate_more_chunks(t, n, then) ==
  IF next_chunk + n > MaxChunks
  THEN up' = "exited" /\ UNCHANGED <<backing, next_chunk, op>>
  ELSE /\ backing' = next_chunk + n /\ next_chunk' = next_chunk + n
       /\ Set(t, then) /\ UNCHANGED up

\* arena_add_chunk: a chunk is mapped ...
AddChunk(t) ==
  /\ At(t, "idle")
  /\ activate_more_chunks(t, 1, [Idle EXCEPT !.at = "arena", !.chunk = next_chunk])
  /\ UNCHANGED <<meta, current_version, used, crashes, hdr, tree, held, scan>>

\* ... and its header written, first INITIALIZING, then INITIALIZED.
ArenaHeader(t) ==
  /\ At(t, "arena")
  /\ LET c == op[t].chunk
         fresh == hdr[c] = Zero
     IN /\ hdr' = [hdr EXCEPT ![c] = [usage |-> "ARENA", ready |-> ~fresh, n |-> 0]]
        /\ Set(t, IF fresh THEN op[t] ELSE Idle)
  /\ UNCHANGED <<quiet, backing, next_chunk, tree, held, scan>>

\* tree_upper_bound: a smallest free region that is large enough.
Fit(n) == {r \in tree : r[2] >= n /\ \A q \in tree : q[2] >= n => r[2] <= q[2]}

\* nvm_reserve of a huge object: a region is taken out of the tree under
\* chunk_mtx, or new chunks are asked for once it is released.
Reserve(t) ==
  /\ At(t, "idle")
  /\ \E n \in Sizes :
       IF Fit(n) = {} THEN Set(t, [Idle EXCEPT !.at = "new", !.want = n]) /\ UNCHANGED tree
       ELSE \E r \in Fit(n) : /\ tree' = tree \ {r}
                              /\ Set(t, [Idle EXCEPT !.at = "split", !.want = n, !.huge = r])
  /\ UNCHANGED <<quiet, backing, next_chunk, hdr, held, scan>>

\* nvm_reserve_huge: new chunks ...
ReserveNew(t) ==
  /\ At(t, "new")
  /\ activate_more_chunks(t, op[t].want,
                          [op[t] EXCEPT !.at = "header", !.chunk = next_chunk])
  /\ UNCHANGED <<meta, current_version, used, crashes, hdr, tree, held, scan>>

\* ... and their header.
HugeHeader(t) ==
  /\ At(t, "header")
  /\ LET c == op[t].chunk
     IN /\ hdr' = [hdr EXCEPT ![c] = [usage |-> "HUGE", ready |-> FALSE, n |-> op[t].want]]
        /\ held' = held \union {<<c, op[t].want>>}
  /\ Set(t, Idle)
  /\ UNCHANGED <<quiet, backing, next_chunk, tree, scan>>

\* A region of the right size is used as it is, of a larger one the end.
Split(t) ==
  /\ At(t, "split")
  /\ LET r == op[t].huge
         n == op[t].want
         c == r[1] + r[2] - n
     IN IF r[2] = n THEN held' = held \union {r} /\ Set(t, Idle) /\ UNCHANGED hdr
        ELSE /\ hdr' = [hdr EXCEPT ![c] = [usage |-> "FREE", ready |-> TRUE, n |-> n]]
             /\ Set(t, [op[t] EXCEPT !.at = "shrink", !.chunk = c])
             /\ UNCHANGED held
  /\ UNCHANGED <<quiet, backing, next_chunk, tree, scan>>

\* Mutant of Shrink: the rest keeps its size in the tree.
ShrinkNot(t) ==
  /\ At(t, "shrink")
  /\ hdr' = [hdr EXCEPT ![op[t].huge[1]].n = @ - op[t].want]
  /\ tree' = tree \union {op[t].huge}
  /\ held' = held \union {<<op[t].chunk, op[t].want>>}
  /\ Set(t, Idle)
  /\ UNCHANGED <<quiet, backing, next_chunk, scan>>

\* The rest is shrunk and put back.
Shrink(t) ==
  /\ At(t, "shrink")
  /\ hdr' = [hdr EXCEPT ![op[t].huge[1]].n = @ - op[t].want]
  /\ tree' = tree \union {<<op[t].huge[1], op[t].huge[2] - op[t].want>>}
  /\ held' = held \union {<<op[t].chunk, op[t].want>>}
  /\ Set(t, Idle)
  /\ UNCHANGED <<quiet, backing, next_chunk, scan>>

\* nvm_activate and nvm_free of a huge region.
Activate(t) ==
  /\ At(t, "idle")
  /\ \E r \in held : /\ hdr[r[1]].usage # "HUGE" \/ ~hdr[r[1]].ready
                     /\ hdr' = [hdr EXCEPT ![r[1]] = [@ EXCEPT !.usage = "HUGE", !.ready = TRUE]]
  /\ UNCHANGED <<quiet, process, backing>>

Free(t) ==
  /\ At(t, "idle")
  /\ \E r \in held : /\ hdr[r[1]].usage = "HUGE" /\ hdr[r[1]].ready
                     /\ hdr' = [hdr EXCEPT ![r[1]].usage = "FREE"]
                     /\ held' = held \ {r}
                     /\ tree' = tree \union {<<r[1], hdr[r[1]].n>>}
  /\ UNCHANGED <<quiet, backing, next_chunk, op, scan>>

Call(t) == \/ AddChunk(t) \/ ArenaHeader(t) \/ Reserve(t) \/ ReserveNew(t) \/ HugeHeader(t)
           \/ Split(t) \/ Shrink(t) \/ Activate(t) \/ Free(t)

-----------------------------------------------------------------------------
(* The recovery thread, and the end of a process. *)

\* Mutant of Walk: every chunk is looked at.
WalkEach ==
  /\ up = "ready" /\ scan.i # -1
  /\ scan' = IF scan.i + 1 >= scan.n THEN NoScan ELSE [scan EXCEPT !.i = @ + 1]
  /\ UNCHANGED <<quiet, backing, next_chunk, hdr, tree, held, op>>

\* An arena chunk is looked through, anything else skipped.
Walk ==
  /\ up = "ready" /\ scan.i # -1
  /\ LET i == scan.i + (IF hdr[scan.i].usage = "ARENA" THEN 1 ELSE hdr[scan.i].n)
     IN scan' = IF i >= scan.n THEN NoScan ELSE [scan EXCEPT !.i = i]
  /\ UNCHANGED <<quiet, backing, next_chunk, hdr, tree, held, op>>

\* The volatile state is gone; the application finds its active regions again.
Ends ==
  /\ crashes < MaxCrash /\ crashes' = crashes + 1
  /\ up' = "down"
  /\ held' = {r \in held : hdr[r[1]].usage = "HUGE" /\ hdr[r[1]].ready}
  /\ used' = IF up \in {"ready", "exited"} THEN used \union {current_version} ELSE used
  /\ tree' = {} /\ op' = [t \in Thread |-> Idle] /\ scan' = NoScan
  /\ next_chunk' = 0 /\ current_version' = 0
  /\ UNCHANGED <<backing, meta, hdr>>

Crash == up \notin {"down", "exited"} /\ Ends

\* nvm_teardown, with no call in progress, and the end of a process by exit.
nvm_teardown ==
  /\ up = "ready" /\ \A t \in Thread : op[t] = Idle
  /\ scan = NoScan
  /\ Ends

Exited == up = "exited" /\ Ends

Next == Initialize \/ (\E t \in Thread : Call(t)) \/ Walk \/ Crash \/ nvm_teardown \/ Exited

Spec == Init /\ [][Next]_vars /\ WF_vars(Walk)

-----------------------------------------------------------------------------
(* Properties. *)

Arenas == {<<c, 1>> : c \in {d \in Chunk : hdr[d].usage = "ARENA"}}
InCall == {op[t].huge : t \in {u \in Thread : op[u].at \in {"split", "shrink"}}}
            \union {<<op[t].chunk, op[t].want>> : t \in {u \in Thread : op[u].at = "header"}}

TypeOK ==
  /\ backing \in -1 .. MaxChunks
  /\ next_chunk \in 0 .. MaxChunks
  /\ hdr \in [Chunk -> [usage : {"DEFAULT", "ARENA", "HUGE", "FREE"}, ready : BOOLEAN,
                        n : 0 .. MaxChunks]]
  /\ tree \union held \subseteq Chunk \X (1 .. MaxChunks)

\* nvm_reserve: no chunk belongs to two of the arenas, the regions that the
\* application holds, the free regions of the tree, and the regions that a call
\* has taken out of it; and none of them is beyond what the file has.
NoOverlap ==
  LET all == Arenas \union held \union tree \union InCall
  IN up = "ready" =>
       /\ \A q, r \in all : q # r => Chunks(q) \intersect Chunks(r) = {}
       /\ \A r \in all : Chunks(r) \subseteq 0 .. backing - 1
       /\ held \intersect (tree \union InCall) = {}
       /\ next_chunk = backing /\ backing <= MaxChunks

\* nvm_initialize: no process works with a version that an earlier process
\* wrote to a run header, wherever it was killed, so that a VHeader pointer of
\* an earlier process is never taken for one of this process.
VersionIsFresh == up = "ready" => current_version \notin used

\* nvm_recovery_thread: the walk never stands inside a region, where it would
\* take data for a header, whatever nvm_reserve does to the sizes of the regions
\* before and during the walk.
WalkOnHeaders ==
  scan.i # -1 => \A r \in held \union tree : scan.i \in Chunks(r) => scan.i = r[1]

\* The walk stands on a chunk of zeros, which it skips by 0 chunks.
HeldUp == scan.i # -1 /\ hdr[scan.i] = Zero

\* The walk of the recovery thread comes to an end, unless the process does, or
\* it is held up by a chunk of zeros.
WalkEnds == (scan.i # -1) ~> (scan.i = -1 \/ up = "exited" \/ HeldUp)

\* "must be a huge allocation then, so skip it" (nvm_malloc.c:518): a chunk
\* that is no arena has a header that says how many chunks to skip.
SkipsAHugeRegion ==
  scan.i # -1 /\ hdr[scan.i].usage # "ARENA" => hdr[scan.i].n > 0

\* "no chunks were recovered, this is a fresh start so initialize"
\* (nvm_malloc.c:88): nvm_initialize always comes up.
StartIsPossible == up = "exited" => next_chunk > 0

====
