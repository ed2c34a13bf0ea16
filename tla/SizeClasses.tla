----------------------------- MODULE SizeClasses -----------------------------
(***************************************************************************)
(* From a requested size to a place, and from a pointer back to the kind   *)
(* of object it points to: the arithmetic of nvm_reserve, arena_allocate,  *)
(* arena_free, nvm_free, identify_usage and clflush_range.                 *)
(***************************************************************************)
EXTENDS Integers, FiniteSets

CONSTANTS
  LINE,        \* CACHE_LINE_SIZE, the size of every header
  BLOCK_SIZE, CHUNK_SIZE,
  BITMAP,      \* bits of the bitmap of a run
  Space,       \* chunks of the heap
  Requests     \* sizes asked for

VARIABLES
  kind,   \* what was placed last: "run", "block", "huge" or "none"
  asked,  \* the bytes asked for
  ptr,    \* its address, relative to the start of the heap
  room    \* the bytes up to the end of its slot, block or region

vars == <<kind, asked, ptr, room>>

SCLASS_SMALL_MAX == BLOCK_SIZE \div 2 - LINE
SCLASS_LARGE_MAX == CHUNK_SIZE \div 2 - LINE
NUM_ARENA_BINS == SCLASS_SMALL_MAX \div LINE
ChunkPages == CHUNK_SIZE \div BLOCK_SIZE

\* Cut down to a multiple, and one more unless it was one.
RoundUp(n, m) == m * (n \div m) + (IF n % m # 0 THEN m ELSE 0)

NSlots(size) == (BLOCK_SIZE - LINE) \div size

Init == kind = "none" /\ asked = 0 /\ ptr = 0 /\ room = 0

\* A slot of a run; the first page of a chunk is the chunk header.
AllocateSmall(n) ==
  \E c \in 0..(Space - 1), p \in 1..(ChunkPages - 1) :
    LET size == RoundUp(n, LINE) IN
    \E i \in 0..(NSlots(size) - 1) :
      /\ kind' = "run"
      /\ ptr' = c * CHUNK_SIZE + p * BLOCK_SIZE + LINE + size * i
      /\ room' = size

AllocateLarge(n) ==
  \E c \in 0..(Space - 1), p \in 1..(ChunkPages - 1) :
    LET size == RoundUp(n, BLOCK_SIZE) IN
    /\ p + size \div BLOCK_SIZE <= ChunkPages
    /\ kind' = "block"
    /\ ptr' = c * CHUNK_SIZE + p * BLOCK_SIZE + LINE
    /\ room' = size - LINE

AllocateHuge(n) ==
  \E c \in 0..(Space - 1) :
    LET n_chunks == (n + LINE + CHUNK_SIZE) \div CHUNK_SIZE IN
    /\ c + n_chunks <= Space
    /\ kind' = "huge" /\ ptr' = c * CHUNK_SIZE + LINE /\ room' = n_chunks * CHUNK_SIZE - LINE

nvm_reserve(n) ==
  /\ asked' = n
  /\ IF n <= SCLASS_LARGE_MAX
     THEN IF n <= SCLASS_SMALL_MAX THEN AllocateSmall(n) ELSE AllocateLarge(n)
     ELSE AllocateHuge(n)

Next == \E n \in Requests : nvm_reserve(n)

Spec == Init /\ [][Next]_vars

-----------------------------------------------------------------------------

\* Mutant of identify_usage: a run is taken for a block.
identify_usage_strict(rel_ptr) ==
  IF rel_ptr % CHUNK_SIZE = LINE THEN "huge"
  ELSE IF rel_ptr % BLOCK_SIZE > LINE THEN "run"
  ELSE IF rel_ptr % BLOCK_SIZE = LINE THEN "block"
  ELSE "wrong"

\* Whether the header of the block is a run's is what it reads.
identify_usage(rel_ptr) ==
  IF rel_ptr % CHUNK_SIZE = LINE THEN "huge"
  ELSE IF rel_ptr % BLOCK_SIZE > LINE THEN "run"
  ELSE IF rel_ptr % BLOCK_SIZE = LINE THEN (IF kind = "run" THEN "run" ELSE "block")
  ELSE "wrong"

\* arena_free: the block header and the slot of a pointer into a run.
BlockOf(rel_ptr) == rel_ptr - (rel_ptr % BLOCK_SIZE)
BitIdx(rel_ptr, size) == (rel_ptr - BlockOf(rel_ptr) - LINE) \div size

\* The addresses that the loop hands to clflush.  (What clflush then flushes is
\* the line of its own parameter: its operand is ptr, not *ptr.)
clflush_range(p, len) == {l \in (p - (p % LINE))..(p + len - 1) : l % LINE = 0}

-----------------------------------------------------------------------------
(* Properties.                                                              *)

\* A run or a huge region has room for the bytes asked for, and what starts in
\* a run lies in its block, in a bin that exists, at a bit of the bitmap.
PlacedWhole ==
  /\ kind \in {"run", "huge"} => asked <= room
  /\ kind = "run" =>
       /\ (ptr % BLOCK_SIZE) + room <= BLOCK_SIZE
       /\ room \div LINE \in 1..NUM_ARENA_BINS
       /\ BitIdx(ptr, room) \in 0..(BITMAP - 1)
       /\ ptr = BlockOf(ptr) + LINE + room * BitIdx(ptr, room)

\* The kind identify_usage and nvm_free work out from the address is the kind
\* that was placed there, wherever it was placed.
KindIsRecovered == kind # "none" => identify_usage(ptr) = kind

\* The loop of nvm_persist calls clflush for exactly the lines that the bytes lie
\* on, also when they do not start on a line.
LoopVisitsLines ==
  kind # "none" =>
    \A len \in 1..asked, off \in {0, 1} :
      {l \div LINE : l \in clflush_range(ptr + off, len)}
        = {b \div LINE : b \in (ptr + off)..(ptr + off + len - 1)}

\* nvm_reserve returns as many bytes as were asked for, for large objects too:
\* "a unique string identifier is passed to nvm_malloc along with the requested
\* size" (README.md, line 68).  The size of a large object is rounded up to
\* whole pages before its header is taken off.
RequestFits == kind # "none" => asked <= room
=============================================================================
