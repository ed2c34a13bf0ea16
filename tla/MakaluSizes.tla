----------------------------- MODULE MakaluSizes -----------------------------
(***************************************************************************)
(* Sizes and addresses of Makalu's small objects: the size map that is     *)
(* filled on demand (makalu_malloc.c, makalu_init.c), where the objects of *)
(* a block lie, how MAK_free and the marker find an object from a pointer  *)
(* into its block (makalu_hdr.c, makalu_mark.h), and the scratch allocator *)
(* of transient memory (makalu_transient.c).                               *)
(***************************************************************************)
EXTENDS Integers, Sequences, FiniteSets, FiniteSetsExt

CONSTANTS
  GRANULE_BYTES, HBLK_GRANULES, MAXOBJGRANULES, TINY_FREELISTS,
  WORD,          \* bytes of a word
  Requests,      \* sizes asked for
  ScratchUnit,   \* MINHINCR * HBLKSIZE
  ScratchSizes,  \* sizes asked of the scratch allocator
  MaxScratch     \* pieces of scratch memory

VARIABLES
  size_map,     \* MAK_size_map: bytes -> granules, 0 when not filled in
  free_ptr, end_ptr,   \* MAK_transient_scratch_free_ptr, ..._end_ptr
  mapped,       \* memory got from the system: the next address, far apart
  given         \* scratch memory handed out: <<address, bytes>>

vars == <<size_map, free_ptr, end_ptr, mapped, given>>
scratch == <<free_ptr, end_ptr, mapped, given>>

HBLKSIZE == HBLK_GRANULES * GRANULE_BYTES
MAXOBJBYTES == MAXOBJGRANULES * GRANULE_BYTES
ROUNDED_UP_GRANULES(n) == (n + GRANULE_BYTES - 1) \div GRANULE_BYTES
HBLK_OBJS(sz) == HBLKSIZE \div sz
Even(n) == 2 * (n \div 2)

MAK_init_size_map ==
  [i \in 0..MAXOBJBYTES |->
     IF i = 0 THEN 1
     ELSE IF i <= (TINY_FREELISTS - 1) * GRANULE_BYTES THEN ROUNDED_UP_GRANULES(i) ELSE 0]

Init ==
  /\ size_map = MAK_init_size_map
  /\ free_ptr = 0 /\ end_ptr = 0 /\ mapped = 1 /\ given = {}

-----------------------------------------------------------------------------
(* The size map.                                                            *)

FirstEmpty(from) == Min({j \in from..MAXOBJBYTES : size_map[j] = 0})

\* The same number of larger objects in a block, if that many fit.
Stretch(g) == Even(HBLK_GRANULES \div (HBLK_GRANULES \div g))

MAK_extend_size_map(i) ==
  LET orig == ROUNDED_UP_GRANULES(i)
      bytes == orig * GRANULE_BYTES
      smaller == bytes - bytes \div 8
      fresh == size_map[smaller] = 0
      low == FirstEmpty(IF fresh THEN bytes - bytes \div 4 ELSE smaller + 1)
      near == ROUNDED_UP_GRANULES(low) + ROUNDED_UP_GRANULES(low) \div 8
      want == Even((IF fresh THEN orig ELSE Max({near, orig})) + 1)
      g == Stretch(Min({want, MAXOBJGRANULES}))
  IN  [j \in DOMAIN size_map |-> IF low <= j /\ j <= g * GRANULE_BYTES THEN g ELSE size_map[j]]

\* MAK_generic_malloc, of a size below MAXOBJBYTES that is not in the map yet.
Extend(i) ==
  /\ size_map[i] = 0
  /\ size_map' = MAK_extend_size_map(i)
  /\ UNCHANGED scratch

-----------------------------------------------------------------------------
(* Objects of a block of objects of g granules; addresses are offsets.       *)

\* Where MAK_build_array_fl finds objects.
MAK_build_array_fl(g) ==
  {p \in 0..(HBLKSIZE - 1) : p % (g * GRANULE_BYTES) = 0 /\ p <= HBLKSIZE - g * GRANULE_BYTES}

\* MAK_hc_base_with_hdr: the object a pointer into it belongs to, or -1.
MAK_hc_base_with_hdr(p, g) ==
  LET sz == g * GRANULE_BYTES
      r == sz * ((p - (p % WORD)) \div sz)
  IN  IF r + sz > HBLKSIZE THEN -1 ELSE r

\* MAK_obj_map: how far into an object a granule of the block is.
MAK_init_object_map(g) == [d \in 0..(HBLK_GRANULES - 1) |-> d % g]

\* Displacements registered at start: the start of an object and its second word.
MAK_valid_offsets == {0, WORD}

\* PUSH_CONTENTS_HDR: the mark bit for a pointer, or -1 if it is passed over.
PushContents(p, g) ==
  LET d == p \div GRANULE_BYTES
      off == MAK_init_object_map(g)[d]
      displ == off * GRANULE_BYTES + (p % GRANULE_BYTES)
  IN  IF displ \in MAK_valid_offsets THEN d - off ELSE -1

\* The bits MAK_clear_hdr_marks leaves set, so that no pointer into the rest of
\* a block is taken for one to an object.
FINAL_MARK_BIT(g) == g * HBLK_OBJS(g * GRANULE_BYTES)

-----------------------------------------------------------------------------
(* Scratch memory.                                                          *)

Rounded(n) == ROUNDED_UP_GRANULES(n) * GRANULE_BYTES
FarApart == 1000000

\* A large request gets memory of its own, another a new unit.
MAK_transient_scratch_alloc(n) ==
  LET b == Rounded(n)
      res == mapped * FarApart
  IN
  IF free_ptr + b <= end_ptr
  THEN /\ free_ptr' = free_ptr + b /\ given' = given \cup {<<free_ptr, b>>}
       /\ UNCHANGED <<end_ptr, mapped>>
  ELSE /\ given' = given \cup {<<res, b>>} /\ mapped' = mapped + 1
       /\ IF ScratchUnit <= b
          THEN UNCHANGED <<free_ptr, end_ptr>>
          ELSE free_ptr' = res + b /\ end_ptr' = res + ScratchUnit

Scratch(n) ==
  /\ Cardinality(given) < MaxScratch
  /\ MAK_transient_scratch_alloc(n)
  /\ UNCHANGED size_map

Next == (\E i \in Requests : Extend(i)) \/ (\E n \in ScratchSizes : Scratch(n))

Spec == Init /\ [][Next]_vars

-----------------------------------------------------------------------------
(* Properties.                                                              *)

\* Whatever the order of requests that filled the map, a size in it is served
\* with objects large enough for it, of a size a block is made for, and not
\* smaller than those of a smaller size (MAK_extend_size_map overwrites what
\* was filled in before).
SizesServed ==
  \A i \in 1..MAXOBJBYTES :
    size_map[i] # 0 =>
      /\ size_map[i] * GRANULE_BYTES >= i
      /\ size_map[i] <= MAXOBJGRANULES
      /\ \A j \in i..MAXOBJBYTES : size_map[j] # 0 => size_map[i] <= size_map[j]

\* MAK_free and the marker agree on the object a pointer belongs to, the mark
\* bits of objects are apart and none is the final bit, and what the marker may
\* take for an object past the last one has the final bit.
PointersFindObjects ==
  \A g \in {size_map[i] : i \in 0..MAXOBJBYTES} \ {0} :
    LET objs == MAK_build_array_fl(g) IN
    /\ Cardinality(objs) = HBLK_OBJS(g * GRANULE_BYTES)
    /\ \A p \in 0..(HBLKSIZE - 1) :
         LET base == MAK_hc_base_with_hdr(p, g)
             bit == PushContents(p, g)
         IN  /\ base \in objs \cup {-1}
             /\ base # -1 => base <= p /\ p < base + g * GRANULE_BYTES
             /\ bit # -1 => IF base # -1 THEN bit * GRANULE_BYTES = base
                            ELSE bit = FINAL_MARK_BIT(g)

\* Pieces of scratch memory do not overlap.
ScratchApart ==
  \A x, y \in given : x # y => x[1] + x[2] <= y[1] \/ y[1] + y[2] <= x[1]
=============================================================================
