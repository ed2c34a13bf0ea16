------------------------------- MODULE Bitmap -------------------------------
(***************************************************************************)
(* The bitmaps of ulib (base/bitmap.c, base/bitmap.h, the bit searches of  *)
(* base/math_bit.h): an array of words holds a set of bits, and the bits   *)
(* of the last word that are not part of the bitmap are "don't care".      *)
(* A word is the set of its bits that are set.  The ghost s is the set the *)
(* bitmap stands for.                                                      *)
(***************************************************************************)
EXTENDS Integers, Sequences, FiniteSets, FiniteSetsExt

CONSTANTS
  W,         \* BITS_PER_LONG
  N,         \* bits of the bitmap, a compile-time constant
  CHUNKSZ,   \* bits that are printed as one group
  Other,     \* second operands: sets of bits, unused ones may be among them
  Junk       \* whether unused bits may be set

VARIABLES m, s

vars == <<m, s>>

Word == 0..(W - 1)
BITS_TO_LONGS(n) == (n + W - 1) \div W
Words == 0..(BITS_TO_LONGS(N) - 1)
Lim == N \div W
ToWords(S) == [k \in Words |-> {b \in Word : k * W + b \in S}]
Bits(x) == {i \in 0..(N - 1) : (i % W) \in x[i \div W]}
small_const_nbits == N <= W

BITMAP_LAST_WORD_MASK(n) == IF n % W # 0 THEN 0..((n % W) - 1) ELSE Word
BITMAP_FIRST_WORD_MASK(start) == (start % W)..(W - 1)
Shl(x, n) == {b + n : b \in x} \cap Word
Shr(x, n) == {b - n : b \in x} \cap Word

-----------------------------------------------------------------------------
(* Single bits and searches.                                                *)

set_bit(i, x) == [x EXCEPT ![i \div W] = @ \cup {i % W}]
clear_bit(i, x) == [x EXCEPT ![i \div W] = @ \ {i % W}]
change_bit(i, x) == [x EXCEPT ![i \div W] = IF i % W \in @ THEN @ \ {i % W} ELSE @ \cup {i % W}]
test_bit(i, x) == i % W \in x[i \div W]

\* The words from the one of the offset on, the first without the bits below the
\* offset and the last without those from size on; the lowest bit of the first
\* that is not empty.
FirstIn(Bit(_), size, offset) ==
  LET left == [k \in (offset \div W)..((size - 1) \div W) |->
                 {b \in Word : /\ Bit(k)[b]
                               /\ k = offset \div W => b >= offset % W
                               /\ k = size \div W => b < size % W}]
      hits == {k \in DOMAIN left : left[k] # {}}
  IN  IF offset >= size \/ hits = {} THEN size
      ELSE Min(hits) * W + Min(left[Min(hits)])

find_next_bit(x, size, offset) ==
  LET Set(k) == [b \in Word |-> b \in x[k]] IN FirstIn(Set, size, offset)
find_next_zero_bit(x, size, offset) ==
  LET Zero(k) == [b \in Word |-> b \notin x[k]] IN FirstIn(Zero, size, offset)
find_first_bit(x, size) == find_next_bit(x, size, 0)
find_first_zero_bit(x, size) == find_next_zero_bit(x, size, 0)

RECURSIVE BitsFrom(_, _)
BitsFrom(x, i) == IF i >= N THEN <<>> ELSE <<i>> \o BitsFrom(x, find_next_bit(x, N, i + 1))
for_each_set_bit(x) == BitsFrom(x, find_first_bit(x, N))

-----------------------------------------------------------------------------
(* Whole bitmaps.                                                           *)

\* Every word of Rel, the last one under its mask.
AllWords(Rel(_)) ==
  /\ \A k \in 0..(Lim - 1) : Rel(k) = {}
  /\ N % W # 0 => Rel(Lim) \cap BITMAP_LAST_WORD_MASK(N) = {}

bitmap_empty(x) == LET R(k) == x[k] IN AllWords(R)
bitmap_full(x) == LET R(k) == Word \ x[k] IN AllWords(R)
bitmap_equal(x, y) == LET R(k) == (x[k] \ y[k]) \cup (y[k] \ x[k]) IN AllWords(R)
bitmap_intersects(x, y) == LET R(k) == x[k] \cap y[k] IN ~AllWords(R)
bitmap_subset(x, y) == LET R(k) == x[k] \ y[k] IN AllWords(R)
bitmap_weight(x) ==
  MapThenSumSet(LAMBDA k : Cardinality(x[k]), 0..(Lim - 1)) +
  (IF N % W # 0 THEN Cardinality(x[Lim] \cap BITMAP_LAST_WORD_MASK(N)) ELSE 0)

bitmap_zero == [k \in Words |-> {}]
bitmap_fill == [k \in Words |-> IF k = BITS_TO_LONGS(N) - 1 THEN BITMAP_LAST_WORD_MASK(N) ELSE Word]
bitmap_copy(x) == x
bitmap_and(x, y) == [k \in Words |-> x[k] \cap y[k]]
bitmap_and_any(x, y) == \E k \in Words : x[k] \cap y[k] # {}
bitmap_or(x, y) == [k \in Words |-> x[k] \cup y[k]]
bitmap_xor(x, y) == [k \in Words |-> (x[k] \ y[k]) \cup (y[k] \ x[k])]
bitmap_andnot(x, y) == [k \in Words |-> x[k] \ y[k]]
bitmap_complement(x) ==
  [k \in Words |-> IF k < Lim THEN Word \ x[k] ELSE (Word \ x[k]) \cap BITMAP_LAST_WORD_MASK(N)]

\* Without the bits above the last one, where the word is the last of several.
Cut(x, k) == IF N % W # 0 /\ k = BITS_TO_LONGS(N) - 1 THEN x \cap BITMAP_LAST_WORD_MASK(N) ELSE x

\* Mutant of bitmap_shift_right: the bits past the end are not cut off.
bitmap_shift_right_whole(x, shift) ==
  LET off == shift \div W
      rem == shift % W
      Upper(k) == IF rem = 0 \/ off + k + 1 \notin Words THEN {} ELSE x[off + k + 1]
  IN  [k \in Words |-> IF off + k \in Words
                       THEN Shl(Upper(k), W - rem) \cup Shr(x[off + k], rem) ELSE {}]

bitmap_shift_right(x, shift) ==
  LET off == shift \div W
      rem == shift % W
      Upper(k) == IF rem = 0 \/ off + k + 1 \notin Words THEN {} ELSE Cut(x[off + k + 1], off + k + 1)
  IN  IF small_const_nbits THEN [k \in Words |-> Shr(x[k], shift)]
      ELSE [k \in Words |->
              IF off + k \in Words
              THEN Cut(Shl(Upper(k), W - rem) \cup Shr(Cut(x[off + k], off + k), rem), k)
              ELSE {}]

bitmap_shift_left(x, shift) ==
  LET off == shift \div W
      rem == shift % W
      Lower(k) == IF rem # 0 /\ k > 0 THEN x[k - 1] ELSE {}
  IN  IF small_const_nbits THEN [k \in Words |-> Shl(x[k], shift) \cap BITMAP_LAST_WORD_MASK(N)]
      ELSE [k \in Words |->
              IF k >= off
              THEN Cut(Shr(Lower(k - off), W - rem) \cup Shl(Cut(x[k - off], k - off), rem), k)
              ELSE {}]

-----------------------------------------------------------------------------
(* Areas and regions.                                                       *)

\* From word p on, nr bits to go, of which the mask's are in this word.
RECURSIVE OverArea(_, _, _, _, _, _)
OverArea(Op(_, _), x, p, nr, mask, size) ==
  IF nr - Cardinality(mask) >= 0
  THEN LET y == [x EXCEPT ![p] = Op(@, mask)] IN
       IF nr = Cardinality(mask) THEN y
       ELSE OverArea(Op, y, p + 1, nr - Cardinality(mask), Word, size)
  ELSE IF nr = 0 THEN x
  ELSE [x EXCEPT ![p] = Op(@, mask \cap BITMAP_LAST_WORD_MASK(size))]

bitmap_set(x, start, nr) ==
  LET Or(w, mask) == w \cup mask
  IN  OverArea(Or, x, start \div W, nr, BITMAP_FIRST_WORD_MASK(start), start + nr)
bitmap_clear(x, start, nr) ==
  LET AndNot(w, mask) == w \ mask
  IN  OverArea(AndNot, x, start \div W, nr, BITMAP_FIRST_WORD_MASK(start), start + nr)

RECURSIVE bitmap_find_next_zero_area(_, _, _, _)
bitmap_find_next_zero_area(x, start, nr, align) ==
  LET z == find_next_zero_bit(x, N, start)
      index == align * ((z + align - 1) \div align)
      end == index + nr
      i == find_next_bit(x, end, index)
  IN  IF end > N THEN end
      ELSE IF i < end THEN bitmap_find_next_zero_area(x, i + 1, nr, align) ELSE index

\* __reg_op: the words of a region of 2^order bits, and its mask in each.
Region(pos, order) == (pos \div W)..(pos \div W + BITS_TO_LONGS(2^order) - 1)
RegionMask(pos, order) ==
  {b \in Word : pos % W <= b /\ b < (pos % W) + Min({2^order, W})}
RegionIsFree(x, pos, order) ==
  \A k \in Region(pos, order) : x[k] \cap RegionMask(pos, order) = {}
RegionAlloc(x, pos, order) ==
  [k \in Words |-> IF k \in Region(pos, order) THEN x[k] \cup RegionMask(pos, order) ELSE x[k]]

bitmap_release_region(x, pos, order) ==
  [k \in Words |-> IF k \in Region(pos, order) THEN x[k] \ RegionMask(pos, order) ELSE x[k]]

\* The regions in order, up to the first that is free; -1 for -ENOMEM.
bitmap_find_free_region(x, order) ==
  LET free == {pos \in 0..(N - 2^order) : pos % 2^order = 0 /\ RegionIsFree(x, pos, order)}
  IN  IF free = {} THEN -1 ELSE Min(free)

-----------------------------------------------------------------------------
(* Mapping bits.                                                            *)

bitmap_pos_to_ord(x, pos) ==
  IF pos \notin 0..(N - 1) \/ ~test_bit(pos, x) THEN -1
  ELSE LET q == for_each_set_bit(x) IN Cardinality({j \in DOMAIN q : q[j] < pos})

bitmap_ord_to_pos(x, ord) ==
  LET q == for_each_set_bit(x)
  IN  IF ord \in 0..(N - 1) /\ ord < Len(q) THEN q[ord + 1] ELSE 0

bitmap_bitremap(oldbit, old, new) ==
  LET w == bitmap_weight(new)
      n == bitmap_pos_to_ord(old, oldbit)
  IN  IF n < 0 \/ w = 0 THEN oldbit ELSE bitmap_ord_to_pos(new, n % w)

SetBits(P) == ToWords(P)
Each(x) == {for_each_set_bit(x)[j] : j \in DOMAIN for_each_set_bit(x)}

bitmap_remap(src, old, new) == SetBits({bitmap_bitremap(i, old, new) : i \in Each(src)})
bitmap_onto(orig, relmap) ==
  LET q == for_each_set_bit(relmap) IN SetBits({q[j] : j \in {j \in DOMAIN q : test_bit(j - 1, orig)}})
bitmap_fold(orig, sz) == SetBits({i % sz : i \in Each(orig)})

-----------------------------------------------------------------------------
(* Text.  Groups of digits are the sets of bits they stand for; a list is a  *)
(* sequence of ranges.                                                      *)

\* The groups from the most significant down, the first of what is left.
bitmap_snprintf(x) ==
  LET top == CHUNKSZ * ((N + CHUNKSZ - 1) \div CHUNKSZ) - CHUNKSZ
      first == IF N % CHUNKSZ = 0 THEN CHUNKSZ ELSE N % CHUNKSZ
  IN  [g \in 1..(top \div CHUNKSZ + 1) |->
         LET i == top - (g - 1) * CHUNKSZ
         IN  Shr(x[i \div W], i % W) \cap 0..((IF g = 1 THEN first ELSE CHUNKSZ) - 1)]

Failed == <<>>    \* -EINVAL, -ERANGE, -EOVERFLOW

fls(chunk) == IF chunk = {} THEN 0 ELSE Max(chunk) + 1

\* Leading groups of zeroes are passed over.
RECURSIVE ParseFrom(_, _, _, _)
ParseFrom(groups, x, nchunks, nbits) ==
  IF groups = <<>> THEN x
  ELSE LET chunk == Head(groups)
           more == nbits + (IF nchunks = 0 THEN fls(chunk) ELSE CHUNKSZ)
           y == bitmap_shift_left(x, CHUNKSZ)
       IN  IF nchunks = 0 /\ chunk = {} THEN ParseFrom(Tail(groups), x, 0, nbits)
           ELSE IF more > N THEN Failed
           ELSE ParseFrom(Tail(groups), [y EXCEPT ![0] = @ \cup chunk], nchunks + 1, more)
__bitmap_parse(groups) == ParseFrom(groups, bitmap_zero, 0, 0)

RECURSIVE ListFrom(_, _, _)
ListFrom(x, rbot, cur) ==
  IF cur >= N THEN <<>>
  ELSE LET next == find_next_bit(x, N, cur + 1)
       IN  IF next >= N \/ next > cur + 1 THEN <<<<rbot, cur>>>> \o ListFrom(x, next, next)
           ELSE ListFrom(x, rbot, next)
bitmap_snlistprintf(x) == ListFrom(x, find_first_bit(x, N), find_first_bit(x, N))

\* An empty text is invalid.
bitmap_parselist(ranges) ==
  IF ranges = <<>> \/ \E j \in DOMAIN ranges : ranges[j][1] > ranges[j][2] \/ ranges[j][2] >= N
  THEN Failed
  ELSE SetBits(UNION {ranges[j][1]..ranges[j][2] : j \in DOMAIN ranges})

-----------------------------------------------------------------------------
(* A bitmap and what is done to it.                                         *)

Init ==
  /\ s = {}
  /\ m \in IF Junk THEN {ToWords(J) : J \in SUBSET (N..(W * BITS_TO_LONGS(N) - 1))} ELSE {bitmap_zero}

Becomes(x, S) == m' = x /\ s' = S

Bit(i) ==
  \/ Becomes(set_bit(i, m), s \cup {i})
  \/ Becomes(clear_bit(i, m), s \ {i})
  \/ Becomes(change_bit(i, m), (s \ {i}) \cup ({i} \ s))

Whole(O) ==
  LET y == ToWords(O)
      t == O \cap 0..(N - 1)
  IN  \/ Becomes(bitmap_copy(y), t)
      \/ Becomes(bitmap_and(m, y), s \cap t)
      \/ Becomes(bitmap_or(m, y), s \cup t)
      \/ Becomes(bitmap_xor(m, y), (s \ t) \cup (t \ s))
      \/ Becomes(bitmap_andnot(m, y), s \ t)
      \/ Becomes(bitmap_onto(m, y), {i \in t : Cardinality({j \in t : j < i}) \in s})

Alone ==
  \/ Becomes(bitmap_zero, {})
  \/ Becomes(bitmap_fill, 0..(N - 1))
  \/ Becomes(bitmap_complement(m), 0..(N - 1) \ s)

Shift(n) ==
  \/ Becomes(bitmap_shift_right(m, n), {i - n : i \in s} \cap 0..(N - 1))
  \/ Becomes(bitmap_shift_left(m, n), {i + n : i \in s} \cap 0..(N - 1))
  \/ n > 0 /\ Becomes(bitmap_fold(m, n), {i % n : i \in s})

Area(start, nr) ==
  /\ start + nr <= N
  /\ \/ Becomes(bitmap_set(m, start, nr), s \cup start..(start + nr - 1))
     \/ Becomes(bitmap_clear(m, start, nr), s \ (start..(start + nr - 1)))

\* bitmap_find_free_region and bitmap_allocate_region (of any free region), and
\* bitmap_release_region.
Regions(pos, order) ==
  LET R == pos..(pos + 2^order - 1) IN
  /\ pos % 2^order = 0 /\ pos + 2^order <= N
  /\ \/ RegionIsFree(m, pos, order) /\ Becomes(RegionAlloc(m, pos, order), s \cup R)
     \/ Becomes(bitmap_release_region(m, pos, order), s \ R)

Next ==
  \/ \E i \in 0..(N - 1) : Bit(i)
  \/ \E O \in Other : Whole(O)
  \/ Alone
  \/ \E n \in 0..(N - 1) : Shift(n)
  \/ \E start \in 0..(N - 1), nr \in 0..N : Area(start, nr)
  \/ \E pos \in 0..(N - 1), order \in 0..3 : Regions(pos, order)

Spec == Init /\ [][Next]_vars

-----------------------------------------------------------------------------
(* Properties.                                                              *)

\* Whatever the sequence of operations, the words hold the set they should,
\* and no value of the unused bits has changed that.
MapIsSet == Bits(m) = s

\* Bitmaps without unused bits set stay without: "if you don't input any
\* bitmaps to these ops that have some unused bits set, then they won't output
\* any set unused bits" (bitmap.c, lines 52-55).
UnusedStayClear == ~Junk => m = ToWords(s)

\* Questions get the answer for the set, whatever the unused bits are.
QuestionsAnswered ==
  /\ bitmap_empty(m) <=> s = {}
  /\ bitmap_full(m) <=> s = 0..(N - 1)
  /\ bitmap_weight(m) = Cardinality(s)
  /\ \A O \in Other :
       LET t == O \cap 0..(N - 1) IN
       /\ bitmap_equal(m, ToWords(O)) <=> s = t
       /\ bitmap_intersects(m, ToWords(O)) <=> s \cap t # {}
       /\ bitmap_subset(m, ToWords(O)) <=> s \subseteq t
       /\ t # {} => Bits(bitmap_remap(m, m, ToWords(O))) =
                      {i \in t : Cardinality({j \in t : j < i}) < Cardinality(s)}

\* Searches find the first bit, area or region there is from where they start.
SearchesFindFirst ==
  /\ find_first_zero_bit(m, N) = IF s = 0..(N - 1) THEN N ELSE Min(0..(N - 1) \ s)
  /\ \A i \in 0..N :
       LET ones == {j \in s : j >= i}
           zeroes == {j \in 0..(N - 1) : j >= i /\ j \notin s}
       IN  /\ find_next_bit(m, N, i) = IF ones = {} THEN N ELSE Min(ones)
           /\ find_next_zero_bit(m, N, i) = IF zeroes = {} THEN N ELSE Min(zeroes)
           /\ \A nr \in 1..4, align \in {1, 2, 4} :
                LET areas == {j \in i..(N - nr) : j % align = 0 /\ j..(j + nr - 1) \cap s = {}}
                    found == bitmap_find_next_zero_area(m, i, nr, align)
                IN  IF areas = {} THEN found > N - nr ELSE found = Min(areas)
           /\ \A order \in 0..3 :
                LET free == {j \in 0..(N - 2^order) : j % 2^order = 0 /\ j..(j + 2^order - 1) \cap s = {}}
                IN  bitmap_find_free_region(m, order) = IF free = {} THEN -1 ELSE Min(free)

\* The n-th bit set and the number of a bit set are inverse to each other.
OrdinalsInvert ==
  /\ \A i \in s : bitmap_ord_to_pos(m, bitmap_pos_to_ord(m, i)) = i
  /\ \A n \in 0..(Cardinality(s) - 1) : bitmap_pos_to_ord(m, bitmap_ord_to_pos(m, n)) = n

\* What is printed, as groups of digits or as a list, is read back as the same
\* bits; the empty list is the one text that is not.
PrintedIsParsed ==
  /\ LET x == __bitmap_parse(bitmap_snprintf(m)) IN x # Failed /\ Bits(x) = s
  /\ s # {} => LET x == bitmap_parselist(bitmap_snlistprintf(m)) IN x # Failed /\ Bits(x) = s

\* "The implementation ... ensures that their value will not affect the results
\* of any operation" (bitmap.c, lines 44-46), for the result of bitmap_and.
UnusedDoNotAnswer ==
  \A O \in Other : bitmap_and_any(m, ToWords(O)) <=> s \cap O \cap 0..(N - 1) # {}
=============================================================================
