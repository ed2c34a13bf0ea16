------------------------------ MODULE Algorithms ------------------------------
(***************************************************************************)
(* The pure algorithms of ulib, each with a small machine that feeds it.   *)
(*                                                                         *)
(* Arrays: the macros of base/heap_prot.h, sort_heap_prot.h and            *)
(* sort_median_prot.h.  An array is a function on 0..n-1; an access        *)
(* outside it is a fault, shown by the empty function.  The machine turns  *)
(* an array into a heap and pushes and pops, as a priority queue would.    *)
(*                                                                         *)
(* Lines: the binary search of base/search_line.c bisects a file by byte   *)
(* offset, reads a window of 2 * maxlen bytes and compares the line that   *)
(* begins after the first line end in it.  The machine makes the file.     *)
(*                                                                         *)
(* Words: the tricks of math_bit.h and the iterator over combinations of   *)
(* ext1/comb/math_comb.c.  A word has W bits, a power of two; the masks    *)
(* and folding steps written out for 16, 32 and 64 bits follow from W.     *)
(***************************************************************************)
EXTENDS Integers, Sequences, SequencesExt, FiniteSets, FiniteSetsExt, Functions, Bitwise

CONSTANTS
  Val, MaxLen,  \* the values and the length of arrays
  Line,         \* the texts of lines: sequences of characters 1, 2, ...
  MaxLines,
  Slack,        \* what the caller's maxlen exceeds the longest line by
  W             \* the bits of a word

VARIABLES
  arr,          \* the array
  phase,        \* "raw" or "heap"
  bag,          \* ghost: how often each value is in it
  lines,        \* the file, as a sequence of lines in ascending order
  args,         \* the arguments m and n of comb_begin
  iter          \* cur and max

vars == <<arr, phase, bag, lines, args, iter>>

-----------------------------------------------------------------------------
(* Arrays.                                                                 *)

Fault == <<>>
Arrays == UNION {[0..(n - 1) -> Val] : n \in 1..MaxLen}
Size(b) == Cardinality(DOMAIN b)
Count(b) == [v \in Val |-> Cardinality({i \in DOMAIN b : b[i] = v})]
Cut(b, n) == [i \in 0..(n - 1) |-> b[i]]
Swapped(b, i, j) == [b EXCEPT ![i] = b[j], ![j] = b[i]]

HEAP_RIGHT(i) == 2 * i + 2
HEAP_PARENT(i) == (i - 1) \div 2

RECURSIVE heap_push(_, _, _, _)
heap_push(b, hole, top, val) ==
  IF hole > top /\ b[HEAP_PARENT(hole)] < val
  THEN heap_push([b EXCEPT ![hole] = b[HEAP_PARENT(hole)]], HEAP_PARENT(hole), top, val)
  ELSE [b EXCEPT ![hole] = val]

\* Move the larger child up into the hole, down to a leaf, and push val there.
RECURSIVE Sink(_, _, _, _, _)
Sink(b, size, hole, top, val) ==
  LET right == HEAP_RIGHT(hole)
      large == IF b[right] < b[right - 1] THEN right - 1 ELSE right
  IN  IF right < size
      THEN Sink([b EXCEPT ![hole] = b[large]], size, large, top, val)
      ELSE IF right = size
      THEN heap_push([b EXCEPT ![hole] = b[right - 1]], right - 1, top, val)
      ELSE heap_push(b, hole, top, val)

heap_adjust(b, size, hole, val) == Sink(b, size, hole, hole, val)

RECURSIVE InitFrom(_, _)
InitFrom(b, parent) ==
  LET c == heap_adjust(b, Size(b), parent, b[parent])
  IN  IF parent = 0 THEN c ELSE InitFrom(c, parent - 1)
heap_init(b) == IF Size(b) < 2 THEN b ELSE InitFrom(b, Size(b) \div 2 - 1)

\* heap_pop_to_rear on the first n elements: the largest goes to the rear.
heap_pop_to_rear(b, n) ==
  heap_adjust([b EXCEPT ![n - 1] = b[0]], n - 1, 0, b[n - 1])

RECURSIVE heap_sort(_, _)
heap_sort(b, n) == IF n > 1 THEN heap_sort(heap_pop_to_rear(b, n), n - 1) ELSE b

heapsort(b) == heap_sort(heap_init(b), Size(b))

-----------------------------------------------------------------------------
\* The median of the first, the middle and the last element, put in order.
Ordered(b, p, m, q) ==
  LET b1 == IF b[m] < b[p] THEN Swapped(b, m, p) ELSE b
      b2 == Swapped(b1, q, m)
  IN  IF ~(b1[q] < b1[m]) THEN b1
      ELSE IF b2[m] < b2[p] THEN Swapped(b2, m, p) ELSE b2

\* do ++p; while (lt(p, &e)) and do --q; while (lt(&e, q)); past the end is -1.
UpTo(b, p, e) == LET stop == {i \in DOMAIN b : i > p /\ ~(b[i] < e)}
                 IN  IF stop = {} THEN -1 ELSE Min(stop)

DownTo(b, q, e) == LET stop == {i \in DOMAIN b : i < q /\ ~(e < b[i])}
                   IN  IF stop = {} THEN -1 ELSE Max(stop)

RECURSIVE Split(_, _, _, _)
Split(b, p, q, e) ==
  LET p1 == UpTo(b, p, e)
      q1 == DownTo(b, q, e)
  IN  IF p1 = -1 \/ q1 = -1 THEN <<Fault, 0>>
      ELSE IF p1 >= q1 THEN <<b, p1>>
      ELSE Split(Swapped(b, p1, q1), p1, q1, e)

RECURSIVE MedianFrom(_, _, _, _)
MedianFrom(b, s, t, k) ==
  IF s >= t THEN b
  ELSE LET m == s + (t - s) \div 2
           o == Ordered(b, s, m, t)
           cut == Split(o, s, t, o[m])
       IN  IF cut[1] = Fault THEN Fault
           ELSE IF cut[2] > k THEN MedianFrom(cut[1], s, cut[2] - 1, k)
                              ELSE MedianFrom(cut[1], cut[2], t, k)

median(b, k) == MedianFrom(b, 0, Size(b) - 1, k)

-----------------------------------------------------------------------------
ArrayInit == arr \in Arrays /\ phase = "raw" /\ bag = Count(arr)

HeapInit ==
  /\ phase = "raw"
  /\ arr' = heap_init(arr) /\ phase' = "heap" /\ UNCHANGED bag

HeapPush ==
  /\ phase = "heap" /\ Size(arr) < MaxLen
  /\ \E v \in Val :
       /\ arr' = heap_push([i \in 0..Size(arr) |-> IF i = Size(arr) THEN v ELSE arr[i]], Size(arr), 0, v)
       /\ bag' = [bag EXCEPT ![v] = @ + 1]
  /\ UNCHANGED phase

HeapPop ==
  /\ phase = "heap" /\ Size(arr) > 1
  /\ arr' = Cut(heap_pop_to_rear(arr, Size(arr)), Size(arr) - 1)
  /\ bag' = [bag EXCEPT ![arr[0]] = @ - 1]
  /\ UNCHANGED phase

ArrayNext == HeapInit \/ HeapPush \/ HeapPop

-----------------------------------------------------------------------------
Sorted(b) == \A i, j \in DOMAIN b : i < j => b[i] <= b[j]

\* No element is lost or doubled, and the first one is never below another:
\* every child is at most its parent.
HeapHolds ==
  /\ Count(arr) = bag
  /\ phase = "heap" => \A i \in DOMAIN arr : i > 0 => arr[i] <= arr[HEAP_PARENT(i)]

\* heapsort leaves the same elements in order.
HeapSorts == Sorted(heapsort(arr)) /\ Count(heapsort(arr)) = Count(arr)

\* "array[<median] <= array[median] <= array[>median]" (sort_median_prot.h:33),
\* of the same elements, without ever reading outside the array.
MedianSplits ==
  \A k \in DOMAIN arr :
    LET b == median(arr, k)
    IN  /\ b # Fault
        /\ Count(b) = Count(arr)
        /\ \A i \in DOMAIN b : /\ i < k => b[i] <= b[k]
                               /\ i > k => b[k] <= b[i]

-----------------------------------------------------------------------------
(* Lines.                                                                  *)

NL == 0

\* strcmp, the compare function of the test.
comp(a, b) ==
  IF a = b THEN 0
  ELSE LET d == {i \in 1..Max({Len(a), Len(b)}) : i > Len(a) \/ i > Len(b) \/ a[i] # b[i]}
           i == Min(d)
       IN  IF i > Len(a) THEN -1 ELSE IF i > Len(b) THEN 1 ELSE IF a[i] < b[i] THEN -1 ELSE 1

File == FlattenSeq([i \in 1..Len(lines) |-> Append(lines[i], NL)])
maxlen == Max({Len(l) : l \in Line}) + 1 + Slack

\* The line that begins at index i of a buffer.
TextAt(buf, i) ==
  LET ends == {j \in i..Len(buf) : buf[j] = NL}
  IN  SubSeq(buf, i, (IF ends = {} THEN Len(buf) ELSE Min(ends) - 1))

\* The index after the next line end among the first len bytes, 0 if it is the
\* last of them or there is none.
nextline(buf, i, len) ==
  LET ends == {j \in i..(len - 1) : buf[j] = NL}
  IN  IF ends = {} THEN 0 ELSE Min(ends) + 1

\* The first line that is in the buffer as a whole, line end included.
__seekline(buf, len) ==
  LET head == nextline(buf, 1, len)
  IN  IF head = 0 \/ nextline(buf, head, len) = 0 THEN 0 ELSE head

\* pread into all of the buffer but its last byte.
pread(f, m) == SubSeq(f, m + 1, Min({Len(f), m + 2 * maxlen - 1}))

\* The bytes of the buffer that are looked at, one more than were read.
Length(f, m, high) == Min({high - m, Len(pread(f, m))}) + 1

\* The loop of __findline; m is the offset last read.
RECURSIVE Bisect(_, _, _, _, _, _)
Bisect(f, param, s, t, high, last) ==
  IF s >= t
  THEN LET buf == pread(f, last)
       IN  IF nextline(buf, 1, Length(f, last, high)) # 0 /\ comp(TextAt(buf, 1), param) = 0
           THEN 0 ELSE -1
  ELSE
    LET m == (s + t) \div 2
        buf == pread(f, m)
        line == __seekline(buf, Length(f, m, high))
        cmp == comp(TextAt(buf, line), param)
    IN  IF line = 0 THEN Bisect(f, param, s, m, high, m)
        ELSE IF cmp = 0 THEN m + line - 1
        ELSE IF cmp < 0 THEN Bisect(f, param, m + 1, t, high, m)
        ELSE Bisect(f, param, s, m, high, m)

\* __findline with low = 0.
__findline(f, param, high) == IF high <= 0 THEN -1 ELSE Bisect(f, param, 0, high, high, 0)

findline(f, param) == __findline(f, param, Len(f))

RECURSIVE Earlier(_, _, _)
Earlier(f, param, pos) ==
  LET p == __findline(f, param, pos)
  IN  IF pos <= 0 \/ p = -1 THEN pos ELSE Earlier(f, param, p)

\* The search again and again before what was found.
findfirstline(f, param) == Earlier(f, param, findline(f, param))

-----------------------------------------------------------------------------
LinesInit == lines = <<>>

\* The file, made of lines in ascending order.
AddLine ==
  /\ Len(lines) < MaxLines
  /\ \E l \in Line :
       /\ lines # <<>> => comp(Last(lines), l) <= 0
       /\ lines' = Append(lines, l)

Offset(i) == Len(FlattenSeq([j \in 1..(i - 1) |-> Append(lines[j], NL)]))
Matches(l) == {Offset(i) : i \in {j \in 1..Len(lines) : lines[j] = l}}

\* findline returns the offset of a line that matches, or -1 when there is
\* none, and findfirstline that of the first (search_line.h:39-57), for a
\* maxlen above the longest line.
FindsLines ==
  Slack > 0 =>
    \A l \in Line :
      IF Matches(l) = {} THEN findline(File, l) = -1 /\ findfirstline(File, l) = -1
      ELSE findline(File, l) \in Matches(l) /\ findfirstline(File, l) = Min(Matches(l))

\* "@maxlen: max line length, including the '\n'" (search_line.h:44): with
\* exactly that, a line of the file is found.
FindsWithMaxlen == \A l \in Line : Matches(l) # {} => findline(File, l) \in Matches(l)

-----------------------------------------------------------------------------
(* Words.                                                                  *)

Bit == 0..(W - 1)
Word == 0..(2^W - 1)
Wrap(x) == x % (2^W)
Shl(x, k) == Wrap(x * 2^k)
Compl(x) == 2^W - 1 - x
BitsOf(x) == {b \in Bit : (x \div 2^b) % 2 = 1}
Value(bits) == MapThenSumSet(LAMBDA b : 2^b, bits)

\* 0x5555, 0x3333, 0x0f0f, ...: k bits set, k bits clear, from the lowest on.
Stripes(k) == Value({b \in Bit : (b \div k) % 2 = 0})

\* The unrolled folding steps, for k = 1, 2, 4, ... W / 2.
RECURSIVE SumPairs(_, _)
SumPairs(x, k) ==
  IF k = W THEN x
  ELSE SumPairs((x & Stripes(k)) + (shiftR(x, k) & Stripes(k)), 2 * k)

\* hweight16, hweight32 and hweight64: the first step subtracts.
hweight(x) == SumPairs(Wrap(x - (shiftR(x, 1) & Stripes(1))), 2)

RECURSIVE SwapFrom(_, _)
SwapFrom(x, k) ==
  IF k = W THEN x
  ELSE SwapFrom(shiftR(x & Compl(Stripes(k)), k) | Shl(x & Stripes(k), k), 2 * k)
rev(x) == SwapFrom(x, 1)

ispow2(x) == (x & Wrap(x - 1)) = 0

\* fls: is the upper half clear, the upper quarter of the rest, ...
RECURSIVE FlsFrom(_, _, _)
FlsFrom(x, k, r) ==
  IF k = 0 THEN r
  ELSE IF x < 2^(W - k) THEN FlsFrom(Shl(x, k), k \div 2, r - k)
                        ELSE FlsFrom(x, k \div 2, r)
fls(x) == IF x = 0 THEN 0 ELSE FlsFrom(x, W \div 2, W)

RECURSIVE FfsFrom(_, _, _)
FfsFrom(x, k, r) ==
  IF k = 0 THEN r
  ELSE IF x % 2^k = 0 THEN FfsFrom(shiftR(x, k), k \div 2, r + k)
                      ELSE FfsFrom(x, k \div 2, r)
ffs(x) == IF x = 0 THEN 0 ELSE FfsFrom(x, W \div 2, 1)

\* ROUND_UP: smear the highest bit of x - 1 downwards and add one.
RECURSIVE SmearFrom(_, _)
SmearFrom(x, k) == IF k = W THEN x ELSE SmearFrom(x | shiftR(x, k), 2 * k)
ROUND_UP(x) == Wrap(SmearFrom(Wrap(x - 1), 1) + 1)

BIN_TO_GRAYCODE(x) == x ^^ shiftR(x, 1)
RECURSIVE UngrayFrom(_, _)
UngrayFrom(x, k) == IF k = W THEN x ELSE UngrayFrom(x ^^ shiftR(x, k), 2 * k)
GRAYCODE_TO_BIN(x) == UngrayFrom(x, 1)

BIT_FLIP(x, mask, f) == x ^^ ((Wrap(-f) ^^ x) & mask)

hweight_next(a) ==
  LET c == a & Wrap(-a)
      r == Wrap(a + c)
  IN  (shiftR(r ^^ a, 2) \div c) | r

-----------------------------------------------------------------------------
\* 1ULL << n for n = W is undefined; the processor shifts by n % W.
comb_begin(i, j) == LET cur == 2^(j % W) - 1
                    IN  [cur |-> cur, max |-> Shl(cur, i - j)]

CombInit == \E i \in 0..W, j \in 0..W :
              j <= i /\ args = [m |-> i, n |-> j] /\ iter = comb_begin(i, j)

comb_next ==
  /\ iter.cur # 0 /\ iter.cur < iter.max
  /\ iter' = [iter EXCEPT !.cur = hweight_next(@)]
  /\ UNCHANGED args

\* comb_elem until it fails: the elements of the combination, from 1 on.
RECURSIVE comb_elem(_)
comb_elem(comb) == IF comb = 0 THEN <<>>
                   ELSE <<ffs(comb)>> \o comb_elem(comb & Wrap(comb - 1))

-----------------------------------------------------------------------------
\* Every combination comes once, in increasing order: the word after cur is
\* the least greater one with as many bits (the comment of hweight_next32),
\* and the last one is the greatest within m bits.
CombinationsAll ==
  args.n < W =>
  /\ BitsOf(iter.cur) \subseteq 0..(args.m - 1) /\ Cardinality(BitsOf(iter.cur)) = args.n
  /\ LET more == {x \in (iter.cur + 1)..(2^args.m - 1) : Cardinality(BitsOf(x)) = args.n}
     IN  IF args.n > 0 /\ iter.cur < iter.max THEN hweight_next(iter.cur) = Min(more)
                                         ELSE more = {}

\* comb_elem takes the elements of a combination out, lowest first.
ElementsInOrder ==
  LET e == comb_elem(iter.cur)
  IN  /\ {e[i] - 1 : i \in DOMAIN e} = BitsOf(iter.cur)
      /\ \A i, j \in DOMAIN e : i < j => e[i] < e[j]

\* The tricks compute what their comments say, on every word the iterator
\* passes: the number of bits, the reversed word, the positions of the first
\* and of the last bit set, powers of two and the next one, Gray code there
\* and back, and a word with the bits under a mask set or cleared.
TricksCount ==
  LET x == iter.cur
      bits == BitsOf(x)
  IN  /\ hweight(x) = Cardinality(bits)
      /\ BitsOf(rev(x)) = {W - 1 - b : b \in bits}
      /\ fls(x) = IF bits = {} THEN 0 ELSE Max(bits) + 1
      /\ ffs(x) = IF bits = {} THEN 0 ELSE Min(bits) + 1
      /\ ispow2(x) <=> Cardinality(bits) <= 1
      /\ x \in 1..(2^(W - 1)) => ROUND_UP(x) = Min({2^b : b \in Bit} \cap x..2^W)
      /\ GRAYCODE_TO_BIN(BIN_TO_GRAYCODE(x)) = x
      /\ x < 2^W - 1 =>
           \E b \in Bit : BIN_TO_GRAYCODE(x) ^^ BIN_TO_GRAYCODE(x + 1) = 2^b
      /\ BitsOf(BIT_FLIP(Stripes(2), x, 1)) = BitsOf(Stripes(2)) \cup bits
      /\ BitsOf(BIT_FLIP(Stripes(2), x, 0)) = BitsOf(Stripes(2)) \ bits

\* "The max m supported is 64" (math_comb.h:49): comb_begin starts with n
\* elements whatever n up to m is.
StartsWithN == Cardinality(BitsOf(iter.cur)) = args.n

-----------------------------------------------------------------------------
(* The three machines side by side.                                        *)

Init == ArrayInit /\ LinesInit /\ CombInit

Next == \/ ArrayNext /\ UNCHANGED <<lines, args, iter>>
        \/ AddLine /\ UNCHANGED <<arr, phase, bag, args, iter>>
        \/ comb_next /\ UNCHANGED <<arr, phase, bag, lines>>

Spec == Init /\ [][Next]_vars

=============================================================================
