------------------------------ MODULE KissAlloc ------------------------------
(***************************************************************************)
(* The "keep it simple" allocator of benchmark/src/kiss_alloc.c: units of  *)
(* one size in a mapped file, whose first bytes hold a header and a bit    *)
(* per unit.  Threads search a word of the bit set with room, starting at  *)
(* a hint kept for the cpu they run on, and claim a bit with a compare and *)
(* swap.  Sizes are counted in words of the bit set.                       *)
(***************************************************************************)
EXTENDS Integers, FiniteSets, FiniteSetsExt

CONSTANTS
  Thread,
  W,        \* BITS_PER_ULL
  LINE,     \* words in a cache line, and in struct nvm_block_header
  NCpu,     \* length of cpu_index_hint
  Maps,     \* records [unit, length, twice]: what the allocator is started
            \* with; twice: the build loads Bitset[index] anew after the test for room
  MaxHint   \* bound on next_index_hint, which lost races let grow

VARIABLES
  map,      \* unit_size and length of the file, and the build
  Bitset,   \* the words, as sets of the bits that are set
  free_blocks, next_index_hint, cpu_index_hint,
  pc, index, current,   \* of each thread
  held,     \* units each thread has been given
  fault     \* what went wrong in memory, or the assertion that failed

vars == <<map, Bitset, free_blocks, next_index_hint, cpu_index_hint,
          pc, index, current, held, fault>>

None == "none"
Full == 0..(W - 1)
BitsetLength(m) == m.length \div (W * m.unit)
largest_index_hint == BitsetLength(map)
Units(m) == m.length \div m.unit
count_set_bits(words) == MapThenSumSet(LAMBDA i : Cardinality(words[i]), DOMAIN words)

\* Words of the header and of the bit set, the latter rounded up to a line.
HeaderLength(m) == LINE + LINE * ((BitsetLength(m) + LINE - 1) \div LINE)

WholeWords(m) == (HeaderLength(m) - 1) \div (W * m.unit)

FinalUnits(m) == LET rest == HeaderLength(m) - WholeWords(m) * W * m.unit
                 IN  (rest + m.unit - 1) \div m.unit

\* The loop for the final bits shifts a value it does not keep, so it sets
\* bit 0 again and again, and takes a unit off free_blocks every time.
layout_alloc_map(m) ==
  [bits |-> [i \in 0..(BitsetLength(m) - 1) |->
               IF i < WholeWords(m) THEN Full
               ELSE IF i = WholeWords(m) THEN {0} ELSE {}],
   free |-> Units(m) - W * WholeWords(m) - FinalUnits(m)]

verify_blockcount(m, words, free) == count_set_bits(words) + free = Units(m)

\* The first units hold the header; the program must never be given one.
HeaderUnits(m) == 0..((HeaderLength(m) - 1) \div m.unit)

\* init_kiss_allocator and create_alloc_map.
init_kiss_allocator(m) ==
  LET laid == layout_alloc_map(m)
  IN  /\ map = m
      /\ Bitset = laid.bits
      /\ free_blocks = laid.free
      /\ next_index_hint = NCpu + 1
      /\ cpu_index_hint = [c \in 0..(NCpu - 1) |-> c + 1]
      /\ fault = IF NCpu >= BitsetLength(m) THEN "hint"
                 ELSE IF verify_blockcount(m, laid.bits, laid.free) THEN None ELSE "count"

Init ==
  /\ \E m \in Maps : init_kiss_allocator(m)
  /\ pc = [t \in Thread |-> "idle"]
  /\ index = [t \in Thread |-> 0]
  /\ current = [t \in Thread |-> {}]
  /\ held = [t \in Thread |-> {}]

-----------------------------------------------------------------------------
At(t, l) == fault = None /\ pc[t] = l
Go(t, l) == pc' = [pc EXCEPT ![t] = l]
Leave(t) == /\ Go(t, "idle")
            /\ index' = [index EXCEPT ![t] = 0]
            /\ current' = [current EXCEPT ![t] = {}]
Fails(t, why) == fault' = why /\ Go(t, "idle") /\ UNCHANGED <<index, current>>

kiss_malloc(t) ==
  /\ At(t, "idle")
  /\ Go(t, "find")
  /\ UNCHANGED <<map, Bitset, free_blocks, next_index_hint, cpu_index_hint,
                 index, current, held, fault>>

\* The head of the loop of find_first_available, on whatever cpu it runs.
find_first_available(t) ==
  /\ At(t, "find")
  /\ IF free_blocks = 0   \* unsigned: one below zero is a large number
     THEN Leave(t) /\ UNCHANGED fault
     ELSE \E c \in DOMAIN cpu_index_hint :
            IF cpu_index_hint[c] >= largest_index_hint
            THEN Fails(t, "assert")
            ELSE /\ index' = [index EXCEPT ![t] = cpu_index_hint[c]]
                 /\ Go(t, "room")
                 /\ UNCHANGED <<current, fault>>
  /\ UNCHANGED <<map, Bitset, free_blocks, next_index_hint, cpu_index_hint, held>>

\* The test of the inner loop, which lets index = largest_index_hint pass.
Room(t) ==
  /\ At(t, "room")
  /\ IF index[t] > largest_index_hint
     THEN Go(t, "hint") /\ UNCHANGED <<index, current, fault>>
     ELSE IF index[t] = largest_index_hint
     THEN Fails(t, "bitset overrun")
     ELSE IF Bitset[index[t]] = Full
     THEN Go(t, "hint") /\ UNCHANGED <<index, current, fault>>
     ELSE /\ Go(t, IF map.twice THEN "load" ELSE "cas")
          /\ current' = [current EXCEPT ![t] = Bitset[index[t]]]
          /\ UNCHANGED <<index, fault>>
  /\ UNCHANGED <<map, Bitset, free_blocks, next_index_hint, cpu_index_hint, held>>

\* The word is read again; when it has filled up in between, there is no bit
\* to count the zeros below of, and the assertion on the two counts fails.
LoadAgain(t) ==
  /\ At(t, "load")
  /\ IF Bitset[index[t]] = Full
     THEN Fails(t, "assert")
     ELSE /\ current' = [current EXCEPT ![t] = Bitset[index[t]]]
          /\ Go(t, "cas") /\ UNCHANGED <<index, fault>>
  /\ UNCHANGED <<map, Bitset, free_blocks, next_index_hint, cpu_index_hint, held>>

ctzll(word) == Min(Full \ word)
Unit(i, b) == b + i * W

\* Mutant of Claim: a store for the compare-and-swap.
ClaimBlind(t) ==
  /\ At(t, "cas")
  /\ LET b == ctzll(current[t])
     IN  /\ Bitset' = [Bitset EXCEPT ![index[t]] = current[t] \cup {b}]
         /\ held' = [held EXCEPT ![t] = @ \cup {Unit(index[t], b)}]
         /\ Go(t, "sub")
  /\ UNCHANGED <<map, free_blocks, next_index_hint, cpu_index_hint, index, current, fault>>

Claim(t) ==
  /\ At(t, "cas")
  /\ LET b == ctzll(current[t])
     IN  IF Bitset[index[t]] = current[t]
         THEN /\ Bitset' = [Bitset EXCEPT ![index[t]] = @ \cup {b}]
              /\ held' = [held EXCEPT ![t] = @ \cup {Unit(index[t], b)}]
              /\ Go(t, "sub")
         ELSE Go(t, "find") /\ UNCHANGED <<Bitset, held>>
  /\ UNCHANGED <<map, free_blocks, next_index_hint, cpu_index_hint, index, current, fault>>

CountDown(t) ==
  /\ At(t, "sub")
  /\ free_blocks' = free_blocks - 1
  /\ Leave(t)
  /\ UNCHANGED <<map, Bitset, next_index_hint, cpu_index_hint, held, fault>>

\* get_next_index_hint returns a value, which find_first_available stores in
\* the hint array at the word it gave up, not at its cpu, and searches next.
Hinted(t, v) ==
  IF index[t] \in DOMAIN cpu_index_hint
  THEN /\ cpu_index_hint' = [cpu_index_hint EXCEPT ![index[t]] = v]
       /\ index' = [index EXCEPT ![t] = v]
       /\ Go(t, "room") /\ UNCHANGED <<current, fault>>
  ELSE Fails(t, "hint overrun") /\ UNCHANGED cpu_index_hint

get_next_index_hint(t) ==
  /\ At(t, "hint")
  /\ next_index_hint' = next_index_hint + 1
  /\ IF next_index_hint < largest_index_hint
     THEN Hinted(t, next_index_hint)
     ELSE Go(t, "reset") /\ UNCHANGED <<cpu_index_hint, index, current, fault>>
  /\ UNCHANGED <<map, Bitset, free_blocks, held>>

\* "If WE set it to zero": the load and the compare and swap, when it wins.
WinReset(t) ==
  /\ At(t, "reset")
  /\ next_index_hint' = 0
  /\ Hinted(t, next_index_hint)
  /\ UNCHANGED <<map, Bitset, free_blocks, held>>

\* Another thread changed it between the load and the compare and swap.
LoseReset(t) ==
  /\ At(t, "reset")
  /\ \E u \in Thread \ {t} : pc[u] \in {"hint", "reset"}
  /\ next_index_hint < MaxHint
  /\ Go(t, "hint")
  /\ UNCHANGED <<map, Bitset, free_blocks, next_index_hint, cpu_index_hint,
                 index, current, held, fault>>

-----------------------------------------------------------------------------
FreeIndex(u) == u \div W
FreeBit(u) == u % W

\* kiss_free up to the load; the thread gives the unit up by calling it.
kiss_free(t) ==
  /\ At(t, "idle")
  /\ \E u \in held[t] :
       /\ index' = [index EXCEPT ![t] = u]
       /\ held' = [held EXCEPT ![t] = @ \ {u}]
       /\ current' = [current EXCEPT ![t] = Bitset[FreeIndex(u)]]
  /\ Go(t, "free")
  /\ UNCHANGED <<map, Bitset, free_blocks, next_index_hint, cpu_index_hint, fault>>

FreeCas(t) ==
  /\ At(t, "free")
  /\ LET i == FreeIndex(index[t])
     IN  IF FreeBit(index[t]) \notin current[t]
         THEN Fails(t, "assert") /\ UNCHANGED Bitset
         ELSE /\ IF Bitset[i] = current[t]
                 THEN /\ Bitset' = [Bitset EXCEPT ![i] = @ \ {FreeBit(index[t])}]
                      /\ Go(t, "add") /\ UNCHANGED current
                 ELSE /\ current' = [current EXCEPT ![t] = Bitset[i]]   \* "lost race"
                      /\ UNCHANGED <<Bitset, pc>>
              /\ UNCHANGED <<index, fault>>
  /\ UNCHANGED <<map, free_blocks, next_index_hint, cpu_index_hint, held>>

CountUp(t) ==
  /\ At(t, "add")
  /\ free_blocks' = free_blocks + 1
  /\ Leave(t)
  /\ UNCHANGED <<map, Bitset, next_index_hint, cpu_index_hint, held, fault>>

Step(t) ==
  \/ kiss_malloc(t) \/ find_first_available(t) \/ Room(t) \/ LoadAgain(t) \/ Claim(t)
  \/ CountDown(t) \/ get_next_index_hint(t) \/ WinReset(t) \/ LoseReset(t)
  \/ kiss_free(t) \/ FreeCas(t) \/ CountUp(t)

Next == \E t \in Thread : Step(t)
Spec == Init /\ [][Next]_vars

-----------------------------------------------------------------------------
\* No unit is with two threads, and none holds the header of the map: what
\* find_first_available claims with its compare and swap stays claimed until
\* the unit is freed.
NoUnitTwice ==
  fault # "count" =>
  /\ \A t, u \in Thread : t # u => held[t] \cap held[u] = {}
  /\ \A t \in Thread : held[t] \cap HeaderUnits(map) = {}
  /\ \A t \in Thread : \A x \in held[t] : FreeBit(x) \in Bitset[FreeIndex(x)]

\* "count + free_blocks" is the number of units (the assertion of
\* verify_blockcount, which kiss_verify makes) whenever no call is in
\* progress; in between it is off by the calls that have yet to count.
CountsAgree ==
  fault = None =>
  count_set_bits(Bitset) + free_blocks
    = Units(map) + Cardinality({t \in Thread : pc[t] = "sub"})
                 - Cardinality({t \in Thread : pc[t] = "add"})

\* "If WE set it to zero, then we know the hint is offset 0" (kiss_alloc.c:169):
\* a hint that get_next_index_hint returns names a word of the bit set.
HintsInRange ==
  \A t \in Thread : pc[t] = "room" => index[t] < largest_index_hint

\* The assertion of verify_blockcount holds of the map layout_alloc_map lays out.
LayoutCounts == fault # "count"

=============================================================================
