----------------------------- MODULE MCContainers -----------------------------
(***************************************************************************)
(* The containers, ciphers, digests and pure algorithms of ulib and of its *)
(* benchmarks, for TLC.  Each is a machine of its own: "kind" says which   *)
(* one a behaviour is about.  The ciphers and digests, whose module this   *)
(* one extends, have their own variables, the others have va to vl.        *)
(***************************************************************************)
EXTENDS Crypt

CONSTANT Kinds    \* the machines to check

VARIABLES kind, va, vb, vc, vd, ve, vf, vg, vh, vi, vj, vk, vl

rest == <<ve, vf, vg, vh, vi, vj, vk, vl>>   \* only some machines have so many
mcvars == <<kind, vars, va, vb, vc, vd, rest>>

\* The first two cases of AES are from test/aes.cpp, with what it expects of the
\* first block; the last has a key length that is refused.
ZeroBlock == <<<<0, 0, 0, 0>>, <<0, 0, 0, 0>>, <<0, 0, 0, 0>>, <<0, 0, 0, 0>>>>
CountTo(n) == [w \in 1..n |-> [x \in 1..4 |-> 4 * (w - 1) + x - 1]]
AesCases ==
  {[kbits |-> 128, key |-> [ZeroBlock EXCEPT ![1][1] = 128], iv |-> ZeroBlock,
    text |-> <<ZeroBlock, CountTo(4), ZeroBlock>>,
    expect |-> <<<<14, 221, 51, 211>>, <<198, 33, 229, 70>>, <<69, 91, 216, 186>>, <<20, 24, 190, 200>>>>],
   [kbits |-> 192, key |-> <<<<142, 115, 176, 247>>, <<218, 14, 100, 82>>, <<200, 16, 243, 43>>,
                             <<128, 144, 121, 229>>, <<98, 248, 234, 210>>, <<82, 44, 107, 123>>>>,
    iv |-> CountTo(4),
    text |-> <<<<<<107, 193, 190, 226>>, <<46, 64, 159, 150>>, <<233, 61, 126, 17>>, <<115, 147, 23, 42>>>>,
               ZeroBlock, CountTo(4)>>,
    expect |-> <<<<79, 2, 29, 178>>, <<67, 188, 99, 61>>, <<113, 120, 24, 58>>, <<159, 160, 113, 232>>>>],
   [kbits |-> 256, key |-> CountTo(8), iv |-> CountTo(4), text |-> <<CountTo(4), ZeroBlock>>, expect |-> None],
   [kbits |-> 64, key |-> CountTo(2), iv |-> CountTo(4), text |-> <<CountTo(4)>>, expect |-> None]}
ShortKey == <<3, 0, 5, 15, 8>>
ShortText == <<0, 0, 15, 7, 9>>

\* Two cells of the ulib trees have the same key.
TreeKeys == <<1, 2, 3, 4, 5, 6, 4>>
Tree == INSTANCE UlibTrees WITH Node <- 1..7, Key <- TreeKeys, flavour <- va, t <- vb, held <- vc

Solaris == INSTANCE SolarisAvl WITH Node <- 1..7, Key <- <<1, 2, 3, 4, 5, 6, 7>>,
                                    t <- va, held <- vb, cookie <- vc, given <- vd

\* Items 1 and 5 are duplicates.
LibKeys == <<5, 2, 3, 4, 5, 6>>
Lib == INSTANCE LibAvl WITH Item <- 1..6, Key <- LibKeys, t <- va, trav <- vb

\* A behaviour is about the lists or about the hash lists, which share va and vb.
List == INSTANCE Lists WITH Anchor <- {8, 9}, Entry <- 1..4, Key <- <<2, 1, 2, 1>>, Node <- 1..3,
                            m <- va, lists <- vb, p <- va, pprev <- vb, chains <- vc

\* Two words, unused bits of any value; and three words, unused bits clear.
Bits == INSTANCE Bitmap WITH W <- 4, N <- 7, CHUNKSZ <- 2, Junk <- TRUE, m <- va, s <- vb,
                             Other <- {{}, {0, 3, 4, 6}, {1, 2, 5, 7}, {7}}
Clear == INSTANCE Bitmap WITH W <- 2, N <- 5, CHUNKSZ <- 2, Junk <- FALSE, m <- va, s <- vb,
                              Other <- {{}, {0, 2, 3}, {1, 4}}

\* Arrays, lines or words, one of them in a behaviour.
Texts == {<<>>, <<1>>, <<2>>, <<1, 2>>, <<2, 1>>}
Algo == INSTANCE Algorithms WITH Val <- 1..3, MaxLen <- 5, Line <- Texts, MaxLines <- 4, Slack <- 1, W <- 8,
                                 arr <- va, phase <- vb, bag <- vc, lines <- va, args <- va, iter <- vb

\* One table that is resized, and two that are not.
Open1 == INSTANCE OpenHash WITH Key <- {0, 1, 2, 8}, Val <- {1}, Tables <- 1, MaxBuckets <- 8,
                                ht <- va, map <- vb
Open2 == INSTANCE OpenHash WITH Key <- {0, 1, 2, 4, 8}, Val <- {1}, Tables <- 2, MaxBuckets <- 4,
                                ht <- va, map <- vb

\* With and without several entries of one key.
ChainKeys == <<2, 0, 4, 2, 1>>
Multi == INSTANCE ChainHash WITH Entry <- 1..5, KeyOf <- ChainKeys, MinChains <- 2, Dups <- TRUE,
                                DelInSnap <- FALSE, c <- va, live <- vb, shown <- vc, stale <- vd
Uniq == INSTANCE ChainHash WITH Entry <- 1..5, KeyOf <- ChainKeys, MinChains <- 2, Dups <- FALSE,
                                DelInSnap <- FALSE, c <- va, live <- vb, shown <- vc, stale <- vd

\* One region: its threads share a chain of three; and chains of their own.
Shared == INSTANCE RegionHash WITH Thread <- {1, 2}, Key <- {2, 4}, Entry <- {1, 2, 3}, NBuckets <- 2,
            NLocks <- 1, Scenes <- {"shared", "tidmap"}, MaxVal <- 2,
            scene <- va, tbl <- vb, next <- vc, key <- vd, val <- ve, lock <- vf, pc <- vg, op <- vh,
            it <- vi, reg <- vj, seqs <- vk, fault <- vl
Private == INSTANCE RegionHash WITH Thread <- {1, 2}, Key <- {1, 2, 4}, Entry <- {1, 2}, NBuckets <- 2,
            NLocks <- 1, Scenes <- {"private"}, MaxVal <- 2,
            scene <- va, tbl <- vb, next <- vc, key <- vd, val <- ve, lock <- vf, pc <- vg, op <- vh,
            it <- vi, reg <- vj, seqs <- vk, fault <- vl

\* A file of eight units, two of which are the header.
Kiss == INSTANCE KissAlloc WITH Thread <- {"t1", "t2"}, W <- 2, LINE <- 2, NCpu <- 2, MaxHint <- 5,
          Maps <- {[unit |-> 2, length |-> 16, twice |-> TRUE]},
          map <- va, Bitset <- vb, free_blocks <- vc, next_index_hint <- vd, cpu_index_hint <- ve,
          pc <- vf, index <- vg, current <- vh, held <- vi, fault <- vj

Unused == 0

\* The machines with at most four variables.
Small == {"crypt", "tree", "solaris", "libavl", "list", "hlist", "bits", "clear", "comb", "array",
          "lines", "open1", "open2", "dups", "uniq"}

NoStream == /\ alg = "none" /\ given = None /\ ctx = None /\ peer = None
            /\ sent = <<>> /\ got = <<>> /\ fed = 0 /\ final = FALSE

MCInit ==
  /\ kind \in Kinds
  /\ kind # "crypt" => NoStream
  /\ kind \in Small => /\ ve = Unused /\ vf = Unused /\ vg = Unused /\ vh = Unused
                       /\ vi = Unused /\ vj = Unused /\ vk = Unused /\ vl = Unused
  /\ \/ kind = "crypt" /\ Init /\ va = Unused /\ vb = Unused /\ vc = Unused /\ vd = Unused
     \/ kind = "tree" /\ Tree!Init /\ vd = Unused
     \/ kind = "solaris" /\ Solaris!Init
     \/ kind = "libavl" /\ Lib!Init /\ vc = Unused /\ vd = Unused
     \/ kind = "list" /\ List!ListInit /\ vc = Unused /\ vd = Unused
     \/ kind = "hlist" /\ List!HListInit /\ vd = Unused
     \/ kind = "bits" /\ Bits!Init /\ vc = Unused /\ vd = Unused
     \/ kind = "clear" /\ Clear!Init /\ vc = Unused /\ vd = Unused
     \/ kind = "comb" /\ Algo!CombInit /\ vc = Unused /\ vd = Unused
     \/ kind = "array" /\ Algo!ArrayInit /\ vd = Unused
     \/ kind = "lines" /\ Algo!LinesInit /\ vb = Unused /\ vc = Unused /\ vd = Unused
     \/ kind = "open1" /\ Open1!Init /\ vc = Unused /\ vd = Unused
     \/ kind = "open2" /\ Open2!Init /\ vc = Unused /\ vd = Unused
     \/ kind \in {"dups", "uniq"} /\ Multi!Init
     \/ kind = "shared" /\ Shared!Init
     \/ kind = "private" /\ Private!Init
     \/ kind = "kiss" /\ Kiss!Init /\ vk = Unused /\ vl = Unused

MCNext ==
  /\ UNCHANGED kind
  /\ kind # "crypt" => UNCHANGED vars
  /\ kind \in Small => UNCHANGED rest
  /\ \/ kind = "crypt" /\ Next /\ UNCHANGED <<va, vb, vc, vd>>
     \/ kind = "tree" /\ Tree!Next /\ UNCHANGED vd
     \/ kind = "solaris" /\ Solaris!Next
     \/ kind = "libavl" /\ Lib!Next /\ UNCHANGED <<vc, vd>>
     \/ kind = "list" /\ List!ListNext /\ UNCHANGED <<vc, vd>>
     \/ kind = "hlist" /\ List!HListNext /\ UNCHANGED vd
     \/ kind = "bits" /\ Bits!Next /\ UNCHANGED <<vc, vd>>
     \/ kind = "clear" /\ Clear!Next /\ UNCHANGED <<vc, vd>>
     \/ kind = "comb" /\ Algo!comb_next /\ UNCHANGED <<vc, vd>>
     \/ kind = "array" /\ Algo!ArrayNext /\ UNCHANGED vd
     \/ kind = "lines" /\ Algo!AddLine /\ UNCHANGED <<vb, vc, vd>>
     \/ kind = "open1" /\ Open1!Next /\ UNCHANGED <<vc, vd>>
     \/ kind = "open2" /\ Open2!Next /\ UNCHANGED <<vc, vd>>
     \/ kind = "dups" /\ Multi!Next
     \/ kind = "uniq" /\ Uniq!Next
     \/ kind = "shared" /\ Shared!Next
     \/ kind = "private" /\ Private!Next
     \/ kind = "kiss" /\ Kiss!Next /\ UNCHANGED <<vk, vl>>

MCSpec == MCInit /\ [][MCNext]_mcvars

-----------------------------------------------------------------------------
(* Properties, each of the machines for one kind of data.                   *)

\* tree.c, solaris/avl.c, libavl/avl.c: after every sequence of calls a tree
\* holds exactly the linked cells, in order, balanced, with right parent
\* pointers and counts; lookups, nearest neighbours, walks, traversers, updates,
\* copies and destruction agree with that, and tree_upper_bound of arena.c picks
\* a smallest entry that is large enough.
TreesRepresent ==
  /\ kind = "tree" => /\ Tree!WellFormed /\ Tree!AvlBalanced
                      /\ Tree!FindsEqual /\ Tree!WalksAll /\ Tree!BestFit
  /\ kind = "solaris" => /\ Solaris!WellFormed /\ Solaris!UpdateRestores
                         /\ Solaris!NearestAreNeighbours /\ Solaris!DestroysInPostOrder
  /\ kind = "libavl" => Lib!WellFormed /\ Lib!MovesToNeighbour /\ Lib!CopyOrFreeAll

\* list.h, sort_list.c, heap_prot.h, sort_heap_prot.h, sort_median_prot.h,
\* search_line.c: lists, read either way, are the sequences the calls describe,
\* also while a safe loop deletes; heaps and sorts keep every element and order
\* them; the k-th element and the first equal line are found.
SequencesRepresent ==
  /\ kind = "list" => List!Represents /\ List!SafeLoopsVisitAll
  /\ kind = "hlist" => List!ChainsMatch
  /\ kind = "array" => Algo!HeapHolds /\ Algo!HeapSorts /\ Algo!MedianSplits
  /\ kind = "lines" => Algo!FindsLines

\* bitmap.c, math_bit.h, math_comb.c: the words hold the set of bits the calls
\* describe, whatever the unused bits hold; questions, searches, orders and
\* printed forms answer for that set; combinations come once each, in order.
BitmapsRepresent ==
  /\ kind = "bits" => /\ Bits!MapIsSet /\ Bits!OrdinalsInvert /\ Bits!QuestionsAnswered
                      /\ Bits!SearchesFindFirst /\ Bits!PrintedIsParsed
  /\ kind = "clear" => /\ Clear!MapIsSet /\ Clear!OrdinalsInvert /\ Clear!QuestionsAnswered
                       /\ Clear!SearchesFindFirst /\ Clear!PrintedIsParsed /\ Clear!UnusedStayClear
  /\ kind = "comb" => Algo!CombinationsAll /\ Algo!ElementsInOrder /\ Algo!TricksCount

\* hash_open_prot.h, hash_chain_prot.h: through tombstones, resizes, copies,
\* snapshots and sorts a table finds what was stored and not deleted; loops
\* visit it once; counters and iterators agree with the buckets and chains.
TablesRepresent ==
  /\ kind = "open1" => /\ Open1!FindsWhatIsStored /\ Open1!CountersMatch
                       /\ Open1!LoopsVisitAll /\ Open1!CopiesAgree
  /\ kind = "open2" => /\ Open2!FindsWhatIsStored /\ Open2!CountersMatch
                       /\ Open2!LoopsVisitAll /\ Open2!CopiesAgree
  /\ kind = "dups" => Multi!ChainsHoldLive /\ Multi!LoopsFollowSnapshot /\ Multi!IteratorsAreExact
  /\ kind = "uniq" => Uniq!ChainsHoldLive /\ Uniq!LoopsFollowSnapshot /\ Uniq!IteratorsAreExact

\* hash_chain_r.h, nvm_malloc.c: the chains of the locked map, and of the map
\* from thread ids to arenas, are lists of live entries in every state; under
\* the region locks no insertion, combination or erasure is lost, and what a
\* call has found stays true until it unlocks.
SharedMapIsAsCalled ==
  /\ kind = "shared" => Shared!ChainsAreLists /\ Shared!MapIsAsCalled /\ Shared!SearchStaysTrue
  /\ kind = "private" => Private!ChainsAreLists /\ Private!MapIsAsCalled /\ Private!SearchStaysTrue

\* kiss_alloc.c: a unit is with one thread at a time, its bit is set, it is none
\* of the units of the header, and the bits and free_blocks add up but for the
\* calls that have yet to count.
NoUnitTwice == kind = "kiss" => Kiss!NoUnitTwice /\ Kiss!CountsAgree
=============================================================================
