------------------------------ MODULE MakaluMark ------------------------------
(***************************************************************************)
(* The mark phase of Makalu's offline collection (makalu_mark.c): the      *)
(* states of MAK_mark_some with a mark stack that overflows, is partly     *)
(* discarded and doubled, and the parallel marking of MAK_do_parallel_mark *)
(* by the initiating thread and helpers that steal entries of the global   *)
(* stack, work on local ones and give entries back.                        *)
(*                                                                         *)
(* A stack entry is an object whose pointers are still to be followed; 0   *)
(* as an object stands for the range of persistent roots, -1 in the global *)
(* stack for an entry that was stolen.                                     *)
(***************************************************************************)
EXTENDS Integers, Sequences, SequencesExt, FiniteSets, FiniteSetsExt

CONSTANTS
  Obj, BlockOf,     \* objects 1..n, and the block of each
  Small,            \* the blocks of objects of 1, 2 or 4 granules
  Graphs,           \* the heaps: functions from Obj \cup {0} to sequences of objects
  Marker,           \* 1 is the initiating thread, the others are helpers
  Size, LocalSize,  \* INITIAL_MARK_STACK_SIZE, LOCAL_MARK_STACK_SIZE
  Discards          \* MAK_MARK_STACK_DISCARDS

VARIABLES
  graph, marked, n_marks,
  state, objects_are_marked, scan_ptr, too_small,   \* MAK_mark_state, ...
  stack, size, first_nonempty,                      \* the global mark stack
  help_wanted, helper_count, active_count, asleep,  \* under the mark lock; mark_cv
  init,             \* the initiating thread: "some", "par", "join", "done"
  k                 \* marker -> its local state

collector == <<state, objects_are_marked, scan_ptr, too_small>>
gstack == <<stack, size, first_nonempty>>
counts == <<help_wanted, helper_count, active_count, asleep>>
vars == <<graph, marked, n_marks, collector, gstack, counts, init, k>>

MS_NONE == 0
MS_PUSH_ROOTS == 2
MS_ROOTS_PUSHED == 3
MS_PARTIALLY_INVALID == 4
MS_INVALID == 5

Block == {BlockOf[o] : o \in Obj}
Top == Len(stack)
\* A marker's local state: its step, local stack, lowest entry it looks at and
\* how far, children still to follow, and a word it has loaded.
Local0 == [pc |-> "help", loc |-> <<>>, my |-> 1, upto |-> 0, got |-> 0, kids |-> <<>>, reg |-> 0]

Init ==
  /\ graph \in Graphs
  /\ marked = {} /\ n_marks = [b \in Block |-> 0]
  /\ state = MS_INVALID /\ objects_are_marked = FALSE /\ scan_ptr = 0 /\ too_small = FALSE
  /\ stack = <<>> /\ size = Size /\ first_nonempty = 1
  /\ help_wanted = FALSE /\ helper_count = 0 /\ active_count = 0 /\ asleep = {}
  /\ init = "some"
  /\ k = [m \in Marker |-> Local0]

-----------------------------------------------------------------------------
(* Stack operations.                                                        *)

\* PUSH_OBJ on a stack of the given size: when it is full,
\* MAK_signal_mark_stack_overflow discards its upper entries.
PushObj(s, limit, o) ==
  IF Len(s) < limit THEN [s |-> Append(s, o), over |-> FALSE]
  ELSE [s |-> Append(SubSeq(s, 1, limit - Discards), o), over |-> TRUE]

\* PUSH_CONTENTS: an object not marked yet is marked, counted and pushed.
PushContents(c, limit, o) ==
  IF o \in c.marked THEN c
  ELSE LET r == PushObj(c.s, limit, o)
       IN  [s |-> r.s, over |-> c.over \/ r.over, marked |-> c.marked \cup {o},
            n |-> [c.n EXCEPT ![BlockOf[o]] = @ + 1]]

Pushed(s) == [s |-> s, over |-> FALSE, marked |-> marked, n |-> n_marks]

\* What the stack, the marks and the state are after pushes.
Becomes(r) ==
  /\ stack' = r.s /\ marked' = r.marked /\ n_marks' = r.n

\* MAK_mark_from of the initiating thread, all helpers idle: the entry on top.
MARK_FROM_MARK_STACK ==
  LET r == FoldLeft(LAMBDA c, o : PushContents(c, size, o), Pushed(Front(stack)), graph[Last(stack)])
  IN  /\ Becomes(r)
      /\ state' = IF r.over THEN MS_INVALID ELSE state
      /\ too_small' = (too_small \/ r.over)
      /\ objects_are_marked' = TRUE

-----------------------------------------------------------------------------
(* MAK_mark_some, one case at a time.                                       *)

Some == init = "some" /\ UNCHANGED <<graph, counts, first_nonempty, init, k>>

\* MS_INVALID, nothing marked yet.
NothingMarked ==
  /\ Some /\ state \in {MS_INVALID, MS_PARTIALLY_INVALID} /\ ~ objects_are_marked
  /\ state' = MS_PUSH_ROOTS
  /\ UNCHANGED <<marked, n_marks, objects_are_marked, scan_ptr, too_small, stack, size>>

\* MAK_push_persistent_roots; push_all aborts when the stack is full.
PushRoots ==
  /\ Some /\ state = MS_PUSH_ROOTS
  /\ stack' = Append(stack, 0) /\ objects_are_marked' = TRUE /\ state' = MS_ROOTS_PUSHED
  /\ UNCHANGED <<marked, n_marks, scan_ptr, too_small, size>>

\* An invalid state with entries on the stack: mark from them.
MarkRest ==
  /\ Some /\ state \in {MS_INVALID, MS_PARTIALLY_INVALID} /\ objects_are_marked /\ stack # <<>>
  /\ MARK_FROM_MARK_STACK
  /\ UNCHANGED <<scan_ptr, size>>

\* The objects of a block, marked ones first to last.
MarkedIn(b) == SetToSortSeq({o \in marked : BlockOf[o] = b}, <)

\* MAK_push_marked1, 2 and 4: the contents of the marked objects of a block.
MAK_push_marked1(b, limit) ==
  LET kids == FlattenSeq([i \in 1..Len(MarkedIn(b)) |-> graph[MarkedIn(b)[i]]])
  IN  FoldLeft(LAMBDA c, o : PushContents(c, limit, o), Pushed(<<>>), kids)

\* MAK_push_marked: for larger objects, the marked objects themselves.
MAK_push_marked(b, limit) ==
  IF b \notin Block THEN Pushed(<<>>)
  ELSE IF b \in Small THEN MAK_push_marked1(b, limit)
  ELSE FoldLeft(LAMBDA c, o : LET r == PushObj(c.s, limit, o)
                              IN  [c EXCEPT !.s = r.s, !.over = @ \/ r.over],
                Pushed(<<>>), MarkedIn(b))

\* The scan of the heap for marked objects: from the start in MS_INVALID, the
\* stack doubled first if it was too small; at its end, unless it overflowed
\* again, the roots once more.
PushNextMarked ==
  /\ Some /\ state \in {MS_INVALID, MS_PARTIALLY_INVALID} /\ objects_are_marked /\ stack = <<>>
  /\ LET begins == scan_ptr = 0 /\ state = MS_INVALID
         n == IF begins /\ too_small THEN 2 * size ELSE size
         b == scan_ptr + 1
         r == MAK_push_marked(b, n)
         st == IF r.over THEN MS_INVALID ELSE IF begins THEN MS_PARTIALLY_INVALID ELSE state
         roots == b \notin Block /\ st = MS_PARTIALLY_INVALID
     IN  /\ size' = n
         /\ scan_ptr' = IF b \in Block THEN b ELSE 0
         /\ Becomes([r EXCEPT !.s = IF roots THEN Append(@, 0) ELSE @])
         /\ state' = IF roots THEN MS_ROOTS_PUSHED ELSE st
         /\ too_small' = ((too_small /\ ~ begins) \/ r.over)
  /\ UNCHANGED objects_are_marked

\* MS_ROOTS_PUSHED: MAK_do_parallel_mark begins.
BeginParallel ==
  /\ init = "some" /\ state = MS_ROOTS_PUSHED
  /\ first_nonempty' = 1 /\ active_count' = 0 /\ helper_count' = 1 /\ help_wanted' = TRUE
  /\ asleep' = {} /\ init' = "par"
  /\ k' = [k EXCEPT ![1] = [Local0 EXCEPT !.pc = "enter"]]
  /\ UNCHANGED <<graph, marked, n_marks, collector, stack, size>>

\* The initiating thread has left MAK_mark_local: no more helpers are wanted,
\* and it waits until the last one has gone.
EndHelp ==
  /\ init = "par" /\ k[1].pc = "left"
  /\ help_wanted' = FALSE
  /\ init' = "join"
  /\ UNCHANGED <<graph, marked, n_marks, collector, gstack, helper_count, active_count, asleep, k>>

WaitHelpers ==
  /\ init = "join" /\ 1 \notin asleep /\ helper_count > 0
  /\ asleep' = asleep \cup {1}
  /\ UNCHANGED <<graph, marked, n_marks, collector, gstack, help_wanted, helper_count, active_count, init, k>>

\* All have gone; what remains of MS_ROOTS_PUSHED.
EndParallel ==
  /\ init = "join" /\ 1 \notin asleep /\ helper_count = 0
  /\ stack' = <<>> /\ asleep' = {}
  /\ size' = IF too_small THEN 2 * size ELSE size
  /\ too_small' = FALSE
  /\ IF state = MS_ROOTS_PUSHED
     THEN state' = MS_NONE /\ init' = "done"
     ELSE state' = state /\ init' = "some"
  /\ UNCHANGED <<graph, marked, n_marks, objects_are_marked, scan_ptr, first_nonempty,
                 help_wanted, helper_count, active_count, k>>

-----------------------------------------------------------------------------
(* MAK_mark_local.                                                          *)

At(m, pc) == k[m].pc = pc
Set(m, new) == k' = [k EXCEPT ![m] = new]
heapmarks == <<graph, marked, n_marks>>

\* MAK_help_marker.
Help(m) ==
  /\ m # 1 /\ At(m, "help") /\ m \notin asleep
  /\ IF help_wanted
     THEN /\ helper_count' = helper_count + 1
          /\ Set(m, [Local0 EXCEPT !.pc = "enter"])
          /\ UNCHANGED asleep
     ELSE /\ asleep' = asleep \cup {m}
          /\ UNCHANGED <<helper_count, k>>
  /\ UNCHANGED <<heapmarks, collector, gstack, help_wanted, active_count, init>>

Enter(m) ==
  /\ At(m, "enter")
  /\ active_count' = active_count + 1
  /\ Set(m, [k[m] EXCEPT !.pc = "loop", !.my = first_nonempty])
  /\ UNCHANGED <<heapmarks, collector, gstack, help_wanted, helper_count, asleep, init>>

\* MAK_first_nonempty is loaded, and raised by compare-and-swap.
Loop(m) ==
  /\ At(m, "loop")
  /\ IF k[m].my < first_nonempty
     THEN Set(m, [k[m] EXCEPT !.pc = "look", !.my = first_nonempty])
     ELSE IF first_nonempty < k[m].my
     THEN Set(m, [k[m] EXCEPT !.pc = "cas", !.reg = first_nonempty])
     ELSE Set(m, [k[m] EXCEPT !.pc = "look"])
  /\ UNCHANGED <<heapmarks, collector, gstack, counts, init>>

Cas(m) ==
  /\ At(m, "cas")
  /\ first_nonempty' = IF first_nonempty = k[m].reg THEN k[m].my ELSE first_nonempty
  /\ Set(m, [k[m] EXCEPT !.pc = "look", !.reg = 0])
  /\ UNCHANGED <<heapmarks, collector, stack, size, counts, init>>

Stealing(m) == [k[m] EXCEPT !.pc = "steal", !.upto = Top, !.got = 0]

Look(m) ==
  /\ At(m, "look")
  /\ Set(m, IF Top >= k[m].my THEN Stealing(m) ELSE [k[m] EXCEPT !.pc = "idle"])
  /\ UNCHANGED <<heapmarks, collector, gstack, counts, init>>

\* The end of a wait for work, with the mark lock held and n active markers:
\* sleep on, leave, or be active again.
Decide(m, n, woken) ==
  IF first_nonempty > Top
  THEN IF n > 0
       THEN /\ asleep' = woken \cup {m} /\ active_count' = n /\ UNCHANGED helper_count
            /\ Set(m, [k[m] EXCEPT !.pc = "wait"])
       ELSE /\ asleep' = woken /\ active_count' = n /\ helper_count' = helper_count - 1
            /\ Set(m, [k[m] EXCEPT !.pc = IF helper_count = 1 THEN "last" ELSE "leave"])
  ELSE /\ asleep' = woken /\ active_count' = n + 1 /\ UNCHANGED helper_count
       /\ Set(m, [k[m] EXCEPT !.pc = "loop"])

Idle(m) ==
  /\ At(m, "idle")
  /\ IF Top >= k[m].my
     THEN Set(m, Stealing(m)) /\ UNCHANGED counts
     ELSE /\ Decide(m, active_count - 1, IF active_count = 1 THEN {} ELSE asleep)
          /\ UNCHANGED help_wanted
  /\ UNCHANGED <<heapmarks, collector, gstack, init>>

Wait(m) ==
  /\ At(m, "wait") /\ m \notin asleep
  /\ Decide(m, active_count, asleep)
  /\ UNCHANGED <<heapmarks, collector, gstack, help_wanted, init>>

\* Mutant of Leave: nobody is woken.
LeaveQuietly(m) ==
  /\ k[m].pc \in {"leave", "last"}
  /\ Set(m, [Local0 EXCEPT !.pc = IF m = 1 THEN "left" ELSE "help"])
  /\ UNCHANGED <<heapmarks, collector, gstack, counts, init>>

\* The last one to leave wakes the initiating thread.
Leave(m) ==
  /\ k[m].pc \in {"leave", "last"}
  /\ asleep' = IF At(m, "last") THEN {} ELSE asleep
  /\ Set(m, [Local0 EXCEPT !.pc = IF m = 1 THEN "left" ELSE "help"])
  /\ UNCHANGED <<heapmarks, collector, gstack, help_wanted, helper_count, active_count, init>>

-----------------------------------------------------------------------------
(* MAK_steal_mark_stack: an entry is read and then cleared, so that two      *)
(* markers may get the same one.                                             *)

StealRead(m) ==
  /\ At(m, "steal")
  /\ IF k[m].my > k[m].upto \/ k[m].got > 1        \* i <= max, n_to_get = 1
     THEN Set(m, [k[m] EXCEPT !.pc = "mark"])
     ELSE IF stack[k[m].my] = -1
     THEN Set(m, [k[m] EXCEPT !.my = @ + 1])
     ELSE Set(m, [k[m] EXCEPT !.pc = "clear", !.reg = stack[k[m].my]])
  /\ UNCHANGED <<heapmarks, collector, gstack, counts, init>>

StealClear(m) ==
  /\ At(m, "clear")
  /\ stack' = [stack EXCEPT ![k[m].my] = -1]
  /\ Set(m, [k[m] EXCEPT !.pc = "steal", !.loc = Append(@, k[m].reg), !.reg = 0,
                         !.my = @ + 1, !.got = @ + 1])
  /\ UNCHANGED <<heapmarks, collector, size, first_nonempty, counts, init>>

-----------------------------------------------------------------------------
(* MAK_do_local_mark and MAK_mark_from on the local stack.                   *)

Pop(m) ==
  /\ At(m, "mark")
  /\ IF k[m].loc = <<>>
     THEN Set(m, [k[m] EXCEPT !.pc = "loop"])
     ELSE Set(m, [k[m] EXCEPT !.pc = "kids", !.kids = graph[Last(k[m].loc)], !.loc = Front(@)])
  /\ UNCHANGED <<heapmarks, collector, gstack, counts, init>>

\* The next child is tested; a marked one is passed over.
Test(m) ==
  /\ At(m, "kids") /\ k[m].kids # <<>>
  /\ IF Head(k[m].kids) \in marked
     THEN Set(m, [k[m] EXCEPT !.kids = Tail(@)])
     ELSE Set(m, [k[m] EXCEPT !.pc = "or"])
  /\ UNCHANGED <<heapmarks, collector, gstack, counts, init>>

\* SET_MARK_BIT_EXIT_IF_SET: the atomic or, which may find the bit set by now.
Or(m) ==
  /\ At(m, "or")
  /\ marked' = marked \cup {Head(k[m].kids)}
  /\ Set(m, [k[m] EXCEPT !.pc = "load"])
  /\ UNCHANGED <<graph, n_marks, collector, gstack, counts, init>>

\* INCR_MARKS: a load and a store.
Load(m) ==
  /\ At(m, "load")
  /\ Set(m, [k[m] EXCEPT !.pc = "store", !.reg = n_marks[BlockOf[Head(k[m].kids)]]])
  /\ UNCHANGED <<heapmarks, collector, gstack, counts, init>>

\* Mutant of PushSignal: an overflow of a local stack goes unnoticed.
PushSilently(m, r) == UNCHANGED <<state, too_small>>

\* What an overflow of a local stack tells the collector.
PushSignal(m, r) ==
  /\ state' = IF r.over THEN MS_INVALID ELSE state
  /\ too_small' = (too_small \/ r.over)

Store(m) ==
  LET c == Head(k[m].kids)
      r == PushObj(k[m].loc, LocalSize, c)
  IN
  /\ At(m, "store")
  /\ n_marks' = [n_marks EXCEPT ![BlockOf[c]] = k[m].reg + 1]
  /\ PushSignal(m, r)
  /\ Set(m, [k[m] EXCEPT !.pc = "kids", !.reg = 0, !.loc = r.s, !.kids = Tail(@)])
  /\ UNCHANGED <<graph, marked, objects_are_marked, scan_ptr, gstack, counts, init>>

\* After an object: on with the next, or the credit is used up and
\* MAK_mark_from returns.
NextObject(m) ==
  /\ At(m, "kids") /\ k[m].kids = <<>>
  /\ \E pc \in {"mark", "credit"} : Set(m, [k[m] EXCEPT !.pc = pc])
  /\ UNCHANGED <<heapmarks, collector, gstack, counts, init>>

\* MAK_return_mark_stack: entries go back, or are dropped if they do not fit.
Return(m, os, keep, pc) ==
  /\ IF Top + Len(os) > size
     THEN state' = MS_INVALID /\ too_small' = TRUE /\ UNCHANGED stack
     ELSE stack' = stack \o os /\ UNCHANGED <<state, too_small>>
  /\ Set(m, [k[m] EXCEPT !.pc = pc, !.loc = keep])

Credit(m) ==
  LET loc == k[m].loc
      half == (Len(loc) - 1) \div 2
  IN
  /\ At(m, "credit")
  /\ IF loc = <<>>
     THEN Set(m, [k[m] EXCEPT !.pc = "loop"]) /\ UNCHANGED <<state, too_small, stack>>
     ELSE IF Len(loc) - 1 >= LocalSize \div 2
     THEN Return(m, loc, <<>>, "notify")
     ELSE IF Top < first_nonempty /\ active_count < helper_count /\ Len(loc) > 2
     THEN Return(m, SubSeq(loc, 1, half), SubSeq(loc, half + 1, Len(loc)), "notify")
     ELSE Set(m, [k[m] EXCEPT !.pc = "mark"]) /\ UNCHANGED <<state, too_small, stack>>
  /\ UNCHANGED <<heapmarks, objects_are_marked, scan_ptr, size, first_nonempty, counts, init>>

\* Those who wait for entries are woken, after the mark lock was released.
Notify(m) ==
  /\ At(m, "notify")
  /\ asleep' = {}
  /\ Set(m, [k[m] EXCEPT !.pc = "mark"])
  /\ UNCHANGED <<heapmarks, collector, gstack, help_wanted, helper_count, active_count, init>>

-----------------------------------------------------------------------------

MarkSome == NothingMarked \/ PushRoots \/ MarkRest \/ PushNextMarked
              \/ BeginParallel \/ EndHelp \/ WaitHelpers \/ EndParallel

Step(m) ==
  \/ Help(m) \/ Enter(m) \/ Loop(m) \/ Cas(m) \/ Look(m) \/ Idle(m) \/ Wait(m) \/ Leave(m)
  \/ StealRead(m) \/ StealClear(m)
  \/ Pop(m) \/ Test(m) \/ Or(m) \/ Load(m) \/ Store(m) \/ NextObject(m) \/ Credit(m) \/ Notify(m)

Finished == init = "done" /\ UNCHANGED vars

Next == MarkSome \/ (\E m \in Marker : Step(m)) \/ Finished

\* Every thread runs on as long as it can; and the initiating thread, woken
\* again and again while no marker is active, does at some time get the mark
\* lock before a helper that has left comes back to help once more.
Spec ==
  /\ Init /\ [][Next]_vars
  /\ WF_vars(MarkSome) /\ \A m \in Marker : WF_vars(Step(m))
  /\ SF_vars(active_count = 0 /\ Wait(1))

-----------------------------------------------------------------------------
(* Properties.                                                              *)

RECURSIVE Closure(_)
Closure(S) ==
  LET T == S \cup UNION {Range(graph[o]) : o \in S}
  IN  IF T = S THEN S ELSE Closure(T)
Reachable == Closure(Range(graph[0]))

\* At the end of the mark phase exactly the objects the roots reach are marked,
\* whatever overflowed, was dropped, stolen twice or given back on the way
\* (MAK_mark_some, MAK_do_parallel_mark).
MarksReachable ==
  /\ marked \subseteq Reachable
  /\ init = "done" => marked = Reachable

\* "a zero value does guarantee that the block contains no marked objects":
\* at the end of marking, with increments lost, it does (makalu_hdr.h:66-68).
SomeMarkCounted ==
  init = "done" =>
    \A b \in Block : n_marks[b] = 0 => \A o \in marked : BlockOf[o] # b

\* The counts under the mark lock are those of the markers at work, so that the
\* initiating thread goes on only when nobody works (MAK_mark_local's asserts).
Working == {m \in Marker : k[m].pc \notin {"help", "left", "leave", "last", "enter"}}
NobodyWorksAlone ==
  /\ active_count <= helper_count
  /\ active_count = Cardinality({m \in Working : k[m].pc # "wait"})
  /\ init \in {"some", "done"} => Working = {}

\* Of MAK_active_count: "once it returns to 0, it stays zero for the cycle"
\* (makalu_mark.c:992-994).
ZeroStays == (init = "par" /\ active_count = 0 /\ first_nonempty > Top) => active_count' = 0
ActiveStaysZero == [][ZeroStays]_vars

\* The mark phase ends: no marker sleeps through its last wakeup, and no
\* overflow repeats for ever, the stack having been doubled.
MarkingEnds == <>(init = "done")
=============================================================================
