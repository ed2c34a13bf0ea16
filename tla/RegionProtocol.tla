---------------------------- MODULE RegionProtocol ----------------------------
(******************************************************************************)
(* The life of one large block (pages of an arena chunk) or of one huge region  *)
(* (whole chunks): reserved from a tree of free regions, activated, freed, and  *)
(* recovered after a crash of the process.  Both have a header of one cache     *)
(* line with a usage, a state and a redo record on[]; unlike the header of a    *)
(* run it is not locked, because a region is one object.  The code for the two  *)
(* is written twice and differs in two things only: who puts a free region back *)
(* into the tree after a restart, and the state a new huge region starts in.    *)
(*                                                                            *)
(* Every store is durable at once (the machine stays up): RunProtocol has the   *)
(* caches and the ring of the log.  The size of the region is fixed: splitting  *)
(* belongs to the page heap.                                                    *)
(******************************************************************************)
EXTENDS Integers

CONSTANTS
  Thread,     \* application threads
  Cell,       \* link cells
  NoCell,     \* the NULL link_ptr
  Kind,       \* "block" or "huge"
  AppWaits,   \* the application waits for the recovery thread before it calls
  CrashAnywhere, \* if FALSE, no crash interrupts a call that the log does not name
  MaxCrash    \* bound: crashes while the application runs

VARIABLES
  hdr,     \* nvm_block_header_t or nvm_huge_header_t: usage, state, on
  link,    \* the link cells: NULL or the region, relative or absolute
  logged,  \* some entry of the activation log names the region
  tree,    \* the nodes of free_pageruns or free_chunks that name the region
  phase,   \* "up", "recover" or, after a failed assertion, "aborted"
  rec,     \* the next step of nvm_initialize_recovered
  scan,    \* the recovery thread: "off", before the header, about to add it
  pc, op,  \* per thread, the next step and the arguments of its call
  asked,   \* history: the cells of the calls that the last crash interrupted
  crashes

vars == <<hdr, link, logged, tree, phase, rec, scan, pc, op, asked, crashes>>
counters == <<asked, crashes>>

--------------------------------------------------------------------------------

Used == IF Kind = "block" THEN "BLOCK" ELSE "HUGE"

NoPtrSet == [ptr |-> NoCell, value |-> "null"]
ClearOn  == [k \in 1 .. 2 |-> NoPtrSet]

Header == [usage : {"DEFAULT", "FREE", Used},
           state : {"NONE", "INITIALIZING", "INITIALIZED", "ACTIVATING", "FREEING"},
           on : [1 .. 2 -> [ptr : Cell \cup {NoCell}, value : {"null", "rel"}]]]

LinkArgs == {l \in [1 .. 2 -> Cell \cup {NoCell}] :
               l[2] # NoCell => (l[1] # NoCell /\ l[1] # l[2])}
NoLinks  == [k \in 1 .. 2 |-> NoCell]
Cells(l) == {l[k] : k \in 1 .. 2} \ {NoCell}

NoOp == [kind |-> "none", links |-> NoLinks]

\* What the links of a call are to hold: the region, by its relative address, or
\* NULL; and what the replay makes of that: __NVM_REL_TO_ABS_WITH_NULL.
Target(o)  == IF o.kind = "activate" THEN "rel" ELSE "null"
Replayed(v) == IF v = "null" THEN "null" ELSE "abs"

Init ==
  /\ hdr = IF Kind = "block"
           THEN [usage |-> "FREE", state |-> "INITIALIZED", on |-> ClearOn]
           ELSE [usage |-> "DEFAULT", state |-> "NONE", on |-> ClearOn]
  /\ link = [c \in Cell |-> "null"]
  /\ logged = FALSE
  /\ tree = IF Kind = "block" THEN 1 ELSE 0
  /\ phase = "up"
  /\ rec = "scan"
  /\ scan = "off"
  /\ pc = [t \in Thread |-> "idle"]
  /\ op = [t \in Thread |-> NoOp]
  /\ asked = {}
  /\ crashes = 0

--------------------------------------------------------------------------------
(* Calls. *)

At(t, from) == phase = "up" /\ pc[t] = from
Goto(t, to) == pc' = [pc EXCEPT ![t] = to]

\* A thread may start a call.
MayCall(t) == At(t, "idle") /\ (AppWaits => scan = "off")

\* arena_create_block or nvm_reserve find the region in the tree, in its exact
\* size.  The header is not touched: it says FREE until the activation.
Reserve(t) ==
  /\ MayCall(t)
  /\ tree > 0
  /\ tree' = tree - 1
  /\ op' = [op EXCEPT ![t].kind = "activate"]
  /\ Goto(t, "reserved")
  /\ UNCHANGED <<hdr, link, logged, phase, rec, scan, counters>>

\* nvm_reserve_huge on new chunks.
ReserveNew(t) ==
  /\ MayCall(t)
  /\ Kind = "huge" /\ hdr.usage = "DEFAULT"
  /\ hdr' = [usage |-> Used, state |-> "INITIALIZING", on |-> ClearOn]
  /\ op' = [op EXCEPT ![t].kind = "activate"]
  /\ Goto(t, "reserved")
  /\ UNCHANGED <<link, logged, tree, phase, rec, scan, counters>>

\* The application gives nvm_activate cells that are NULL ...
CallActivate(t) ==
  /\ At(t, "reserved")
  /\ \E l \in LinkArgs :
       /\ \A c \in Cells(l) : link[c] = "null"
       /\ op' = [op EXCEPT ![t].links = l]
  /\ Goto(t, "log")
  /\ UNCHANGED <<hdr, link, logged, tree, phase, rec, scan, counters>>

\* ... and frees a region it can reach, once, with the cells that name it.
CallFree(t) ==
  /\ MayCall(t)
  /\ hdr.usage = Used
  /\ hdr.state = "INITIALIZED" \/ \E c \in Cell : link[c] # "null"
  /\ \A u \in Thread : op[u].kind = "none"
  /\ \E l \in LinkArgs :
       /\ Cells(l) = {c \in Cell : link[c] # "null"}
       /\ op' = [op EXCEPT ![t] = [kind |-> "free", links |-> l]]
       /\ Goto(t, IF l[1] = NoCell THEN "settle" ELSE "on1")
  /\ UNCHANGED <<hdr, link, logged, tree, phase, rec, scan, counters>>

\* log_activate.  A block whose header does not say FREE is then taken for a
\* run, and the call spins on a state which that header never has.
Log(t) ==
  /\ At(t, "log")
  /\ logged' = TRUE
  /\ Goto(t, IF Kind = "block" /\ hdr.usage # "FREE" THEN "spin"
             ELSE IF op[t].links[1] = NoCell THEN "settle" ELSE "on1")
  /\ UNCHANGED <<hdr, link, tree, phase, rec, scan, op, counters>>

\* on[] is stored entry by entry; the entry of a link that is not given keeps
\* what it had.
StoreOn(t, k) ==
  hdr' = [hdr EXCEPT !.on[k] = [ptr |-> op[t].links[k], value |-> Target(op[t])]]

StoreOn1(t) ==
  /\ At(t, "on1")
  /\ StoreOn(t, 1)
  /\ Goto(t, IF op[t].links[2] = NoCell THEN "commit" ELSE "on2")
  /\ UNCHANGED <<link, logged, tree, phase, rec, scan, op, counters>>

StoreOn2(t) ==
  /\ At(t, "on2")
  /\ StoreOn(t, 2)
  /\ Goto(t, "commit")
  /\ UNCHANGED <<link, logged, tree, phase, rec, scan, op, counters>>

Commit(t) ==
  /\ At(t, "commit")
  /\ hdr' = [hdr EXCEPT !.usage = Used,
                        !.state = IF op[t].kind = "activate" THEN "ACTIVATING"
                                                             ELSE "FREEING"]
  /\ Goto(t, "link1")
  /\ UNCHANGED <<link, logged, tree, phase, rec, scan, op, counters>>

Link1(t) ==
  /\ At(t, "link1")
  /\ link' = [link EXCEPT ![op[t].links[1]] = Target(op[t])]
  /\ Goto(t, IF op[t].links[2] = NoCell THEN "settle" ELSE "link2")
  /\ UNCHANGED <<hdr, logged, tree, phase, rec, scan, op, counters>>

Link2(t) ==
  /\ At(t, "link2")
  /\ link' = [link EXCEPT ![op[t].links[2]] = Target(op[t])]
  /\ Goto(t, "settle")
  /\ UNCHANGED <<hdr, logged, tree, phase, rec, scan, op, counters>>

Settle(t) ==
  /\ At(t, "settle")
  /\ hdr' = [hdr EXCEPT !.usage = IF op[t].kind = "activate" THEN Used ELSE "FREE",
                        !.state = "INITIALIZED"]
  /\ Goto(t, "clear")
  /\ UNCHANGED <<link, logged, tree, phase, rec, scan, op, counters>>

Clear(t) ==
  /\ At(t, "clear")
  /\ hdr' = [hdr EXCEPT !.on = ClearOn]
  /\ IF op[t].kind = "activate"
     THEN Goto(t, "idle") /\ op' = [op EXCEPT ![t] = NoOp]
     ELSE Goto(t, "add") /\ UNCHANGED op
  /\ UNCHANGED <<link, logged, tree, phase, rec, scan, counters>>

\* tree_add under the mutex of the arena or of the chunks.
Add(t) ==
  /\ At(t, "add")
  /\ tree' = tree + 1
  /\ Goto(t, "idle")
  /\ op' = [op EXCEPT ![t] = NoOp]
  /\ UNCHANGED <<hdr, link, logged, phase, rec, scan, counters>>

ThreadStep(t) == Log(t) \/ StoreOn1(t) \/ StoreOn2(t) \/ Commit(t) \/ Link1(t) \/ Link2(t)
                 \/ Settle(t) \/ Clear(t) \/ Add(t)

--------------------------------------------------------------------------------
(* Crash, nvm_initialize_recovered and nvm_recovery_thread. *)

\* The log names the region while some thread changes its header.  A free makes
\* no entry: there is one only if the region was activated since the last restart.
CallsAreLogged ==
  (\E t \in Thread : pc[t] \notin {"idle", "reserved", "log", "add"}) => logged

Crash ==
  /\ \/ /\ phase = "up" /\ crashes < MaxCrash /\ crashes' = crashes + 1
        /\ CrashAnywhere \/ CallsAreLogged
        /\ asked' = UNION {Cells(op[t].links) : t \in Thread}
     \/ phase = "recover" /\ UNCHANGED <<crashes, asked>>
  /\ phase' = "recover"
  /\ rec' = "scan"
  /\ scan' = "off"
  /\ tree' = 0
  /\ pc' = [t \in Thread |-> "idle"]
  /\ op' = [t \in Thread |-> NoOp]
  /\ UNCHANGED <<hdr, link, logged>>

RecAt(from) == phase = "recover" /\ rec = from

\* Mutant of RecScan: every logged header is taken to be settled.
RecScanIgnores ==
  /\ RecAt("scan")
  /\ rec' = IF ~logged THEN "done" ELSE "forget"
  /\ UNCHANGED <<hdr, link, logged, tree, phase, scan, pc, op, counters>>

\* The entry of this region in the log.  STATE_PREFREE and STATE_PREACTIVATE,
\* which the code would roll back, are never stored in such a header.
RecScan ==
  /\ RecAt("scan")
  /\ rec' = IF ~logged THEN "done"
            ELSE IF hdr.state = "INITIALIZED" THEN "forget"
            ELSE IF hdr.on[1].ptr = NoCell THEN "clear" ELSE "link1"
  /\ logged => hdr.state \in {"INITIALIZED", "ACTIVATING", "FREEING"}
  /\ UNCHANGED <<hdr, link, logged, tree, phase, scan, pc, op, counters>>

\* assert(state == STATE_INITIALIZED) fails.
RecAssertFails ==
  /\ RecAt("scan")
  /\ logged /\ hdr.state \notin {"INITIALIZED", "ACTIVATING", "FREEING"}
  /\ phase' = "aborted"
  /\ UNCHANGED <<hdr, link, logged, tree, rec, scan, pc, op, counters>>

\* The replay stores absolute addresses.
RecLink1 ==
  /\ RecAt("link1")
  /\ link' = [link EXCEPT ![hdr.on[1].ptr] = Replayed(hdr.on[1].value)]
  /\ rec' = IF hdr.on[2].ptr = NoCell THEN "clear" ELSE "link2"
  /\ UNCHANGED <<hdr, logged, tree, phase, scan, pc, op, counters>>

RecLink2 ==
  /\ RecAt("link2")
  /\ link' = [link EXCEPT ![hdr.on[2].ptr] = Replayed(hdr.on[2].value)]
  /\ rec' = "clear"
  /\ UNCHANGED <<hdr, logged, tree, phase, scan, pc, op, counters>>

RecClear ==
  /\ RecAt("clear")
  /\ hdr' = [hdr EXCEPT !.on = ClearOn]
  /\ rec' = "settle"
  /\ UNCHANGED <<link, logged, tree, phase, scan, pc, op, counters>>

\* Mutant of RecSettle: FREEING is settled like ACTIVATING.
RecSettleKeeps ==
  /\ RecAt("settle")
  /\ hdr' = [hdr EXCEPT !.usage = Used, !.state = "INITIALIZED"]
  /\ rec' = "forget"
  /\ UNCHANGED <<link, logged, tree, phase, scan, pc, op, counters>>

\* A replayed free also puts the region into the tree.
RecSettle ==
  /\ RecAt("settle")
  /\ hdr' = [hdr EXCEPT !.usage = IF hdr.state = "FREEING" THEN "FREE" ELSE Used,
                        !.state = "INITIALIZED"]
  /\ tree' = IF hdr.state = "FREEING" THEN tree + 1 ELSE tree
  /\ rec' = "forget"
  /\ UNCHANGED <<link, logged, phase, scan, pc, op, counters>>

RecForget ==
  /\ RecAt("forget")
  /\ logged' = FALSE
  /\ rec' = "done"
  /\ UNCHANGED <<hdr, link, tree, phase, scan, pc, op, counters>>

\* Mutant of RecDone: the recovery thread does not skip huge regions.
RecDoneScansAll ==
  /\ RecAt("done")
  /\ phase' = "up"
  /\ rec' = "scan"
  /\ scan' = "read"
  /\ asked' = {}
  /\ UNCHANGED <<hdr, link, logged, tree, pc, op, crashes>>

\* The application goes on while the recovery thread scans the arena chunks.
RecDone ==
  /\ RecAt("done")
  /\ phase' = "up"
  /\ rec' = "scan"
  /\ scan' = IF Kind = "block" THEN "read" ELSE "off"
  /\ asked' = {}
  /\ UNCHANGED <<hdr, link, logged, tree, pc, op, crashes>>

RecoveryStep == RecScan \/ RecAssertFails \/ RecLink1 \/ RecLink2 \/ RecClear
                \/ RecSettle \/ RecForget \/ RecDone

\* Mutant of ScanRead: free blocks are skipped like blocks in use.
ScanReadSkips ==
  /\ phase = "up" /\ scan = "read"
  /\ scan' = "off"
  /\ UNCHANGED <<hdr, link, logged, tree, phase, rec, pc, op, counters>>

\* The thread looks at the usage of the block without a lock ...
ScanRead ==
  /\ phase = "up" /\ scan = "read"
  /\ scan' = IF hdr.usage = "FREE" THEN "add" ELSE "off"
  /\ UNCHANGED <<hdr, link, logged, tree, phase, rec, pc, op, counters>>

\* ... and adds it under the mutex of the arena.  Huge regions it skips.
ScanAdd ==
  /\ phase = "up" /\ scan = "add"
  /\ tree' = tree + 1
  /\ scan' = "off"
  /\ UNCHANGED <<hdr, link, logged, phase, rec, pc, op, counters>>

--------------------------------------------------------------------------------

Next ==
  \/ \E t \in Thread : Reserve(t) \/ ReserveNew(t) \/ CallActivate(t)
                       \/ CallFree(t) \/ ThreadStep(t)
  \/ Crash
  \/ RecoveryStep
  \/ ScanRead \/ ScanAdd

Spec == Init /\ [][Next]_vars

\* Calls that were made, the recovery and its thread keep running, and crashes
\* come to an end.
FairSpec ==
  /\ Spec
  /\ <>[][~Crash]_vars
  /\ \A t \in Thread : WF_vars(ThreadStep(t))
  /\ WF_vars(RecoveryStep)
  /\ WF_vars(ScanRead \/ ScanAdd)

--------------------------------------------------------------------------------
(* Properties. *)

\* Every variable keeps its type; in particular a header has only the states
\* that the calls and the replay store in it.
TypeOK ==
  /\ hdr \in Header
  /\ link \in [Cell -> {"null", "rel", "abs"}]
  /\ logged \in BOOLEAN
  /\ tree \in Nat
  /\ phase \in {"up", "recover", "aborted"}
  /\ rec \in {"scan", "link1", "link2", "clear", "settle", "forget", "done"}
  /\ scan \in {"off", "read", "add"}
  /\ pc \in [Thread -> {"idle", "reserved", "log", "on1", "on2", "commit", "link1",
                        "link2", "settle", "clear", "add", "spin"}]
  /\ op \in [Thread -> [kind : {"none", "activate", "free"}, links : LinkArgs]]
  /\ asked \in SUBSET Cell
  /\ crashes \in 0 .. MaxCrash

Allocated == hdr.usage = Used /\ hdr.state # "INITIALIZING"

\* The threads whose call has the region: it is reserved, or is being freed and
\* is not yet in the tree.
Holders == {t \in Thread : pc[t] # "idle"}

\* A region has one owner: it is in the tree at most once, in the hands of at
\* most one call, or allocated, and never two of these ("free block, add to
\* arenas fee pageruns tree": what is added is free and not yet in the tree).
SingleOwner ==
  phase = "up" => /\ tree <= 1 /\ \A t, u \in Holders : t = u
                  /\ tree = 1 => Holders = {} /\ ~Allocated

Quiet == phase = "up" /\ \A t \in Thread : pc[t] \in {"idle", "reserved"}

\* When no call is in progress, a cell that names the region names an
\* allocated one and no half-done call is recorded in its header, whatever
\* crashed before ("either fully replay or undo the allocation").
QuietIsSettled ==
  Quiet => /\ hdr.state \notin {"ACTIVATING", "FREEING"}
           /\ (\E c \in Cell : link[c] # "null") => Allocated

\* Recovery does not run into its assertion that a logged header which is in
\* none of the four states in between is in STATE_INITIALIZED.
RecoveryNeverAborts == phase # "aborted"

\* The library rewrites no cell but those the call in progress was given, or
\* the call that the crash interrupted.
OnlyAskedCellsChange ==
  [][\A c \in Cell : link'[c] # link[c] =>
       c \in asked \/ \E t \in Thread : c \in Cells(op[t].links)]_vars

Lost == phase = "up" /\ ~Allocated /\ hdr.usage # "DEFAULT" /\ tree = 0 /\ Holders = {}

\* A region that is neither allocated nor reserved gets back into the tree: no
\* restart loses it ("regions must be tracked at all times to avoid permanent
\* memory leaks").
FreeRegionsReturn == Lost ~> ~Lost

(* Refinement: what recovery would make of the present header and cells.       *)

RecoveredUsed == IF hdr.state = "ACTIVATING" \/ (Allocated /\ hdr.state # "FREEING")
                 THEN {0} ELSE {}

RecoveredCell ==
  [c \in Cell |->
     IF /\ hdr.state \in {"ACTIVATING", "FREEING"}
        /\ hdr.on[1].ptr = c \/ (hdr.on[1].ptr # NoCell /\ hdr.on[2].ptr = c)
     THEN IF hdr.state = "ACTIVATING" THEN 0 ELSE -1
     ELSE IF link[c] = "null" THEN -1 ELSE 0]

\* The calls that were made and have not taken effect.
Pending ==
  {[kind |-> op[t].kind, slot |-> 0, cells |-> Cells(op[t].links)] :
     t \in {u \in Thread : \/ pc[u] \in {"log", "on1", "on2", "commit", "spin"}
                           \/ pc[u] = "settle" /\ op[u].links = NoLinks}}

Atomic == INSTANCE AtomicRun WITH NSlots <- 1, used <- RecoveredUsed,
                                  cell <- RecoveredCell, asked <- Pending

\* The calls on a region are failure-atomic: each takes effect as a whole and
\* once, or not at all, wherever a crash hits it or its recovery, and nothing
\* happens that no call has asked for.
CallsAreFailureAtomic == Atomic!Spec

================================================================================
