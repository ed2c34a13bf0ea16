------------------------------ MODULE MakaluLife ------------------------------
(***************************************************************************)
(* The life of a Makalu heap across processes: MAK_start, MAK_restart,     *)
(* MAK_start_off, MAK_collect_off and MAK_close (makalu_init.c,            *)
(* makalu_mark.c), the two durable words they decide by,                   *)
(* MAK_persistent_state and MAK_mandatory_gc, and the mark bits, which are *)
(* only flushed when a table of pending cache lines is (makalu_persistent.c). *)
(*                                                                         *)
(* A block has two objects and its marks are one cache line, with a copy   *)
(* in the cache (mem) and one in memory (nvm).  A block of Global is of a  *)
(* size class without thread-local lists.                                  *)
(***************************************************************************)
EXTENDS Integers, FiniteSets

CONSTANTS Block, Global, NLines, MaxCrash

VARIABLES
  power,      \* does a crash lose cache lines, or only the process?
  run,        \* "none", "starting", "on" or "off"
  pc,         \* the step of MAK_start or MAK_collect_off
  magic, base,   \* MAK_persistent_initialized; durable lines of the base metadata
  state, gc,  \* MAK_persistent_state # NONE, MAK_mandatory_gc
  used,       \* allocated blocks
  mem, nvm,   \* the marks
  pending,    \* blocks in a thread's, the collector's and the global list's table
  lists,      \* objects on free lists
  live,       \* objects the persistent roots reach
  doubt,      \* history: "marks" when a power failure took marks, or the collector
              \* was closed with a collection to be done, and MAK_mandatory_gc does
              \* not say so; "ran" when a process allocated by such marks; or "no"
  crashes

vars == <<power, run, pc, magic, base, state, gc, used, mem, nvm, pending, lists, live, doubt, crashes>>
heap == <<used, mem, nvm, pending, lists, live>>
words == <<magic, base, state, gc>>
rest == <<power, doubt, crashes>>

Tables == {"local", "aflush", "fl"}
ObjsOf(b) == {b} \X {1, 2}
Obj == Block \X {1, 2}
TableOf(b) == IF b \in Global THEN "fl" ELSE "local"
Add(tab, b) == [pending EXCEPT ![tab] = @ \cup {b}]
Flushed(tabs) == [b \in Block |-> IF \E x \in tabs : b \in pending[x] THEN mem[b] ELSE nvm[b]]
Drained(tabs) == [x \in Tables |-> IF x \in tabs THEN {} ELSE pending[x]]

Init ==
  /\ power \in BOOLEAN
  /\ run = "none" /\ pc = "ready" /\ magic = FALSE /\ base = {} /\ state = FALSE /\ gc = FALSE
  /\ used = {} /\ mem = [b \in Block |-> {}] /\ nvm = mem
  /\ pending = [x \in Tables |-> {}] /\ lists = {} /\ live = {}
  /\ doubt = "no" /\ crashes = 0

-----------------------------------------------------------------------------
(* MAK_start.                                                               *)

\* MAK_set_persistent_rgn and MAK_expand_hp_inner fill the base metadata and
\* mark the heap inconsistent.
StartFill ==
  /\ run = "none" /\ ~ magic /\ pc = "ready"
  /\ run' = "starting" /\ pc' = "fill" /\ state' = TRUE /\ base' = {}
  /\ UNCHANGED <<magic, gc, heap, rest>>

\* The lines that MAK_NVM_ASYNC_RANGE over the base metadata enters into the
\* table: add_to_flush_table stores the first line's address for each of them.
Entered == {1}

StartSync ==
  /\ run = "starting" /\ pc = "fill"
  /\ base' = Entered /\ pc' = "sync"
  /\ UNCHANGED <<run, magic, state, gc, heap, rest>>

StartDone ==
  /\ run = "starting" /\ pc = "sync"
  /\ magic' = TRUE /\ run' = "on" /\ pc' = "ready"
  /\ UNCHANGED <<base, state, gc, heap, rest>>

-----------------------------------------------------------------------------
(* Allocation and deallocation in an online process.                        *)

\* A block with room gives all its free objects to a list; only its marks and
\* their table change.
TakeBlock(b) ==
  /\ run = "on" /\ b \in used /\ mem[b] # ObjsOf(b)
  /\ lists' = lists \cup (ObjsOf(b) \ mem[b])
  /\ mem' = [mem EXCEPT ![b] = ObjsOf(b)] /\ pending' = Add(TableOf(b), b)
  /\ UNCHANGED <<run, pc, words, used, nvm, live, rest>>

NewBlock(b) ==
  /\ run = "on" /\ b \notin used
  /\ state' = TRUE
  /\ used' = used \cup {b} /\ lists' = lists \cup ObjsOf(b)
  /\ mem' = [mem EXCEPT ![b] = ObjsOf(b)] /\ nvm' = [nvm EXCEPT ![b] = {}]
  /\ pending' = Add(TableOf(b), b)
  /\ UNCHANGED <<run, pc, magic, base, gc, live, rest>>

Malloc(o) ==
  /\ run = "on" /\ o \in lists
  /\ lists' = lists \ {o} /\ live' = live \cup {o}
  /\ UNCHANGED <<run, pc, words, used, mem, nvm, pending, rest>>

Free(o) ==
  /\ run = "on" /\ o \in live
  /\ live' = live \ {o} /\ lists' = lists \cup {o}
  /\ UNCHANGED <<run, pc, words, used, mem, nvm, pending, rest>>

\* Truncation gives objects of a block back.
Truncate(b) ==
  LET back == lists \cap ObjsOf(b) IN
  /\ run = "on" /\ back # {}
  /\ lists' = lists \ back
  /\ mem' = [mem EXCEPT ![b] = @ \ back]
  /\ IF mem[b] = back
     THEN used' = used \ {b} /\ state' = TRUE /\ UNCHANGED pending
     ELSE pending' = Add(TableOf(b), b) /\ UNCHANGED <<used, state>>
  /\ UNCHANGED <<run, pc, magic, base, gc, nvm, live, rest>>

\* A table's slot is taken by another line, or the cache evicts the line.
FlushOne(b) ==
  /\ \E x \in Tables : b \in pending[x]
  /\ nvm' = [nvm EXCEPT ![b] = mem[b]]
  /\ pending' = [x \in Tables |-> pending[x] \ {b}]
  /\ UNCHANGED <<run, pc, words, used, mem, lists, live, rest>>

-----------------------------------------------------------------------------
(* MAK_close.                                                               *)

\* MAK_close online, the other threads having gone: the main thread's lists are
\* given back and its table flushed; then MAK_sync_gc_metadata, which returns
\* when no collection is pending, and MAK_sync_alloc_metadata, which returns
\* when the heap is consistent.
MAK_close ==
  LET back(b) == IF b \in Global THEN {} ELSE lists \cap ObjsOf(b)
      marks == [b \in Block |-> mem[b] \ back(b)]
      freed == {b \in used : mem[b] = back(b) /\ back(b) # {}}
      touched == {b \in Block : back(b) # {}} \ freed
      unclean == state \/ freed # {}
      tabs == {"local"} \cup (IF gc THEN {"aflush", "fl"} ELSE {})
                        \cup (IF unclean THEN {"aflush"} ELSE {})
      flushed == touched \cup UNION {pending[x] : x \in tabs}
  IN
  /\ run = "on" /\ run' = "none"
  /\ mem' = marks /\ used' = used \ freed
  /\ nvm' = [b \in Block |-> IF b \in flushed THEN marks[b] ELSE nvm[b]]
  /\ pending' = [x \in Tables |-> {}]      \* the tables go with the process
  /\ state' = FALSE /\ gc' = FALSE /\ lists' = {}
  /\ UNCHANGED <<pc, magic, base, live, rest>>

-----------------------------------------------------------------------------
(* The collector.                                                           *)

\* MAK_start_off: recovery by the log and rebuilding, when inconsistent.
MAK_start_off ==
  /\ run = "none" /\ magic
  /\ run' = "off" /\ state' = FALSE
  /\ UNCHANGED <<pc, magic, base, gc, heap, rest>>

\* MAK_collect_off: MAK_mandatory_gc first; then the marks are cleared, set and
\* swept, and their lines entered into the table.
CollectStart ==
  /\ run = "off" /\ pc = "ready"
  /\ gc' = TRUE /\ pc' = "clear"
  /\ UNCHANGED <<run, magic, base, state, heap, rest>>

CollectClear ==
  /\ run = "off" /\ pc = "clear"
  /\ mem' = [b \in Block |-> {}] /\ pc' = "mark"
  /\ UNCHANGED <<run, words, used, nvm, pending, lists, live, rest>>

CollectMark ==
  /\ run = "off" /\ pc = "mark"
  /\ mem' = [b \in Block |-> live \cap ObjsOf(b)] /\ pc' = "sweep"
  /\ UNCHANGED <<run, words, used, nvm, pending, lists, live, rest>>

CollectSweep ==
  /\ run = "off" /\ pc = "sweep"
  /\ LET kept == {b \in used : mem[b] # {}} IN
     /\ used' = kept
     /\ state' = (state \/ kept # used)
     /\ pending' = [pending EXCEPT !["aflush"] = @ \cup kept]
  /\ pc' = "sync"
  /\ UNCHANGED <<run, magic, base, gc, mem, nvm, lists, live, rest>>

\* MAK_sync_gc_metadata: both tables, then the word.
CollectSync ==
  /\ run = "off" /\ pc = "sync"
  /\ nvm' = Flushed({"aflush", "fl"}) /\ pending' = Drained({"aflush", "fl"})
  /\ gc' = FALSE /\ pc' = "ready"
  /\ doubt' = IF doubt = "marks" THEN "no" ELSE doubt
  /\ UNCHANGED <<run, magic, base, state, used, mem, lists, live, power, crashes>>

\* Mutant of CloseOffline: MAK_sync_gc_metadata is left out.
CloseOfflineHalf ==
  /\ run = "off" /\ pc = "ready"
  /\ state' = FALSE /\ run' = "none"
  /\ UNCHANGED <<pc, magic, base, gc, heap, rest>>

\* MAK_close offline, with or without a collection: MAK_sync_gc_metadata takes a
\* collection that is to be done for one that was done.
CloseOffline ==
  /\ run = "off" /\ pc = "ready"
  /\ state' = FALSE /\ gc' = FALSE /\ run' = "none"
  /\ doubt' = IF gc /\ doubt = "no" THEN "marks" ELSE doubt
  /\ UNCHANGED <<pc, magic, base, heap, power, crashes>>

-----------------------------------------------------------------------------
(* MAK_restart, crashes.                                                    *)

\* Mutant of MAK_restart: an unfinished collection is not noticed.
MAK_restart_always ==
  /\ run = "none" /\ magic /\ ~ state
  /\ run' = "on" /\ doubt' = IF doubt = "marks" THEN "ran" ELSE doubt
  /\ UNCHANGED <<pc, words, heap, power, crashes>>

\* MAK_restart aborts on an inconsistent heap and on an unfinished collection.
MAK_restart ==
  /\ run = "none" /\ magic /\ ~ state /\ ~ gc
  /\ run' = "on" /\ doubt' = IF doubt = "marks" THEN "ran" ELSE doubt
  /\ UNCHANGED <<pc, words, heap, power, crashes>>

\* Cache lines survive a process; a loss of power may lose the unflushed ones,
\* after the process has ended, too.
Crash ==
  /\ crashes < MaxCrash
  /\ run # "none" \/ (power /\ nvm # mem)
  /\ crashes' = crashes + 1
  /\ run' = "none" /\ pc' = "ready" /\ lists' = {} /\ pending' = [x \in Tables |-> {}]
  /\ \E kept \in SUBSET Block, lines \in SUBSET (1..NLines) :
       /\ ~ power => kept = Block /\ lines = 1..NLines
       /\ nvm' = [b \in Block |-> IF b \in kept THEN mem[b] ELSE nvm[b]]
       /\ base' = IF run = "starting" \/ magic THEN base \cup lines ELSE base
  /\ mem' = nvm'
  /\ doubt' = IF nvm' # mem /\ ~ gc /\ doubt = "no" THEN "marks" ELSE doubt
  /\ UNCHANGED <<magic, state, gc, used, live, power>>

Collect == CollectStart \/ CollectClear \/ CollectMark \/ CollectSweep \/ CollectSync
Recover == ((state \/ gc) /\ MAK_start_off) \/ Collect \/ StartFill \/ StartSync \/ StartDone

Next ==
  \/ StartFill \/ StartSync \/ StartDone
  \/ \E b \in Block : TakeBlock(b) \/ NewBlock(b) \/ Truncate(b) \/ FlushOne(b)
  \/ \E o \in Obj : Malloc(o) \/ Free(o)
  \/ MAK_close \/ MAK_start_off
  \/ CollectStart \/ CollectClear \/ CollectMark \/ CollectSweep \/ CollectSync
  \/ CloseOffline \/ MAK_restart \/ Crash

Spec == Init /\ [][Next]_vars

\* Who runs a heap brings it up again: a collection that was begun is finished,
\* the collector closed, and the heap restarted if it can be time and again.
FairSpec == Spec /\ WF_vars(Recover) /\ SF_vars(CloseOffline) /\ SF_vars(MAK_restart)

-----------------------------------------------------------------------------
(* Properties.                                                              *)

\* In an online process every object the roots reach is marked, so that none is
\* handed out a second time.  MAK_restart is refused after a process died in a
\* collection ("if we fail anywhere within the gc phase, we run the garbage
\* collection again", makalu_mark.c:694-697); it is not refused, and nothing is
\* said, after a power failure at another time that took marks, and after
\* MAK_close of a collector that had a collection to do.
LiveIsMarked ==
  run = "on" /\ doubt = "no" => \A o \in live : o[1] \in used /\ o \in mem[o[1]]

\* When MAK_persistent_initialized says so, all base metadata is durable
\* ("NVRAM visibility taken care of by MAK_base_md", makalu_init.c:64).
InitializedIsDurable == magic => base = 1..NLines

\* After MAK_close the marks are durable, "for clean restart in next execution
\* cycle" (makalu_init.c:308-310).
CloseIsDurable == run = "none" /\ crashes = 0 => nvm = mem

IsDown == run = "none"
IsUp == run = "on"

\* A heap that is down comes up again: no state of the two words is refused by
\* MAK_restart and left alone by the collector.
ComesUpAgain == IsDown ~> IsUp
=============================================================================
