------------------------------ MODULE RunProtocol ------------------------------
(******************************************************************************)
(* The failure-atomic life of the small objects of one run: a 4096-byte block  *)
(* cut into equal slots behind a one-cache-line header on NVRAM.  Threads      *)
(* reserve a slot (arena_allocate), activate it (nvm_activate) and free it     *)
(* (arena_free); both of the latter also rewrite up to two pointers ("link     *)
(* cells") elsewhere on NVRAM.  The process may crash between any two stores;  *)
(* nvm_initialize_recovered then replays or drops what the activation log      *)
(* names, and may itself crash.                                                *)
(*                                                                            *)
(* hdr, link and log are NVRAM as the CPU sees it, nvm is what survives a       *)
(* crash.  Durability says when a store reaches nvm:                           *)
(*   "store"  at once: the process dies but the machine stays up (the backing  *)
(*            file is a shared mapping), or caches are power-fail protected;   *)
(*   "evict"  when the cache writes the line back: power failure.              *)
(* PERSIST makes no store durable in either case.  It calls clflush, clflushopt *)
(* or clwb (util.c:43-79), whose memory operand is the parameter ptr itself    *)
(* and not what it points to, so the line that is flushed is one of the stack; *)
(* a NOFLUSH build has fences only.  Stores to one line reach NVRAM in program *)
(* order (x86), so nvm.hdr is always a former value of hdr.                    *)
(*                                                                            *)
(* nvm_initialize_recovered makes a new VHeader for every log entry that names *)
(* the run and leaves all of them on the list of the bin; vdata names the last *)
(* one.  The others, in old, still hand out slots.                             *)
(******************************************************************************)
EXTENDS Integers, FiniteSets, TLC

CONSTANTS
  Thread,      \* application threads
  NSlots,      \* slots of the run, (BLOCK_SIZE-64)/n_bytes in the code
  Cell,        \* link cells: application pointers on NVRAM
  NoCell,      \* the NULL link_ptr
  LogSize,     \* max_log_entries, 127 in the code
  MaxCrash,    \* bound: crashes while the application runs
  MaxForeign,  \* bound: activations of objects outside this run
  CrashAnywhere, \* if FALSE, no crash interrupts a call that the log does not name
  Durability

Slot == 0 .. NSlots - 1

\* nvm_run->bit_idx = -1; also the slot a NULL pointer denotes.
NoBit == -1

ASSUME RunAssumption ==
  /\ NSlots \in Nat \ {0}
  /\ NoCell \notin Cell
  /\ LogSize \in Nat \ {0}
  /\ MaxCrash \in Nat
  /\ MaxForeign \in Nat
  /\ CrashAnywhere \in BOOLEAN
  /\ Durability \in {"store", "evict"}

VARIABLES
  hdr,      \* nvm_run_header_t, cached: state, bitmap, bit_idx, on
  link,     \* the link cells, cached
  log,      \* log_start[0..max_log_entries-1], cached
  nvm,      \* the durable copies of hdr, link and log
  next_log, \* next_log_entry % max_log_entries
  fresh,    \* nvm_run->version = current_version: vdata names a live VHeader
  vbitmap,  \* arena_run_t.bitmap of that VHeader
  old,      \* the other VHeaders of the run: the log entry they come from, their bitmap
  phase,    \* "up" or, inside nvm_initialize_recovered, "recover"
  rec,      \* recovery: index of the log entry and the step within it
  pc,       \* per thread, the next step of the call it is in
  op,       \* per thread, the arguments of that call
  crashes,  \* crashes so far while up (bounded by MaxCrash)
  foreign   \* activations elsewhere so far (bounded by MaxForeign)

memory   == <<hdr, link, log, nvm>>
volatile == <<next_log, fresh, vbitmap, old>>
vars     == <<hdr, link, log, nvm, next_log, fresh, vbitmap, old, phase, rec, pc,
              op, crashes, foreign>>

--------------------------------------------------------------------------------
(* Data. *)

RunState == {"INITIALIZED", "PREACTIVATE", "ACTIVATING", "PREFREE", "FREEING"}

\* nvm_ptrset_t: the cell to rewrite and the object it is to name.
PtrSet   == [ptr : Cell \cup {NoCell}, value : Slot \cup {NoBit}]
NoPtrSet == [ptr |-> NoCell, value |-> NoBit]
ClearOn  == [k \in 1 .. 2 |-> NoPtrSet]

Header == [state : RunState, bitmap : SUBSET Slot, bit_idx : Slot \cup {NoBit},
           on : [1 .. 2 -> PtrSet]]

\* A pointer kept on NVRAM, with the addressing it was written in.
LinkVal == [form : {"null", "rel", "abs"}, obj : Slot \cup {NoBit}]
Null    == [form |-> "null", obj |-> NoBit]

\* __NVM_ABS_TO_REL_WITH_NULL, which the calls store, and
\* __NVM_REL_TO_ABS_WITH_NULL, which the replay stores.
RelPtr(s) == IF s = NoBit THEN Null ELSE [form |-> "rel", obj |-> s]
AbsPtr(s) == IF s = NoBit THEN Null ELSE [form |-> "abs", obj |-> s]

\* A log entry names (an object of) this run, an object elsewhere, or nothing.
LogVal == {"none", "run", "other"}

\* link_ptr2 is only looked at when link_ptr1 is given; no cell is given twice.
LinkArgs == {l \in [1 .. 2 -> Cell \cup {NoCell}] :
               l[2] # NoCell => (l[1] # NoCell /\ l[1] # l[2])}
NoLinks  == [k \in 1 .. 2 |-> NoCell]

Cells(l) == {l[k] : k \in 1 .. 2} \ {NoCell}

Op   == [kind : {"none", "activate", "free"}, slot : Slot \cup {NoBit},
         links : LinkArgs, idx : 0 .. LogSize - 1]
NoOp == [kind |-> "none", slot |-> NoBit, links |-> NoLinks, idx |-> 0]

\* The object the links of a call are to name: the new object when it is
\* activated, NULL when it is freed.
Target(o) == IF o.kind = "activate" THEN o.slot ELSE NoBit

\* The states a call puts the header in before and after it commits.
Prepared(o)   == IF o.kind = "activate" THEN "PREACTIVATE" ELSE "PREFREE"
InProgress(o) == IF o.kind = "activate" THEN "ACTIVATING" ELSE "FREEING"

--------------------------------------------------------------------------------
(* Stores.  The PERSISTs that follow them only fence. *)

StoreHdr(h) ==
  /\ hdr' = h
  /\ nvm' = [nvm EXCEPT !.hdr = IF Durability = "store" THEN h ELSE @]
  /\ UNCHANGED <<link, log>>

StoreLink(c, v) ==
  /\ link' = [link EXCEPT ![c] = v]
  /\ nvm' = [nvm EXCEPT !.link[c] = IF Durability = "store" THEN v ELSE @]
  /\ UNCHANGED <<hdr, log>>

StoreLog(i, v) ==
  /\ log' = [log EXCEPT ![i] = v]
  /\ nvm' = [nvm EXCEPT !.log = IF Durability = "store" THEN log' ELSE @]
  /\ UNCHANGED <<hdr, link>>

\* The cache writes a dirty line back on its own account (bound: as long as there
\* may be a crash to come).
Evict ==
  /\ Durability = "evict"
  /\ phase = "recover" \/ crashes < MaxCrash
  /\ \/ nvm' = [nvm EXCEPT !.hdr = hdr]
     \/ \E c \in Cell : nvm' = [nvm EXCEPT !.link[c] = link[c]]
     \/ nvm' = [nvm EXCEPT !.log = log]
  /\ nvm' # nvm
  /\ UNCHANGED <<hdr, link, log, volatile, phase, rec, pc, op, crashes, foreign>>

--------------------------------------------------------------------------------
(* Initially the run has just been created by arena_create_run and is empty.   *)

EmptyHeader == [state |-> "INITIALIZED", bitmap |-> {}, bit_idx |-> NoBit,
                on |-> ClearOn]

Init ==
  /\ hdr = EmptyHeader
  /\ link = [c \in Cell |-> Null]
  /\ log = [i \in 0 .. LogSize - 1 |-> "none"]
  /\ nvm = [hdr |-> hdr, link |-> link, log |-> log]
  /\ next_log = 0
  /\ fresh = TRUE
  /\ vbitmap = {}
  /\ old = {}
  /\ phase = "up"
  /\ rec = [i |-> 0, at |-> "scan"]
  /\ pc = [t \in Thread |-> "idle"]
  /\ op = [t \in Thread |-> NoOp]
  /\ crashes = 0
  /\ foreign = 0

--------------------------------------------------------------------------------
(* The application's calls.  A thread handles one object at a time.  It gives  *)
(* nvm_activate cells that are NULL, and gives nvm_free every cell that names  *)
(* the object; no two calls in progress share a cell or an object.             *)

At(t, from) == phase = "up" /\ pc[t] = from

Goto(t, to) == pc' = [pc EXCEPT ![t] = to]

Return(t) == /\ pc' = [pc EXCEPT ![t] = "idle"]
             /\ op' = [op EXCEPT ![t] = NoOp]

InUse(c) == \E u \in Thread : c \in Cells(op[u].links)

\* Mutant of LowestFree: the search looks at the bitmap on NVRAM, where slots
\* that are reserved and not yet activated are still clear.
LowestFreeOnNVM(s, B) == s \in Slot \ hdr.bitmap
                         /\ \A r \in Slot \ hdr.bitmap : s <= r

\* arena_allocate takes the first clear bit of the VHeader's bitmap.
LowestFree(s, B) == s \in Slot \ B /\ \A r \in Slot \ B : s <= r

\* The bin chooses any VHeader of the run, also one that the recovery thread made
\* and that is in no list of the bin: more behaviours than the code has.  A slot
\* that one VHeader hands out stays clear in the others.
Reserve(t) ==
  /\ At(t, "idle")
  /\ fresh
  /\ \E s \in Slot :
       /\ \/ /\ LowestFree(s, vbitmap)
             /\ vbitmap' = vbitmap \cup {s}
             /\ UNCHANGED old
          \/ /\ \E h \in old :
                  /\ LowestFree(s, h.bitmap)
                  /\ old' = (old \ {h}) \cup {[h EXCEPT !.bitmap = @ \cup {s}]}
             /\ UNCHANGED vbitmap
       /\ op' = [op EXCEPT ![t] = [NoOp EXCEPT !.kind = "activate", !.slot = s]]
  /\ Goto(t, "reserved")
  /\ UNCHANGED <<memory, next_log, fresh, phase, rec, crashes, foreign>>

\* The application gives cells that are NULL and that no other call has ...
CallActivate(t) ==
  /\ At(t, "reserved")
  /\ \E l \in LinkArgs :
       /\ \A c \in Cells(l) : link[c] = Null /\ ~InUse(c)
       /\ op' = [op EXCEPT ![t].links = l]
  /\ Goto(t, "log_claim")
  /\ UNCHANGED <<memory, volatile, phase, rec, crashes, foreign>>

\* ... and frees an allocated object once, setting the cells that name it to NULL.
CallFree(t) ==
  /\ At(t, "idle")
  /\ \E s \in hdr.bitmap, l \in LinkArgs :
       /\ \A u \in Thread : op[u].slot # s
       /\ Cells(l) = {c \in Cell : link[c].obj = s}
       /\ op' = [op EXCEPT ![t] = [kind |-> "free", slot |-> s, links |-> l,
                                   idx |-> 0]]
  /\ Goto(t, "cas")
  /\ UNCHANGED <<memory, volatile, phase, rec, crashes, foreign>>

--------------------------------------------------------------------------------
(* log_activate: only nvm_activate calls it. *)

LogClaim(t) ==
  /\ At(t, "log_claim")
  /\ op' = [op EXCEPT ![t].idx = next_log]
  /\ next_log' = (next_log + 1) % LogSize
  /\ Goto(t, "log_store")
  /\ UNCHANGED <<memory, fresh, vbitmap, old, phase, rec, crashes, foreign>>

LogStore(t) ==
  /\ At(t, "log_store")
  /\ StoreLog(op[t].idx, "run")
  /\ Goto(t, "cas")
  /\ UNCHANGED <<volatile, phase, rec, op, crashes, foreign>>

\* log_activate of an object outside this run, by any thread of the process; its
\* claim and its store are one step.
Foreign ==
  /\ phase = "up"
  /\ foreign < MaxForeign
  /\ StoreLog(next_log, "other")
  /\ next_log' = (next_log + 1) % LogSize
  /\ foreign' = foreign + 1
  /\ UNCHANGED <<fresh, vbitmap, old, phase, rec, pc, op, crashes>>

--------------------------------------------------------------------------------
(* The common body of nvm_activate (small block) and arena_free (run).         *)

\* Mutant of Cas: the header is taken without waiting for STATE_INITIALIZED.
CasUnguarded(t) ==
  /\ At(t, "cas")
  /\ StoreHdr([hdr EXCEPT !.state = Prepared(op[t])])
  /\ Goto(t, "prepare")
  /\ UNCHANGED <<volatile, phase, rec, op, crashes, foreign>>

\* The compare-and-swap loop on nvm_run->state; a failed attempt changes nothing.
Cas(t) ==
  /\ At(t, "cas")
  /\ hdr.state = "INITIALIZED"
  /\ StoreHdr([hdr EXCEPT !.state = Prepared(op[t])])
  /\ Goto(t, "prepare")
  /\ UNCHANGED <<volatile, phase, rec, op, crashes, foreign>>

\* arena_free makes sure that there is a VHeader; then bit_idx is stored.
Prepare(t) ==
  /\ At(t, "prepare")
  /\ IF op[t].kind = "free" /\ ~fresh
     THEN fresh' = TRUE /\ vbitmap' = hdr.bitmap
     ELSE UNCHANGED <<fresh, vbitmap>>
  /\ StoreHdr([hdr EXCEPT !.bit_idx = op[t].slot])
  /\ Goto(t, IF op[t].links[1] = NoCell THEN "bitmap" ELSE "on1")
  /\ UNCHANGED <<next_log, old, phase, rec, op, crashes, foreign>>

\* The links that are given are stored in the header; an on[] entry that is not
\* given keeps what it had.
StoreOn(t, k) ==
  StoreHdr([hdr EXCEPT !.on[k] = [ptr |-> op[t].links[k],
                                  value |-> Target(op[t])]])

StoreOn1(t) ==
  /\ At(t, "on1")
  /\ StoreOn(t, 1)
  /\ Goto(t, IF op[t].links[2] = NoCell THEN "commit" ELSE "on2")
  /\ UNCHANGED <<volatile, phase, rec, op, crashes, foreign>>

StoreOn2(t) ==
  /\ At(t, "on2")
  /\ StoreOn(t, 2)
  /\ Goto(t, "commit")
  /\ UNCHANGED <<volatile, phase, rec, op, crashes, foreign>>

\* Mutant of Commit: the state is left at PREACTIVATE or PREFREE.
CommitSkipped(t) ==
  /\ At(t, "commit")
  /\ UNCHANGED memory
  /\ Goto(t, "link1")
  /\ UNCHANGED <<volatile, phase, rec, op, crashes, foreign>>

Commit(t) ==
  /\ At(t, "commit")
  /\ StoreHdr([hdr EXCEPT !.state = InProgress(op[t])])
  /\ Goto(t, "link1")
  /\ UNCHANGED <<volatile, phase, rec, op, crashes, foreign>>

Link1(t) ==
  /\ At(t, "link1")
  /\ StoreLink(op[t].links[1], RelPtr(Target(op[t])))
  /\ Goto(t, IF op[t].links[2] = NoCell THEN "bitmap" ELSE "link2")
  /\ UNCHANGED <<volatile, phase, rec, op, crashes, foreign>>

Link2(t) ==
  /\ At(t, "link2")
  /\ StoreLink(op[t].links[2], RelPtr(Target(op[t])))
  /\ Goto(t, "bitmap")
  /\ UNCHANGED <<volatile, phase, rec, op, crashes, foreign>>

Bitmap(t) ==
  /\ At(t, "bitmap")
  /\ StoreHdr([hdr EXCEPT !.bitmap = IF op[t].kind = "activate"
                                     THEN @ \cup {op[t].slot}
                                     ELSE @ \ {op[t].slot}])
  /\ Goto(t, "release")
  /\ UNCHANGED <<volatile, phase, rec, op, crashes, foreign>>

\* Mutant of Release: the header stays locked.
ReleaseForgotten(t) ==
  /\ At(t, "release")
  /\ UNCHANGED memory
  /\ Goto(t, "unset")
  /\ UNCHANGED <<volatile, phase, rec, op, crashes, foreign>>

\* From this store on another thread may take the header.
Release(t) ==
  /\ At(t, "release")
  /\ StoreHdr([hdr EXCEPT !.state = "INITIALIZED"])
  /\ Goto(t, "unset")
  /\ UNCHANGED <<volatile, phase, rec, op, crashes, foreign>>

\* The header is not the thread's any more, and yet it still writes to it.
Unset(t) ==
  /\ At(t, "unset")
  /\ StoreHdr([hdr EXCEPT !.bit_idx = NoBit])
  /\ Goto(t, "clear")
  /\ UNCHANGED <<volatile, phase, rec, op, crashes, foreign>>

\* memset of on[], taken as one store, and PERSIST(nvm_run), which leaves the line
\* in the cache; nvm_activate returns here.
Clear(t) ==
  /\ At(t, "clear")
  /\ StoreHdr([hdr EXCEPT !.on = ClearOn])
  /\ IF op[t].kind = "activate"
     THEN Return(t)
     ELSE Goto(t, "vfree") /\ UNCHANGED op
  /\ UNCHANGED <<volatile, phase, rec, crashes, foreign>>

\* The end of arena_free, under the bin's mutex: the bit is cleared in the VHeader
\* that vdata names, whichever one handed the slot out.
VFree(t) ==
  /\ At(t, "vfree")
  /\ vbitmap' = vbitmap \ {op[t].slot}
  /\ Return(t)
  /\ UNCHANGED <<memory, next_log, fresh, old, phase, rec, crashes, foreign>>

ThreadStep(t) ==
  \/ LogClaim(t) \/ LogStore(t)
  \/ Cas(t) \/ Prepare(t) \/ StoreOn1(t) \/ StoreOn2(t) \/ Commit(t)
  \/ Link1(t) \/ Link2(t) \/ Bitmap(t) \/ Release(t) \/ Unset(t) \/ Clear(t)
  \/ VFree(t)

--------------------------------------------------------------------------------
(* Crash, restart and nvm_initialize_recovered. *)

\* The log names the run while some thread changes its header.  A free makes no
\* entry: there is one only if the object was activated since the last restart
\* and the ring of the log has not come round.
CallsAreLogged ==
  (\E t \in Thread : pc[t] \in {"prepare", "on1", "on2", "commit", "link1", "link2",
                               "bitmap", "release", "unset", "clear"})
    => \E i \in 0 .. LogSize - 1 : log[i] = "run"

Crash ==
  /\ \/ /\ phase = "up" /\ crashes < MaxCrash /\ crashes' = crashes + 1
        /\ CrashAnywhere \/ CallsAreLogged
     \/ phase = "recover" /\ UNCHANGED crashes
  /\ hdr' = nvm.hdr /\ link' = nvm.link /\ log' = nvm.log
  /\ phase' = "recover"
  /\ rec' = [i |-> 0, at |-> "scan"]
  /\ pc' = [t \in Thread |-> "idle"]
  /\ op' = [t \in Thread |-> NoOp]
  /\ next_log' = 0 /\ fresh' = FALSE /\ vbitmap' = {} /\ old' = {}
  /\ UNCHANGED <<nvm, foreign>>

RecAt(from) == phase = "recover" /\ rec.at = from /\ rec.i < LogSize

RecGoto(to) == rec' = [rec EXCEPT !.at = to]

Committed == hdr.state \in {"ACTIVATING", "FREEING"}

\* One log entry.  Entries of other objects do not touch this run, and an empty
\* one is skipped.  A committed header is replayed, any other one is only reset.
RecScan ==
  /\ RecAt("scan")
  /\ RecGoto(IF log[rec.i] # "run" THEN "forget"
             ELSE IF ~Committed THEN "vheader"
             ELSE IF hdr.on[1].ptr = NoCell THEN "bitmap" ELSE "link1")
  /\ UNCHANGED <<memory, volatile, phase, pc, op, crashes, foreign>>

\* The replay stores absolute addresses.
RecLink1 ==
  /\ RecAt("link1")
  /\ StoreLink(hdr.on[1].ptr, AbsPtr(hdr.on[1].value))
  /\ RecGoto(IF hdr.on[2].ptr = NoCell THEN "bitmap" ELSE "link2")
  /\ UNCHANGED <<volatile, phase, pc, op, crashes, foreign>>

RecLink2 ==
  /\ RecAt("link2")
  /\ StoreLink(hdr.on[2].ptr, AbsPtr(hdr.on[2].value))
  /\ RecGoto("bitmap")
  /\ UNCHANGED <<volatile, phase, pc, op, crashes, foreign>>

\* Mutant of RecBitmap: the replay of FREEING sets the bit like ACTIVATING.
RecBitmapSets ==
  /\ RecAt("bitmap")
  /\ StoreHdr([hdr EXCEPT !.bitmap = @ \cup ({hdr.bit_idx} \ {NoBit})])
  /\ RecGoto("vheader")
  /\ UNCHANGED <<volatile, phase, pc, op, crashes, foreign>>

\* With bit_idx = -1 the code shifts 1 by -1; the x86 shift masks the count to
\* 31, which leaves the byte of the bitmap as it is.
RecBitmap ==
  /\ RecAt("bitmap")
  /\ StoreHdr([hdr EXCEPT !.bitmap =
                 IF hdr.state = "ACTIVATING" THEN @ \cup ({hdr.bit_idx} \ {NoBit})
                                             ELSE @ \ {hdr.bit_idx}])
  /\ RecGoto("vheader")
  /\ UNCHANGED <<volatile, phase, pc, op, crashes, foreign>>

\* Mutant of RecVHeader: the memset of on[] is left out.
RecVHeaderKeepsOn ==
  /\ RecAt("vheader")
  /\ fresh' = TRUE
  /\ vbitmap' = hdr.bitmap
  /\ old' = IF fresh THEN old \cup {[entry |-> rec.i, bitmap |-> vbitmap]} ELSE old
  /\ RecGoto("unset")
  /\ UNCHANGED <<memory, next_log, phase, pc, op, crashes, foreign>>

\* arena_create_run_header and the push on bin->runs, whether or not an earlier
\* entry has made a VHeader for the run; then memset of on[].
RecVHeader ==
  /\ RecAt("vheader")
  /\ fresh' = TRUE
  /\ vbitmap' = hdr.bitmap
  /\ old' = IF fresh THEN old \cup {[entry |-> rec.i, bitmap |-> vbitmap]} ELSE old
  /\ StoreHdr([hdr EXCEPT !.on = ClearOn])
  /\ RecGoto("unset")
  /\ UNCHANGED <<next_log, phase, pc, op, crashes, foreign>>

RecUnset ==
  /\ RecAt("unset")
  /\ StoreHdr([hdr EXCEPT !.bit_idx = NoBit])
  /\ RecGoto("settle")
  /\ UNCHANGED <<volatile, phase, pc, op, crashes, foreign>>

RecSettle ==
  /\ RecAt("settle")
  /\ StoreHdr([hdr EXCEPT !.state = "INITIALIZED"])
  /\ RecGoto("forget")
  /\ UNCHANGED <<volatile, phase, pc, op, crashes, foreign>>

\* log_start[i] = NULL, not followed by a PERSIST.
RecForget ==
  /\ RecAt("forget")
  /\ StoreLog(rec.i, "none")
  /\ rec' = [i |-> rec.i + 1, at |-> "scan"]
  /\ UNCHANGED <<volatile, phase, pc, op, crashes, foreign>>

\* nvm_initialize starts the recovery thread and returns to the application.
RecDone ==
  /\ phase = "recover"
  /\ rec.i = LogSize
  /\ phase' = "up"
  /\ rec' = [i |-> 0, at |-> "scan"]
  /\ UNCHANGED <<memory, volatile, pc, op, crashes, foreign>>

RecoveryStep == \/ RecScan \/ RecLink1 \/ RecLink2 \/ RecBitmap \/ RecVHeader
                \/ RecUnset \/ RecSettle \/ RecForget \/ RecDone

\* nvm_recovery_thread reaches a run that has no VHeader yet and gives it one.
\* (What happens when arena_free does the same at that moment is Bins.)
RecoveryThread ==
  /\ phase = "up"
  /\ ~fresh
  /\ fresh' = TRUE
  /\ vbitmap' = hdr.bitmap
  /\ UNCHANGED <<memory, next_log, old, phase, rec, pc, op, crashes, foreign>>

--------------------------------------------------------------------------------

Next ==
  \/ \E t \in Thread : Reserve(t) \/ CallActivate(t) \/ CallFree(t)
                       \/ ThreadStep(t)
  \/ Foreign
  \/ Evict
  \/ Crash
  \/ RecoveryStep
  \/ RecoveryThread

Spec == Init /\ [][Next]_vars

\* Threads are interchangeable.
ThreadSymmetry == Permutations(Thread)

\* A thread inside a call, the recovery and the recovery thread keep running;
\* the application need not make a call, and nothing need crash.  Nothing can be
\* promised of a machine that never stops crashing.
Fairness ==
  /\ <>[][~Crash]_vars
  /\ \A t \in Thread : WF_vars(ThreadStep(t))
  /\ WF_vars(RecoveryStep)
  /\ WF_vars(RecoveryThread)

FairSpec == Spec /\ Fairness

--------------------------------------------------------------------------------
(* Properties. *)

PCs == {"idle", "reserved", "log_claim", "log_store", "cas", "prepare",
        "on1", "on2", "commit", "link1", "link2", "bitmap", "release", "unset",
        "clear", "vfree"}

RecPCs == {"scan", "link1", "link2", "bitmap", "vheader", "unset", "settle",
           "forget"}

\* Every variable stays in its range, in memory and in its durable copy.
TypeOK ==
  /\ hdr \in Header
  /\ link \in [Cell -> LinkVal]
  /\ log \in [0 .. LogSize - 1 -> LogVal]
  /\ nvm \in [hdr : Header, link : [Cell -> LinkVal],
              log : [0 .. LogSize - 1 -> LogVal]]
  /\ next_log \in 0 .. LogSize - 1
  /\ fresh \in BOOLEAN
  /\ vbitmap \in SUBSET Slot
  /\ old \subseteq [entry : 0 .. LogSize - 1, bitmap : SUBSET Slot]
  /\ phase \in {"up", "recover"}
  /\ rec \in [i : 0 .. LogSize, at : RecPCs]
  /\ pc \in [Thread -> PCs]
  /\ op \in [Thread -> Op]
  /\ crashes \in 0 .. MaxCrash
  /\ foreign \in 0 .. MaxForeign

\* Thread t has taken the header by the compare-and-swap and not released it.
Preparing(t) == pc[t] \in {"prepare", "on1", "on2", "commit"}
Holds(t) == Preparing(t) \/ pc[t] \in {"link1", "link2", "bitmap", "release"}

\* nvm_activate and arena_free exclude each other on a run: two threads are never
\* between the compare-and-swap and the store of STATE_INITIALIZED, and while
\* one is, the state on NVRAM is the one its call has got to ("make sure no
\* concurrent deallocations/activations are performed on the same run").
HeaderExclusion ==
  \A t \in Thread : Holds(t) =>
    /\ \A u \in Thread \ {t} : ~Holds(u)
    /\ hdr.state = IF Preparing(t) \/ op[t].links = NoLinks
                   THEN Prepared(op[t]) ELSE InProgress(op[t])

\* While the run has one VHeader, arena_allocate never hands out memory that is in
\* use: a slot that is marked used on NVRAM is marked in the VHeader too, whatever
\* thread is between the two bitmaps, so the reserved slot of a call that has not
\* yet set its bit is clear on NVRAM and is no other call's.  After a restart that
\* found two log entries of the run there are two VHeaders (nvm_malloc.c:707-713),
\* and the same slot is handed out by each: nothing of this is left then.
NoDoubleAllocation ==
  phase = "up" /\ old = {} =>
    /\ fresh => hdr.bitmap \subseteq vbitmap
    /\ \A t \in Thread : op[t].kind = "activate" =>
         /\ fresh => op[t].slot \in vbitmap
         /\ pc[t] \notin {"release", "unset", "clear"} => op[t].slot \notin hdr.bitmap
         /\ \A u \in Thread \ {t} : op[u].slot # op[t].slot

Quiet == phase = "up" /\ \A t \in Thread : pc[t] \in {"idle", "reserved"}

\* When no call is in progress, whatever crashes there were, the header is
\* free to be taken: no call is left half done on NVRAM.
QuietHeaderIsFree == Quiet => hdr.state = "INITIALIZED" /\ hdr.on = ClearOn

\* A pointer on NVRAM that names an object of the run names an allocated one,
\* before and after any crash ("either all changes will be undone or otherwise
\* next_node is persisted on NVRAM and root->next will point to next_node").
LinksNameAllocatedObjects ==
  Quiet => \A c \in Cell : link[c] # Null => link[c].obj \in hdr.bitmap

\* When no call is in progress the header on NVRAM is the one in the cache: the
\* effect of every call that returned on the run survives a power failure.
QuietHeaderIsDurable == Quiet => nvm.hdr = hdr

\* The same for the link cells the calls have rewritten.
QuietLinksAreDurable == Quiet => nvm.link = link

\* Pointers the library writes to NVRAM are relative ("any pointer variable
\* stored on NVRAM must use a relative addressing scheme").
LinksAreRelative == \A c \in Cell : link[c].form # "abs"

\* A header that is taken is released again: no later nvm_activate or nvm_free on
\* the run spins for ever on a state that nobody will reset.
HeaderIsReleased == hdr.state # "INITIALIZED" ~> hdr.state = "INITIALIZED"

--------------------------------------------------------------------------------
(* Refinement: what recovery would make of the present NVRAM is the state of   *)
(* an allocator whose calls are single steps.  A call with links takes effect  *)
(* when its state becomes ACTIVATING or FREEING, a call without links when the *)
(* bit is written.                                                             *)

RecoveredUsed ==
  {s \in Slot :
     \/ s \in hdr.bitmap /\ ~(hdr.state = "FREEING" /\ s = hdr.bit_idx)
     \/ hdr.state = "ACTIVATING" /\ s = hdr.bit_idx}

RecoveredCell ==
  [c \in Cell |->
     IF Committed /\ \E k \in 1 .. 2 : hdr.on[k].ptr = c
     THEN hdr.on[CHOOSE k \in 1 .. 2 : hdr.on[k].ptr = c].value
     ELSE link[c].obj]

\* The calls that were made and have not taken effect.
Pending ==
  {[kind |-> op[t].kind, slot |-> op[t].slot, cells |-> Cells(op[t].links)] :
     t \in {u \in Thread : \/ pc[u] \in {"log_claim", "log_store", "cas"} \/ Preparing(u)
                           \/ pc[u] = "bitmap" /\ op[u].links = NoLinks}}

Atomic == INSTANCE AtomicRun WITH used <- RecoveredUsed, cell <- RecoveredCell,
                                  asked <- Pending

\* nvm_activate and nvm_free are failure-atomic: with respect to crashes at any
\* store, in the calls and in the recovery, each takes effect as a whole and
\* once, or not at all, and nothing happens that no call has asked for.
CallsAreFailureAtomic == Atomic!Spec

================================================================================
