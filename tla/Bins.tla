--------------------------------- MODULE Bins ---------------------------------
(***************************************************************************)
(* One bin of an arena: its runs as volatile memory sees them.  Every run  *)
(* has a header on NVRAM, whose vdata field points at a volatile header    *)
(* (VHeader) with a copy of the bitmap and the number of free slots.  The  *)
(* bin keeps the number of free slots of all its runs, the run it          *)
(* allocates from and a list of the other runs that are not full.          *)
(*                                                                         *)
(* After a restart vdata is a stale pointer: a header whose version is     *)
(* not the current one gets a new VHeader from whoever comes first, the    *)
(* replay of the log, nvm_recovery_thread or arena_free.                   *)
(*                                                                         *)
(* What happens inside a run header while a call holds it is RunProtocol:  *)
(* here taking and releasing it are steps, and a crash finds no header     *)
(* held.  What the mutex of the bin protects is one step; vdata and        *)
(* version, which are read without it, are stored in separate steps.       *)
(***************************************************************************)
EXTENDS Integers, Sequences, FiniteSets, SequencesExt

CONSTANTS
  Thread,      \* application threads
  NoThread,
  Run,         \* pages that can become runs of this bin, positive numbers
  NSlots,      \* (BLOCK_SIZE - 64) / n_bytes
  VHeader,     \* addresses malloc returns for VHeaders
  LogSize,     \* bound: log entries that name runs of this bin
  MaxObjects,  \* bound: objects that the application has at a time
  MaxRestart   \* bound: restarts

VARIABLES
  nvm,      \* per run header: vdata, version is current, bitmap, holder of the header
  v,        \* per VHeader: run, bitmap, n_free, next
  heap,     \* the VHeaders that are allocated
  bin,      \* current_run, n_free, runs
  mtx,      \* holder of bin->mtx
  reserved, active,   \* the application's objects <<run, slot>>
  op,       \* per thread, a call of arena_free in progress
  scan,     \* nvm_recovery_thread
  log,      \* the runs named by the activation log, oldest first
  fault,    \* what stopped the process: a "NULL" or a "dangling" pointer to a VHeader
  restarts

vars == <<nvm, v, heap, bin, mtx, reserved, active, op, scan, log, fault, restarts>>

NULL == 0
Slots == 0 .. NSlots - 1
Idle == [at |-> "idle", ptr |-> <<NULL, 0>>, run |-> NULL, tmp |-> NULL]
NoScan == [at |-> "off", r |-> NULL, run |-> NULL, tmp |-> NULL]
NoRun == [exists |-> FALSE, vdata |-> NULL, current |-> FALSE, bitmap |-> {}, holder |-> NoThread]
NoVHeader == [run |-> NULL, bitmap |-> {}, n_free |-> 0, next |-> NULL]
EmptyBin == [current_run |-> NULL, n_free |-> 0, runs |-> NULL]

Init ==
  /\ nvm = [r \in Run |-> NoRun]
  /\ v = [h \in VHeader |-> NoVHeader]
  /\ heap = {}
  /\ bin = EmptyBin
  /\ mtx = NoThread
  /\ reserved = {} /\ active = {}
  /\ op = [t \in Thread |-> Idle]
  /\ scan = NoScan
  /\ log = <<>>
  /\ fault = "none"
  /\ restarts = 0

MayCall(t) == op[t].at = "idle"

FreeSlots(h) == Slots \ v[h].bitmap
Uint16(n) == n % 65536

-----------------------------------------------------------------------------
(* arena_allocate for a small size, under bin->mtx. *)

\* arena_create_run: a page becomes a run with the current version.
NewRun(r, h) ==
  [nvm |-> [nvm EXCEPT ![r] = [NoRun EXCEPT !.exists = TRUE, !.vdata = h, !.current = TRUE]],
   v |-> [v EXCEPT ![h] = [NoVHeader EXCEPT !.run = r, !.n_free = NSlots]]]

\* The lowest free slot of run h is handed out, or NULL when it has none; w is v
\* with h in it.
HandOut(w, b, h) ==
  LET lowest == {i \in Slots \ w[h].bitmap : \A k \in Slots \ w[h].bitmap : i <= k}
  IN /\ v' = [w EXCEPT ![h].bitmap = @ \union lowest, ![h].n_free = Uint16(@ - 1)]
     /\ bin' = [b EXCEPT !.n_free = @ - 1]
     /\ reserved' = reserved \union ({w[h].run} \X lowest)
     /\ UNCHANGED fault

AllocateNewRun(t) ==
  /\ MayCall(t) /\ mtx = NoThread
  /\ bin.n_free = 0
  /\ \E r \in Run, h \in VHeader \ heap :
       /\ ~nvm[r].exists /\ \A q \in Run : q < r => nvm[q].exists
       /\ nvm' = NewRun(r, h).nvm
       /\ heap' = heap \union {h}
       /\ HandOut(NewRun(r, h).v, [bin EXCEPT !.current_run = h, !.n_free = @ + NSlots], h)
  /\ UNCHANGED <<mtx, active, op, scan, log, restarts>>

\* The current run is full, the bin is not: the first run of the list, whether it
\* is full or not; there is no test for the end of the list.
AllocateNextRun(t) ==
  /\ MayCall(t) /\ mtx = NoThread
  /\ bin.n_free # 0
  /\ bin.current_run # NULL => v[bin.current_run].n_free = 0
  /\ LET run == bin.runs
     IN IF run = NULL THEN fault' = "NULL" /\ UNCHANGED <<v, bin, reserved>>
        ELSE HandOut(v, [bin EXCEPT !.current_run = run, !.runs = v[run].next], run)
  /\ UNCHANGED <<nvm, heap, mtx, active, op, scan, log, restarts>>

AllocateCurrent(t) ==
  /\ MayCall(t) /\ mtx = NoThread
  /\ bin.n_free # 0
  /\ bin.current_run # NULL /\ v[bin.current_run].n_free # 0
  /\ HandOut(v, bin, bin.current_run)
  /\ UNCHANGED <<nvm, heap, mtx, active, op, scan, log, restarts>>

Allocate(t) == /\ Cardinality(reserved \union active) < MaxObjects
               /\ AllocateNewRun(t) \/ AllocateNextRun(t) \/ AllocateCurrent(t)

\* nvm_activate: the call is logged and the bit set in the run header.
Activate(t) ==
  /\ MayCall(t)
  /\ \E p \in reserved :
       /\ nvm[p[1]].holder = NoThread
       /\ nvm' = [nvm EXCEPT ![p[1]].bitmap = @ \union {p[2]}]
       /\ reserved' = reserved \ {p}
       /\ active' = active \union {p}
       /\ log' = LET l == Append(log, p[1]) IN SubSeq(l, IF Len(l) > LogSize THEN 2 ELSE 1, Len(l))
  /\ UNCHANGED <<v, heap, bin, mtx, op, scan, fault, restarts>>

-----------------------------------------------------------------------------
(* arena_free of a small object. *)

Set(t, o) == op' = [op EXCEPT ![t] = o]

\* The header is taken with a compare-and-swap, then vdata is read.
Take(t) ==
  /\ MayCall(t)
  /\ \E p \in active :
       /\ nvm[p[1]].holder = NoThread
       /\ nvm' = [nvm EXCEPT ![p[1]].holder = t]
       /\ active' = active \ {p}
       /\ Set(t, [Idle EXCEPT !.at = "version", !.ptr = p, !.run = nvm[p[1]].vdata])
  /\ UNCHANGED <<v, heap, bin, mtx, reserved, scan, log, fault, restarts>>

\* Mutant of VHeaderOf: the bitmap on NVRAM is not taken over.
VHeaderOfEmpty(r) == [NoVHeader EXCEPT !.run = r, !.n_free = NSlots]

\* arena_create_run_header(nvm_run)
VHeaderOf(r) == [run |-> r, bitmap |-> nvm[r].bitmap,
                 n_free |-> Cardinality(Slots \ nvm[r].bitmap), next |-> NULL]

CheckVersion(t) ==
  /\ op[t].at = "version"
  /\ IF nvm[op[t].ptr[1]].current
     THEN Set(t, [op[t] EXCEPT !.at = "nvm"]) /\ UNCHANGED <<v, heap>>
     ELSE \E h \in VHeader \ heap :
            /\ heap' = heap \union {h}
            /\ v' = [v EXCEPT ![h] = VHeaderOf(op[t].ptr[1])]
            /\ Set(t, [op[t] EXCEPT !.at = "lock", !.tmp = h])
  /\ UNCHANGED <<nvm, bin, mtx, reserved, active, scan, log, fault, restarts>>

\* With the mutex: nobody else has made a VHeader if vdata has not changed.
LockRun(t) ==
  /\ op[t].at = "lock" /\ mtx = NoThread
  /\ LET r == op[t].ptr[1]
     IN IF op[t].run = nvm[r].vdata
        THEN /\ nvm' = [nvm EXCEPT ![r].vdata = op[t].tmp]
             /\ mtx' = t
             /\ Set(t, [op[t] EXCEPT !.at = "set"])
             /\ UNCHANGED heap
        ELSE /\ heap' = heap \ {op[t].tmp}
             /\ Set(t, [op[t] EXCEPT !.at = "reread"])
             /\ UNCHANGED <<nvm, mtx>>
  /\ UNCHANGED <<v, bin, reserved, active, scan, log, fault, restarts>>

SetVersion(t) ==
  /\ op[t].at = "set"
  /\ nvm' = [nvm EXCEPT ![op[t].ptr[1]].current = TRUE]
  /\ mtx' = NoThread
  /\ Set(t, [op[t] EXCEPT !.at = "reread"])
  /\ UNCHANGED <<v, heap, bin, reserved, active, scan, log, fault, restarts>>

Reread(t) ==
  /\ op[t].at = "reread"
  /\ Set(t, [op[t] EXCEPT !.at = "nvm", !.run = nvm[op[t].ptr[1]].vdata])
  /\ UNCHANGED <<nvm, v, heap, bin, mtx, reserved, active, scan, log, fault, restarts>>

\* run->bin and run->elem_size are read through the pointer to the VHeader, which
\* is one of an earlier process if the recovery thread has stored vdata and version
\* since Take; what follows then is not modelled.  Otherwise the bit is cleared on
\* NVRAM and the header released ...
FreeOnNvm(t) ==
  /\ op[t].at = "nvm"
  /\ IF op[t].run \notin heap \/ v[op[t].run].run # op[t].ptr[1] THEN fault' = "dangling" /\ UNCHANGED <<nvm, op>>
     ELSE /\ nvm' = [nvm EXCEPT ![op[t].ptr[1]].bitmap = @ \ {op[t].ptr[2]},
                               ![op[t].ptr[1]].holder = NoThread]
          /\ Set(t, [op[t] EXCEPT !.at = "volatile"])
          /\ UNCHANGED fault
  /\ UNCHANGED <<v, heap, bin, mtx, reserved, active, scan, log, restarts>>

\* ... then the slot is free in the VHeader, and a run that was full goes back
\* to the list of the bin.
FreeInBin(t) ==
  /\ op[t].at = "volatile" /\ mtx = NoThread
  /\ LET run == op[t].run
         v1 == [v EXCEPT ![run].bitmap = @ \ {op[t].ptr[2]}, ![run].n_free = Uint16(@ + 1)]
     IN IF run # bin.current_run /\ v1[run].n_free = 1
        THEN /\ v' = [v1 EXCEPT ![run].next = bin.runs]
             /\ bin' = [bin EXCEPT !.n_free = @ + 1, !.runs = run]
        ELSE v' = v1 /\ bin' = [bin EXCEPT !.n_free = @ + 1]
  /\ Set(t, Idle)
  /\ UNCHANGED <<nvm, heap, mtx, reserved, active, scan, log, fault, restarts>>

FreeStep(t) == CheckVersion(t) \/ LockRun(t) \/ SetVersion(t) \/ Reread(t)
               \/ FreeOnNvm(t) \/ FreeInBin(t)

-----------------------------------------------------------------------------
(* Restart.  nvm_teardown, or a crash while no run header is held, then     *)
(* nvm_initialize_recovered: each log entry that names a run makes a        *)
(* VHeader for it and puts it on the list of the bin.  Entries of other     *)
(* runs may have overwritten the oldest ones of this bin.                   *)

\* The run header and the VHeaders after entries[i] got the VHeader hs[i].
Replay(entries, hs) ==
  LET Entries == 1 .. Len(entries)
      last(r) == {i \in Entries : entries[i] = r /\ \A k \in Entries : entries[k] = r => k <= i}
  IN [nvm |-> [r \in Run |-> IF last(r) = {} THEN [nvm[r] EXCEPT !.current = FALSE]
                             ELSE [nvm[r] EXCEPT !.vdata = hs[Max(last(r))], !.current = TRUE]],
      v |-> [h \in VHeader |->
               LET at == {i \in Entries : hs[i] = h}
               IN IF at = {} THEN NoVHeader
                  ELSE [VHeaderOf(entries[Max(at)]) EXCEPT
                          !.next = IF Max(at) = 1 THEN NULL ELSE hs[Max(at) - 1]]],
      runs |-> IF Entries = {} THEN NULL ELSE hs[Len(entries)]]

ScanFrom(r) == IF \E q \in Run : q > r /\ nvm[q].exists
               THEN [NoScan EXCEPT !.at = "vdata", !.r = Min({q \in Run : q > r /\ nvm[q].exists})]
               ELSE NoScan

Restart ==
  /\ restarts < MaxRestart
  /\ \A t \in Thread : op[t].at \in {"idle", "volatile"}
  /\ \E k \in 1 .. Len(log) + 1 :
       \E hs \in [1 .. Len(log) + 1 - k -> VHeader] :
         /\ IsInjective(hs)
         /\ LET s == Replay(SubSeq(log, k, Len(log)), hs)
            IN nvm' = s.nvm /\ v' = s.v /\ bin' = [EmptyBin EXCEPT !.runs = s.runs]
         /\ heap' = Range(hs)
  /\ mtx' = NoThread
  /\ reserved' = {}
  /\ op' = [t \in Thread |-> Idle]
  /\ scan' = ScanFrom(NULL)
  /\ log' = <<>>
  /\ fault' = "none"
  /\ restarts' = restarts + 1
  /\ UNCHANGED active

\* nvm_recovery_thread at a run: vdata is read, then the version.
ScanVdata ==
  /\ scan.at = "vdata"
  /\ scan' = [scan EXCEPT !.at = "version", !.run = nvm[scan.r].vdata]
  /\ UNCHANGED <<nvm, v, heap, bin, mtx, reserved, active, op, log, fault, restarts>>

ScanVersion ==
  /\ scan.at = "version"
  /\ IF nvm[scan.r].current THEN scan' = ScanFrom(scan.r) /\ UNCHANGED <<v, heap>>
     ELSE \E h \in VHeader \ heap :
            /\ heap' = heap \union {h}
            /\ v' = [v EXCEPT ![h] = VHeaderOf(scan.r)]
            /\ scan' = [scan EXCEPT !.at = "lock", !.tmp = h]
  /\ UNCHANGED <<nvm, bin, mtx, reserved, active, op, log, fault, restarts>>

ScanLock ==
  /\ scan.at = "lock" /\ mtx = NoThread
  /\ IF nvm[scan.r].vdata = scan.run
     THEN /\ nvm' = [nvm EXCEPT ![scan.r].vdata = scan.tmp]
          /\ mtx' = "scan"
          /\ scan' = [scan EXCEPT !.at = "set"]
          /\ UNCHANGED heap
     ELSE heap' = heap \ {scan.tmp} /\ scan' = ScanFrom(scan.r) /\ UNCHANGED <<nvm, mtx>>
  /\ UNCHANGED <<v, bin, reserved, active, op, log, fault, restarts>>

ScanSet ==
  /\ scan.at = "set"
  /\ nvm' = [nvm EXCEPT ![scan.r].current = TRUE]
  /\ mtx' = NoThread
  /\ scan' = ScanFrom(scan.r)
  /\ UNCHANGED <<v, heap, bin, reserved, active, op, log, fault, restarts>>

ScanStep == ScanVdata \/ ScanVersion \/ ScanLock \/ ScanSet

-----------------------------------------------------------------------------

\* After a fault nothing happens but the next start.
Next ==
  \/ /\ fault = "none"
     /\ \/ \E t \in Thread : Allocate(t) \/ Activate(t) \/ Take(t) \/ FreeStep(t)
        \/ ScanStep
  \/ Restart

Spec == Init /\ [][Next]_vars

-----------------------------------------------------------------------------
(* Properties. *)

TypeOK ==
  /\ nvm \in [Run -> [exists : BOOLEAN, vdata : VHeader \union {NULL}, current : BOOLEAN,
                       bitmap : SUBSET Slots, holder : Thread \union {NoThread}]]
  /\ heap \subseteq VHeader
  /\ \A h \in VHeader : v[h].n_free \in 0 .. 65535 /\ v[h].next \in VHeader \union {NULL}
  /\ bin.n_free \in 0 .. NSlots * Cardinality(Run)
  /\ bin.current_run \in VHeader \union {NULL} /\ bin.runs \in VHeader \union {NULL}
  /\ active \union reserved \subseteq Run \X Slots

RECURSIVE Chain(_, _)
Chain(h, fuel) == IF h = NULL \/ fuel = 0 THEN <<>> ELSE <<h>> \o Chain(v[h].next, fuel - 1)

RunList == Chain(bin.runs, Cardinality(VHeader) + 1)

\* Until a restart the books of the bin are in order: a VHeader counts its free
\* slots, the bin counts those of all its runs, and exactly the runs with a
\* free slot, other than the current one, are on the list, once each.  So
\* arena_allocate finds space where it is "guaranteed to have space".
BinAccounts ==
  restarts = 0 =>
    /\ fault = "none"
    /\ \A h \in heap : v[h].n_free = Cardinality(FreeSlots(h))
    /\ bin.n_free = FoldSet(LAMBDA h, n : n + v[h].n_free, 0, heap)
    /\ IsInjective(RunList)
    /\ ToSet(RunList) = {h \in heap \ {bin.current_run} : v[h].n_free > 0}

\* The VHeaders of run r, apart from those that arena_free and the recovery thread
\* have made and not yet stored in vdata.  There is more than one when the log
\* names the run twice, and when the recovery thread looks at the run between the
\* stores to vdata and to version in arena_free.
VHeadersOf(r) ==
  {h \in heap : v[h].run = r} \ ({op[t].tmp : t \in {u \in Thread : op[u].at = "lock"}}
                                \union (IF scan.at = "lock" THEN {scan.tmp} ELSE {}))

\* A slot that the one VHeader of a run shows as free is free on NVRAM: a late
\* clearing of the bit in arena_free never meets an object that was allocated
\* there since.
UsedOnNvmIsUsed ==
  \A r \in Run : nvm[r].exists /\ nvm[r].current /\ Cardinality(VHeadersOf(r)) = 1
                  => nvm[r].bitmap \subseteq v[nvm[r].vdata].bitmap

\* No slot of a run with one VHeader that arena_allocate may hand out, from the
\* current run or from one on the list, belongs to the application or to a call
\* that is freeing it.
FreeSlotsUnowned ==
  LET owned == active \union reserved \union
               {op[t].ptr : t \in {u \in Thread : op[u].at \notin {"idle", "volatile"}}}
  IN \A h \in ({bin.current_run} \ {NULL}) \union ToSet(RunList) :
       Cardinality(VHeadersOf(v[h].run)) = 1 => ({v[h].run} \X FreeSlots(h)) \intersect owned = {}

\* arena_teardown: the current run and the runs on the list are freed.
arena_teardown == (IF bin.current_run = NULL THEN <<>> ELSE <<bin.current_run>>) \o RunList

\* Tearing the arena down frees no VHeader twice, until a restart.
TeardownFreesOnce == restarts = 0 => IsInjective(arena_teardown)

\* "now we are guaranteed to have space in current_run" (arena.c:125): no
\* allocation takes a slot from a run that has none.
AlwaysSpace == fault # "NULL" /\ \A h \in heap : v[h].n_free <= NSlots

\* "after locking, make sure nobody else has created a VHeader yet"
\* (arena.c:215, nvm_malloc.c:495): arena_free works with the VHeader that the
\* run header points at.
NoDanglingVHeader == fault # "dangling"

\* "iterate through bins and delete all run headers" (arena.c:475).
TeardownFreesAll == (\A t \in Thread : op[t].at = "idle") /\ scan.at = "off"
                      => ToSet(arena_teardown) = heap

=============================================================================
