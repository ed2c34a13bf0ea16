------------------------------ MODULE MakaluLog ------------------------------
(***************************************************************************)
(* The undo log of the Makalu allocator (makalu_alloc/src/                 *)
(* makalu_persistent.c).  A failure-atomic section writes the old value of *)
(* a metadata word to the log, flushes the log entry, and only then stores *)
(* the new value; the cache lines it dirties are collected in a small      *)
(* flush table and written back when the section ends, before the log      *)
(* version is advanced.  After a crash MAK_recover_metadata undoes the     *)
(* entries that carry the version found in persistent memory.              *)
(*                                                                         *)
(* mem is what the processor reads, nvm what a power failure leaves.  Any  *)
(* cache line may be written back at any moment; a line holds two words,   *)
(* a log entry has a line of its own (makalu_persistent.h:14), and so does *)
(* the version.                                                            *)
(***************************************************************************)
EXTENDS Naturals

CONSTANTS
  NWords,       \* metadata words
  Value,        \* what a word may hold
  NSlots,       \* SFLUSH_TABLE_SZ
  MaxEntries,   \* log entries one section may write
  MaxVersion,   \* bound on the log version
  MaxCrash

ASSUME LogAssumption ==
  /\ NWords \in Nat \ {0} /\ NSlots \in Nat \ {0} /\ MaxEntries \in Nat
  /\ MaxVersion \in Nat /\ MaxCrash \in Nat /\ Value # {}

VARIABLES
  mem,      \* [w: words, e: log entries, v: version] as the processor sees them
  nvm,      \* the same in persistent memory
  tab,      \* MAK_sflush_table: a line, or 0
  pc,
  e,        \* curr_log_e, counted from 1; in recovery the entry to undo
  job,      \* the word being logged, and whether a store follows
  logged,   \* the words this section has logged
  loose,    \* the words stored without a log entry since the version was durable
  rec,      \* is the section in progress a recovery?
  stable,   \* the words of the last section whose version became durable
  crashes

vars == <<mem, nvm, tab, pc, e, job, logged, loose, rec, stable, crashes>>

Word == 1..NWords
Line == 1..NWords
LineOf(w) == (w + 1) \div 2
Slot == 0..(NSlots - 1)
SlotOf(l) == l % NSlots
Entry == 1..MaxEntries
NoJob == [w |-> 1, store |-> FALSE]

Init ==
  /\ \E w0 \in [Word -> Value] :
       /\ mem = [w |-> w0, v |-> 1,
                 e |-> [k \in Entry |-> [addr |-> 1, val |-> w0[1], version |-> 0]]]
       /\ nvm = mem
       /\ stable = w0
  /\ tab = [s \in Slot |-> 0]
  /\ pc = "idle" /\ e = 1 /\ job = NoJob /\ logged = {} /\ loose = {} /\ rec = FALSE
  /\ crashes = 0

-----------------------------------------------------------------------------
(* Writing lines back.                                                      *)

CLFLUSH(l) ==
  [nvm EXCEPT !.w = [w \in Word |-> IF LineOf(w) = l THEN mem.w[w] ELSE nvm.w[w]]]

\* add_to_flush_table, for the word that was just stored: a line met in the
\* table by another line of the same slot is flushed at once.
CLFLUSH_FAS(w, v) ==
  LET s == SlotOf(LineOf(w)) IN
  /\ mem' = [mem EXCEPT !.w[w] = v]
  /\ nvm' = IF tab[s] \in {0, LineOf(w)} THEN nvm ELSE CLFLUSH(tab[s])
  /\ tab' = [tab EXCEPT ![s] = LineOf(w)]

\* The version reaches memory: what the section stored is now what a crash keeps.
VersionDurable ==
  /\ nvm' = [nvm EXCEPT !.v = mem.v]
  /\ IF nvm.v = mem.v THEN UNCHANGED <<stable, loose>> ELSE stable' = mem.w /\ loose' = {}

-----------------------------------------------------------------------------
(* A failure-atomic section.                                                *)

start_nvm_atomic ==
  /\ pc = "idle" /\ mem.v < MaxVersion
  /\ pc' = "section" /\ e' = 1 /\ logged' = {}
  /\ UNCHANGED <<mem, nvm, tab, job, loose, rec, stable, crashes>>

\* The four create_*_log_entry functions: the old value goes to the log ...
create_log_entry(w, store) ==
  /\ pc = "section" /\ e <= MaxEntries
  /\ mem' = [mem EXCEPT !.e[e] = [addr |-> w, val |-> mem.w[w], version |-> mem.v]]
  /\ job' = [w |-> w, store |-> store]
  /\ pc' = "log"
  /\ UNCHANGED <<nvm, tab, e, logged, loose, rec, stable, crashes>>

\* Mutant of FlushLog: the entry is left in the cache.
FlushLogLazy ==
  /\ pc = "log"
  /\ e' = e + 1
  /\ logged' = logged \cup {job.w}
  /\ pc' = IF job.store THEN "store" ELSE "section"
  /\ UNCHANGED <<mem, nvm, tab, job, loose, rec, stable, crashes>>

\* ... and its entry to persistent memory.
FlushLog ==
  /\ pc = "log"
  /\ nvm' = [nvm EXCEPT !.e[e] = mem.e[e]]
  /\ e' = e + 1
  /\ logged' = logged \cup {job.w}
  /\ pc' = IF job.store THEN "store" ELSE "section"
  /\ UNCHANGED <<mem, tab, job, loose, rec, stable, crashes>>

MAK_STORE_NVM(v) ==
  /\ pc = "store"
  /\ CLFLUSH_FAS(job.w, v)
  /\ pc' = "section"
  /\ UNCHANGED <<e, job, logged, loose, rec, stable, crashes>>

\* Callers use the store without a log entry for words they have logged, and for
\* words of a header that nothing refers to yet.
MAK_NO_LOG_STORE_NVM(w, v) ==
  /\ pc = "section"
  /\ CLFLUSH_FAS(w, v)
  /\ loose' = loose \cup ({w} \ logged)
  /\ UNCHANGED <<pc, e, job, logged, rec, stable, crashes>>

end_nvm_atomic ==
  /\ pc = "section"
  /\ pc' = "flush"
  /\ UNCHANGED <<mem, nvm, tab, e, job, logged, loose, rec, stable, crashes>>

\* One turn of the loop of flush_all_entry.
flush_all_entry(s) ==
  /\ pc = "flush" /\ tab[s] # 0
  /\ \A r \in Slot : r < s => tab[r] = 0
  /\ nvm' = CLFLUSH(tab[s])
  /\ tab' = [tab EXCEPT ![s] = 0]
  /\ UNCHANGED <<mem, pc, e, job, logged, loose, rec, stable, crashes>>

BumpVersion ==
  /\ pc = "flush" /\ \A s \in Slot : tab[s] = 0
  /\ mem' = [mem EXCEPT !.v = @ + 1]
  /\ pc' = "bump"
  /\ UNCHANGED <<nvm, tab, e, job, logged, loose, rec, stable, crashes>>

SyncVersion ==
  /\ pc = "bump"
  /\ VersionDurable
  /\ pc' = "idle" /\ rec' = FALSE
  /\ UNCHANGED <<mem, tab, e, job, logged, crashes>>

-----------------------------------------------------------------------------
(* The cache, and power failure.                                            *)

Evict ==
  /\ pc # "down"
  /\ \/ \E l \in Line : nvm' = CLFLUSH(l) /\ UNCHANGED <<stable, loose>>
     \/ \E k \in Entry : nvm' = [nvm EXCEPT !.e[k] = mem.e[k]] /\ UNCHANGED <<stable, loose>>
     \/ VersionDurable
  /\ nvm' # nvm
  /\ UNCHANGED <<mem, tab, pc, e, job, logged, rec, crashes>>

Crash ==
  /\ pc # "down" /\ crashes < MaxCrash
  /\ mem' = nvm
  /\ tab' = [s \in Slot |-> 0]
  /\ pc' = "down" /\ e' = 1 /\ job' = NoJob /\ logged' = {} /\ rec' = FALSE
  /\ crashes' = crashes + 1
  /\ UNCHANGED <<nvm, loose, stable>>

-----------------------------------------------------------------------------
(* MAK_recover_metadata.                                                    *)

\* Do the first k entries carry the version?
Valid(s, k) == \A j \in 1..k : s.e[j].version = s.v

\* Seek to the last written valid entry.
Seek ==
  /\ pc = "down" /\ mem.v < MaxVersion + MaxCrash
  /\ \E k \in 0..MaxEntries :
       /\ Valid(mem, k)
       /\ k < MaxEntries => ~ Valid(mem, k + 1)
       /\ e' = k
  /\ pc' = "undo" /\ rec' = TRUE
  /\ UNCHANGED <<mem, nvm, tab, job, logged, loose, stable, crashes>>

\* From the last entry back to the first.
Undo ==
  /\ pc = "undo" /\ e > 0
  /\ CLFLUSH_FAS(mem.e[e].addr, mem.e[e].val)
  /\ logged' = logged \cup {mem.e[e].addr}
  /\ e' = e - 1
  /\ UNCHANGED <<pc, job, loose, rec, stable, crashes>>

Undone ==
  /\ pc = "undo" /\ e = 0
  /\ pc' = "flush"
  /\ UNCHANGED <<mem, nvm, tab, e, job, logged, loose, rec, stable, crashes>>

-----------------------------------------------------------------------------
Section ==
  \/ start_nvm_atomic
  \/ \E w \in Word, store \in BOOLEAN : create_log_entry(w, store)
  \/ \E v \in Value : MAK_STORE_NVM(v)
  \/ \E w \in Word, v \in Value : MAK_NO_LOG_STORE_NVM(w, v)
  \/ end_nvm_atomic

Finish ==
  \/ FlushLog
  \/ \E s \in Slot : flush_all_entry(s)
  \/ BumpVersion
  \/ SyncVersion
  \/ Seek \/ Undo \/ Undone

Next == Section \/ Finish \/ Evict \/ Crash

Spec == Init /\ [][Next]_vars

\* The recovering thread runs on; crashes and sections need not happen.
FairSpec == Spec /\ WF_vars(Finish)

-----------------------------------------------------------------------------
LogRecord == [addr : Word, val : Value, version : Nat]
Memory == [w : [Word -> Value], e : [Entry -> LogRecord], v : Nat]

\* The variables hold what the C types and the protocol's states allow.
TypeOK ==
  /\ mem \in Memory /\ nvm \in Memory
  /\ tab \in [Slot -> {0} \cup Line]
  /\ pc \in {"idle", "section", "log", "store", "flush", "bump", "down", "undo"}
  /\ e \in 0..(MaxEntries + 1)
  /\ job \in [w : Word, store : BOOLEAN]
  /\ logged \subseteq Word /\ loose \subseteq Word /\ rec \in BOOLEAN
  /\ stable \in [Word -> Value]
  /\ crashes \in 0..MaxCrash

\* Entry k is valid and undoes word w, and is the first one that does.
Undoes(s, w, k) == Valid(s, k) /\ s.e[k].addr = w
FirstOf(s, w, k) ==
  /\ Undoes(s, w, k)
  /\ \A j \in 1..(k - 1) : s.e[j].addr # w

\* Failure atomicity (makalu_persistent.c:151-176, 353-386): whichever lines
\* have been written back, undoing the valid entries found in persistent
\* memory gives the words of the last section whose version is durable, apart
\* from those stored since without a log entry.
CrashSafe ==
  \A w \in Word \ loose :
    /\ \A k \in Entry : FirstOf(nvm, w, k) => nvm.e[k].val = stable[w]
    /\ (\A k \in Entry : ~ Undoes(nvm, w, k)) => nvm.w[w] = stable[w]

\* A recovery, interrupted by further crashes or not, ends with exactly the
\* words of the last durable section, apart from those that were stored without
\* a log entry (MAK_recover_metadata, lines 353-386).
RecoveryRestores == (pc = "bump" /\ rec) => \A w \in Word \ loose : mem.w[w] = stable[w]

\* Outside sections nothing is left in the cache only: the flush table missed
\* no line of the section (add_to_flush_table, flush_all_entry, lines 70-103).
IdleIsDurable == pc = "idle" => nvm.w = mem.w /\ nvm.v = mem.v /\ stable = mem.w

\* What the log is for: what a section did to the words it logged before it
\* stored to them is undone as a whole or kept as a whole
\* (MAK_START_NVM_ATOMIC ... MAK_END_NVM_ATOMIC, MAK_recover_metadata).
SectionsAreAtomic == CrashSafe /\ RecoveryRestores /\ IdleIsDurable

\* Every crash is followed by a recovery that ends, once crashes have stopped
\* (MAK_recover_metadata's two loops and its flush).
RecoveryEnds == (pc = "down") ~> (pc = "idle")
=============================================================================
