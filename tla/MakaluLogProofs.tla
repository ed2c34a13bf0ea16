-------------------------- MODULE MakaluLogProofs ---------------------------
(***************************************************************************)
(* The undo log of Makalu is failure-atomic: for every number of words,    *)
(* values, log entries, slots of the flush table, sections and crashes, and *)
(* whatever order the cache writes its lines back in, undoing the valid    *)
(* entries gives the words of the last section whose version is durable,   *)
(* apart from words that were stored since then without a log entry.       *)
(***************************************************************************)
EXTENDS MakaluLog, TLAPS

\* The version lags in persistent memory only while end_nvm_atomic and
\* MAK_recover_metadata have stored and not yet flushed it, and no entry is
\* ahead of it.  Once it is durable, no word counts as stored without a log entry.
Versions ==
  /\ pc # "bump" => mem.v = nvm.v
  /\ pc = "bump" => mem.v = nvm.v \/ mem.v = nvm.v + 1
  /\ \A k \in Entry : mem.e[k].version <= nvm.v /\ nvm.e[k].version <= nvm.v
  /\ pc = "idle" \/ (pc = "bump" /\ mem.v = nvm.v) => loose = {}

\* Only the entry being written may differ in persistent memory, where it is
\* not valid until it is flushed.
Entries ==
  /\ pc # "log" => mem.e = nvm.e
  /\ pc = "log" =>
       /\ e \in Entry
       /\ \A k \in Entry : k # e => mem.e[k] = nvm.e[k]
       /\ nvm.e[e] = mem.e[e] \/ nvm.e[e].version # nvm.v
       /\ mem.e[e].addr = job.w /\ mem.e[e].val = mem.w[job.w] /\ mem.e[e].version = mem.v

\* The entries of a section are the ones that carry its version.
Prefix ==
  /\ pc \in {"section", "store"} =>
       e >= 1 /\ \A k \in Entry : mem.e[k].version = mem.v <=> k < e
  /\ pc = "log" => \A k \in Entry : mem.e[k].version = mem.v <=> k <= e
  /\ pc \in {"idle", "bump"} => \A k \in Entry : mem.e[k].version # mem.v

\* A word no valid entry is about has its stable value in the cache, unless it
\* was stored without one.
Unlogged ==
  \A w \in Word \ loose : (\A k \in Entry : ~ Undoes(nvm, w, k)) => mem.w[w] = stable[w]

\* A line that differs in persistent memory is in the flush table, which is
\* empty outside sections.
Flushing ==
  /\ \A w \in Word : nvm.w[w] # mem.w[w] => tab[SlotOf(LineOf(w))] = LineOf(w)
  /\ pc \in {"idle", "bump", "down"} => \A s \in Slot : tab[s] = 0

\* What a section has logged is in the entries before the current one.
LoggedFirst ==
  /\ pc \in {"section", "log", "store"} =>
       \A w \in logged : \E k \in Entry : k < e /\ mem.e[k].addr = w
  /\ pc = "store" => job.w \in logged

\* The undo has got down to entry e: a word of a later valid entry has the
\* value of the first of those.
UndoneFrom(w, k) ==
  /\ k > e /\ Undoes(mem, w, k) /\ mem.w[w] = mem.e[k].val
  /\ \A j \in Entry : e < j /\ j < k => mem.e[j].addr # w
Recovering ==
  /\ rec => pc \in {"undo", "flush", "bump"}
  /\ pc = "undo" =>
       /\ e <= MaxEntries /\ Valid(mem, e)
       /\ \A w \in Word : \/ \E k \in Entry : UndoneFrom(w, k)
                          \/ \A k \in Entry : k > e => ~ Undoes(mem, w, k)
  /\ (pc \in {"flush", "bump"} /\ rec) => \A w \in Word \ loose : mem.w[w] = stable[w]

\* The inductive invariant.
LogInv ==
  /\ TypeOK /\ Versions /\ Entries /\ Prefix /\ Unlogged
  /\ Flushing /\ LoggedFirst /\ Recovering /\ CrashSafe

-----------------------------------------------------------------------------
(* The parts of memory, and what the ways of writing to it keep.            *)

\* Every word is in a line that is not 0, the mark of an empty slot
\* (add_to_flush_table).
LEMMA LinesAndSlots ==
  /\ \A w \in Word : LineOf(w) \in Line /\ LineOf(w) # 0
  /\ \A l \in Line : SlotOf(l) \in Slot /\ l # 0
<1>1. \A w \in Word : LineOf(w) \in Line /\ LineOf(w) # 0
  BY LogAssumption DEF Word, Line, LineOf
<1>2. \A l \in Line : SlotOf(l) \in Slot /\ l # 0
  BY LogAssumption DEF Line, Slot, SlotOf
<1> QED
  BY Zenon, <1>1, <1>2

\* An entry after the one before i is i or after it (the replay counts down).
LEMMA AtOrAfter ==
  ASSUME NEW i \in Nat, NEW j \in Nat
  PROVE  /\ j > i - 1 => j > i \/ j = i
         /\ i - 1 < j => i < j \/ j = i
         /\ j > i => j > i - 1
  OBVIOUS

\* Memory is a record of words, entries and a version.
LEMMA MemoryParts ==
  ASSUME NEW m \in Memory
  PROVE  /\ m.w \in [Word -> Value] /\ m.e \in [Entry -> LogRecord] /\ m.v \in Nat
         /\ \A k \in Entry : m.e[k].addr \in Word /\ m.e[k].val \in Value /\ m.e[k].version \in Nat
  BY Zenon DEF Memory, LogRecord

\* CLFLUSH writes the words of one line back and nothing else.
LEMMA FlushedLine ==
  ASSUME mem \in Memory, nvm \in Memory, NEW l \in Line
  PROVE  /\ CLFLUSH(l) \in Memory
         /\ CLFLUSH(l).e = nvm.e /\ CLFLUSH(l).v = nvm.v
         /\ \A w \in Word : CLFLUSH(l).w[w] = IF LineOf(w) = l THEN mem.w[w] ELSE nvm.w[w]
  BY Zenon DEF CLFLUSH, Memory

\* Writing a line back keeps what the valid entries undo.
LEMMA LineKeeps ==
  ASSUME TypeOK, Unlogged, CrashSafe, NEW l \in Line,
         nvm' = CLFLUSH(l), mem' = mem, stable' = stable, loose' = loose
  PROVE  Unlogged' /\ CrashSafe'
<1>1. /\ nvm'.e = nvm.e /\ nvm'.v = nvm.v
      /\ \A w \in Word : nvm'.w[w] = mem.w[w] \/ nvm'.w[w] = nvm.w[w]
  BY Zenon, FlushedLine DEF TypeOK
<1>2. \A w \in Word, k \in Entry : /\ Undoes(nvm', w, k) <=> Undoes(nvm, w, k)
                                   /\ FirstOf(nvm', w, k) <=> FirstOf(nvm, w, k)
  BY Zenon, <1>1 DEF Undoes, FirstOf, Valid
<1>3. Unlogged'
  BY Zenon, <1>2 DEF Unlogged
<1>4. CrashSafe'
  BY Zenon, <1>1, <1>2 DEF Unlogged, CrashSafe
<1> QED
  BY Zenon, <1>3, <1>4

\* add_to_flush_table: a store to a word that a valid entry undoes, or that from now
\* on counts as stored without one, keeps what the valid entries undo, and the line it takes the slot from is written back.
LEMMA StoreKeeps ==
  ASSUME TypeOK, Unlogged, CrashSafe, Flushing, NEW w \in Word, NEW v \in Value,
         w \in loose' \/ \E k \in Entry : Undoes(nvm, w, k),
         CLFLUSH_FAS(w, v), stable' = stable, loose \subseteq loose'
  PROVE  /\ mem' \in Memory /\ nvm' \in Memory /\ tab' \in [Slot -> {0} \cup Line]
         /\ mem'.e = mem.e /\ mem'.v = mem.v /\ nvm'.e = nvm.e /\ nvm'.v = nvm.v
         /\ mem'.w[w] = v /\ \A x \in Word : x # w => mem'.w[x] = mem.w[x]
         /\ \A x \in Word : nvm'.w[x] # mem'.w[x] => tab'[SlotOf(LineOf(x))] = LineOf(x)
         /\ Unlogged' /\ CrashSafe'
<1> DEFINE s == SlotOf(LineOf(w))
<1>1. s \in Slot /\ LineOf(w) \in Line /\ tab[s] \in {0} \cup Line
  BY Zenon, LinesAndSlots DEF TypeOK
<1>2. /\ mem' \in Memory /\ mem'.e = mem.e /\ mem'.v = mem.v
      /\ mem'.w[w] = v /\ \A x \in Word : x # w => mem'.w[x] = mem.w[x]
  BY Zenon DEF CLFLUSH_FAS, TypeOK, Memory
<1>3. tab' \in [Slot -> {0} \cup Line] /\ tab'[s] = LineOf(w)
      /\ \A r \in Slot : r # s => tab'[r] = tab[r]
  BY Zenon, <1>1 DEF CLFLUSH_FAS, TypeOK
<1>4. /\ nvm' \in Memory /\ nvm'.e = nvm.e /\ nvm'.v = nvm.v
      /\ \A x \in Word : nvm'.w[x] = mem.w[x] \/ nvm'.w[x] = nvm.w[x]
      /\ \A x \in Word : (tab[s] # LineOf(w) /\ LineOf(x) = tab[s]) => nvm'.w[x] = mem.w[x]
  <2>1. CASE tab[s] \in {0, LineOf(w)}
    BY Zenon, <2>1, LinesAndSlots DEF CLFLUSH_FAS, TypeOK
  <2>2. CASE tab[s] \notin {0, LineOf(w)}
    <3>1. tab[s] \in Line /\ nvm' = CLFLUSH(tab[s])
      BY Zenon, <1>1, <2>2 DEF CLFLUSH_FAS
    <3> QED
      BY Zenon, <3>1, FlushedLine DEF TypeOK
  <2> QED
    BY Zenon, <2>1, <2>2
<1>5. \A x \in Word : nvm'.w[x] # mem'.w[x] => tab'[SlotOf(LineOf(x))] = LineOf(x)
  <2> SUFFICES ASSUME NEW x \in Word, nvm'.w[x] # mem'.w[x]
               PROVE  tab'[SlotOf(LineOf(x))] = LineOf(x)
    BY Zenon
  <2>1. SlotOf(LineOf(x)) \in Slot /\ LineOf(x) # 0
    BY Zenon, LinesAndSlots
  <2>2. CASE x = w
    BY Zenon, <2>2, <1>3
  <2>3. CASE x # w
    <3>1. nvm.w[x] # mem.w[x] /\ nvm'.w[x] # mem.w[x]
      BY Zenon, <2>3, <1>2, <1>4
    <3>2. tab[SlotOf(LineOf(x))] = LineOf(x)
      BY Zenon, <3>1 DEF Flushing
    <3>3. CASE SlotOf(LineOf(x)) = s
      BY Zenon, <3>1, <3>2, <3>3, <1>3, <1>4
    <3>4. CASE SlotOf(LineOf(x)) # s
      BY Zenon, <2>1, <3>2, <3>4, <1>3
    <3> QED
      BY Zenon, <3>3, <3>4
  <2> QED
    BY Zenon, <2>2, <2>3
<1>6. \A x \in Word, k \in Entry : /\ Undoes(nvm', x, k) <=> Undoes(nvm, x, k)
                                   /\ FirstOf(nvm', x, k) <=> FirstOf(nvm, x, k)
  BY Zenon, <1>4 DEF Undoes, FirstOf, Valid
<1>7. Unlogged'
  BY Zenon, <1>2, <1>6 DEF Unlogged
<1>8. CrashSafe'
  BY <1>4, <1>6 DEF Unlogged, CrashSafe
<1> QED
  BY Zenon, <1>2, <1>3, <1>4, <1>5, <1>7, <1>8

\* Writing a log entry back, in FlushLog or by eviction, only adds the first
\* valid entry about a word whose value is stable.
LEMMA EntryKeeps ==
  ASSUME TypeOK, Versions, Entries, Prefix, Unlogged, CrashSafe, NEW k \in Entry,
         nvm' = [nvm EXCEPT !.e[k] = mem.e[k]], mem' = mem, stable' = stable, loose' = loose
  PROVE  /\ nvm' \in Memory /\ nvm'.w = nvm.w /\ nvm'.v = nvm.v
         /\ nvm'.e[k] = mem.e[k] /\ \A j \in Entry : j # k => nvm'.e[j] = nvm.e[j]
         /\ \A j \in Entry : nvm'.e[j].version <= nvm.v
         /\ Unlogged' /\ CrashSafe'
<1>1. /\ nvm' \in Memory /\ nvm'.w = nvm.w /\ nvm'.v = nvm.v
      /\ nvm'.e[k] = mem.e[k] /\ \A j \in Entry : j # k => nvm'.e[j] = nvm.e[j]
  BY Zenon, MemoryParts DEF TypeOK, Memory
<1>2. \A j \in Entry : nvm'.e[j].version <= nvm.v
  BY Zenon, <1>1 DEF Versions
<1>3. CASE mem.e[k] = nvm.e[k]
  <2>1. nvm' = nvm
    BY Zenon, <1>3 DEF TypeOK, Memory
  <2>2. \A w \in Word, j \in Entry : /\ Undoes(nvm', w, j) <=> Undoes(nvm, w, j)
                                     /\ FirstOf(nvm', w, j) <=> FirstOf(nvm, w, j)
    BY Zenon, <2>1 DEF Undoes, FirstOf, Valid
  <2>3. Unlogged'
    BY Zenon, <2>2 DEF Unlogged
  <2>4. CrashSafe'
    BY Zenon, <2>1, <2>2 DEF CrashSafe
  <2> QED
    BY Zenon, <1>1, <1>2, <2>3, <2>4
<1>4. CASE mem.e[k] # nvm.e[k]
  <2>1. /\ pc = "log" /\ k = e /\ nvm.e[e].version # nvm.v /\ mem.v = nvm.v
        /\ mem.e[e].addr = job.w /\ mem.e[e].val = mem.w[job.w] /\ job.w \in Word
        /\ \A j \in Entry : e < j => nvm'.e[j].version # nvm.v
        /\ \A j \in Entry : j < e => nvm'.e[j].version = nvm.v
    BY <1>4, <1>1, MemoryParts DEF Entries, Prefix, Versions, TypeOK, Entry
  <2>2. k \in Nat /\ e \in Nat /\ Entry \subseteq Nat /\ \A j \in Entry : 1..j \subseteq Entry
    BY LogAssumption DEF Entry, TypeOK
  <2>3. \A j \in Entry : /\ Valid(nvm, j) => j < e
                         /\ Valid(nvm', j) => j <= e
    BY <1>1, <2>1, <2>2 DEF Valid, Entry
  <2>4. \A j \in Entry : j < e => (Valid(nvm', j) <=> Valid(nvm, j))
    BY <1>1, <2>1, <2>2 DEF Valid, Entry
  <2>5. \A w \in Word, j \in Entry : Undoes(nvm, w, j) => Undoes(nvm', w, j)
    BY Zenon, <1>1, <2>1, <2>3, <2>4 DEF Undoes
  <2>6. Unlogged'
    BY Zenon, <2>5 DEF Unlogged
  <2>7. ASSUME NEW w \in Word \ loose, NEW j \in Entry, FirstOf(nvm', w, j)
        PROVE  nvm'.e[j].val = stable[w]
    <3>1. Valid(nvm', j) /\ nvm'.e[j].addr = w /\ j <= e
          /\ \A i \in 1..(j - 1) : nvm'.e[i].addr # w
      BY Zenon, <2>3, <2>7 DEF FirstOf, Undoes
    <3>2. CASE j < e
      <4>1. nvm'.e[j] = nvm.e[j] /\ Valid(nvm, j)
        BY Zenon, <3>1, <3>2, <2>1, <2>4, <1>1
      <4>2. \A i \in 1..(j - 1) : nvm'.e[i] = nvm.e[i]
        BY <3>2, <2>1, <2>2, <1>1 DEF Entry
      <4> QED
        BY <3>1, <4>1, <4>2 DEF FirstOf, Undoes, CrashSafe
    <3>3. CASE j = e
      <4>1. w = job.w /\ nvm'.e[j].val = mem.w[w]
        BY <3>1, <3>3, <2>1, <1>1
      <4>2. \A i \in Entry : i < e => nvm.e[i].addr # w
        BY <3>1, <3>3, <2>1, <2>2, <1>1 DEF Entry
      <4>3. \A i \in Entry : ~ Undoes(nvm, w, i)
        BY Zenon, <4>2, <2>3 DEF Undoes
      <4> QED
        BY Zenon, <4>1, <4>3 DEF Unlogged
    <3> QED
      BY <3>1, <3>2, <3>3, <2>2
  <2>8. CrashSafe'
    BY Zenon, <1>1, <2>5, <2>7 DEF CrashSafe
  <2> QED
    BY Zenon, <1>1, <1>2, <2>6, <2>8
<1> QED
  BY Zenon, <1>3, <1>4

\* Once the version is in persistent memory no entry is valid, and the words
\* are all there (end_nvm_atomic, flush_all_entry).
LEMMA VersionKeeps ==
  ASSUME TypeOK, Versions, Entries, Prefix, Unlogged, CrashSafe, Flushing, Recovering,
         pc = "bump", VersionDurable, mem' = mem
  PROVE  /\ nvm' \in Memory /\ nvm'.w = nvm.w /\ nvm'.e = nvm.e /\ nvm'.v = mem.v
         /\ stable' = mem.w /\ loose' = {}
         /\ Unlogged' /\ CrashSafe'
<1>1. nvm' \in Memory /\ nvm'.w = nvm.w /\ nvm'.e = nvm.e /\ nvm'.v = mem.v
  BY Zenon DEF VersionDurable, TypeOK, Memory
<1>2. loose' = {}
  BY Zenon DEF VersionDurable, Versions
<1>3. \A k \in Entry : 1 \in 1..k /\ 1 \in Entry
  BY LogAssumption DEF Entry
<1>4. \A w \in Word, k \in Entry : ~ Undoes(nvm', w, k) /\ ~ FirstOf(nvm', w, k)
  BY Zenon, <1>1, <1>3 DEF Undoes, FirstOf, Valid, Prefix, Entries
<1>5. \A w \in Word : nvm.w[w] = mem.w[w]
  BY Zenon, LinesAndSlots DEF Flushing
<1>6. stable' = mem.w
  <2>1. CASE nvm.v = mem.v
    <3>1. nvm' = nvm
      BY Zenon, <2>1 DEF VersionDurable, TypeOK, Memory
    <3>2. loose = {}
      BY Zenon, <2>1 DEF Versions
    <3>3. \A w \in Word : stable[w] = mem.w[w]
      BY Zenon, <3>1, <3>2, <1>4 DEF Unlogged
    <3> QED
      BY <2>1, <3>3, MemoryParts DEF VersionDurable, TypeOK
  <2>2. CASE nvm.v # mem.v
    BY Zenon, <2>2 DEF VersionDurable
  <2> QED
    BY Zenon, <2>1, <2>2
<1>7. Unlogged'
  BY Zenon, <1>6 DEF Unlogged
<1>8. CrashSafe'
  BY Zenon, <1>1, <1>4, <1>5, <1>6 DEF CrashSafe
<1> QED
  BY Zenon, <1>1, <1>2, <1>6, <1>7, <1>8

-----------------------------------------------------------------------------
(* The inductive invariant.                                                 *)

\* A fresh heap has a durable log without valid entries.
LEMMA InitLogInv == Init => LogInv
<1> SUFFICES ASSUME Init PROVE LogInv
  BY Zenon
<1>1. PICK w0 \in [Word -> Value] :
        /\ mem = [w |-> w0, v |-> 1,
                  e |-> [k \in Entry |-> [addr |-> 1, val |-> w0[1], version |-> 0]]]
        /\ nvm = mem /\ stable = w0
  BY Zenon DEF Init
<1>2. 1 \in Word
  BY LogAssumption DEF Word
<1>3. mem \in Memory /\ nvm \in Memory
  BY Zenon, <1>1, <1>2 DEF Memory, LogRecord
<1>4. TypeOK
  <2>1. tab \in [Slot -> {0} \cup Line] /\ job \in [w : Word, store : BOOLEAN]
    BY Zenon, <1>2 DEF Init, NoJob
  <2>2. e \in 0..(MaxEntries + 1) /\ crashes \in 0..MaxCrash
    BY LogAssumption DEF Init
  <2>3. stable \in [Word -> Value]
    BY Zenon, <1>1
  <2> QED
    BY Zenon, <1>3, <2>1, <2>2, <2>3 DEF Init, TypeOK
<1>5. /\ mem.v = 1 /\ nvm.v = 1 /\ mem.w = w0 /\ nvm.w = w0 /\ mem.e = nvm.e
      /\ \A k \in Entry : mem.e[k].version = 0 /\ nvm.e[k].version = 0
  BY Zenon, <1>1
<1>6. \A w \in Word, k \in Entry : ~ Undoes(nvm, w, k) /\ ~ FirstOf(nvm, w, k)
  <2>1. \A k \in Entry : 1 \in 1..k /\ 1 \in Entry
    BY LogAssumption DEF Entry
  <2> QED
    BY <1>5, <2>1 DEF Undoes, FirstOf, Valid
<1>7. Unlogged /\ CrashSafe
  BY Zenon, <1>1, <1>5, <1>6 DEF Unlogged, CrashSafe
<1>8. Versions /\ Entries /\ Prefix /\ LoggedFirst /\ Recovering
  BY <1>5 DEF Init, Versions, Entries, Prefix, LoggedFirst, Recovering
<1>9. Flushing
  BY Zenon, <1>5 DEF Init, Flushing
<1> QED
  BY Zenon, <1>4, <1>7, <1>8, <1>9 DEF LogInv

\* Every step keeps the inductive invariant.
LEMMA NextLogInv == LogInv /\ [Next]_vars => LogInv'
<1> SUFFICES ASSUME LogInv, [Next]_vars PROVE LogInv'
  BY Zenon
<1> USE DEF LogInv
<1>n. /\ Entry \subseteq Nat /\ e \in Nat /\ mem.v \in Nat /\ nvm.v \in Nat
      /\ \A k \in Entry : 1..k \subseteq Entry
      /\ \A k \in Nat : k \in Entry <=> (1 <= k /\ k <= MaxEntries)
  BY MemoryParts, LogAssumption DEF TypeOK, Entry
<1>1. CASE start_nvm_atomic
  <2> USE <1>1 DEF start_nvm_atomic
  <2>1. TypeOK'
    BY <1>n, LogAssumption DEF TypeOK
  <2>2. Versions' /\ Entries' /\ Flushing' /\ LoggedFirst' /\ Recovering'
    BY Zenon DEF Versions, Entries, Flushing, LoggedFirst, Recovering
  <2>3. Prefix'
    BY <1>n DEF Prefix
  <2>4. Unlogged' /\ CrashSafe'
    BY Zenon DEF Unlogged, CrashSafe, Undoes, FirstOf, Valid
  <2> QED
    BY Zenon, <2>1, <2>2, <2>3, <2>4
<1>2. ASSUME NEW w \in Word, NEW store \in BOOLEAN, create_log_entry(w, store) PROVE LogInv'
  <2> USE <1>2 DEF create_log_entry
  <2>1. e \in Entry
    BY Zenon, <1>n DEF Prefix
  <2>2. /\ mem' \in Memory /\ mem'.w = mem.w /\ mem'.v = mem.v
        /\ mem'.e[e].addr = w /\ mem'.e[e].val = mem.w[w] /\ mem'.e[e].version = mem.v
        /\ \A k \in Entry : k # e => mem'.e[k] = mem.e[k]
    <3>1. [addr |-> w, val |-> mem.w[w], version |-> mem.v] \in LogRecord
      BY Zenon, MemoryParts DEF TypeOK, LogRecord
    <3> QED
      BY Zenon, <2>1, <3>1 DEF TypeOK, Memory
  <2>3. TypeOK'
    BY Zenon, <2>2 DEF TypeOK
  <2>4. Versions'
    BY <2>1, <2>2, <1>n DEF Versions
  <2>5. Entries'
    <3>1. nvm.e[e].version # nvm.v /\ mem.e = nvm.e
      BY <2>1, <1>n DEF Prefix, Entries, Versions
    <3> QED
      BY Zenon, <2>1, <2>2, <3>1 DEF Entries
  <2>6. Prefix'
    BY <2>1, <2>2, <1>n DEF Prefix
  <2>7. Flushing' /\ LoggedFirst' /\ Recovering'
    BY <2>1, <2>2, <1>n DEF Flushing, LoggedFirst, Recovering
  <2>8. Unlogged' /\ CrashSafe'
    BY Zenon, <2>2 DEF Unlogged, CrashSafe, Undoes, FirstOf, Valid
  <2> QED
    BY Zenon, <2>3, <2>4, <2>5, <2>6, <2>7, <2>8
<1>3. CASE FlushLog
  <2> USE <1>3 DEF FlushLog
  <2>1. e \in Entry /\ job.w \in Word /\ job.store \in BOOLEAN
    BY Zenon DEF Entries, TypeOK
  <2>2. /\ nvm' \in Memory /\ nvm'.w = nvm.w /\ nvm'.v = nvm.v
        /\ nvm'.e[e] = mem.e[e] /\ \A j \in Entry : j # e => nvm'.e[j] = nvm.e[j]
        /\ \A j \in Entry : nvm'.e[j].version <= nvm.v
        /\ Unlogged' /\ CrashSafe'
    BY Zenon, <2>1, EntryKeeps
  <2>3. TypeOK'
    <3>1. e' \in 0..(MaxEntries + 1)
      BY <2>1, <1>n, LogAssumption
    <3>2. logged' \subseteq Word /\ pc' \in {"store", "section"}
      BY Zenon, <2>1 DEF TypeOK
    <3> QED
      BY Zenon, <2>2, <3>1, <3>2 DEF TypeOK
  <2>4. Versions'
    BY Zenon, <2>2 DEF Versions
  <2>5. Entries'
    <3>1. \A j \in Entry : nvm'.e[j] = mem.e[j]
      BY Zenon, <2>2 DEF Entries
    <3>2. nvm'.e \in [Entry -> LogRecord] /\ mem.e \in [Entry -> LogRecord]
      BY Zenon, <2>2 DEF TypeOK, Memory
    <3>3. nvm'.e = mem.e
      BY <3>1, <3>2
    <3> QED
      BY Zenon, <3>3 DEF Entries
  <2>6. Prefix'
    BY <2>1, <1>n DEF Prefix
  <2>7. LoggedFirst'
    BY <2>1, <1>n DEF LoggedFirst, Entries
  <2>8. Flushing' /\ Recovering'
    BY Zenon, <2>2 DEF Flushing, Recovering
  <2> QED
    BY Zenon, <2>2, <2>3, <2>4, <2>5, <2>6, <2>7, <2>8
<1>4. \A w \in logged : pc \in {"section", "store"} => \E k \in Entry : Undoes(nvm, w, k)
  <2> SUFFICES ASSUME NEW w \in logged, pc \in {"section", "store"}
               PROVE  \E k \in Entry : Undoes(nvm, w, k)
    BY Zenon
  <2>1. PICK k \in Entry : k < e /\ mem.e[k].addr = w
    BY Zenon DEF LoggedFirst
  <2>2. mem.e = nvm.e /\ mem.v = nvm.v
    BY Zenon DEF Entries, Versions
  <2>3. \A j \in 1..k : j \in Entry /\ j < e
    BY <2>1, <1>n DEF Entry
  <2>4. Undoes(nvm, w, k)
    BY Zenon, <2>1, <2>2, <2>3 DEF Undoes, Valid, Prefix
  <2> QED
    BY Zenon, <2>4
<1>5. ASSUME NEW v \in Value, MAK_STORE_NVM(v) PROVE LogInv'
  <2> USE <1>5 DEF MAK_STORE_NVM
  <2>1. job.w \in logged /\ job.w \in Word
    BY Zenon DEF LoggedFirst, TypeOK
  <2>2. /\ mem' \in Memory /\ nvm' \in Memory /\ tab' \in [Slot -> {0} \cup Line]
        /\ mem'.e = mem.e /\ mem'.v = mem.v /\ nvm'.e = nvm.e /\ nvm'.v = nvm.v
        /\ \A x \in Word : nvm'.w[x] # mem'.w[x] => tab'[SlotOf(LineOf(x))] = LineOf(x)
        /\ Unlogged' /\ CrashSafe'
    BY Zenon, <2>1, <1>4, StoreKeeps
  <2>3. TypeOK'
    BY Zenon, <2>2 DEF TypeOK
  <2>4. Versions' /\ Entries' /\ Prefix'
    BY Zenon, <2>2 DEF Versions, Entries, Prefix
  <2>5. Flushing' /\ LoggedFirst' /\ Recovering'
    BY Zenon, <2>2 DEF Flushing, LoggedFirst, Recovering
  <2> QED
    BY Zenon, <2>2, <2>3, <2>4, <2>5
<1>6. ASSUME NEW w \in Word, NEW v \in Value, MAK_NO_LOG_STORE_NVM(w, v) PROVE LogInv'
  <2> USE <1>6 DEF MAK_NO_LOG_STORE_NVM
  <2>1. loose \subseteq loose' /\ loose' \subseteq Word /\ (w \in loose' \/ w \in logged)
    BY Zenon DEF TypeOK
  <2>2. /\ mem' \in Memory /\ nvm' \in Memory /\ tab' \in [Slot -> {0} \cup Line]
        /\ mem'.e = mem.e /\ mem'.v = mem.v /\ nvm'.e = nvm.e /\ nvm'.v = nvm.v
        /\ \A x \in Word : nvm'.w[x] # mem'.w[x] => tab'[SlotOf(LineOf(x))] = LineOf(x)
        /\ Unlogged' /\ CrashSafe'
    BY Zenon, <1>4, <2>1, StoreKeeps
  <2>3. TypeOK'
    BY Zenon, <2>1, <2>2 DEF TypeOK
  <2>4. Versions' /\ Entries' /\ Prefix'
    BY Zenon, <2>2 DEF Versions, Entries, Prefix
  <2>5. Flushing' /\ LoggedFirst' /\ Recovering'
    BY Zenon, <2>2 DEF Flushing, LoggedFirst, Recovering
  <2> QED
    BY Zenon, <2>2, <2>3, <2>4, <2>5
<1>7. CASE end_nvm_atomic
  <2> USE <1>7 DEF end_nvm_atomic
  <2>1. TypeOK'
    BY Zenon DEF TypeOK
  <2>2. Versions' /\ Entries' /\ Prefix' /\ Flushing' /\ LoggedFirst' /\ Recovering'
    BY Zenon DEF Versions, Entries, Prefix, Flushing, LoggedFirst, Recovering
  <2>3. Unlogged' /\ CrashSafe'
    BY Zenon DEF Unlogged, CrashSafe, Undoes, FirstOf, Valid
  <2> QED
    BY Zenon, <2>1, <2>2, <2>3
<1>8. ASSUME NEW s \in Slot, flush_all_entry(s) PROVE LogInv'
  <2> USE <1>8 DEF flush_all_entry
  <2>1. tab[s] \in Line
    BY Zenon DEF TypeOK
  <2>2. /\ nvm' \in Memory /\ nvm'.e = nvm.e /\ nvm'.v = nvm.v
        /\ \A w \in Word : nvm'.w[w] = IF LineOf(w) = tab[s] THEN mem.w[w] ELSE nvm.w[w]
        /\ Unlogged' /\ CrashSafe'
    BY Zenon, <2>1, FlushedLine, LineKeeps DEF TypeOK
  <2>3. TypeOK'
    BY Zenon, <2>2 DEF TypeOK
  <2>4. Versions' /\ Entries' /\ Prefix' /\ LoggedFirst' /\ Recovering'
    BY Zenon, <2>2 DEF Versions, Entries, Prefix, LoggedFirst, Recovering
  <2>5. Flushing'
    BY Zenon, <2>2, LinesAndSlots DEF Flushing, TypeOK
  <2> QED
    BY Zenon, <2>2, <2>3, <2>4, <2>5
<1>9. CASE BumpVersion
  <2> USE <1>9 DEF BumpVersion
  <2>1. mem' \in Memory /\ mem'.w = mem.w /\ mem'.e = mem.e /\ mem'.v = mem.v + 1
    BY DEF TypeOK, Memory
  <2>2. TypeOK'
    BY Zenon, <2>1 DEF TypeOK
  <2>3. Versions' /\ Entries'
    BY <2>1, <1>n DEF Versions, Entries
  <2>4. Prefix'
    <3>1. \A k \in Entry : mem.e[k].version \in Nat /\ mem.e[k].version <= mem.v
      BY Zenon, MemoryParts DEF TypeOK, Versions
    <3> QED
      BY <2>1, <3>1, <1>n DEF Prefix
  <2>5. Flushing' /\ LoggedFirst' /\ Recovering'
    BY Zenon, <2>1 DEF Flushing, LoggedFirst, Recovering
  <2>6. Unlogged' /\ CrashSafe'
    BY Zenon, <2>1 DEF Unlogged, CrashSafe, Undoes, FirstOf, Valid
  <2> QED
    BY Zenon, <2>1, <2>2, <2>3, <2>4, <2>5, <2>6
<1>10. ASSUME pc = "bump", VersionDurable, mem' = mem, tab' = tab, e' = e, job' = job,
              logged' = logged, crashes' = crashes,
              \/ pc' = "idle" /\ rec' = FALSE
              \/ pc' = "bump" /\ rec' = rec
       PROVE  LogInv'
  <2> USE <1>10
  <2>1. /\ nvm' \in Memory /\ nvm'.w = nvm.w /\ nvm'.e = nvm.e /\ nvm'.v = mem.v
        /\ stable' = mem.w /\ loose' = {}
        /\ Unlogged' /\ CrashSafe'
    BY Zenon, VersionKeeps
  <2>2. TypeOK'
    BY Zenon, <2>1, MemoryParts DEF TypeOK
  <2>3. Versions' /\ Entries' /\ Prefix'
    BY <2>1, <1>n, MemoryParts DEF Versions, Entries, Prefix, TypeOK
  <2>4. Flushing' /\ LoggedFirst' /\ Recovering'
    BY <2>1 DEF Flushing, LoggedFirst, Recovering
  <2> QED
    BY Zenon, <2>1, <2>2, <2>3, <2>4
<1>11. CASE SyncVersion
  BY Zenon, <1>10, <1>11 DEF SyncVersion
<1>12. CASE Seek
  <2> USE <1>12 DEF Seek
  <2>1. e' \in 0..MaxEntries /\ Valid(mem, e') /\ (e' < MaxEntries => ~ Valid(mem, e' + 1))
    BY Zenon
  <2>2. TypeOK'
    BY <2>1, LogAssumption DEF TypeOK
  <2>3. Versions' /\ Entries' /\ Prefix' /\ Flushing' /\ LoggedFirst'
    BY Zenon DEF Versions, Entries, Prefix, Flushing, LoggedFirst
  <2>4. \A w \in Word, k \in Entry : k > e' => ~ Undoes(mem, w, k)
    <3> SUFFICES ASSUME NEW w \in Word, NEW k \in Entry, k > e', Valid(mem, k)
                 PROVE  FALSE
      BY Zenon DEF Undoes
    <3>1. e' < MaxEntries /\ 1..(e' + 1) \subseteq 1..k
      BY <2>1, <1>n, LogAssumption DEF Entry
    <3> QED
      BY Zenon, <2>1, <3>1 DEF Valid
  <2>5. Recovering'
    BY <2>1, <2>4, LogAssumption DEF Recovering, Undoes, Valid
  <2>6. Unlogged' /\ CrashSafe'
    BY Zenon DEF Unlogged, CrashSafe, Undoes, FirstOf, Valid
  <2> QED
    BY Zenon, <2>2, <2>3, <2>5, <2>6
<1>13. CASE Undo
  <2> USE <1>13 DEF Undo
  <2> DEFINE a == mem.e[e].addr
  <2>1. e \in Entry /\ a \in Word /\ mem.e[e].val \in Value /\ Valid(mem, e) /\ e' = e - 1
    BY <1>n, MemoryParts DEF Recovering, TypeOK
  <2>2. mem.e = nvm.e /\ mem.v = nvm.v
    BY Zenon DEF Entries, Versions
  <2>3. Undoes(nvm, a, e)
    BY Zenon, <2>1, <2>2 DEF Undoes, Valid
  <2>4. /\ mem' \in Memory /\ nvm' \in Memory /\ tab' \in [Slot -> {0} \cup Line]
        /\ mem'.e = mem.e /\ mem'.v = mem.v /\ nvm'.e = nvm.e /\ nvm'.v = nvm.v
        /\ mem'.w[a] = mem.e[e].val /\ \A x \in Word : x # a => mem'.w[x] = mem.w[x]
        /\ \A x \in Word : nvm'.w[x] # mem'.w[x] => tab'[SlotOf(LineOf(x))] = LineOf(x)
        /\ Unlogged' /\ CrashSafe'
    BY Zenon, <2>1, <2>3, StoreKeeps
  <2>5. TypeOK'
    <3>1. e' \in 0..(MaxEntries + 1)
      BY <2>1, <1>n, LogAssumption
    <3> QED
      BY Zenon, <2>1, <2>4, <3>1 DEF TypeOK
  <2>6. Versions' /\ Entries' /\ Prefix' /\ Flushing' /\ LoggedFirst'
    BY Zenon, <2>4 DEF Versions, Entries, Prefix, Flushing, LoggedFirst
  <2>7. Valid(mem', e') /\ e' <= MaxEntries
    <3>1. e - 1 <= MaxEntries /\ 1..(e - 1) \subseteq 1..e
      BY <2>1, <1>n, LogAssumption
    <3>2. Valid(mem', e - 1)
      BY Zenon, <2>1, <2>4, <3>1 DEF Valid
    <3> QED
      BY Zenon, <2>1, <3>1, <3>2
  <2>8. \A x \in Word, k \in Entry : Undoes(mem', x, k) <=> Undoes(mem, x, k)
    BY Zenon, <2>4 DEF Undoes, Valid
  <2>9. ASSUME NEW x \in Word
        PROVE  \/ \E k \in Entry : UndoneFrom(x, k)'
               \/ \A k \in Entry : k > e' => ~ Undoes(mem', x, k)
    <3>1. CASE x = a
      <4>1. PICK n \in Entry : n = e
        BY Zenon, <2>1
      <4>2. Undoes(mem', x, n) /\ mem'.w[x] = mem'.e[n].val
        BY Zenon, <3>1, <4>1, <2>1, <2>4, <2>8 DEF Undoes
      <4>3. n > e' /\ \A j \in Entry : ~(e' < j /\ j < n)
        BY <4>1, <2>1, <1>n
      <4>4. UndoneFrom(x, n)'
        BY Zenon, <4>2, <4>3 DEF UndoneFrom
      <4> QED
        BY Zenon, <4>4
    <3>2. ASSUME x # a, NEW k \in Entry, UndoneFrom(x, k) PROVE UndoneFrom(x, k)'
      <4>1. \A j \in Entry : (e' < j => e < j \/ j = e) /\ (j > e => j > e')
        BY Zenon, <2>1, <1>n, AtOrAfter
      <4>2. \A j \in Entry : e' < j /\ j < k => mem'.e[j].addr # x
        BY Zenon, <3>2, <4>1, <2>1, <2>4 DEF UndoneFrom
      <4> QED
        BY Zenon, <3>2, <4>1, <4>2, <2>4, <2>8 DEF UndoneFrom
    <3>3. ASSUME x # a, \A k \in Entry : k > e => ~ Undoes(mem, x, k)
          PROVE  \A k \in Entry : k > e' => ~ Undoes(mem', x, k)
      <4>1. ~ Undoes(mem, x, e)
        BY Zenon, <3>3 DEF Undoes
      <4>2. \A k \in Entry : k > e' => k > e \/ k = e
        BY Zenon, <2>1, <1>n, AtOrAfter
      <4> QED
        BY Zenon, <3>3, <4>1, <4>2, <2>8
    <3> QED
      BY Zenon, <3>1, <3>2, <3>3 DEF Recovering
  <2>10. Recovering'
    BY Zenon, <2>7, <2>9 DEF Recovering
  <2> QED
    BY Zenon, <2>4, <2>5, <2>6, <2>10
<1>14. CASE Undone
  <2> USE <1>14 DEF Undone
  <2>1. TypeOK'
    BY Zenon DEF TypeOK
  <2>2. Versions' /\ Entries' /\ Prefix' /\ Flushing' /\ LoggedFirst'
    BY Zenon DEF Versions, Entries, Prefix, Flushing, LoggedFirst
  <2>3. mem.e = nvm.e /\ mem.v = nvm.v
    BY Zenon DEF Entries, Versions
  <2>4. ASSUME NEW w \in Word \ loose PROVE mem.w[w] = stable[w]
    <3>1. ASSUME NEW k \in Entry, UndoneFrom(w, k) PROVE mem.w[w] = stable[w]
      <4>1. \A j \in 1..(k - 1) : j \in Entry /\ e < j /\ j < k
        BY <1>n DEF Entry
      <4>2. FirstOf(nvm, w, k)
        BY Zenon, <3>1, <4>1, <2>3 DEF UndoneFrom, FirstOf, Undoes, Valid
      <4>3. mem.w[w] = nvm.e[k].val
        BY Zenon, <3>1, <2>3 DEF UndoneFrom
      <4> QED
        BY Zenon, <4>2, <4>3 DEF CrashSafe
    <3>2. ASSUME \A k \in Entry : k > e => ~ Undoes(mem, w, k) PROVE mem.w[w] = stable[w]
      <4>1. \A k \in Entry : k > e
        BY <1>n
      <4>2. \A k \in Entry : ~ Undoes(nvm, w, k)
        BY Zenon, <3>2, <4>1, <2>3 DEF Undoes, Valid
      <4> QED
        BY Zenon, <4>2 DEF Unlogged
    <3> QED
      BY Zenon, <3>1, <3>2 DEF Recovering
  <2>6. Recovering'
    BY Zenon, <2>4 DEF Recovering
  <2>7. Unlogged' /\ CrashSafe'
    BY Zenon DEF Unlogged, CrashSafe, Undoes, FirstOf, Valid
  <2> QED
    BY Zenon, <2>1, <2>2, <2>6, <2>7
<1>15. CASE Evict
  <2> USE <1>15 DEF Evict
  <2>1. ASSUME NEW l \in Line, nvm' = CLFLUSH(l), UNCHANGED <<stable, loose>> PROVE LogInv'
    <3>1. /\ nvm' \in Memory /\ nvm'.e = nvm.e /\ nvm'.v = nvm.v
          /\ \A w \in Word : nvm'.w[w] = IF LineOf(w) = l THEN mem.w[w] ELSE nvm.w[w]
          /\ Unlogged' /\ CrashSafe'
      BY Zenon, <2>1, FlushedLine, LineKeeps DEF TypeOK
    <3>2. TypeOK'
      BY Zenon, <2>1, <3>1 DEF TypeOK
    <3>3. Versions' /\ Entries' /\ Prefix' /\ Flushing' /\ LoggedFirst'
      BY ZenonT(30), <2>1, <3>1 DEF Versions, Entries, Prefix, Flushing, LoggedFirst
    <3>4. Recovering'
      BY <2>1 DEF Recovering, UndoneFrom, Undoes, Valid
    <3> QED
      BY Zenon, <3>1, <3>2, <3>3, <3>4
  <2>2. ASSUME NEW k \in Entry, nvm' = [nvm EXCEPT !.e[k] = mem.e[k]],
              UNCHANGED <<stable, loose>>
       PROVE LogInv'
    <3>1. /\ nvm' \in Memory /\ nvm'.w = nvm.w /\ nvm'.v = nvm.v
          /\ nvm'.e[k] = mem.e[k] /\ \A j \in Entry : j # k => nvm'.e[j] = nvm.e[j]
          /\ \A j \in Entry : nvm'.e[j].version <= nvm.v
          /\ Unlogged' /\ CrashSafe'
      BY Zenon, <2>2, EntryKeeps
    <3>2. TypeOK'
      BY Zenon, <2>2, <3>1 DEF TypeOK
    <3>3. Versions' /\ Prefix' /\ Flushing' /\ LoggedFirst'
      BY ZenonT(30), <2>2, <3>1 DEF Versions, Prefix, Flushing, LoggedFirst
    <3>4. Entries'
      <4>1. CASE pc = "log"
        BY Zenon, <4>1, <2>2, <3>1 DEF Entries
      <4>2. CASE pc # "log"
        <5>1. \A j \in Entry : nvm'.e[j] = mem.e[j]
          BY Zenon, <4>2, <3>1 DEF Entries
        <5>2. nvm'.e = mem.e
          BY <3>1, <5>1, MemoryParts DEF TypeOK
        <5> QED
          BY Zenon, <4>2, <5>2 DEF Entries
      <4> QED
        BY Zenon, <4>1, <4>2
    <3>5. Recovering'
      BY <2>2 DEF Recovering, UndoneFrom, Undoes, Valid
    <3> QED
      BY Zenon, <3>1, <3>2, <3>3, <3>4, <3>5
  <2>3. CASE VersionDurable
    <3>1. pc = "bump"
      <4>1. CASE nvm.v = mem.v
        <5>1. nvm' = nvm
          BY Zenon, <2>3, <4>1 DEF VersionDurable, TypeOK, Memory
        <5> QED
          BY Zenon, <5>1
      <4>2. CASE nvm.v # mem.v
        BY Zenon, <4>2 DEF Versions
      <4> QED
        BY Zenon, <4>1, <4>2
    <3> QED
      BY Zenon, <2>3, <3>1, <1>10
  <2> QED
    BY Zenon, <2>1, <2>2, <2>3
<1>16. CASE Crash
  <2> USE <1>16 DEF Crash
  <2>1. mem' \in Memory /\ nvm' \in Memory /\ NoJob \in [w : Word, store : BOOLEAN]
    BY LogAssumption DEF TypeOK, NoJob, Word
  <2>2. crashes' \in 0..MaxCrash
    BY LogAssumption DEF TypeOK
  <2>3. TypeOK'
    <3>1. e' \in 0..(MaxEntries + 1) /\ tab' \in [Slot -> {0} \cup Line]
      BY LogAssumption
    <3> QED
      BY Zenon, <2>1, <2>2, <3>1 DEF TypeOK
  <2>4. Versions' /\ Entries' /\ Prefix' /\ LoggedFirst' /\ Recovering'
    BY Zenon DEF Versions, Entries, Prefix, LoggedFirst, Recovering
  <2>5. Flushing'
    BY Zenon DEF Flushing
  <2>6. Unlogged' /\ CrashSafe'
    BY Zenon DEF Unlogged, CrashSafe, Undoes, FirstOf, Valid
  <2> QED
    BY Zenon, <2>3, <2>4, <2>5, <2>6
<1>17. CASE UNCHANGED vars
  <2> USE <1>17 DEF vars
  <2>1. TypeOK'
    BY Zenon DEF TypeOK
  <2>2. Versions' /\ Entries' /\ Prefix' /\ Flushing' /\ LoggedFirst'
    BY Zenon DEF Versions, Entries, Prefix, Flushing, LoggedFirst
  <2>3. Recovering' /\ Unlogged' /\ CrashSafe'
    BY DEF Recovering, UndoneFrom, Unlogged, CrashSafe, Undoes, FirstOf, Valid
  <2> QED
    BY Zenon, <2>1, <2>2, <2>3
<1> QED
  BY Zenon, <1>1, <1>2, <1>3, <1>5, <1>6, <1>7, <1>8, <1>9, <1>11, <1>12, <1>13, <1>14, <1>15, <1>16, <1>17
     DEF Next, Section, Finish

\* The invariant gives what the log promises.
LEMMA LogInvSafe == LogInv => SectionsAreAtomic
<1> SUFFICES ASSUME LogInv PROVE SectionsAreAtomic
  BY Zenon
<1>1. RecoveryRestores
  BY Zenon DEF LogInv, Recovering, RecoveryRestores
<1>2. ASSUME pc = "idle" PROVE nvm.w = mem.w /\ nvm.v = mem.v /\ stable = mem.w
  <2>1. \A w \in Word : nvm.w[w] = mem.w[w]
    BY Zenon, <1>2, LinesAndSlots DEF LogInv, Flushing
  <2>2. \A k \in Entry : 1 \in 1..k /\ 1 \in Entry
    BY LogAssumption DEF Entry
  <2>3. nvm.v = mem.v /\ nvm.e = mem.e
    BY Zenon, <1>2 DEF LogInv, Versions, Entries
  <2>4. \A w \in Word, k \in Entry : ~ Undoes(nvm, w, k)
    BY Zenon, <1>2, <2>2, <2>3 DEF LogInv, Prefix, Undoes, Valid
  <2>5. \A w \in Word : stable[w] = mem.w[w]
    BY Zenon, <1>2, <2>4 DEF LogInv, Unlogged, Versions
  <2> QED
    BY <2>1, <2>3, <2>5, MemoryParts DEF LogInv, TypeOK
<1> QED
  BY Zenon, <1>1, <1>2 DEF LogInv, IdleIsDurable, SectionsAreAtomic

\* The undo log is failure-atomic (SectionsAreAtomic), for all constants: a
\* crash at any moment leaves what undoes to the last durable section, a
\* recovery restores exactly that, for every word but those stored without a
\* log entry since, and outside sections nothing is in the cache only
\* (makalu_persistent.c:151-176, 353-386).
THEOREM LogIsFailureAtomic == Spec => []SectionsAreAtomic
<1>1. Init => LogInv
  BY Zenon, InitLogInv
<1>2. LogInv /\ [Next]_vars => LogInv'
  BY Zenon, NextLogInv
<1>3. LogInv => SectionsAreAtomic
  BY Zenon, LogInvSafe
<1> QED
  BY <1>1, <1>2, <1>3, PTL DEF Spec
=============================================================================
