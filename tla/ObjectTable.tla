------------------------------ MODULE ObjectTable ------------------------------
(******************************************************************************)
(* Named objects: nvm_reserve_id, nvm_activate_id and nvm_free_id over the      *)
(* object table.  An ID lives in a slot of the table on NVRAM and in a volatile *)
(* hash map; slots that were given back wait in slot_buffer, a fifo that the    *)
(* threads work on without a lock; after a restart ot_recover rebuilds map and  *)
(* fifo from NVRAM.                                                             *)
(*                                                                            *)
(* The data object of an ID is what the calls without an ID make of it, each of *)
(* them one step here (RunProtocol and RegionProtocol model their inside).      *)
(* Threads do not work on the same ID at the same time, and the chainhash calls *)
(* are atomic.  Every store is durable at once.                                 *)
(******************************************************************************)
EXTENDS Integers, FiniteSets, SequencesExt

CONSTANTS
  Thread,      \* application threads
  Id,          \* the IDs that are used
  NoId,        \* the empty id field
  NSlots,      \* total_slots_available
  BufferSize,  \* SLOT_BUFFER_SIZE
  MaxRemove,   \* bound: slots put into the fifo in one life of the process
  MaxCrash     \* bound: restarts

VARIABLES
  table,     \* the object table on NVRAM: per slot, state and id
  data,      \* per ID, its data object: "free", "reserved" (volatile) or "active"
  map,       \* ot_hashmap: the slot of an ID, -1 if it is not there
  next_slot, \* next_nvm_slot
  buffer, next_idx, head_idx, tail_idx, n_free,   \* slot_buffer and its indices
  pc, loc,   \* per thread, the next step and the locals of its call
  promised,  \* history: IDs whose nvm_activate_id returned and that were not freed
  raced,     \* history: an n_free += 1 has undone what another thread did to n_free
  crashes

fifo == <<buffer, next_idx, head_idx, tail_idx, n_free>>
vars == <<table, data, map, next_slot, fifo, pc, loc, promised, raced, crashes>>

--------------------------------------------------------------------------------

Slot   == 0 .. NSlots - 1
NoSlot == -1

NoEntry == [state |-> "NONE", id |-> NoId]
Idle    == [id |-> NoId, slot |-> 0, idx |-> 0, load |-> 0]

\* The state byte of the header of a data object (usage in the high bits), and
\* the constants that ot_recover compares it with.
USAGE_FREE      == 16
USAGE_BLOCK     == 48
INITIALIZED     == 2
PREFREE         == 4
ACTIVATING      == 7
StateByte(d) == IF d = "active" THEN USAGE_BLOCK + INITIALIZED ELSE USAGE_FREE + INITIALIZED

Init ==
  /\ table = [s \in Slot |-> NoEntry]
  /\ data = [i \in Id |-> "free"]
  /\ map = [i \in Id |-> NoSlot]
  /\ next_slot = 0
  /\ buffer = [k \in 0 .. BufferSize - 1 |-> 0]
  /\ next_idx = 0 /\ head_idx = 0 /\ tail_idx = -1 /\ n_free = 0
  /\ pc = [t \in Thread |-> "idle"]
  /\ loc = [t \in Thread |-> Idle]
  /\ promised = {}
  /\ raced = FALSE
  /\ crashes = 0

At(t, from) == pc[t] = from
Goto(t, to) == pc' = [pc EXCEPT ![t] = to]
Return(t)   == Goto(t, "idle") /\ loc' = [loc EXCEPT ![t] = Idle]

\* Thread t starts a call on an ID that no other call is about (bound: none once
\* n_free is wrong, when fifo and table may hold anything).
Call(t, i, first) ==
  /\ At(t, "idle") /\ ~raced
  /\ \A u \in Thread : loc[u].id # i
  /\ Goto(t, first)
  /\ loc' = [loc EXCEPT ![t] = [Idle EXCEPT !.id = i, !.slot = map[i]]]

--------------------------------------------------------------------------------
(* nvm_reserve_id: nvm_reserve, then ot_insert.  Another object that had the ID,  *)
(* in an entry that a restart dropped, or that the table had no slot for, is      *)
(* nobody's any more.                                                            *)

ReserveId(t) ==
  /\ \E i \in Id :
       /\ map[i] = NoSlot
       /\ Call(t, i, "take")
       /\ data' = [data EXCEPT ![i] = "reserved"]
  /\ UNCHANGED <<table, map, next_slot, fifo, promised, raced, crashes>>

\* The atomic decrement of slot_buffer_n_free.
Take(t) ==
  /\ At(t, "take")
  /\ n_free' = n_free - 1
  /\ Goto(t, IF n_free <= 0 THEN "undo" ELSE "head")
  /\ UNCHANGED <<table, data, map, next_slot, buffer, next_idx, head_idx, tail_idx, loc,
                 promised, raced, crashes>>

\* slot_buffer_n_free += 1 is a load and a store.
Load(t, from, to) ==
  /\ At(t, from)
  /\ loc' = [loc EXCEPT ![t].load = n_free]
  /\ Goto(t, to)
  /\ UNCHANGED <<table, data, map, next_slot, fifo, promised, raced, crashes>>

Increment(t) ==
  /\ n_free' = loc[t].load + 1
  /\ raced' = (raced \/ n_free # loc[t].load)

UndoLoad(t) == Load(t, "undo", "undo_store")

UndoStore(t) ==
  /\ At(t, "undo_store")
  /\ Increment(t)
  /\ Goto(t, "fresh")
  /\ UNCHANGED <<table, data, map, next_slot, buffer, next_idx, head_idx, tail_idx, loc,
                 promised, crashes>>

\* The atomic increment of next_nvm_slot.
Fresh(t) ==
  /\ At(t, "fresh")
  /\ next_slot' = next_slot + 1
  /\ loc' = [loc EXCEPT ![t].slot = next_slot]
  /\ Goto(t, IF next_slot >= NSlots THEN "full" ELSE "insert")
  /\ UNCHANGED <<table, data, map, fifo, promised, raced, crashes>>

\* OT_FAIL, which nvm_reserve_id ignores: the caller gets its memory.
Full(t) ==
  /\ At(t, "full")
  /\ next_slot' = next_slot - 1
  /\ Return(t)
  /\ UNCHANGED <<table, data, map, fifo, promised, raced, crashes>>

\* The atomic increment of slot_buffer_head_idx, which is not reduced modulo
\* SLOT_BUFFER_SIZE, and the read of the slot; past the end it is any value.
ReadHead(t) ==
  /\ At(t, "head")
  /\ head_idx' = head_idx + 1
  /\ \E s \in IF head_idx < BufferSize THEN {buffer[head_idx]} ELSE Slot :
       loc' = [loc EXCEPT ![t].slot = s]
  /\ Goto(t, "insert")
  /\ UNCHANGED <<table, data, map, next_slot, buffer, next_idx, tail_idx, n_free,
                 promised, raced, crashes>>

Insert(t) ==
  /\ At(t, "insert")
  /\ map' = [map EXCEPT ![loc[t].id] = loc[t].slot]
  /\ Return(t)
  /\ UNCHANGED <<table, data, next_slot, fifo, promised, raced, crashes>>

--------------------------------------------------------------------------------
(* nvm_activate_id, which does nothing for an ID that is not in the map. *)

ActivateId(t) ==
  /\ \E i \in Id : map[i] # NoSlot /\ data[i] = "reserved" /\ Call(t, i, "none")
  /\ UNCHANGED <<table, data, map, next_slot, fifo, promised, raced, crashes>>

\* STATE_NONE before id and ptr are stored, STATE_INITIALIZING after.
EntryNone(t) ==
  /\ At(t, "none")
  /\ table' = [table EXCEPT ![loc[t].slot] = [state |-> "NONE", id |-> loc[t].id]]
  /\ Goto(t, "initializing")
  /\ UNCHANGED <<data, map, next_slot, fifo, loc, promised, raced, crashes>>

EntryInitializing(t) ==
  /\ At(t, "initializing")
  /\ table' = [table EXCEPT ![loc[t].slot].state = "INITIALIZING"]
  /\ Goto(t, "activate")
  /\ UNCHANGED <<data, map, next_slot, fifo, loc, promised, raced, crashes>>

Activate(t) ==
  /\ At(t, "activate")
  /\ data' = [data EXCEPT ![loc[t].id] = "active"]
  /\ Goto(t, "initialized")
  /\ UNCHANGED <<table, map, next_slot, fifo, loc, promised, raced, crashes>>

\* Mutant of EntryInitialized: step 3 of the activation is left out.
EntryStaysInitializing(t) ==
  /\ At(t, "initialized")
  /\ promised' = promised \cup {loc[t].id}
  /\ Return(t)
  /\ UNCHANGED <<table, data, map, next_slot, fifo, raced, crashes>>

EntryInitialized(t) ==
  /\ At(t, "initialized")
  /\ table' = [table EXCEPT ![loc[t].slot].state = "INITIALIZED"]
  /\ promised' = promised \cup {loc[t].id}
  /\ Return(t)
  /\ UNCHANGED <<data, map, next_slot, fifo, raced, crashes>>

--------------------------------------------------------------------------------
(* nvm_free_id: nvm_free, then ot_remove. *)

FreeId(t) ==
  /\ next_idx < MaxRemove
  /\ \E i \in Id :
       /\ map[i] # NoSlot /\ data[i] = "active" /\ Call(t, i, "freeing")
       /\ promised' = promised \ {i}
  /\ UNCHANGED <<table, data, map, next_slot, fifo, raced, crashes>>

EntryFreeing(t) ==
  /\ At(t, "freeing")
  /\ table' = [table EXCEPT ![loc[t].slot].state = "FREEING"]
  /\ Goto(t, "free")
  /\ UNCHANGED <<data, map, next_slot, fifo, loc, promised, raced, crashes>>

FreeData(t) ==
  /\ At(t, "free")
  /\ data' = [data EXCEPT ![loc[t].id] = "free"]
  /\ Goto(t, "remove")
  /\ UNCHANGED <<table, map, next_slot, fifo, loc, promised, raced, crashes>>

\* The ID leaves the map; a place in the fifo is claimed.
Claim(t) ==
  /\ At(t, "remove")
  /\ map' = [map EXCEPT ![loc[t].id] = NoSlot]
  /\ next_idx' = next_idx + 1
  /\ loc' = [loc EXCEPT ![t].idx = next_idx % BufferSize]
  /\ Goto(t, "put")
  /\ UNCHANGED <<table, data, next_slot, buffer, head_idx, tail_idx, n_free, promised,
                 raced, crashes>>

Put(t) ==
  /\ At(t, "put")
  /\ buffer' = [buffer EXCEPT ![loc[t].idx] = loc[t].slot]
  /\ Goto(t, "tail")
  /\ UNCHANGED <<table, data, map, next_slot, next_idx, head_idx, tail_idx, n_free, loc,
                 promised, raced, crashes>>

\* The compare and swap of slot_buffer_tail_idx, repeated until it succeeds.
Publish(t) ==
  /\ At(t, "tail")
  /\ tail_idx = loc[t].idx - 1
  /\ tail_idx' = loc[t].idx
  /\ Goto(t, "count")
  /\ UNCHANGED <<table, data, map, next_slot, buffer, next_idx, head_idx, n_free, loc,
                 promised, raced, crashes>>

CountLoad(t) == Load(t, "count", "count_store")

CountStore(t) ==
  /\ At(t, "count_store")
  /\ Increment(t)
  /\ Return(t)
  /\ UNCHANGED <<table, data, map, next_slot, buffer, next_idx, head_idx, tail_idx,
                 promised, crashes>>

--------------------------------------------------------------------------------
(* A crash of the process, and ot_init and ot_recover in the next one.  They     *)
(* treat every slot by itself and do nothing twice if they are interrupted, so   *)
(* they are one step.                                                            *)

\* The test on an entry; the state byte of the header is compared with its usage
\* bits.  data is what the recovery of the headers has left.
Kept(e) ==
  \/ e.state = "INITIALIZED"
  \/ /\ e.state = "INITIALIZING"
     /\ StateByte(data[e.id]) \in {PREFREE, ACTIVATING, INITIALIZED}

\* Mutant of Gaps: the loop starts at the last used slot, not behind it.
GapsFromUsed(kept) == {s \in Slot : \E k \in kept : s < k}

\* The unused slots that the loop over last_used_slot + 1 .. current_slot - 1
\* finds; last_used_slot starts at 0.
Gaps(kept) == {s \in Slot \ kept : s > 0 /\ \E k \in kept : s < k}

Restart ==
  /\ crashes < MaxCrash
  /\ crashes' = crashes + 1
  /\ LET kept == {s \in Slot : Kept(table[s])}
         gaps == SetToSortSeq(Gaps(kept), <)
         n    == Len(gaps)
     IN /\ table' = [s \in Slot |->
                       IF s \in kept THEN [table[s] EXCEPT !.state = "INITIALIZED"]
                       ELSE IF table[s].state = "INITIALIZING" THEN NoEntry
                       ELSE table[s]]
        /\ map' = [i \in Id |->
                     LET own == {s \in kept : table[s].id = i}
                     IN IF own = {} THEN NoSlot ELSE Max(own)]
        /\ buffer' = [k \in 0 .. BufferSize - 1 |-> IF k < n THEN gaps[k + 1] ELSE 0]
        /\ next_idx' = n /\ head_idx' = 0 /\ tail_idx' = n - 1 /\ n_free' = n
        /\ next_slot' = Max(kept \cup {0}) + 1
  /\ data' = [i \in Id |-> IF data[i] = "active" THEN "active" ELSE "free"]
  /\ pc' = [t \in Thread |-> "idle"]
  /\ loc' = [t \in Thread |-> Idle]
  /\ UNCHANGED <<promised, raced>>

--------------------------------------------------------------------------------

Step(t) ==
  \/ Take(t) \/ UndoLoad(t) \/ UndoStore(t) \/ Fresh(t) \/ Full(t) \/ ReadHead(t) \/ Insert(t)
  \/ EntryNone(t) \/ EntryInitializing(t) \/ Activate(t) \/ EntryInitialized(t)
  \/ EntryFreeing(t) \/ FreeData(t) \/ Claim(t) \/ Put(t) \/ Publish(t)
  \/ CountLoad(t) \/ CountStore(t)

Next ==
  \/ \E t \in Thread : ReserveId(t) \/ ActivateId(t) \/ FreeId(t)
                       \/ Step(t)
  \/ Restart

Spec == Init /\ [][Next]_vars

\* A call that was made keeps running.
FairSpec == Spec /\ \A t \in Thread : WF_vars(Step(t))

--------------------------------------------------------------------------------
(* Properties. *)

\* Every variable keeps its type; in particular every slot that a call works
\* with is a slot of the object table.
TypeOK ==
  /\ table \in [Slot -> [state : {"NONE", "INITIALIZING", "INITIALIZED", "FREEING"},
                         id : Id \cup {NoId}]]
  /\ data \in [Id -> {"free", "reserved", "active"}]
  /\ map \in [Id -> Slot \cup {NoSlot}]
  /\ next_slot \in 0 .. NSlots + Cardinality(Thread)
  /\ buffer \in [0 .. BufferSize - 1 -> Slot]
  /\ next_idx \in Nat /\ head_idx \in Nat
  /\ tail_idx \in -1 .. BufferSize - 1
  /\ n_free \in Int
  /\ \A t \in Thread : pc[t] \in {"insert", "put"} => loc[t].slot \in Slot
  /\ promised \in SUBSET Id
  /\ crashes \in 0 .. MaxCrash

\* Two IDs never have the same slot: "find and reserve a slot on NVM, check freed
\* slots first" gives every ot_insert a slot of its own, from the counter
\* or from the fifo, before and after a restart.
SlotsUnique ==
  \A i, j \in Id : i # j /\ map[i] # NoSlot => map[i] # map[j]

\* An entry that a restart would keep names an object that is active: step 3 of
\* nvm_activate_id comes after step 2, and nvm_free_id takes the entry back before
\* it frees the object.
NamedIsActive ==
  \A s \in Slot : table[s].state = "INITIALIZED" => data[table[s].id] = "active"

\* "Once nvm_activate_id returns, the region pointe to by root is guaranteed to be
\* persisted and referenced by the specified ID", whatever crashes afterwards.
ActivatedIsNamed ==
  \A i \in promised :
    /\ data[i] = "active"
    /\ \E s \in Slot : table[s] = [state |-> "INITIALIZED", id |-> i]

Quiet == \A t \in Thread : pc[t] = "idle"

\* When no call is in progress every active object is named: a call with an ID
\* that a crash interrupts is replayed or undone ("the entry can persist").
NoLeak == Quiet => \A i \in Id : data[i] = "active" =>
                     \E s \in Slot : table[s] = [state |-> "INITIALIZED", id |-> i]

\* The memory that nvm_reserve_id returned has an ID, so that nvm_activate_id
\* can activate it.
ReservedIsNamed == Quiet => \A i \in Id : data[i] = "reserved" => map[i] # NoSlot

Tracked == {map[i] : i \in Id} \cup {s \in Slot : s >= next_slot}
           \cup {buffer[k] : k \in {k \in 0 .. BufferSize - 1 :
                                     head_idx <= k /\ k < head_idx + n_free}}

\* When no call is in progress every slot is in use, waits in the fifo or was
\* never used: ot_insert fails only when the table is full.
NoSlotLost == Quiet => Slot \subseteq Tracked

\* The same for every slot but slot 0, which ot_recover does not list when it
\* is free.
NoOtherSlotLost == Quiet => Slot \ {0} \subseteq Tracked

\* ot_remove returns: the compare and swap of the tail succeeds in the end.
RemoveReturns == \A t \in Thread : pc[t] = "tail" ~> pc[t] # "tail"

\* The same as long as no more slots were given back than slot_buffer has places,
\* where the indices have not come round.
EarlyTail(t) == pc[t] = "tail" /\ next_idx <= BufferSize
RemoveReturnsAtFirst == \A t \in Thread : EarlyTail(t) ~> pc[t] # "tail"

================================================================================
