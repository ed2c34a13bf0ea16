----------------------------- MODULE RegionHash -----------------------------
(***************************************************************************)
(* The chained hash table under several threads.                           *)
(*                                                                         *)
(* In the scenes "shared", "private" and "any" it is chain_hash_map_r      *)
(* (ext2/reentrant/hash_chain_r.h): a region of the keys has a readers-    *)
(* writer lock (os_regionlock.h), chosen by the low bits of the key as the *)
(* chain is.  Threads share all keys and erase by key ("shared"), or have  *)
(* a chain each and may erase through the iterator the last call returned  *)
(* ("private"), or do both at once ("any").                                *)
(*                                                                         *)
(* In the scene "tidmap" it is the map of nvm_reserve (nvm_malloc.c) from  *)
(* thread ids to arenas, which has no lock; a key is a thread id.          *)
(*                                                                         *)
(* Every read of a chain and every store to one is a step.                 *)
(***************************************************************************)
EXTENDS Integers, Sequences, FiniteSets

CONSTANTS
  Thread,      \* positive naturals
  Key,         \* a finite set of naturals
  Entry,       \* addresses, positive naturals
  NBuckets,    \* mask + 1 of the chains
  NLocks,      \* mask + 1 of the locks
  Scenes,
  MaxVal       \* bound: how often a value is combined

VARIABLES
  scene,
  tbl, next, key, val,   \* the chains and the entries; key is -1 in a free entry
  lock,        \* of each region: the writer (0: none) and the readers
  pc, op,      \* what each thread does, and the call: name, key
  it,          \* the iterator of each thread: entry, parent (0: NULL) and chain
  reg,         \* what each thread has read last: a link or a value
  seqs,        \* ghost: the values stored under each key, in the order of the chain
  fault        \* ghost: a freed entry was read or written

vars == <<scene, tbl, next, key, val, lock, pc, op, it, reg, seqs, fault>>

chain == <<tbl, next, key, val>>

None == [entry |-> 0, parent |-> 0, index |-> 0]

Bucket(k) == k % NBuckets
Region(k) == k % NLocks

Init ==
  /\ scene \in Scenes
  /\ tbl = [i \in 0..(NBuckets - 1) |-> 0]
  /\ next = [e \in Entry |-> 0] /\ key = [e \in Entry |-> -1] /\ val = [e \in Entry |-> 0]
  /\ lock = [i \in 0..(NLocks - 1) |-> [w |-> 0, r |-> {}]]
  /\ pc = [t \in Thread |-> "idle"]
  /\ op = [t \in Thread |-> [name |-> "none", key |-> 0]]
  /\ it = [t \in Thread |-> None]
  /\ reg = [t \in Thread |-> 0]
  /\ seqs = [k \in Key |-> <<>>]
  /\ fault = FALSE

Goto(t, l) == pc' = [pc EXCEPT ![t] = l]

Reads == {"contain", "find"}

\* The keys a thread uses; thread ids meet in one chain of tidmap.
Mine(t) ==
  IF scene \in {"shared", "any"} THEN Key
  ELSE IF scene = "tidmap" THEN {NBuckets * t}
  ELSE {k \in Key : Bucket(k) = t % NBuckets}

Ops == IF scene = "tidmap" THEN {"tidmap"}
       ELSE Reads \cup {"insert", "find_or_insert", "combine", "erase"}

\* A call begins.  erase(it) reads the key of its entry before it locks.
Call(t) ==
  /\ pc[t] = "idle"
  /\ \/ \E name \in Ops, k \in Mine(t) :
          /\ op' = [op EXCEPT ![t] = [name |-> name, key |-> k]]
          /\ it' = [it EXCEPT ![t] = None]
          /\ UNCHANGED fault
     \/ /\ scene \in {"private", "any"}
        /\ it[t].entry # 0
        /\ op' = [op EXCEPT ![t] = [name |-> "erase_at", key |-> key[it[t].entry]]]
        /\ fault' = (fault \/ key[it[t].entry] = -1)
        /\ UNCHANGED it
  /\ Goto(t, IF scene = "tidmap" THEN "walk" ELSE "lock")
  /\ UNCHANGED <<scene, chain, lock, reg, seqs>>

\* Readers share the lock of the region, writers have it alone.
Lock(t) ==
  LET l == Region(op[t].key)
      reads == op[t].name \in Reads
  IN  /\ pc[t] = "lock"
      /\ lock[l].w = 0
      /\ reads \/ lock[l].r = {}
      /\ lock' = IF reads THEN [lock EXCEPT ![l].r = @ \cup {t}] ELSE [lock EXCEPT ![l].w = t]
      /\ Goto(t, CASE op[t].name = "insert" -> "push"
                   [] op[t].name = "erase_at" -> "del"
                   [] OTHER -> "walk")
      /\ UNCHANGED <<scene, chain, op, it, reg, seqs, fault>>

\* The entries of chain i.  A chain that runs into a cycle is cut.
Chain(i) ==
  LET C[n \in 0..Cardinality(Entry)] ==
        IF n = 0 THEN <<tbl[i]>>
        ELSE LET s == C[n - 1] IN IF s[n] = 0 THEN s \o <<0>> ELSE s \o <<next[s[n]]>>
  IN  SelectSeq(C[Cardinality(Entry)], LAMBDA e : e # 0)

\* chainhash_get: the first entry with the key, and the one before it.
chainhash_get(k) ==
  LET s == Chain(Bucket(k))
      hits == {n \in DOMAIN s : key[s[n]] = k}
      n == IF hits = {} THEN Len(s) + 1 ELSE CHOOSE n \in hits : \A m \in hits : n <= m
  IN  [entry |-> IF hits = {} THEN 0 ELSE s[n],
       parent |-> IF n = 1 THEN 0 ELSE s[n - 1],
       index |-> Bucket(k)]

\* A search through the chain decides what is done next.
Walk(t) ==
  LET k == op[t].key
      i == chainhash_get(k)
  IN  /\ pc[t] = "walk"
      /\ it' = [it EXCEPT ![t] = i]
      /\ Goto(t, CASE op[t].name \in Reads -> "unlock"
                   [] op[t].name = "erase" -> IF i.entry = 0 THEN "unlock" ELSE "del"
                   [] op[t].name = "tidmap" -> IF i.entry = 0 THEN "push" ELSE "unlock"
                   [] OTHER -> IF i.entry = 0 THEN "link"
                               ELSE IF op[t].name = "combine" THEN "value" ELSE "unlock")
      /\ fault' = (fault \/ \E n \in DOMAIN Chain(Bucket(k)) : key[Chain(Bucket(k))[n]] = -1)
      /\ UNCHANGED <<scene, chain, lock, op, reg, seqs>>

\* Addresses are interchangeable: malloc returns the lowest.
Fresh == {e \in Entry : key[e] = -1 /\ \A d \in Entry : key[d] = -1 => e <= d}

\* No memory: the exception leaves the call with the lock held.
Throw(t) ==
  /\ pc[t] \in {"push", "link"} /\ scene # "tidmap"
  /\ Fresh = {}
  /\ it' = [it EXCEPT ![t] = None]
  /\ op' = [op EXCEPT ![t] = [name |-> "none", key |-> 0]]
  /\ Goto(t, "idle")
  /\ UNCHANGED <<scene, chain, lock, reg, seqs, fault>>

\* chainhash_set: a new entry reads the head of the chain ...
Push(t) ==
  LET k == op[t].key
  IN  \E e \in Fresh :
        /\ pc[t] = "push"
        /\ key' = [key EXCEPT ![e] = k] /\ val' = [val EXCEPT ![e] = 0]
        /\ next' = [next EXCEPT ![e] = tbl[Bucket(k)]]
        /\ it' = [it EXCEPT ![t] = [entry |-> e, parent |-> 0, index |-> Bucket(k)]]
        /\ Goto(t, "pushed")
        /\ UNCHANGED <<scene, tbl, lock, op, reg, seqs, fault>>

\* ... and becomes the head.
Pushed(t) ==
  LET k == op[t].key
  IN  /\ pc[t] = "pushed"
      /\ tbl' = [tbl EXCEPT ![Bucket(k)] = it[t].entry]
      /\ seqs' = [seqs EXCEPT ![k] = <<0>> \o @]
      /\ Goto(t, "unlock")
      /\ UNCHANGED <<scene, next, key, val, lock, op, it, reg, fault>>

\* Mutant of Link: the entry replaces the chain it was to end.
LinkAtHead(t) ==
  LET k == op[t].key
  IN  \E e \in Fresh :
        /\ pc[t] = "link"
        /\ key' = [key EXCEPT ![e] = k] /\ val' = [val EXCEPT ![e] = 0]
        /\ tbl' = [tbl EXCEPT ![Bucket(k)] = e] /\ next' = [next EXCEPT ![e] = 0]
        /\ it' = [it EXCEPT ![t].entry = e]
        /\ seqs' = [seqs EXCEPT ![k] = Append(@, 0)]
        /\ Goto(t, IF op[t].name = "combine" THEN "value" ELSE "unlock")
        /\ UNCHANGED <<scene, lock, op, reg, fault>>

\* chainhash_set_uniq: a new entry behind the last one of the chain.
Link(t) ==
  LET k == op[t].key
      p == it[t].parent
  IN  \E e \in Fresh :
        /\ pc[t] = "link"
        /\ key' = [key EXCEPT ![e] = k] /\ val' = [val EXCEPT ![e] = 0]
        /\ IF p = 0 THEN tbl' = [tbl EXCEPT ![Bucket(k)] = e] /\ next' = [next EXCEPT ![e] = 0]
           ELSE next' = [next EXCEPT ![e] = 0, ![p] = e] /\ UNCHANGED tbl
        /\ fault' = (fault \/ (p # 0 /\ key[p] = -1))
        /\ it' = [it EXCEPT ![t].entry = e]
        /\ seqs' = [seqs EXCEPT ![k] = Append(@, 0)]
        /\ Goto(t, IF op[t].name = "combine" THEN "value" ELSE "unlock")
        /\ UNCHANGED <<scene, lock, op, reg>>

\* combine: the combiner reads the value ...
Value(t) ==
  /\ pc[t] = "value"
  /\ reg' = [reg EXCEPT ![t] = val[it[t].entry]]
  /\ fault' = (fault \/ key[it[t].entry] = -1)
  /\ Goto(t, "combined")
  /\ UNCHANGED <<scene, chain, lock, op, it, seqs>>

\* ... and stores the new one.
Combined(t) ==
  LET k == op[t].key
  IN  /\ pc[t] = "combined"
      /\ val' = [val EXCEPT ![it[t].entry] = (reg[t] + 1) % MaxVal]
      /\ reg' = [reg EXCEPT ![t] = 0]
      /\ seqs' = [seqs EXCEPT ![k] = IF @ = <<>> THEN @ ELSE [@ EXCEPT ![1] = (@ + 1) % MaxVal]]
      /\ fault' = (fault \/ key[it[t].entry] = -1)
      /\ Goto(t, "unlock")
      /\ UNCHANGED <<scene, tbl, next, key, lock, op, it>>

\* chainhash_del, with the iterator as it is; what the entry held is forgotten.
Del(t) ==
  LET k == op[t].key
      e == it[t].entry
      p == it[t].parent
  IN  /\ pc[t] = "del"
      /\ IF p = 0 THEN tbl' = [tbl EXCEPT ![it[t].index] = next[e]] /\ next' = [next EXCEPT ![e] = 0]
         ELSE next' = [next EXCEPT ![e] = 0, ![p] = next[e]] /\ UNCHANGED tbl
      /\ key' = [key EXCEPT ![e] = -1] /\ val' = [val EXCEPT ![e] = 0]
      /\ fault' = (fault \/ key[e] = -1 \/ (p # 0 /\ key[p] = -1))
      /\ it' = [it EXCEPT ![t] = None]
      /\ seqs' = [seqs EXCEPT ![k] = IF @ = <<>> THEN @ ELSE Tail(@)]
      /\ Goto(t, "unlock")
      /\ UNCHANGED <<scene, lock, op, reg>>

\* The call returns; what find and the insertions return is an iterator.
Unlock(t) ==
  LET l == Region(op[t].key)
  IN  /\ pc[t] = "unlock"
      /\ lock' = IF lock[l].w = t THEN [lock EXCEPT ![l].w = 0]
                 ELSE [lock EXCEPT ![l].r = @ \ {t}]
      /\ it' = [it EXCEPT ![t] =
                  IF op[t].name \in {"find", "insert", "find_or_insert"} /\ scene \in {"private", "any"}
                  THEN @ ELSE None]
      /\ op' = [op EXCEPT ![t] = [name |-> "none", key |-> 0]]
      /\ Goto(t, "idle")
      /\ UNCHANGED <<scene, chain, reg, seqs, fault>>

Step(t) ==
  \/ Lock(t) \/ Walk(t) \/ Throw(t) \/ Push(t) \/ Pushed(t) \/ Link(t)
  \/ Value(t) \/ Combined(t) \/ Del(t) \/ Unlock(t)

Next == \E t \in Thread : Call(t) \/ Step(t)

Spec == Init /\ [][Next]_vars

-----------------------------------------------------------------------------
(* Properties.                                                              *)

\* No thread reads or writes an entry that was freed.
NoFreedEntryUsed == ~fault

\* The chains are lists of live entries in the chain of their key, whoever is in
\* the middle of what, also in the map that has no lock, and nothing freed is used.
ChainsAreLists ==
  /\ ~fault
  /\ \A i \in DOMAIN tbl :
       LET s == Chain(i)
       IN  /\ \A n \in DOMAIN s : key[s[n]] # -1 /\ Bucket(key[s[n]]) = i
           /\ \A m, n \in DOMAIN s : s[m] = s[n] => m = n

\* Behind its locks the map is a map: under every key the chain holds the values
\* that the calls so far have stored, combined and not erased, and none is lost.
MapIsAsCalled ==
  scene # "tidmap" /\ ~fault =>
    \A k \in Key :
      LET s == SelectSeq(Chain(Bucket(k)), LAMBDA e : key[e] = k)
      IN  [n \in 1..Len(s) |-> val[s[n]]] = seqs[k]

\* What a search found stays so until the thread unlocks.
SearchStaysTrue ==
  scene \in {"shared", "private"} =>
    \A t \in Thread :
      op[t].name \in Reads \cup {"erase", "combine"} /\ pc[t] \in {"link", "del", "value", "unlock"} =>
        LET i == chainhash_get(op[t].key)
        IN  (op[t].name = "erase" => pc[t] = "del") => it[t].entry = i.entry /\ it[t].parent = i.parent

\* A thread that has returned from its call holds no lock.
LocksAreReturned ==
  \A t \in Thread, l \in DOMAIN lock :
    pc[t] = "idle" => lock[l].w # t /\ t \notin lock[l].r

\* nvm_reserve finds the arena of a thread once it has been assigned one.
TidKeepsArena ==
  scene = "tidmap" => \A k \in Key : seqs[k] # <<>> => chainhash_get(k).entry # 0
=============================================================================
