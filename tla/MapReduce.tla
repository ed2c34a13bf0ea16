------------------------------ MODULE MapReduce ------------------------------
(***************************************************************************)
(* The map-reduce engine of ulib (ext2/mapreduce): job::exec deals the     *)
(* records of a dataset to tasks, each a thread (ext2/thread) that maps    *)
(* its records and folds the pairs into one shared chain_hash_store under  *)
(* the lock of the region the key hashes to.                               *)
(***************************************************************************)
EXTENDS Integers, Sequences, FiniteSets, FiniteSetsExt, SequencesExt

CONSTANTS
  Datasets,   \* sequences of records; a record is the sequence of pairs <<key, value>> its map emits
  NTasks,     \* numbers of tasks
  NBuckets, NLocks,
  MayFail     \* pthread_create may fail

VARIABLES
  dataset, ntask,
  main, k,       \* the thread in job::exec and the task it is at
  running,       \* thread::_running of each task
  pc, pos, pair, seen,   \* of a task: where run() is, iterators i and it, what it read
  chain, sum,    \* the store: keys in each bucket, and value of each key
  lock           \* the task that holds the lock of a region, 0 if none

vars == <<dataset, ntask, main, k, running, pc, pos, pair, seen, chain, sum, lock>>

Keys == UNION {UNION {{Pairs[n][1] : n \in DOMAIN Pairs} : Pairs \in Range(d)} : d \in Datasets}
Task == 1..ntask
Bucket(key) == key % NBuckets
Region(key) == key % NLocks

\* The records of task t: len each, and the rest of the dataset for the last.
Last_(t) == IF t = ntask THEN Len(dataset) ELSE (Len(dataset) \div ntask) * t

First(t) == (Len(dataset) \div ntask) * (t - 1) + 1

Init ==
  /\ dataset \in Datasets /\ ntask \in NTasks
  /\ main = "start" /\ k = 1
  /\ running = [t \in Task |-> FALSE]
  /\ pc = [t \in Task |-> "new"]
  /\ pos = [t \in Task |-> First(t)]
  /\ pair = [t \in Task |-> 1]
  /\ seen = [t \in Task |-> <<>>]
  /\ chain = [b \in 0..(NBuckets - 1) |-> <<>>]
  /\ sum = [key \in Keys |-> 0]
  /\ lock = [r \in 0..(NLocks - 1) |-> 0]

store == <<chain, sum, lock>>
local == <<pos, pair, seen>>

-----------------------------------------------------------------------------
\* tasks[i]->start(); what it returns is not looked at.
start ==
  /\ main = "start"
  /\ \/ running' = [running EXCEPT ![k] = TRUE] /\ pc' = [pc EXCEPT ![k] = "record"]
     \/ MayFail /\ UNCHANGED <<running, pc>>
  /\ k' = IF k = ntask THEN 1 ELSE k + 1
  /\ main' = IF k = ntask THEN "delete" ELSE main
  /\ UNCHANGED <<dataset, ntask, local, store>>

\* Mutant of stop_and_join: deletes the task without waiting for its thread.
stop_and_leave ==
  /\ main = "delete"
  /\ running' = [running EXCEPT ![k] = FALSE]
  /\ main' = IF k = ntask THEN "done" ELSE main
  /\ k' = IF k = ntask THEN k ELSE k + 1
  /\ UNCHANGED <<dataset, ntask, pc, local, store>>

\* delete tasks[i]: ~task calls stop_and_join.
stop_and_join ==
  /\ main = "delete"
  /\ running[k] => pc[k] = "over"
  /\ running' = [running EXCEPT ![k] = FALSE]
  /\ main' = IF k = ntask THEN "done" ELSE main
  /\ k' = IF k = ntask THEN k ELSE k + 1
  /\ UNCHANGED <<dataset, ntask, pc, local, store>>

-----------------------------------------------------------------------------
Emitted(t) == dataset[pos[t]]
Key(t) == Emitted(t)[pair[t]][1]
Value(t) == Emitted(t)[pair[t]][2]
Go(t, l) == pc' = [pc EXCEPT ![t] = l]
mine == <<dataset, ntask, main, k, running>>

\* The head of the loop over the records, and m(*i), which emits the pairs.
Record(t) ==
  /\ pc[t] = "record"
  /\ Go(t, IF pos[t] > Last_(t) THEN "over" ELSE "pair")
  /\ pair' = [pair EXCEPT ![t] = 1]
  /\ UNCHANGED <<mine, pos, seen, store>>

\* The head of the loop over the pairs; m.reset() and ++i after the last one.
Pair(t) ==
  /\ pc[t] = "pair"
  /\ IF pair[t] > Len(Emitted(t))
     THEN pos' = [pos EXCEPT ![t] = @ + 1] /\ Go(t, "record")
     ELSE Go(t, "lock") /\ UNCHANGED pos
  /\ UNCHANGED <<mine, pair, seen, store>>

LockRegion(t) ==
  /\ pc[t] = "lock"
  /\ lock[Region(Key(t))] = 0
  /\ lock' = [lock EXCEPT ![Region(Key(t))] = t]
  /\ Go(t, "find")
  /\ UNCHANGED <<mine, local, chain, sum>>

\* _store[key]: the search of the bucket.
Find(t) ==
  /\ pc[t] = "find"
  /\ LET b == Bucket(Key(t))
     IN  /\ seen' = [seen EXCEPT ![t] = chain[b]]
         /\ Go(t, IF \E n \in DOMAIN chain[b] : chain[b][n] = Key(t) THEN "read" ELSE "hang")
  /\ UNCHANGED <<mine, pos, pair, store>>

\* ... and the new entry, with V() for its value, after what the search saw.
Hang(t) ==
  /\ pc[t] = "hang"
  /\ chain' = [chain EXCEPT ![Bucket(Key(t))] = Append(seen[t], Key(t))]
  /\ sum' = [sum EXCEPT ![Key(t)] = 0]
  /\ Go(t, "read")
  /\ UNCHANGED <<mine, local, lock>>

\* R(_store[key]) += value reads the sum ...
ReadSum(t) ==
  /\ pc[t] = "read"
  /\ seen' = [seen EXCEPT ![t] = <<sum[Key(t)]>>]
  /\ Go(t, "write")
  /\ UNCHANGED <<mine, pos, pair, store>>

\* ... and writes it.
WriteSum(t) ==
  /\ pc[t] = "write"
  /\ sum' = [sum EXCEPT ![Key(t)] = seen[t][1] + Value(t)]
  /\ seen' = [seen EXCEPT ![t] = <<>>]
  /\ Go(t, "unlock")
  /\ UNCHANGED <<mine, pos, pair, chain, lock>>

UnlockRegion(t) ==
  /\ pc[t] = "unlock"
  /\ lock' = [lock EXCEPT ![Region(Key(t))] = 0]
  /\ pair' = [pair EXCEPT ![t] = @ + 1]
  /\ Go(t, "pair")
  /\ UNCHANGED <<mine, pos, seen, chain, sum>>

run(t) == \/ Record(t) \/ Pair(t) \/ LockRegion(t) \/ Find(t) \/ Hang(t)
          \/ ReadSum(t) \/ WriteSum(t) \/ UnlockRegion(t)

Done == main = "done" /\ UNCHANGED vars
Next == start \/ stop_and_join \/ (\E t \in Task : run(t)) \/ Done
Spec == Init /\ [][Next]_vars
Fair == WF_vars(start) /\ WF_vars(stop_and_join) /\ \A t \in 1..Max(NTasks) :
          WF_vars(t \in Task /\ run(t))
FairSpec == Spec /\ Fair

-----------------------------------------------------------------------------
Occurs(key, d) == {<<n, p>> \in (DOMAIN d) \X (1..Max({Len(d[m]) : m \in DOMAIN d} \cup {0})) :
                     p <= Len(d[n]) /\ d[n][p][1] = key}

Served(n) == \E t \in Task : pc[t] # "new" /\ n \in First(t)..Last_(t)

\* What exec leaves in the result, when it returns, is for every key the sum
\* of the values of all its pairs: no record is dealt to two tasks or to
\* none, and no task folds into a store another is changing.  When a thread
\* could not be started, its records are missing and no others.
ResultIsSum ==
  main = "done" =>
    \A key \in Keys :
      /\ sum[key] = MapThenSumSet(LAMBDA o : dataset[o[1]][o[2]][2],
                                  {o \in Occurs(key, dataset) : Served(o[1])})
      /\ (\E o \in Occurs(key, dataset) : Served(o[1])) =>
           Cardinality({n \in DOMAIN chain[Bucket(key)] : chain[Bucket(key)][n] = key}) = 1

\* exec returns, given that the threads it starts are scheduled.
Ended == main = "done"
JobEnds == <>Ended

=============================================================================
