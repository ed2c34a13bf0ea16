------------------------------ MODULE SpinLocks ------------------------------
(***************************************************************************)
(* The spin locks of ulib (ext2/osdep/os_spinlock.h) other than the plain  *)
(* ticket lock: test-and-set, test-test-and-set, MCS with both of its      *)
(* unlock functions, K42 and the read-write ticket lock.  Threads take and *)
(* release a lock again and again; every access to shared memory is a step *)
(* of its own, an atomic_* instruction one step.                           *)
(***************************************************************************)
EXTENDS Integers, Sequences, FiniteSets

CONSTANTS
  N,         \* threads 1..N
  Flavours,  \* locks to look at
  T          \* 2^bits of ticket_t

VARIABLES
  flavour,
  word,   \* the lock word: 0 or 1, or the tail of the queue
  next,   \* next pointers of the queue entries, and of the K42 lock itself
  busy,   \* me->lock, me.tail: set while a waiter has to wait
  rw,     \* the tickets of the read-write lock: write, read, user
  pc, reg, mine,   \* of a thread: where it is, what it read, the tickets it read
  order   \* ghost: threads that have asked for the lock, first come first

vars == <<flavour, word, next, busy, rw, pc, reg, mine, order>>

Threads == 1..N
NULL == 0
LOCK == N + 1     \* the K42 lock as an entry of its queue
Inc(x) == (x + 1) % T
Zero == [write |-> 0, read |-> 0, user |-> 0]

Init ==
  /\ flavour \in Flavours
  /\ word = NULL
  /\ next = [n \in 1..(N + 1) |-> NULL]
  /\ busy = [t \in Threads |-> FALSE]
  /\ rw = Zero
  /\ pc = [t \in Threads |-> "idle"]
  /\ reg = [t \in Threads |-> NULL]
  /\ mine = [t \in Threads |-> Zero]
  /\ order = <<>>

Go(t, at) == pc' = [pc EXCEPT ![t] = at]
Queue(t) == order' = Append(order, t)
Out(t) == SelectSeq(order, LAMBDA u : u # t)
Leave(t) == Go(t, "idle") /\ order' = Out(t)

\* atomic_fetchstore and atomic_cmpswp on the lock word.
atomic_fetchstore(t, v) == word' = v /\ reg' = [reg EXCEPT ![t] = word]
Swaps(old) == word = old

-----------------------------------------------------------------------------
(* Test-and-set ("xchg") and test-test-and-set ("xchg2").                   *)

Xchg == flavour \in {"xchg", "xchg2"}
xchg_rest == <<flavour, next, busy, rw, mine>>

spin_lock_xchg(t) ==
  /\ Xchg /\ pc[t] = "idle"
  /\ Go(t, IF flavour = "xchg" THEN "swap" ELSE "test") /\ Queue(t)
  /\ UNCHANGED <<xchg_rest, word, reg>>

Test(t) ==
  /\ pc[t] = "test" /\ word = 0
  /\ Go(t, "swap")
  /\ UNCHANGED <<xchg_rest, word, reg, order>>

\* Mutant of Swap: looks at the lock after the swap.
SwapReadsBack(t) ==
  /\ Xchg /\ pc[t] = "swap"
  /\ atomic_fetchstore(t, 1)
  /\ Go(t, IF word' = 0 THEN "cs" ELSE "swap")
  /\ UNCHANGED <<xchg_rest, order>>

Swap(t) ==
  /\ Xchg /\ pc[t] = "swap"
  /\ atomic_fetchstore(t, 1)
  /\ Go(t, IF word = 0 THEN "cs" ELSE IF flavour = "xchg" THEN "swap" ELSE "test")
  /\ UNCHANGED <<xchg_rest, order>>

spin_trylock_xchg(t) ==
  /\ Xchg /\ pc[t] = "idle"
  /\ word' = 1
  /\ IF word = 0 THEN Go(t, "cs") /\ Queue(t) ELSE UNCHANGED <<pc, order>>
  /\ UNCHANGED <<xchg_rest, reg>>

spin_unlock_xchg(t) ==
  /\ Xchg /\ pc[t] = "cs"
  /\ word' = 0 /\ Leave(t)
  /\ UNCHANGED <<xchg_rest, reg>>

-----------------------------------------------------------------------------
(* MCS: the lock word points to the last entry of the queue.  K42 takes the  *)
(* same way in, with the entry on the stack of the thread.                  *)

Mcs == flavour \in {"mcs_cas", "mcs_xchg"}
Queues == Mcs \/ flavour = "k42"
queue_rest == <<flavour, rw, mine>>

spin_lock_queue(t) ==
  /\ Queues /\ pc[t] = "idle"
  /\ next' = [next EXCEPT ![t] = NULL]
  /\ Go(t, "enter")
  /\ UNCHANGED <<queue_rest, word, busy, reg, order>>

Got == IF Mcs THEN "cs" ELSE "succ"

Enter(t) ==
  /\ pc[t] = "enter"
  /\ atomic_fetchstore(t, t)
  /\ Go(t, IF word = NULL THEN Got ELSE "announce") /\ Queue(t)
  /\ UNCHANGED <<queue_rest, next, busy>>

Announce(t) ==
  /\ pc[t] = "announce"
  /\ busy' = [busy EXCEPT ![t] = TRUE]
  /\ Go(t, "link")
  /\ UNCHANGED <<queue_rest, word, next, reg, order>>

Link(t) ==
  /\ pc[t] = "link"
  /\ next' = [next EXCEPT ![reg[t]] = t]
  /\ Go(t, "spin")
  /\ UNCHANGED <<queue_rest, word, busy, reg, order>>

Spin(t) ==
  /\ pc[t] = "spin" /\ ~busy[t]
  /\ Go(t, Got)
  /\ UNCHANGED <<queue_rest, word, next, busy, reg, order>>

spin_trylock_queue(t) ==
  /\ Queues /\ pc[t] = "idle"
  /\ next' = [next EXCEPT ![t] = NULL]
  /\ Go(t, "try")
  /\ UNCHANGED <<queue_rest, word, busy, reg, order>>

Try(t) ==
  /\ pc[t] = "try"
  /\ IF Swaps(NULL) THEN word' = (IF Mcs THEN t ELSE LOCK) /\ Go(t, "cs") /\ Queue(t)
                    ELSE Go(t, "idle") /\ UNCHANGED <<word, order>>
  /\ UNCHANGED <<queue_rest, next, busy, reg>>

\* Both MCS unlocks look for a successor first.
spin_unlock_mcs(t) ==
  /\ Mcs /\ pc[t] = "cs"
  /\ Go(t, IF next[t] # NULL THEN "pass" ELSE IF flavour = "mcs_cas" THEN "cas" ELSE "take")
  /\ reg' = [reg EXCEPT ![t] = NULL]
  /\ UNCHANGED <<queue_rest, word, next, busy, order>>

UnlockCas(t) ==
  /\ pc[t] = "cas"
  /\ IF Swaps(t) THEN word' = NULL /\ Leave(t) ELSE Go(t, "wait") /\ UNCHANGED <<word, order>>
  /\ UNCHANGED <<queue_rest, next, busy, reg>>

WaitNext(t) ==
  /\ pc[t] = "wait" /\ next[t] # NULL
  /\ Go(t, "pass")
  /\ UNCHANGED <<queue_rest, word, next, busy, reg, order>>

\* The next waiter, or, after the queue was restored, whoever came in between
\* goes first and hands on to the waiters.
Pass(t) ==
  /\ pc[t] = "pass"
  /\ IF flavour = "mcs_xchg" /\ reg[t] # NULL
     THEN next' = [next EXCEPT ![reg[t]] = next[t]] /\ UNCHANGED busy
     ELSE busy' = [busy EXCEPT ![next[t]] = FALSE] /\ UNCHANGED next
  /\ reg' = [reg EXCEPT ![t] = NULL]
  /\ Leave(t)
  /\ UNCHANGED <<queue_rest, word>>

UnlockTake(t) ==
  /\ pc[t] = "take"
  /\ word' = NULL
  /\ IF word = t THEN Leave(t) /\ UNCHANGED reg
                 ELSE Go(t, "restore") /\ reg' = [reg EXCEPT ![t] = word] /\ UNCHANGED order
  /\ UNCHANGED <<queue_rest, next, busy>>

UnlockRestore(t) ==
  /\ pc[t] = "restore"
  /\ word' = reg[t] /\ reg' = [reg EXCEPT ![t] = word]
  /\ Go(t, "wait")
  /\ UNCHANGED <<queue_rest, next, busy, order>>

\* K42: the thread that has the lock takes its entry out of the queue and puts
\* the lock's in its place.
Succ(t) ==
  /\ pc[t] = "succ"
  /\ next' = [next EXCEPT ![LOCK] = next[t]]
  /\ Go(t, IF next[t] # NULL THEN "cs" ELSE "retire")
  /\ UNCHANGED <<queue_rest, word, busy, reg, order>>

\* Mutant of Retire: a late arrival enters without waiting.
RetireAtOnce(t) ==
  /\ pc[t] = "retire"
  /\ word' = (IF Swaps(t) THEN LOCK ELSE word)
  /\ Go(t, "cs")
  /\ UNCHANGED <<queue_rest, next, busy, reg, order>>

Retire(t) ==
  /\ pc[t] = "retire"
  /\ IF Swaps(t) THEN word' = LOCK /\ Go(t, "cs") ELSE Go(t, "late") /\ UNCHANGED word
  /\ UNCHANGED <<queue_rest, next, busy, reg, order>>

Late(t) ==
  /\ pc[t] = "late" /\ next[t] # NULL
  /\ next' = [next EXCEPT ![LOCK] = next[t]]
  /\ Go(t, "cs")
  /\ UNCHANGED <<queue_rest, word, busy, reg, order>>

spin_unlock_k42(t) ==
  /\ flavour = "k42" /\ pc[t] = "cs"
  /\ reg' = [reg EXCEPT ![t] = next[LOCK]]
  /\ Go(t, IF next[LOCK] # NULL THEN "wake" ELSE "free")
  /\ UNCHANGED <<queue_rest, word, next, busy, order>>

Free(t) ==
  /\ pc[t] = "free"
  /\ IF Swaps(LOCK) THEN word' = NULL /\ Leave(t) ELSE Go(t, "look") /\ UNCHANGED <<word, order>>
  /\ UNCHANGED <<queue_rest, next, busy, reg>>

Look(t) ==
  /\ pc[t] = "look" /\ next[LOCK] # NULL
  /\ reg' = [reg EXCEPT ![t] = next[LOCK]]
  /\ Go(t, "wake")
  /\ UNCHANGED <<queue_rest, word, next, busy, order>>

Wake(t) ==
  /\ pc[t] = "wake"
  /\ busy' = [busy EXCEPT ![reg[t]] = FALSE]
  /\ Leave(t)
  /\ UNCHANGED <<queue_rest, word, next, reg>>

-----------------------------------------------------------------------------
(* The read-write ticket lock.                                              *)

Rw == flavour = "rwticket"
rw_rest == <<flavour, word, next, busy, reg>>

\* atomic_fetchadd of one user.
Ticket(t, at) ==
  /\ Rw /\ pc[t] = "idle"
  /\ rw' = [rw EXCEPT !.user = Inc(@)]
  /\ mine' = [mine EXCEPT ![t] = rw]
  /\ Go(t, at) /\ Queue(t)
  /\ UNCHANGED rw_rest

spin_wrlock_ticket(t) == Ticket(t, "wait_write")
spin_rdlock_ticket(t) == Ticket(t, "wait_read")

GetWrite(t) ==
  /\ pc[t] = "wait_write" /\ rw.write = mine[t].user
  /\ Go(t, "writing")
  /\ UNCHANGED <<rw_rest, rw, mine, order>>

GetRead(t) ==
  /\ pc[t] = "wait_read" /\ rw.read = mine[t].user
  /\ mine' = [mine EXCEPT ![t].read = rw.read]
  /\ Go(t, "let_in")
  /\ UNCHANGED <<rw_rest, rw, order>>

\* ++lock->tickets.read, which is not atomic.
LetIn(t) ==
  /\ pc[t] = "let_in"
  /\ rw' = [rw EXCEPT !.read = Inc(mine[t].read)]
  /\ mine' = [mine EXCEPT ![t] = Zero]
  /\ Go(t, "reading")
  /\ UNCHANGED <<rw_rest, order>>

spin_rdunlock_ticket(t) ==
  /\ pc[t] = "reading"
  /\ rw' = [rw EXCEPT !.write = Inc(@)]
  /\ Leave(t)
  /\ UNCHANGED <<rw_rest, mine>>

\* The three tickets are read; write and read are stored together.
spin_wrunlock_ticket(t) ==
  /\ pc[t] = "writing"
  /\ mine' = [mine EXCEPT ![t] = rw]
  /\ Go(t, "store")
  /\ UNCHANGED <<rw_rest, rw, order>>

StoreWriteRead(t) ==
  /\ pc[t] = "store"
  /\ rw' = [rw EXCEPT !.write = Inc(mine[t].write), !.read = Inc(mine[t].read)]
  /\ mine' = [mine EXCEPT ![t] = Zero]
  /\ Leave(t)
  /\ UNCHANGED rw_rest

\* The tries look at the tickets and swap the whole lock word if it is the same.
spin_try_ticket(t) ==
  /\ Rw /\ pc[t] = "idle"
  /\ mine' = [mine EXCEPT ![t] = rw]
  /\ \/ rw.write = rw.user /\ Go(t, "try_write")
     \/ rw.read = rw.user /\ Go(t, "try_read")
  /\ UNCHANGED <<rw_rest, rw, order>>

spin_trywrlock_ticket(t) ==
  /\ pc[t] = "try_write"
  /\ mine' = [mine EXCEPT ![t] = Zero]
  /\ IF rw = mine[t]
     THEN rw' = [rw EXCEPT !.user = Inc(@)] /\ Go(t, "writing") /\ Queue(t)
     ELSE Go(t, "idle") /\ UNCHANGED <<rw, order>>
  /\ UNCHANGED rw_rest

spin_tryrdlock_ticket(t) ==
  /\ pc[t] = "try_read"
  /\ mine' = [mine EXCEPT ![t] = Zero]
  /\ IF rw = mine[t]
     THEN rw' = [rw EXCEPT !.user = Inc(@), !.read = Inc(@)] /\ Go(t, "reading") /\ Queue(t)
     ELSE Go(t, "idle") /\ UNCHANGED <<rw, order>>
  /\ UNCHANGED rw_rest

-----------------------------------------------------------------------------

\* Asking for a lock is up to the thread; the rest it does as fast as it can.
Ask(t) ==
  \/ spin_lock_xchg(t) \/ spin_trylock_xchg(t)
  \/ spin_lock_queue(t) \/ spin_trylock_queue(t)
  \/ spin_wrlock_ticket(t) \/ spin_rdlock_ticket(t) \/ spin_try_ticket(t)

Proceed(t) ==
  \/ Test(t) \/ Swap(t) \/ spin_unlock_xchg(t)
  \/ Enter(t) \/ Announce(t) \/ Link(t) \/ Spin(t) \/ Try(t)
  \/ spin_unlock_mcs(t) \/ UnlockCas(t) \/ WaitNext(t) \/ Pass(t)
  \/ UnlockTake(t) \/ UnlockRestore(t)
  \/ Succ(t) \/ Retire(t) \/ Late(t)
  \/ spin_unlock_k42(t) \/ Free(t) \/ Look(t) \/ Wake(t)
  \/ GetWrite(t) \/ GetRead(t) \/ LetIn(t)
  \/ spin_rdunlock_ticket(t) \/ spin_wrunlock_ticket(t) \/ StoreWriteRead(t)
  \/ spin_trywrlock_ticket(t) \/ spin_tryrdlock_ticket(t)

Next == \E t \in Threads : Ask(t) \/ Proceed(t)

\* The scheduler gives every thread its turn.
Spec == Init /\ [][Next]_vars /\ \A t \in Threads : WF_vars(Proceed(t))

-----------------------------------------------------------------------------
(* Properties.                                                              *)

Holds(t) == pc[t] \in {"cs", "succ", "retire", "late", "writing", "store"}
Reads(t) == pc[t] \in {"let_in", "reading"}

\* One thread at a time is between its lock and its unlock function, the K42
\* lock's own bookkeeping included; readers only share with readers.
Exclusion ==
  \A t, u \in Threads :
    t # u /\ Holds(t) => ~Holds(u) /\ ~Reads(u)

\* Nobody is overtaken: "mcs unlock with CAS, which maintains FIFO order", and
\* the same of the K42 lock and, for writers, of the tickets.
FirstComeFirstServed ==
  flavour \in {"mcs_cas", "k42", "rwticket"} =>
    \A t \in Threads : Holds(t) => order[1] = t

\* The entry on the stack of a thread is not written once spin_lock_k42 has
\* returned.
StackEntryIsDead ==
  flavour = "k42" =>
    \A t \in Threads :
      /\ pc[t] \in {"announce", "link"} /\ reg[t] # LOCK =>
           pc[reg[t]] \in {"announce", "link", "spin", "succ", "retire", "late"}
      /\ pc[t] = "wake" => pc[reg[t]] = "spin"

\* A lock nobody holds or waits for can be taken.
QuietIsFree ==
  (\A t \in Threads : pc[t] = "idle") =>
    word = NULL /\ next[LOCK] = NULL /\ rw.read = rw.user /\ rw.write = rw.user

\* Whoever asks gets the lock, with the locks that queue; with the others the
\* lock does not stay free while somebody waits.
Waits(t) == pc[t] \in {"enter", "announce", "link", "spin", "wait_write", "wait_read", "swap", "test"}
Served(t) == \/ ~Waits(t)
             \/ flavour \in {"xchg", "xchg2", "mcs_xchg"} /\ \E u \in Threads : Holds(u)
EveryoneGetsIn == \A t \in Threads : Waits(t) ~> Served(t)
=============================================================================
