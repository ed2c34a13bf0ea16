----------------------------- MODULE TicketLock -----------------------------
(***************************************************************************)
(* The ticket spin lock of ulib (ext2/osdep/os_spinlock.h).  Tickets have  *)
(* the width of ticket_t and wrap around.  Threads take, try and release   *)
(* the lock again and again; every access to the lock word is a step.      *)
(***************************************************************************)
EXTENDS Integers, Sequences, FiniteSets

CONSTANTS
  Thread,
  T        \* 2^TICKET_SHIFT: 256, or 65536 with LARGE_CPUSET

ASSUME TicketAssumption ==
  /\ IsFiniteSet(Thread)
  /\ T \in Nat /\ Cardinality(Thread) < T

VARIABLES
  head, tail,   \* lock->tickets
  pc,           \* of each thread: "idle", "spin", "try" or "cs"
  seen,         \* inc.tickets.head or old.tickets.head, as it was read
  ticket,       \* inc.tickets.tail or old.tickets.tail
  queue         \* ghost: threads with a ticket, in the order of the tickets

vars == <<head, tail, pc, seen, ticket, queue>>

Tickets == 0..(T - 1)

\* A counter of the lock word, k increments later.
Plus(x, k) == IF x + k < T THEN x + k ELSE x + k - T

Init ==
  /\ head = 0 /\ tail = 0
  /\ pc = [t \in Thread |-> "idle"]
  /\ seen = [t \in Thread |-> 0]
  /\ ticket = [t \in Thread |-> 0]
  /\ queue = <<>>

\* The fetchadd takes a ticket and reads the one that is served.
spin_lock_ticket(t) ==
  /\ pc[t] = "idle"
  /\ pc' = [pc EXCEPT ![t] = "spin"]
  /\ seen' = [seen EXCEPT ![t] = head]
  /\ ticket' = [ticket EXCEPT ![t] = tail]
  /\ tail' = Plus(tail, 1)
  /\ queue' = Append(queue, t)
  /\ UNCHANGED head

\* Mutant of Spin: the test is the wrong way round.
SpinLate(t) ==
  /\ pc[t] = "spin"
  /\ IF seen[t] # ticket[t]
     THEN pc' = [pc EXCEPT ![t] = "cs"] /\ UNCHANGED seen
     ELSE seen' = [seen EXCEPT ![t] = head] /\ UNCHANGED pc
  /\ UNCHANGED <<head, tail, ticket, queue>>

Spin(t) ==
  /\ pc[t] = "spin"
  /\ IF seen[t] = ticket[t]
     THEN pc' = [pc EXCEPT ![t] = "cs"] /\ UNCHANGED seen
     ELSE seen' = [seen EXCEPT ![t] = head] /\ UNCHANGED pc
  /\ UNCHANGED <<head, tail, ticket, queue>>

\* The lock word is read; a lock that is taken is left alone.
spin_trylock_ticket(t) ==
  /\ pc[t] = "idle"
  /\ seen' = [seen EXCEPT ![t] = head]
  /\ ticket' = [ticket EXCEPT ![t] = tail]
  /\ pc' = [pc EXCEPT ![t] = IF head = tail THEN "try" ELSE "idle"]
  /\ UNCHANGED <<head, tail, queue>>

\* The compare-and-swap of the whole word.
TrySwap(t) ==
  /\ pc[t] = "try"
  /\ IF head = seen[t] /\ tail = ticket[t]
     THEN /\ tail' = Plus(tail, 1) /\ queue' = Append(queue, t)
          /\ pc' = [pc EXCEPT ![t] = "cs"]
     ELSE pc' = [pc EXCEPT ![t] = "idle"] /\ UNCHANGED <<tail, queue>>
  /\ UNCHANGED <<head, seen, ticket>>

spin_unlock_ticket(t) ==
  /\ pc[t] = "cs"
  /\ pc' = [pc EXCEPT ![t] = "idle"]
  /\ head' = Plus(head, 1)
  /\ queue' = Tail(queue)
  /\ UNCHANGED <<tail, seen, ticket>>

Proceed(t) == Spin(t) \/ TrySwap(t) \/ spin_unlock_ticket(t)

Next == \E t \in Thread : spin_lock_ticket(t) \/ spin_trylock_ticket(t) \/ Proceed(t)

Spec == Init /\ [][Next]_vars

\* The scheduler gives every thread its turn.
FairSpec == Spec /\ \A t \in Thread : WF_vars(Proceed(t))

-----------------------------------------------------------------------------
(* Properties.                                                              *)

TypeOK ==
  /\ head \in Tickets /\ tail \in Tickets
  /\ pc \in [Thread -> {"idle", "spin", "try", "cs"}]
  /\ seen \in [Thread -> Tickets]
  /\ ticket \in [Thread -> Tickets]
  /\ queue \in Seq(Thread)

\* One thread at a time has the lock, tries included, however often the tickets
\* have wrapped around.
OneInside == \A t, u \in Thread : pc[t] = "cs" /\ pc[u] = "cs" => t = u

\* The ticket lock is a first-come-first-served lock.
Fifo == INSTANCE FifoLock WITH inside <- {t \in Thread : pc[t] = "cs"}
ServesInOrder == Fifo!Spec

\* Who takes a ticket gets the lock.
TicketIsServed == \A t \in Thread : pc[t] = "spin" ~> pc[t] = "cs"

\* The inductive invariant: the tickets of the queue are consecutive from head
\* on, and only the first of the queue may get or have the lock.
Holding == {"spin", "cs"}
TicketInv ==
  /\ TypeOK
  /\ \A i, j \in 1..Len(queue) : queue[i] = queue[j] => i = j
  /\ \A t \in Thread : pc[t] \in Holding <=> \E i \in 1..Len(queue) : queue[i] = t
  /\ \A i \in 1..Len(queue) : ticket[queue[i]] = Plus(head, i - 1)
  /\ tail = Plus(head, Len(queue))
  /\ \A t \in Thread :
       \/ pc[t] = "cs"
       \/ pc[t] = "spin" /\ seen[t] = ticket[t]
       => queue[1] = t
  /\ \A t \in Thread : pc[t] = "try" => seen[t] = ticket[t]
=============================================================================
