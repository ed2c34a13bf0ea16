------------------------------- MODULE TypeLocks -------------------------------
(***************************************************************************)
(* The locks of ulib by type (ext2/reentrant/os_typelock.h: function       *)
(* templates that do nothing for a type they are not specialised for) and  *)
(* the regions of locks made of them (os_regionlock.h: region_mutex and    *)
(* region_rwlock, whose lock, trylock and unlock override those of         *)
(* region_mutex).  A lock that a specialised function calls is abstracted  *)
(* to who holds it; how the spin locks do that is in SpinLocks.            *)
(***************************************************************************)
EXTENDS Integers, FiniteSets, FiniteSetsExt

CONSTANTS
  Thread,     \* positive numbers
  Class,      \* "mutex", "rwlock": region_mutex or region_rwlock
  Type,       \* types of lock
  Mins, Hash  \* arguments of the constructor and of the calls

VARIABLES
  class, type,
  locks,      \* _mutexes: index -> [up |-> initialised, w |-> writer or 0, r |-> readers]
  at          \* thread -> [h |-> the hash it holds a lock for, as |-> "", "wr", "rd"]

vars == <<class, type, locks, at>>

MutexTypes == {"pthread_mutex", "pthread_spin", "xchg", "k42", "ticket"}
RWLockTypes == {"pthread_rwlock", "ticket_rwlock"}

Raw == [up |-> FALSE, w |-> 0, r |-> {}]
Quiet == \A t \in Thread : at[t].as = ""

-----------------------------------------------------------------------------
(* os_typelock.h.                                                           *)

typemutex_init(l) ==
  IF type \in MutexTypes \cup RWLockTypes \cup {"mcs"} THEN [Raw EXCEPT !.up = TRUE] ELSE l

\* Whether a call returns, and the lock it leaves.
typemutex_lock(l, t) ==
  IF type \notin MutexTypes THEN [ok |-> TRUE, l |-> l]
  ELSE [ok |-> l.w = 0, l |-> [l EXCEPT !.w = t]]
typemutex_unlock(l) == IF type \in MutexTypes THEN [l EXCEPT !.w = 0] ELSE l

\* Whether a call returns 0, and the lock it leaves.
typemutex_trylock(l, t) ==
  IF type \notin MutexTypes THEN [ok |-> FALSE, l |-> l]
  ELSE [ok |-> l.w = 0, l |-> IF l.w = 0 THEN [l EXCEPT !.w = t] ELSE l]

typerwlock_rdlock(l, t) ==
  IF type \notin RWLockTypes THEN [ok |-> TRUE, l |-> l]
  ELSE [ok |-> l.w = 0, l |-> [l EXCEPT !.r = @ \cup {t}]]

typerwlock_rdunlock(l, t) == IF type \in RWLockTypes THEN [l EXCEPT !.r = @ \ {t}] ELSE l
typerwlock_tryrdlock(l, t) ==
  IF type \notin RWLockTypes THEN [ok |-> FALSE, l |-> l]
  ELSE [ok |-> l.w = 0, l |-> IF l.w = 0 THEN [l EXCEPT !.r = @ \cup {t}] ELSE l]

typerwlock_wrlock(l, t) ==
  IF type \notin RWLockTypes THEN [ok |-> TRUE, l |-> l]
  ELSE [ok |-> l.w = 0 /\ l.r = {}, l |-> [l EXCEPT !.w = t]]
typerwlock_wrunlock(l) == IF type \in RWLockTypes THEN [l EXCEPT !.w = 0] ELSE l
typerwlock_trywrlock(l, t) ==
  IF type \notin RWLockTypes THEN [ok |-> FALSE, l |-> l]
  ELSE LET free == l.w = 0 /\ l.r = {}
       IN  [ok |-> free, l |-> IF free THEN [l EXCEPT !.w = t] ELSE l]

-----------------------------------------------------------------------------
(* os_regionlock.h.                                                         *)

\* ROUND_UP64.
RoundUp(n) == Min({2^i : i \in 0..n} \cap {m \in n..(2 * n) : TRUE})

\* The constructors and, with the locks destroyed and made again, operator=.
Made(n) == [i \in 0..(RoundUp(n) - 1) |-> typemutex_init(Raw)]

Init ==
  /\ class \in Class /\ type \in Type
  /\ \E min \in Mins : locks = Made(min)
  /\ at = [t \in Thread |-> [h |-> 0, as |-> ""]]

\* h & _mask.
Index(h) == h % Cardinality(DOMAIN locks)

lock(l, t) == IF class = "rwlock" THEN typerwlock_wrlock(l, t) ELSE typemutex_lock(l, t)
trylock(l, t) == IF class = "rwlock" THEN typerwlock_trywrlock(l, t) ELSE typemutex_trylock(l, t)
unlock(l) == IF class = "rwlock" THEN typerwlock_wrunlock(l) ELSE typemutex_unlock(l)

Got(t, h, as, r) ==
  /\ locks' = [locks EXCEPT ![Index(h)] = r.l]
  /\ at' = [at EXCEPT ![t] = [h |-> h, as |-> as]]
  /\ UNCHANGED <<class, type>>

Lock(t, h) == LET r == lock(locks[Index(h)], t)
              IN  at[t].as = "" /\ r.ok /\ Got(t, h, "wr", r)

Trylock(t, h) == LET r == trylock(locks[Index(h)], t)
                 IN  at[t].as = "" /\ Got(t, h, IF r.ok THEN "wr" ELSE "", r)

Unlock(t) ==
  /\ at[t].as = "wr"
  /\ Got(t, at[t].h, "", [l |-> unlock(locks[Index(at[t].h)])])

rdlock(t, h) == LET r == typerwlock_rdlock(locks[Index(h)], t)
                IN  class = "rwlock" /\ at[t].as = "" /\ r.ok /\ Got(t, h, "rd", r)

tryrdlock(t, h) == LET r == typerwlock_tryrdlock(locks[Index(h)], t)
                   IN  class = "rwlock" /\ at[t].as = "" /\ Got(t, h, IF r.ok THEN "rd" ELSE "", r)

rdunlock(t) ==
  /\ at[t].as = "rd"
  /\ Got(t, at[t].h, "", [l |-> typerwlock_rdunlock(locks[Index(at[t].h)], t)])

\* operator=, called while no lock is held: other locks when the counts differ.
Assign ==
  /\ Quiet
  /\ \E n \in Mins :
       locks' = IF RoundUp(n) = Cardinality(DOMAIN locks) THEN locks ELSE Made(n)
  /\ UNCHANGED <<class, type, at>>

Next ==
  \/ \E t \in Thread : Unlock(t) \/ rdunlock(t)
       \/ \E h \in Hash : Lock(t, h) \/ Trylock(t, h) \/ rdlock(t, h) \/ tryrdlock(t, h)
  \/ Assign

Spec == Init /\ [][Next]_vars

-----------------------------------------------------------------------------
\* The types that the class serves.
Served == type \in (IF class = "rwlock" THEN RWLockTypes ELSE MutexTypes)

Excludes ==
  \A t, u \in Thread :
    (t # u /\ at[t].as = "wr" /\ at[u].as # "") => Index(at[t].h) # Index(at[u].h)

\* With a lock type the class is made for, two threads whose hashes meet in
\* one region are never both inside unless both read, and a call that says it
\* got the lock did (os_regionlock.h: "returns 0 if the mutex was acquired").
RegionExcludes == Served => Excludes

\* What locked is what unlocks, through all the overriding: locks nobody uses
\* are free, initialised, and as many as hashes can tell apart.
QuietIsFree ==
  Served /\ Quiet => \A i \in DOMAIN locks : locks[i] = [up |-> TRUE, w |-> 0, r |-> {}]

\* "rwlocks can also be used as mutexes" (os_typelock.h:84): a region_mutex of
\* them excludes.
RWLockIsMutex == type \in RWLockTypes => Excludes
=============================================================================
