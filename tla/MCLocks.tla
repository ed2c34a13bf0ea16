------------------------------- MODULE MCLocks -------------------------------
(***************************************************************************)
(* The locks of ulib and the map-reduce engine, which runs threads under   *)
(* them, for TLC.  "kind" says which machine a behaviour is about; the     *)
(* ticket lock has its own variables, the others have a to l.              *)
(***************************************************************************)
EXTENDS TicketLock

CONSTANT Kinds    \* the machines to check

VARIABLES kind, a, b, c, d, e, f, g, h, i, j, k, l

first9 == <<a, b, c, d, e, f, g, h, i>>
last3 == <<j, k, l>>
others == <<first9, last3>>
mcvars == <<kind, vars, others>>

Spins == INSTANCE SpinLocks WITH N <- 3, T <- 4,
           Flavours <- {"xchg", "xchg2", "mcs_cas", "mcs_xchg", "k42", "rwticket"},
           flavour <- a, word <- b, next <- c, busy <- d, rw <- e, pc <- f, reg <- g, mine <- h, order <- i

Typed == INSTANCE TypeLocks WITH Thread <- 1..3, Class <- {"mutex", "rwlock"}, Mins <- {1, 3}, Hash <- {0, 1, 5},
           Type <- {"pthread_mutex", "pthread_spin", "xchg", "k42", "ticket", "mcs", "pthread_rwlock", "ticket_rwlock"},
           class <- a, type <- b, locks <- c, at <- d

\* No record, and three records for one, two and four tasks.
Data == {<<>>, << <<<<0, 1>>, <<1, 1>>>>, <<<<0, 2>>>>, <<<<2, 1>>>> >>}
Job == INSTANCE MapReduce WITH Datasets <- Data, NTasks <- {1, 2, 4}, NBuckets <- 2, NLocks <- 1, MayFail <- TRUE,
         dataset <- a, ntask <- b, main <- c, k <- d, running <- e, pc <- f, pos <- g, pair <- h,
         seen <- i, chain <- j, sum <- k, lock <- l

Unused == 0
Unused3 == j = Unused /\ k = Unused /\ l = Unused
Unused8 == e = Unused /\ f = Unused /\ g = Unused /\ h = Unused /\ i = Unused /\ Unused3

MCInit ==
  /\ kind \in Kinds
  /\ Init
  /\ \/ kind = "ticket" /\ a = Unused /\ b = Unused /\ c = Unused /\ d = Unused /\ Unused8
     \/ kind = "spin" /\ Spins!Init /\ Unused3
     \/ kind = "typed" /\ Typed!Init /\ Unused8
     \/ kind = "job" /\ Job!Init

MCNext ==
  /\ UNCHANGED kind
  /\ \/ kind = "ticket" /\ Next /\ UNCHANGED others
     \/ kind = "spin" /\ Spins!Next /\ UNCHANGED <<vars, last3>>
     \/ kind = "typed" /\ Typed!Next /\ UNCHANGED <<vars, e, f, g, h, i, last3>>
     \/ kind = "job" /\ Job!Next /\ UNCHANGED vars

\* The scheduler gives every thread its turn.
TicketProceeds(t) == kind = "ticket" /\ Proceed(t) /\ UNCHANGED <<kind, others>>
SpinProceeds(t) == kind = "spin" /\ Spins!Proceed(t) /\ UNCHANGED <<kind, vars, last3>>
JobStarts == kind = "job" /\ Job!start /\ UNCHANGED <<kind, vars>>
JobJoins == kind = "job" /\ Job!stop_and_join /\ UNCHANGED <<kind, vars>>
JobRuns(t) == kind = "job" /\ t \in Job!Task /\ Job!run(t) /\ UNCHANGED <<kind, vars>>

MCSpec ==
  /\ MCInit /\ [][MCNext]_mcvars
  /\ \A t \in Thread : WF_mcvars(TicketProceeds(t))
  /\ \A t \in 1..3 : WF_mcvars(SpinProceeds(t))
  /\ WF_mcvars(JobStarts) /\ WF_mcvars(JobJoins)
  /\ \A t \in 1..4 : WF_mcvars(JobRuns(t))

-----------------------------------------------------------------------------
(* Properties; ServesInOrder of the ticket lock is in its module.           *)

\* os_spinlock.h, os_regionlock.h: one thread at a time is between lock and
\* unlock, readers only share with readers, and threads whose hashes meet in a
\* region exclude each other.  Nobody is overtaken in a lock that queues; the
\* entry of spin_lock_k42 on a stack is not written once the function has
\* returned; a lock nobody holds or waits for can be taken.
LocksExclude ==
  /\ kind = "spin" => /\ Spins!Exclusion /\ Spins!FirstComeFirstServed
                      /\ Spins!StackEntryIsDead /\ Spins!QuietIsFree
  /\ kind = "typed" => Typed!RegionExcludes /\ Typed!QuietIsFree

\* os_spinlock.h, mr_engine.h: whoever asks gets a lock that queues, the other
\* locks do not stay free while somebody waits, and exec returns.
WaitersGetIn ==
  /\ TicketIsServed
  /\ \A t \in 1..3 : (kind = "spin" /\ Spins!Waits(t)) ~> (kind = "spin" => Spins!Served(t))
  /\ <>(kind = "job" => Job!Ended)

\* mr_engine.h: the result of exec is, for every key, the sum of its pairs.
ResultIsSum == kind = "job" => Job!ResultIsSum
=============================================================================
