-------------------------- MODULE TicketLockProofs --------------------------
(***************************************************************************)
(* The ticket lock excludes, and implements the first-come-first-served    *)
(* lock, for every finite set of threads smaller than the range of tickets.*)
(***************************************************************************)
EXTENDS TicketLock, FiniteSetTheorems, FunctionTheorems, SequenceTheorems, TLAPS

\* A queue without repetitions is no longer than there are threads, so that
\* the tickets of the queue do not meet from behind.
LEMMA QueueBound ==
  ASSUME NEW q \in Seq(Thread),
         \A i, j \in 1..Len(q) : q[i] = q[j] => i = j
  PROVE  Len(q) \in Nat /\ Len(q) < T
<1>1. Len(q) \in Nat /\ q \in [1..Len(q) -> Thread]
  OBVIOUS
<1>2. q \in Injection(1..Len(q), Thread)
  BY Zenon, <1>1, Fun_IsInj
<1>3. Cardinality(1..Len(q)) <= Cardinality(Thread)
  BY Zenon, <1>2, FS_Injection, TicketAssumption
<1>4. Cardinality(1..Len(q)) = Len(q)
  BY <1>1, FS_Interval
<1>5. Cardinality(Thread) \in Nat
  BY Zenon, FS_CardinalityType, TicketAssumption
<1> QED
  BY <1>1, <1>3, <1>4, <1>5, TicketAssumption

\* Tickets are counted modulo T: counting on, and telling apart.
LEMMA PlusFacts ==
  ASSUME NEW x \in Tickets, NEW k \in 0..(T - 1)
  PROVE  /\ Plus(x, k) \in Tickets
         /\ Plus(Plus(x, k), 1) \in Tickets
         /\ k + 1 < T => Plus(Plus(x, k), 1) = Plus(x, k + 1)
         /\ k >= 1 => Plus(Plus(x, 1), k - 1) = Plus(x, k)
         /\ \A j \in 0..(T - 1) : Plus(x, k) = Plus(x, j) => k = j
         /\ Plus(x, 0) = x
  BY TicketAssumption DEF Plus, Tickets

\* The initial state satisfies the inductive invariant.
LEMMA InitTicketInv == Init => TicketInv
<1> SUFFICES ASSUME Init PROVE TicketInv
  BY Zenon
<1>1. Cardinality(Thread) \in Nat /\ 0 \in Tickets
  BY FS_CardinalityType, TicketAssumption DEF Tickets
<1>2. Len(queue) = 0 /\ queue \in Seq(Thread)
  BY DEF Init
<1>3. TypeOK
  BY Zenon, <1>1, <1>2 DEF Init, TypeOK
<1>4. tail = Plus(head, Len(queue))
  BY <1>1, <1>2, TicketAssumption DEF Init, Plus, Tickets
<1> QED
  BY <1>2, <1>3, <1>4 DEF Init, TicketInv, Holding

\* Every step keeps the inductive invariant.
LEMMA NextTicketInv == TicketInv /\ [Next]_vars => TicketInv'
<1> SUFFICES ASSUME TicketInv, [Next]_vars PROVE TicketInv'
  BY Zenon
<1> USE DEF Holding
<1>q. Len(queue) \in Nat /\ Len(queue) < T /\ T \in Nat /\ Len(queue) \in 0..(T - 1) /\ 0 \in 0..(T - 1)
  BY QueueBound, TicketAssumption DEF TicketInv, TypeOK
<1>p. \A k \in 0..(T - 1) :
         /\ Plus(head, k) \in Tickets
         /\ Plus(Plus(head, k), 1) \in Tickets
         /\ k + 1 < T => Plus(Plus(head, k), 1) = Plus(head, k + 1)
         /\ k >= 1 => Plus(Plus(head, 1), k - 1) = Plus(head, k)
         /\ \A j \in 0..(T - 1) : Plus(head, k) = Plus(head, j) => k = j
         /\ Plus(head, 0) = head
  BY Zenon, PlusFacts DEF TicketInv, TypeOK
<1>1. ASSUME NEW t \in Thread, spin_lock_ticket(t) PROVE TicketInv'
  <2> USE <1>1
  <2>1. queue' \in Seq(Thread) /\ Len(queue') = Len(queue) + 1 /\ queue'[Len(queue) + 1] = t
        /\ \A i \in 1..Len(queue) : queue'[i] = queue[i]
    BY DEF spin_lock_ticket, TicketInv, TypeOK
  <2>2. \A i \in 1..Len(queue) : queue[i] # t
    BY Zenon DEF spin_lock_ticket, TicketInv, TypeOK
  <2>3. \A i, j \in 1..Len(queue') : queue'[i] = queue'[j] => i = j
    BY <1>q, <2>1, <2>2 DEF TicketInv
  <2>4. Len(queue') < T
    BY Zenon, <2>1, <2>3, QueueBound
  <2>5. tail' = Plus(head, Len(queue) + 1) /\ tail' \in Tickets
    BY Zenon, <1>q, <2>1, <2>4, <1>p DEF spin_lock_ticket, TicketInv, TypeOK
  <2>6. TypeOK'
    BY Zenon, <2>1, <2>5 DEF spin_lock_ticket, TicketInv, TypeOK
  <2>7. \A u \in Thread : pc'[u] \in Holding <=> \E i \in 1..Len(queue') : queue'[i] = u
    <3>1. pc'[t] \in Holding /\ (Len(queue) + 1) \in 1..Len(queue')
      BY <1>q, <2>1 DEF spin_lock_ticket, TicketInv, TypeOK
    <3>2. \A u \in Thread \ {t} : pc'[u] = pc[u]
      BY Zenon DEF spin_lock_ticket, TicketInv, TypeOK
    <3>3. \A u \in Thread \ {t} : (\E i \in 1..Len(queue') : queue'[i] = u)
                                   <=> (\E i \in 1..Len(queue) : queue[i] = u)
      BY <1>q, <2>1
    <3> QED
      BY <2>1, <3>1, <3>2, <3>3 DEF TicketInv
  <2>8. \A i \in 1..Len(queue') : ticket'[queue'[i]] = Plus(head', i - 1)
    <3>1. \A i \in 1..Len(queue) : ticket'[queue'[i]] = Plus(head', i - 1)
      BY <2>1, <2>2 DEF spin_lock_ticket, TicketInv, TypeOK
    <3>2. ticket'[t] = Plus(head, Len(queue))
      BY Zenon DEF spin_lock_ticket, TicketInv, TypeOK
    <3> QED
      BY <1>q, <2>1, <3>1, <3>2 DEF spin_lock_ticket
  <2>9. \A u \in Thread : (pc'[u] = "cs" \/ (pc'[u] = "spin" /\ seen'[u] = ticket'[u])) => queue'[1] = u
    <3>1. CASE Len(queue) = 0
      BY <1>q, <2>1, <3>1 DEF spin_lock_ticket, TicketInv, TypeOK
    <3>2. CASE Len(queue) # 0
      <4>1. 1 \in 1..Len(queue) /\ queue'[1] = queue[1]
        BY <1>q, <2>1, <3>2
      <4>2. seen'[t] # ticket'[t]
        <5>1. ticket'[t] = Plus(head, Len(queue)) /\ seen'[t] = head
          BY Zenon DEF spin_lock_ticket, TicketInv, TypeOK
        <5>2. head = Plus(head, 0) /\ 0 \in 0..(T - 1) /\ Len(queue) \in 0..(T - 1)
          BY Zenon, <1>q, <1>p DEF TicketInv, TypeOK
        <5> QED
          BY <3>2, <5>1, <5>2, <1>p DEF TicketInv, TypeOK
      <4> QED
        BY Zenon, <4>1, <4>2 DEF spin_lock_ticket, TicketInv, TypeOK
    <3> QED
      BY Zenon, <3>1, <3>2
  <2>10. \A u \in Thread : pc'[u] = "try" => seen'[u] = ticket'[u]
    BY Zenon DEF spin_lock_ticket, TicketInv, TypeOK
  <2> QED
    BY Zenon, <2>1, <2>3, <2>5, <2>6, <2>7, <2>8, <2>9, <2>10 DEF TicketInv, spin_lock_ticket
<1>2. ASSUME NEW t \in Thread, Spin(t) PROVE TicketInv'
  <2> USE <1>2
  <2>1. TypeOK'
    <3>1. head \in Tickets /\ TypeOK
      BY Zenon DEF TicketInv, TypeOK
    <3>2. pc' \in [Thread -> {"idle", "spin", "try", "cs"}]
      BY Zenon, <3>1 DEF Spin, TypeOK
    <3>3. seen' \in [Thread -> Tickets]
      BY Zenon, <3>1 DEF Spin, TypeOK
    <3> QED
      BY Zenon, <3>1, <3>2, <3>3 DEF Spin, TypeOK
  <2>2. \A u \in Thread : pc'[u] \in Holding <=> pc[u] \in Holding
    BY DEF Spin, TicketInv, TypeOK
  <2>3. \A u \in Thread : (pc'[u] = "cs" \/ (pc'[u] = "spin" /\ seen'[u] = ticket'[u])) => queue'[1] = u
    <3>1. \A u \in Thread \ {t} : pc'[u] = pc[u] /\ seen'[u] = seen[u]
      BY DEF Spin, TicketInv, TypeOK
    <3>2. seen[t] # ticket[t] /\ head = ticket[t] => queue[1] = t
      <4>1. PICK i \in 1..Len(queue) : queue[i] = t
        BY Zenon DEF Spin, TicketInv
      <4>2. ticket[t] = Plus(head, i - 1)
        BY Zenon, <4>1 DEF TicketInv
      <4>3. head = Plus(head, 0) /\ 0 \in 0..(T - 1) /\ i - 1 \in 0..(T - 1)
        BY <1>q, <4>1, <1>p DEF TicketInv, TypeOK
      <4>4. head = ticket[t] => i - 1 = 0
        BY <4>2, <4>3, <1>p DEF TicketInv, TypeOK
      <4> QED
        BY <4>1, <4>4
    <3>3. CASE seen[t] = ticket[t]
      BY <3>1, <3>3 DEF Spin, TicketInv, TypeOK
    <3>4. CASE seen[t] # ticket[t]
      BY <3>1, <3>2, <3>4 DEF Spin, TicketInv, TypeOK
    <3> QED
      BY Zenon, <3>3, <3>4
  <2>4. \A u \in Thread : pc'[u] = "try" => seen'[u] = ticket'[u]
    BY DEF Spin, TicketInv, TypeOK
  <2> QED
    BY <2>1, <2>2, <2>3, <2>4 DEF Spin, TicketInv
<1>3. ASSUME NEW t \in Thread, spin_trylock_ticket(t) PROVE TicketInv'
  <2> USE <1>3
  <2>1. TypeOK'
    BY Zenon DEF spin_trylock_ticket, TicketInv, TypeOK
  <2>2. \A u \in Thread : pc'[u] \in Holding <=> pc[u] \in Holding
    BY Zenon DEF spin_trylock_ticket, TicketInv, TypeOK
  <2>3. \A i \in 1..Len(queue) : queue[i] # t
    BY Zenon DEF spin_trylock_ticket, TicketInv, TypeOK
  <2>4. \A i \in 1..Len(queue) : ticket'[queue[i]] = ticket[queue[i]]
    BY <2>3 DEF spin_trylock_ticket, TicketInv, TypeOK
  <2>5. \A u \in Thread : (pc'[u] = "cs" \/ (pc'[u] = "spin" /\ seen'[u] = ticket'[u])) => queue'[1] = u
    BY Zenon DEF spin_trylock_ticket, TicketInv, TypeOK
  <2>6. \A u \in Thread : pc'[u] = "try" => seen'[u] = ticket'[u]
    BY Zenon DEF spin_trylock_ticket, TicketInv, TypeOK
  <2> QED
    BY <2>1, <2>2, <2>4, <2>5, <2>6 DEF spin_trylock_ticket, TicketInv
<1>4. ASSUME NEW t \in Thread, TrySwap(t) PROVE TicketInv'
  <2> USE <1>4
  <2>1. CASE head = seen[t] /\ tail = ticket[t]
    <3> USE <2>1
    <3>1. Len(queue) = 0
      <4>1. head = tail
        BY Zenon DEF TrySwap, TicketInv
      <4>2. head = Plus(head, 0) /\ 0 \in 0..(T - 1) /\ Len(queue) \in 0..(T - 1)
        BY Zenon, <1>q, <1>p DEF TicketInv, TypeOK
      <4> QED
        BY <4>1, <4>2, <1>p DEF TicketInv, TypeOK
    <3>2. queue' \in Seq(Thread) /\ Len(queue') = 1 /\ queue'[1] = t
      <4>1. queue' = Append(queue, t) /\ queue \in Seq(Thread)
        BY Zenon DEF TrySwap, TicketInv, TypeOK
      <4> QED
        BY <3>1, <4>1
    <3>3. 1 < T /\ 0 \in 0..(T - 1)
      <4>1. \A i, j \in 1..Len(queue') : queue'[i] = queue'[j] => i = j
        BY <3>2
      <4>2. Len(queue') < T
        BY Zenon, <3>2, <4>1, QueueBound
      <4> QED
        BY <3>2, <4>2, TicketAssumption
    <3>4. tail' = Plus(head, 1) /\ tail' \in Tickets /\ head' = head /\ Plus(head, 0) = head
      BY <3>1, <3>3, <1>p DEF TrySwap, TicketInv, TypeOK
    <3>5. TypeOK'
      BY <3>2, <3>4 DEF TrySwap, TicketInv, TypeOK
    <3>6. \A u \in Thread : pc[u] \notin Holding
      BY <3>1 DEF TicketInv
    <3>7. \A u \in Thread : pc'[u] \in Holding <=> u = t
      BY <3>6 DEF TrySwap, TicketInv, TypeOK
    <3>8. ticket'[t] = head
      BY Zenon, <3>1, <3>4 DEF TrySwap, TicketInv, TypeOK
    <3>9. \A u \in Thread : pc'[u] = "try" => seen'[u] = ticket'[u]
      BY DEF TrySwap, TicketInv, TypeOK
    <3> QED
      BY <3>2, <3>4, <3>5, <3>7, <3>8, <3>9 DEF TicketInv
  <2>2. CASE ~(head = seen[t] /\ tail = ticket[t])
    <3>1. \A u \in Thread : pc'[u] \in Holding <=> pc[u] \in Holding
      BY <2>2 DEF TrySwap, TicketInv, TypeOK
    <3> QED
      BY <2>2, <3>1 DEF TrySwap, TicketInv, TypeOK
  <2> QED
    BY Zenon, <2>1, <2>2
<1>5. ASSUME NEW t \in Thread, spin_unlock_ticket(t) PROVE TicketInv'
  <2> USE <1>5
  <2>1. queue[1] = t /\ Len(queue) >= 1 /\ queue # <<>>
    BY <1>q DEF spin_unlock_ticket, TicketInv
  <2>2. queue' \in Seq(Thread) /\ Len(queue') = Len(queue) - 1
        /\ \A i \in 1..Len(queue') : queue'[i] = queue[i + 1]
    BY <1>q, <2>1 DEF spin_unlock_ticket, TicketInv, TypeOK
  <2>3. \A i, j \in 1..Len(queue') : queue'[i] = queue'[j] => i = j
    <3> SUFFICES ASSUME NEW i \in 1..Len(queue'), NEW j \in 1..Len(queue'), queue'[i] = queue'[j]
                 PROVE  i = j
      BY Zenon
    <3>1. i + 1 \in 1..Len(queue) /\ j + 1 \in 1..Len(queue)
      BY <1>q, <2>2
    <3>2. queue[i + 1] = queue[j + 1]
      BY Zenon, <2>2
    <3>3. i + 1 = j + 1
      BY Zenon, <3>1, <3>2 DEF TicketInv
    <3> QED
      BY <3>3
  <2>4. head' \in Tickets
    <3>1. 0 \in 0..(T - 1)
      BY Zenon, <1>q, <2>1
    <3> QED
      BY Zenon, <3>1, <1>p DEF spin_unlock_ticket, TicketInv, TypeOK
  <2>5. tail' = Plus(head', Len(queue'))
    BY Zenon, <1>q, <2>1, <2>2, <1>p DEF spin_unlock_ticket, TicketInv, TypeOK
  <2>6. TypeOK'
    BY Zenon, <2>2, <2>4 DEF spin_unlock_ticket, TicketInv, TypeOK
  <2>7. \A i \in 1..Len(queue') : ticket'[queue'[i]] = Plus(head', i - 1)
    <3> TAKE i \in 1..Len(queue')
    <3>1. ticket'[queue'[i]] = Plus(head, i)
      BY <1>q, <2>2 DEF spin_unlock_ticket, TicketInv
    <3>2. i \in 0..(T - 1) /\ i >= 1
      BY <1>q, <2>2
    <3> QED
      BY Zenon, <3>1, <3>2, <1>p DEF spin_unlock_ticket, TicketInv, TypeOK
  <2>8. \A u \in Thread : pc'[u] \in Holding <=> \E i \in 1..Len(queue') : queue'[i] = u
    <3>1. \A i \in 1..Len(queue') : queue'[i] # t
      <4> TAKE i \in 1..Len(queue')
      <4>1. 1 \in 1..Len(queue) /\ i + 1 \in 1..Len(queue) /\ i + 1 # 1
        BY <1>q, <2>1, <2>2
      <4> QED
        BY Zenon, <2>1, <2>2, <4>1 DEF TicketInv
    <3>2. \A u \in Thread \ {t} : pc'[u] = pc[u]
      BY Zenon DEF spin_unlock_ticket, TicketInv, TypeOK
    <3>3. ASSUME NEW u \in Thread \ {t}
          PROVE  (\E i \in 1..Len(queue') : queue'[i] = u)
                 <=> (\E i \in 1..Len(queue) : queue[i] = u)
      <4>1. ASSUME NEW i \in 1..Len(queue), queue[i] = u
            PROVE  \E j \in 1..Len(queue') : queue'[j] = u
        <5>1. i # 1
          BY Zenon, <2>1, <4>1
        <5>2. i - 1 \in 1..Len(queue') /\ queue'[i - 1] = queue[i]
          BY <1>q, <2>2, <4>1, <5>1
        <5> QED
          BY Zenon, <4>1, <5>2
      <4>2. ASSUME NEW i \in 1..Len(queue'), queue'[i] = u
            PROVE  \E j \in 1..Len(queue) : queue[j] = u
        BY <1>q, <2>2, <4>2
      <4> QED
        BY Zenon, <4>1, <4>2
    <3>4. pc'[t] \notin Holding
      BY Zenon DEF spin_unlock_ticket, TicketInv, TypeOK
    <3> QED
      BY Zenon, <3>1, <3>2, <3>3, <3>4 DEF TicketInv
  <2>9. \A u \in Thread : (pc'[u] = "cs" \/ (pc'[u] = "spin" /\ seen'[u] = ticket'[u])) => queue'[1] = u
    BY Zenon, <2>1 DEF spin_unlock_ticket, TicketInv, TypeOK
  <2>10. \A u \in Thread : pc'[u] = "try" => seen'[u] = ticket'[u]
    BY Zenon DEF spin_unlock_ticket, TicketInv, TypeOK
  <2> QED
    BY Zenon, <2>3, <2>5, <2>6, <2>7, <2>8, <2>9, <2>10 DEF TicketInv
<1>6. ASSUME UNCHANGED vars PROVE TicketInv'
  BY Zenon, <1>6 DEF TicketInv, TypeOK, vars
<1> QED
  BY Zenon, <1>1, <1>2, <1>3, <1>4, <1>5, <1>6 DEF Next, Proceed

\* The inductive invariant holds in every reachable state.
THEOREM TicketInvHolds == Spec => []TicketInv
  BY InitTicketInv, NextTicketInv, PTL DEF Spec

\* One thread at a time has the ticket lock: spin_lock_ticket and
\* spin_trylock_ticket never let two threads in, for any number of threads
\* below the number of tickets.
THEOREM TicketExclusion == Spec => []OneInside
<1>1. TicketInv => OneInside
  BY Zenon DEF TicketInv, OneInside
<1> QED
  BY <1>1, TicketInvHolds, PTL

\* Every step of the ticket lock is a step of the first-come-first-served
\* lock, or leaves it as it is.
LEMMA StepImplements == TicketInv /\ TicketInv' /\ [Next]_vars => [Fifo!Next]_(Fifo!vars)
<1> DEFINE in == {u \in Thread : pc[u] = "cs"}
<1> SUFFICES ASSUME TicketInv, TicketInv', [Next]_vars
             PROVE  Fifo!Next \/ UNCHANGED <<queue, in>>
  BY Zenon DEF Fifo!vars
<1> USE DEF Holding
<1>1. ASSUME NEW t \in Thread, spin_lock_ticket(t) PROVE Fifo!Ask(t)
  <2>1. ~Fifo!InQueue(t)
    BY Zenon, <1>1 DEF spin_lock_ticket, TicketInv, TypeOK, Fifo!InQueue
  <2>2. in' = in
    BY Zenon, <1>1 DEF spin_lock_ticket, TicketInv, TypeOK
  <2> QED
    BY Zenon, <1>1, <2>1, <2>2 DEF spin_lock_ticket, Fifo!Ask
<1>2. ASSUME NEW t \in Thread, Spin(t) PROVE Fifo!Enter(t) \/ UNCHANGED <<queue, in>>
  <2>1. CASE seen[t] = ticket[t]
    <3>1. queue[1] = t /\ queue' = queue
      BY Zenon, <1>2, <2>1 DEF Spin, TicketInv
    <3>2. queue # <<>>
      BY <1>2 DEF Spin, TicketInv, TypeOK
    <3>3. in = {}
      BY Zenon, <1>2, <2>1, <3>1 DEF Spin, TicketInv
    <3>4. in' = {t}
      BY <1>2, <2>1, <3>3 DEF Spin, TicketInv, TypeOK
    <3> QED
      BY Zenon, <3>1, <3>2, <3>3, <3>4 DEF Fifo!Enter
  <2>2. CASE seen[t] # ticket[t]
    BY Zenon, <1>2, <2>2 DEF Spin
  <2> QED
    BY Zenon, <2>1, <2>2
<1>3. ASSUME NEW t \in Thread, spin_trylock_ticket(t) PROVE UNCHANGED <<queue, in>>
  BY <1>3 DEF spin_trylock_ticket, TicketInv, TypeOK
<1>4. ASSUME NEW t \in Thread, TrySwap(t) PROVE Fifo!TryEnter(t) \/ UNCHANGED <<queue, in>>
  <2>1. CASE head = seen[t] /\ tail = ticket[t]
    <3>1. pc'[t] = "cs" /\ queue' = Append(queue, t) /\ queue \in Seq(Thread)
      BY <1>4, <2>1 DEF TrySwap, TicketInv, TypeOK
    <3>2. \A u \in Thread : pc'[u] = "cs" => queue'[1] = u
      BY Zenon DEF TicketInv
    <3>3. \A u \in Thread : pc'[u] = "cs" => u = t
      BY Zenon, <3>1, <3>2
    <3>4. in' = {t}
      BY Zenon, <3>1, <3>3
    <3>5. queue = <<>>
      <4>1. queue'[1] = t /\ t \notin {queue[i] : i \in 1..Len(queue)}
        BY <1>4, <3>1, <3>2 DEF TrySwap, TicketInv, TypeOK
      <4>2. ASSUME Len(queue) # 0 PROVE FALSE
        <5>1. 1 \in 1..Len(queue) /\ queue'[1] = queue[1]
          BY <3>1, <4>2
        <5> QED
          BY Zenon, <4>1, <5>1
      <4> QED
        BY <3>1, <4>2
    <3>6. queue' = <<t>>
      BY <3>1, <3>5
    <3> QED
      BY Zenon, <3>4, <3>5, <3>6 DEF Fifo!TryEnter
  <2>2. CASE ~(head = seen[t] /\ tail = ticket[t])
    BY <1>4, <2>2 DEF TrySwap, TicketInv, TypeOK
  <2> QED
    BY Zenon, <2>1, <2>2
<1>5. ASSUME NEW t \in Thread, spin_unlock_ticket(t) PROVE Fifo!Release(t)
  <2>1. in = {t}
    BY <1>5 DEF spin_unlock_ticket, TicketInv
  <2>2. in' = {}
    BY Zenon, <1>5, <2>1 DEF spin_unlock_ticket, TicketInv, TypeOK
  <2> QED
    BY Zenon, <1>5, <2>1, <2>2 DEF spin_unlock_ticket, Fifo!Release
<1>6. ASSUME UNCHANGED vars PROVE UNCHANGED <<queue, in>>
  BY Zenon, <1>6 DEF vars
<1> QED
  BY Zenon, <1>1, <1>2, <1>3, <1>4, <1>5, <1>6 DEF Next, Proceed, Fifo!Next

\* The ticket lock implements the first-come-first-served lock: threads get
\* in in the order of their fetchadd, and a try never overtakes anybody.
THEOREM TicketImplementsFifo == Spec => ServesInOrder
<1>1. Init => Fifo!Init
  BY Zenon DEF Init, Fifo!Init
<1> QED
  BY <1>1, TicketInvHolds, StepImplements, PTL DEF Spec, ServesInOrder, Fifo!Spec
=============================================================================
