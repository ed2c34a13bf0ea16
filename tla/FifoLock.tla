------------------------------ MODULE FifoLock ------------------------------
(***************************************************************************)
(* What a fair lock promises: who asks is put at the end of a queue, the   *)
(* first of the queue gets in when nobody is inside, and who leaves is     *)
(* taken off the queue.  A thread may also try, and gets in only if nobody *)
(* has asked before it.                                                    *)
(***************************************************************************)
EXTENDS Integers, Sequences

CONSTANT Thread

VARIABLES queue, inside

vars == <<queue, inside>>

InQueue(t) == \E i \in 1..Len(queue) : queue[i] = t

Init == queue = <<>> /\ inside = {}

Ask(t) ==
  /\ ~InQueue(t)
  /\ queue' = Append(queue, t)
  /\ UNCHANGED inside

Enter(t) ==
  /\ queue # <<>> /\ queue[1] = t
  /\ inside = {}
  /\ inside' = {t}
  /\ UNCHANGED queue

TryEnter(t) ==
  /\ queue = <<>>
  /\ queue' = <<t>>
  /\ inside' = {t}

Release(t) ==
  /\ inside = {t}
  /\ queue' = Tail(queue)
  /\ inside' = {}

Next == \E t \in Thread : Ask(t) \/ Enter(t) \/ TryEnter(t) \/ Release(t)

Spec == Init /\ [][Next]_vars
=============================================================================
