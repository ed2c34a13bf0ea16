------------------------------- MODULE AtomicRun -------------------------------
(******************************************************************************)
(* What nvm_activate and nvm_free promise: a call asks for one object to be    *)
(* allocated or released and for some cells to name it or to be NULL, and all  *)
(* of that happens in a single step, once, or a crash forgets the request and  *)
(* none of it happens.  Nothing happens that was not asked for.                *)
(******************************************************************************)
EXTENDS Integers, FiniteSets, TLAPS

CONSTANTS NSlots, Cell

VARIABLES
  used,   \* the allocated slots
  cell,   \* what each link cell names, -1 for NULL
  asked   \* the calls that were made and have not taken effect

absvars == <<used, cell, asked>>

Objects == 0 .. NSlots - 1

Request == [kind : {"activate", "free"}, slot : Objects, cells : SUBSET Cell]

Init ==
  /\ used = {}
  /\ cell = [c \in Cell |-> -1]
  /\ asked = {}

\* The application activates what was handed out to it with cells that are NULL, and
\* frees what is allocated with the cells that name it; no two calls share an
\* object.  That a slot is handed out once is not promised here: after a restart
\* the bin may hand out one that is allocated.
Legal(r) ==
  /\ \A q \in asked : q.slot # r.slot
  /\ IF r.kind = "activate"
     THEN \A c \in r.cells : cell[c] = -1
     ELSE r.slot \in used /\ r.cells = {c \in Cell : cell[c] = r.slot}

Ask(r) ==
  /\ Legal(r)
  /\ asked' = asked \cup {r}
  /\ UNCHANGED <<used, cell>>

Do(r) ==
  /\ r \in asked
  /\ asked' = asked \ {r}
  /\ used' = IF r.kind = "activate" THEN used \cup {r.slot} ELSE used \ {r.slot}
  /\ cell' = [c \in Cell |-> IF c \notin r.cells THEN cell[c]
                             ELSE IF r.kind = "activate" THEN r.slot ELSE -1]

Forget ==
  /\ asked' = {}
  /\ UNCHANGED <<used, cell>>

Next == (\E r \in Request : Ask(r) \/ Do(r)) \/ Forget

Spec == Init /\ [][Next]_absvars

\* No cell names a slot that is not allocated.
NoDangling == \A c \in Cell : cell[c] # -1 => cell[c] \in used

--------------------------------------------------------------------------------
(* What the application gets from calls that are failure-atomic. *)

\* A request to free an object still knows every cell that names it, and no two
\* requests are about one object.
RequestsOK ==
  /\ \A r, q \in asked : r.slot = q.slot => r = q
  /\ \A r \in asked : r.kind = "free" => \A c \in Cell : cell[c] = r.slot => c \in r.cells

IInv ==
  /\ cell \in [Cell -> Objects \cup {-1}]
  /\ asked \subseteq Request
  /\ RequestsOK
  /\ NoDangling

\* A request, the step that fulfils it and a crash preserve the invariant.
LEMMA NextIInv == IInv /\ [Next]_absvars => IInv'
<1> SUFFICES ASSUME IInv, [Next]_absvars
             PROVE  IInv'
  OBVIOUS
<1>1. ASSUME NEW r \in Request, Ask(r)
      PROVE  IInv'
  <2>1. /\ asked' = asked \cup {r}
        /\ used' = used
        /\ cell' = cell
        /\ \A q \in asked : q.slot # r.slot
    BY <1>1 DEF Ask, Legal
  <2>2. r.kind = "free" => r.cells = {c \in Cell : cell[c] = r.slot}
    BY <1>1 DEF Ask, Legal
  <2>3. RequestsOK'
    BY <2>1, <2>2 DEF IInv, RequestsOK
  <2> QED
    BY <2>1, <2>3 DEF IInv, NoDangling
<1>2. ASSUME NEW r \in Request, Do(r), r.kind = "activate"
      PROVE  IInv'
  <2>1. /\ r \in asked
        /\ asked' = asked \ {r}
        /\ used' = used \cup {r.slot}
        /\ cell' = [c \in Cell |-> IF c \notin r.cells THEN cell[c] ELSE r.slot]
    BY <1>2 DEF Do
  <2>2. r.slot \in Objects
    BY DEF Request
  <2>3. cell' \in [Cell -> Objects \cup {-1}] /\ asked' \subseteq Request
    BY <2>1, <2>2 DEF IInv
  <2>4. RequestsOK'
    BY <2>1 DEF IInv, RequestsOK
  <2>5. NoDangling'
    BY <2>1 DEF IInv, NoDangling
  <2> QED
    BY <2>3, <2>4, <2>5 DEF IInv
<1>3. ASSUME NEW r \in Request, Do(r), r.kind # "activate"
      PROVE  IInv'
  <2>1. /\ r \in asked
        /\ asked' = asked \ {r}
        /\ used' = used \ {r.slot}
        /\ cell' = [c \in Cell |-> IF c \notin r.cells THEN cell[c] ELSE -1]
    BY <1>3 DEF Do
  <2>2. r.kind = "free" /\ \A c \in Cell : cell[c] = r.slot => c \in r.cells
    BY <1>3, <2>1 DEF IInv, RequestsOK, Request
  <2>3. cell' \in [Cell -> Objects \cup {-1}] /\ asked' \subseteq Request
    BY <2>1 DEF IInv
  <2>4. RequestsOK'
    <3>1. ASSUME NEW q \in asked', q.kind = "free", NEW c \in Cell, cell'[c] = q.slot
          PROVE  c \in q.cells
      <4>1. q \in asked /\ q.slot \in Objects
        BY <2>1 DEF IInv, Request
      <4>2. cell'[c] # -1
        BY <3>1, <4>1 DEF Objects
      <4>3. cell[c] = q.slot
        BY <2>1, <3>1, <4>2
      <4> QED
        BY <3>1, <4>1, <4>3 DEF IInv, RequestsOK
    <3> QED
      BY <2>1, <3>1 DEF IInv, RequestsOK
  <2>5. NoDangling'
    BY <2>1, <2>2 DEF IInv, NoDangling
  <2> QED
    BY <2>3, <2>4, <2>5 DEF IInv
<1>4. CASE Forget
  BY <1>4 DEF Forget, IInv, RequestsOK, NoDangling
<1>5. CASE UNCHANGED absvars
  BY <1>5 DEF IInv, RequestsOK, NoDangling, absvars
<1> QED
  BY <1>1, <1>2, <1>3, <1>4, <1>5 DEF Next

\* However activations, frees and crashes follow one another, a link cell never
\* names a slot that is not allocated, for any number of slots and cells.
THEOREM CellsNameAllocatedObjects == Spec => []NoDangling
<1>1. Init => IInv
  BY DEF Init, IInv, RequestsOK, NoDangling
<1>2. IInv => NoDangling
  BY DEF IInv
<1> QED
  BY <1>1, <1>2, NextIInv, PTL DEF Spec

================================================================================
