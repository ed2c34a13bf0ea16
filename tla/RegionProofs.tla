------------------------------ MODULE RegionProofs ------------------------------
(******************************************************************************)
(* The life of a large block or huge region, for every number of threads, link *)
(* cells and crashes: whoever has the region has it alone, no call is left     *)
(* half done, and the calls on a huge region implement the atomic ones.        *)
(******************************************************************************)
EXTENDS RegionProtocol, TLAPS

\* No crash interrupts a call that the log does not name.
Logged == NoCell \notin Cell /\ MaxCrash \in Nat /\ CrashAnywhere = FALSE

\* A huge region, with any number of threads ...
HugeRegion == Logged /\ Kind = "huge"

\* ... or a block, with one: the recovery may put a block into the tree twice,
\* so that two threads get it.
OneCaller == Logged /\ (Kind = "huge" \/ (Kind = "block" /\ \A t, u \in Thread : t = u))

AllNull == \A c \in Cell : link[c] = "null"
Midway == hdr.state \in {"ACTIVATING", "FREEING"}

\* What on[k] holds when the call of thread t has stored it.
OnFor(t, k) == [ptr |-> op[t].links[k], value |-> Target(op[t])]

\* Where a call is, and what it was called with.
CallOK(t) ==
  /\ pc[t] = "idle" <=> op[t].kind = "none"
  /\ pc[t] \in {"idle", "reserved"} => op[t].links = NoLinks
  /\ pc[t] \in {"reserved", "log", "spin"} => op[t].kind = "activate"
  /\ pc[t] = "add" => op[t].kind = "free"
  /\ pc[t] \in {"on1", "on2", "commit", "link1", "link2"} => op[t].links[1] # NoCell
  /\ pc[t] \in {"on2", "link2"} => op[t].links[2] # NoCell

\* At most one thread has a call.
OneCall == \A t, u \in Thread : pc[t] # "idle" /\ pc[u] # "idle" => t = u

\* A thread is storing to the header or to the links.
Working(t) == pc[t] \notin {"idle", "reserved", "log", "spin", "add"}

\* A header that no call is at work on.
Settled ==
  /\ ~Midway
  /\ hdr.state = "NONE" <=> hdr.usage = "DEFAULT"
  /\ ~Allocated => AllNull

\* A call that has not yet taken effect, and one that has.
Before(t) == pc[t] \in {"on1", "on2", "commit"} \/ (pc[t] = "settle" /\ op[t].links = NoLinks)
After(t) == pc[t] \in {"link1", "link2"} \/ (pc[t] = "settle" /\ op[t].links # NoLinks)

\* The header and the links as far as a thread has got with its call.
CallAt(t) ==
  /\ Before(t) =>
       /\ hdr.state \in {"INITIALIZED", "INITIALIZING"}
       /\ op[t].kind = "activate" => ~Allocated /\ hdr.usage # "DEFAULT" /\ AllNull
       /\ op[t].kind = "free" => /\ Allocated
                                 /\ Cells(op[t].links) = {c \in Cell : link[c] # "null"}
  /\ After(t) =>
       /\ hdr.usage = Used
       /\ hdr.state = IF op[t].kind = "activate" THEN "ACTIVATING" ELSE "FREEING"
       /\ op[t].kind = "free" => \A c \in Cell \ Cells(op[t].links) : link[c] = "null"
  /\ pc[t] = "on1" /\ op[t].kind = "free" /\ logged => hdr.on[2].ptr = NoCell
  /\ pc[t] = "on2" => hdr.on[1] = OnFor(t, 1)
  /\ pc[t] = "commit" \/ After(t) =>
       /\ op[t].links[1] # NoCell
       /\ hdr.on[1] = OnFor(t, 1)
       /\ op[t].links[2] # NoCell => hdr.on[2] = OnFor(t, 2)
       /\ op[t].kind = "free" /\ op[t].links[2] = NoCell /\ logged => hdr.on[2].ptr = NoCell
  /\ pc[t] = "link2" => link[op[t].links[1]] = Target(op[t])
  /\ pc[t] = "settle" => \A c \in Cells(op[t].links) : link[c] = Target(op[t])
  /\ pc[t] = "clear" => /\ hdr.state = "INITIALIZED"
                        /\ hdr.usage = IF op[t].kind = "activate" THEN Used ELSE "FREE"
                        /\ op[t].kind = "free" => AllNull
  /\ pc[t] = "add" => hdr.usage = "FREE" /\ hdr.state = "INITIALIZED" /\ hdr.on = ClearOn

\* A call may have left on[] behind when it was interrupted before it committed;
\* an activation since the last restart has cleared it.
UpOK ==
  phase = "up" => /\ \A t \in Thread : CallAt(t)
                  /\ (\A t \in Thread : ~Working(t)) => Settled
                  /\ (\A t \in Thread : pc[t] = "idle") /\ Allocated /\ logged => hdr.on = ClearOn

\* A header that the recovery can complete.
Recoverable ==
  Midway =>
    /\ hdr.usage = Used
    /\ hdr.on[2].ptr # NoCell => hdr.on[1].ptr # NoCell
    /\ hdr.state = "FREEING" =>
         /\ \A k \in 1 .. 2 : hdr.on[k].ptr # NoCell => hdr.on[k].value = "null"
         /\ \A c \in Cell : link[c] # "null" => \E k \in 1 .. 2 : hdr.on[k].ptr = c

RecoverOK ==
  phase = "recover" =>
    /\ \A t \in Thread : pc[t] = "idle"
    /\ Recoverable
    /\ ~Midway => Settled
    /\ rec = "scan" => logged \/ Settled
    /\ rec \in {"link1", "link2", "clear", "settle"} => logged /\ Midway
    /\ rec \in {"link1", "link2"} => hdr.on[1].ptr # NoCell
    /\ rec = "link2" => hdr.on[2].ptr # NoCell /\ link[hdr.on[1].ptr] = Replayed(hdr.on[1].value)
    /\ rec \in {"clear", "settle"} /\ hdr.state = "FREEING" => AllNull
    /\ rec = "settle" => hdr.on = ClearOn
    /\ rec \in {"forget", "done"} => Settled
    /\ rec = "done" => ~logged

\* A huge region is given to one call at a time, with a clear on[].
HugeAt(t) ==
  /\ pc[t] # "spin"
  /\ pc[t] # "idle" => tree = 0
  /\ pc[t] \in {"reserved", "log"} => ~Allocated /\ hdr.usage # "DEFAULT" /\ hdr.on = ClearOn
  /\ op[t].kind = "activate" =>
       /\ pc[t] = "on1" => hdr.on = ClearOn
       /\ pc[t] = "on2" => hdr.on[2] = NoPtrSet
       /\ (pc[t] = "commit" \/ After(t)) /\ op[t].links[2] = NoCell => hdr.on[2].ptr = NoCell
       /\ After(t) => \A c \in Cell \ Cells(op[t].links) : link[c] = "null"

\* The tree has a huge region at most once, when it is free.
InTree == tree \in {0, 1} /\ (tree = 1 => /\ hdr.usage = "FREE" /\ hdr.state = "INITIALIZED"
                                         /\ hdr.on = ClearOn)

HugeOK ==
  /\ scan = "off"
  /\ InTree
  /\ phase = "up" => \A t \in Thread : HugeAt(t)
  /\ phase = "recover" =>
       /\ tree = 1 => rec \in {"forget", "done"}
       /\ hdr.state = "ACTIVATING" =>
            /\ \A k \in 1 .. 2 : hdr.on[k].ptr # NoCell => hdr.on[k].value = "rel"
            /\ rec = "clear" => \A k \in 1 .. 2 : hdr.on[k].ptr # NoCell => link[hdr.on[k].ptr] # "null"

\* The inductive invariant.
RInv ==
  /\ TypeOK
  /\ OneCall
  /\ \A t \in Thread : CallOK(t)
  /\ UpOK
  /\ RecoverOK
  /\ Kind = "huge" => HugeOK

--------------------------------------------------------------------------------
(* Every step preserves the invariant. *)

\* A header keeps its type when a field of it is stored.
LEMMA HeaderFields ==
  ASSUME NEW h \in Header
  PROVE  /\ \A u \in {"DEFAULT", "FREE", Used},
               s \in {"NONE", "INITIALIZING", "INITIALIZED", "ACTIVATING", "FREEING"} :
              [h EXCEPT !.usage = u, !.state = s] \in Header
         /\ \A on \in [1 .. 2 -> [ptr : Cell \cup {NoCell}, value : {"null", "rel"}]] :
              [h EXCEPT !.on = on] \in Header
         /\ \A k \in 1 .. 2, p \in [ptr : Cell \cup {NoCell}, value : {"null", "rel"}] :
              [h EXCEPT !.on[k] = p] \in Header
         /\ [h EXCEPT !.on = ClearOn] \in Header
  <1>1. ClearOn \in [1 .. 2 -> [ptr : Cell \cup {NoCell}, value : {"null", "rel"}]]
    BY Zenon DEF ClearOn, NoPtrSet
  <1> QED
    BY Zenon, <1>1 DEF Header

\* Every step keeps the types.
LEMMA NextTypeOK ==
  ASSUME OneCaller, RInv, [Next]_vars
  PROVE  TypeOK'
  <1>a. /\ hdr \in Header /\ hdr.on \in [1 .. 2 -> [ptr : Cell \cup {NoCell}, value : {"null", "rel"}]]
        /\ hdr.usage \in {"DEFAULT", "FREE", Used}
        /\ tree \in Nat /\ op \in [Thread -> [kind : {"none", "activate", "free"}, links : LinkArgs]]
        /\ \A t \in Thread : op[t].links \in LinkArgs /\ op[t].kind \in {"none", "activate", "free"} /\ CallOK(t)
        /\ crashes \in 0 .. MaxCrash /\ MaxCrash \in Nat
    BY Zenon DEF RInv, TypeOK, Header, OneCaller, Logged
  <1>b. NoLinks \in LinkArgs /\ Used \in {"BLOCK", "HUGE"}
    BY DEF NoLinks, LinkArgs, Used
  <1>c. NoOp \in [kind : {"none", "activate", "free"}, links : LinkArgs]
    BY Zenon, <1>b DEF NoOp
  <1> USE <1>a DEF RInv
  <1>1. ASSUME NEW t \in Thread, Reserve(t) \/ ReserveNew(t)
        PROVE  TypeOK'
    <2>1. op' \in [Thread -> [kind : {"none", "activate", "free"}, links : LinkArgs]]
      BY Zenon, <1>1 DEF Reserve, ReserveNew
    <2>2. hdr' \in Header
      <3>1. CASE Reserve(t)
        BY Zenon, <3>1 DEF Reserve
      <3>2. CASE ReserveNew(t)
        <4>1. hdr' = [usage |-> Used, state |-> "INITIALIZING", on |-> ClearOn]
          BY Zenon, <3>2 DEF ReserveNew
        <4> QED
          BY Zenon, <4>1 DEF Header, ClearOn, NoPtrSet
      <3> QED
        BY Zenon, <1>1, <3>1, <3>2
    <2> QED
      BY SMTT(30), <1>1, <2>1, <2>2 DEF Reserve, ReserveNew, MayCall, At, Goto, TypeOK, counters
  <1>2. ASSUME NEW t \in Thread, CallActivate(t) \/ CallFree(t)
        PROVE  TypeOK'
    <2>1. op' \in [Thread -> [kind : {"none", "activate", "free"}, links : LinkArgs]]
      BY <1>2 DEF CallActivate, CallFree
    <2> QED
      BY SMTT(30), <1>2, <2>1 DEF CallActivate, CallFree, MayCall, At, Goto, TypeOK, counters
  <1>3. ASSUME NEW t \in Thread, Log(t) \/ Add(t)
        PROVE  TypeOK'
    <2>1. op' \in [Thread -> [kind : {"none", "activate", "free"}, links : LinkArgs]]
      BY Zenon, <1>3, <1>c DEF Log, Add
    <2>2. tree' \in Nat
      BY <1>3 DEF Log, Add
    <2>3. logged' \in BOOLEAN
      BY Zenon, <1>3 DEF Log, Add, TypeOK
    <2> QED
      BY Zenon, <1>3, <2>1, <2>2, <2>3 DEF Log, Add, At, Goto, TypeOK, counters
  <1>4. ASSUME NEW t \in Thread, StoreOn1(t) \/ StoreOn2(t) \/ Commit(t) \/ Settle(t) \/ Clear(t)
        PROVE  TypeOK'
    <2>1. \A k \in 1 .. 2 : [ptr |-> op[t].links[k], value |-> Target(op[t])]
                              \in [ptr : Cell \cup {NoCell}, value : {"null", "rel"}]
      BY Zenon DEF LinkArgs, Target
    <2>2. hdr' \in Header
      <3>1. CASE StoreOn1(t)
        BY ZenonT(30), <3>1, <2>1, HeaderFields DEF StoreOn1, StoreOn
      <3>2. CASE StoreOn2(t)
        <4>1. hdr' = [hdr EXCEPT !.on[2] = [ptr |-> op[t].links[2], value |-> Target(op[t])]]
          BY Zenon, <3>2 DEF StoreOn2, StoreOn
        <4> QED
          BY Zenon, <4>1, <2>1, HeaderFields
      <3>3. CASE Commit(t) \/ Settle(t)
        BY Zenon, <3>3, HeaderFields DEF Commit, Settle
      <3>4. CASE Clear(t)
        BY Zenon, <3>4, HeaderFields DEF Clear
      <3> QED
        BY Zenon, <1>4, <3>1, <3>2, <3>3, <3>4
    <2>3. op' \in [Thread -> [kind : {"none", "activate", "free"}, links : LinkArgs]]
      BY Zenon, <1>4, <1>c DEF StoreOn1, StoreOn2, Commit, Settle, Clear
    <2> QED
      BY SMTT(30), <1>4, <2>2, <2>3 DEF StoreOn1, StoreOn2, Commit, Settle, Clear, At, Goto, TypeOK, counters
  <1>5. ASSUME NEW t \in Thread, Link1(t) \/ Link2(t)
        PROVE  TypeOK'
    <2>1. link' \in [Cell -> {"null", "rel", "abs"}]
      BY Zenon, <1>5 DEF Link1, Link2, At, TypeOK, Target
    <2> QED
      BY Zenon, <1>5, <2>1 DEF Link1, Link2, At, Goto, TypeOK, counters
  <1>6. CASE Crash
    <2>1. asked' \in SUBSET Cell /\ crashes' \in 0 .. MaxCrash
      BY <1>6 DEF Crash, TypeOK, Cells, LinkArgs
    <2> QED
      BY Zenon, <1>6, <1>c, <2>1 DEF Crash, TypeOK
  <1>7. CASE RecScan \/ RecAssertFails \/ RecForget \/ RecDone \/ ScanRead \/ ScanAdd
    <2>1. tree' \in Nat
      BY <1>7 DEF RecScan, RecAssertFails, RecForget, RecDone, ScanRead, ScanAdd
    <2>2. logged' \in BOOLEAN
      BY Zenon, <1>7 DEF RecScan, RecAssertFails, RecForget, RecDone, ScanRead, ScanAdd, TypeOK
    <2> QED
      BY Zenon, <1>7, <2>1, <2>2 DEF RecScan, RecAssertFails, RecForget, RecDone, ScanRead, ScanAdd, TypeOK, counters
  <1>8. CASE RecLink1 \/ RecLink2
    BY Zenon, <1>8 DEF RecLink1, RecLink2, TypeOK, counters, Replayed
  <1>9. CASE RecClear \/ RecSettle
    <2>1. hdr' \in Header
      BY Zenon, <1>9, HeaderFields DEF RecClear, RecSettle
    <2> QED
      BY <1>9, <2>1 DEF RecClear, RecSettle, TypeOK, counters
  <1>10. CASE UNCHANGED vars
    BY Zenon, <1>10 DEF vars, TypeOK
  <1> QED
    BY Zenon, <1>1, <1>2, <1>3, <1>4, <1>5, <1>6, <1>7, <1>8, <1>9, <1>10 DEF Next, ThreadStep, RecoveryStep


\* What a step of thread t has to show when no other thread has a call.
LEMMA ThreadFrame ==
  ASSUME RInv, TypeOK', NEW t \in Thread, phase' = "up", scan' = scan,
         \A u \in Thread \ {t} : pc[u] = "idle" /\ pc'[u] = "idle" /\ op'[u] = op[u],
         CallOK(t)', CallAt(t)', ~Working(t)' => Settled',
         pc'[t] = "idle" /\ Allocated' /\ logged' => hdr'.on = ClearOn,
         Kind = "huge" => HugeAt(t)' /\ InTree'
  PROVE  RInv'
  <1>1. OneCall'
    BY Zenon DEF OneCall
  <1>2. ASSUME NEW u \in Thread \ {t}
        PROVE  CallOK(u)' /\ CallAt(u)' /\ (Kind = "huge" => HugeAt(u)') /\ ~Working(u)'
    <2>1. pc'[u] = "idle" /\ pc[u] = "idle" /\ op'[u] = op[u]
      BY Zenon
    <2>2. CallOK(u)
      BY Zenon DEF RInv
    <2>3. CallOK(u)' /\ op'[u].kind = "none"
      BY Zenon, <2>1, <2>2 DEF CallOK
    <2> QED
      BY Zenon, <2>1, <2>3 DEF CallAt, Before, After, HugeAt, Working
  <1>3. UpOK'
    BY Zenon, <1>2 DEF UpOK
  <1>4. RecoverOK'
    BY Zenon DEF RecoverOK
  <1>5. Kind = "huge" => HugeOK'
    BY Zenon, <1>2 DEF HugeOK, RInv
  <1> QED
    BY Zenon, <1>1, <1>2, <1>3, <1>4, <1>5 DEF RInv

\* Who may make a call is alone.
LEMMA CallerIsAlone ==
  ASSUME OneCaller, RInv, NEW t \in Thread,
         \/ pc[t] # "idle"
         \/ phase = "up" /\ (tree > 0 \/ hdr.usage = "DEFAULT")
         \/ \A u \in Thread : op[u].kind = "none"
  PROVE  \A u \in Thread \ {t} : pc[u] = "idle"
  <1>1. CASE Kind = "block"
    BY Zenon, <1>1 DEF OneCaller
  <1>2. CASE pc[t] # "idle"
    BY Zenon, <1>2 DEF RInv, OneCall
  <1>3. CASE \A u \in Thread : op[u].kind = "none"
    BY Zenon, <1>3 DEF RInv, CallOK
  <1>4. CASE Kind = "huge" /\ phase = "up" /\ (tree > 0 \/ hdr.usage = "DEFAULT")
    <2> SUFFICES ASSUME NEW u \in Thread, pc[u] # "idle" PROVE FALSE
      BY Zenon
    <2>1. HugeAt(u) /\ CallAt(u) /\ CallOK(u)
      BY Zenon, <1>4 DEF RInv, HugeOK, UpOK
    <2>2. tree = 0 /\ pc[u] # "spin"
      BY Zenon, <2>1 DEF HugeAt
    <2>3. hdr.usage = "DEFAULT"
      BY <2>2, <1>4
    <2>4. pc[u] \notin {"reserved", "log"}
      BY Zenon, <2>1, <2>3 DEF HugeAt
    <2>5. ~Before(u) /\ ~After(u)
      BY Zenon, <2>1, <2>3 DEF CallAt, CallOK, Allocated, Used, Before, After, RInv, TypeOK
    <2>6. pc[u] \notin {"clear", "add"}
      BY Zenon, <2>1, <2>3 DEF CallAt, Used
    <2> QED
      BY Zenon, <2>2, <2>4, <2>5, <2>6 DEF Before, After, RInv, TypeOK
  <1> QED
    BY Zenon, <1>1, <1>2, <1>3, <1>4 DEF OneCaller

\* Every step of a thread preserves the invariant.
LEMMA ThreadRInv ==
  ASSUME OneCaller, RInv, TypeOK', NEW t \in Thread,
         Reserve(t) \/ ReserveNew(t) \/ CallActivate(t) \/ CallFree(t) \/ ThreadStep(t)
  PROVE  RInv'
  <1> DEFINE Rest == /\ CallOK(t)' /\ CallAt(t)' /\ (~Working(t)' => Settled')
                     /\ (pc'[t] = "idle" /\ Allocated' /\ logged' => hdr'.on = ClearOn)
                     /\ (Kind = "huge" => HugeAt(t)' /\ InTree')
  <1>a. /\ hdr \in Header /\ hdr.on \in [1 .. 2 -> [ptr : Cell \cup {NoCell}, value : {"null", "rel"}]]
        /\ hdr.usage \in {"DEFAULT", "FREE", Used} /\ Used \in {"BLOCK", "HUGE"}
        /\ hdr.state \in {"NONE", "INITIALIZING", "INITIALIZED", "ACTIVATING", "FREEING"}
        /\ link \in [Cell -> {"null", "rel", "abs"}]
        /\ tree \in Nat /\ op \in [Thread -> [kind : {"none", "activate", "free"}, links : LinkArgs]]
        /\ op[t].links \in LinkArgs /\ op[t].kind \in {"none", "activate", "free"}
        /\ pc \in [Thread -> {"idle", "reserved", "log", "on1", "on2", "commit", "link1",
                        "link2", "settle", "clear", "add", "spin"}]
        /\ NoCell \notin Cell
        /\ \A u \in Thread : op[u].kind \in {"none", "activate", "free"}
    BY Zenon DEF RInv, TypeOK, Header, OneCaller, Logged, Used
  <1>b. CallOK(t) /\ (phase = "up" => CallAt(t)) /\ (Kind = "huge" => InTree) /\ (Kind = "huge" /\ phase = "up" => HugeAt(t))
    BY Zenon DEF RInv, UpOK, HugeOK
  <1>l. /\ op[t].links[1] \in Cell \cup {NoCell} /\ op[t].links[2] \in Cell \cup {NoCell}
        /\ op[t].links[2] # NoCell => op[t].links[1] # NoCell /\ op[t].links[1] # op[t].links[2]
        /\ op[t].links = NoLinks <=> op[t].links[1] = NoCell
        /\ Cells(op[t].links) \subseteq Cell
        /\ \A c : c \in Cells(op[t].links) <=> c # NoCell /\ (c = op[t].links[1] \/ c = op[t].links[2])
    BY <1>a DEF LinkArgs, NoLinks, Cells
  <1>s. ASSUME phase = "up", \A u \in Thread \ {t} : pc[u] = "idle", ~Working(t)
        PROVE  Settled
    BY Zenon, <1>s DEF RInv, UpOK, Working
  <1>f. ASSUME phase = "up", phase' = "up", scan' = scan,
               \A u \in Thread \ {t} : pc[u] = "idle",
               \A u \in Thread \ {t} : pc'[u] = pc[u] /\ op'[u] = op[u],
               Rest
        PROVE  RInv'
    BY Zenon, <1>f, ThreadFrame
  <1> HIDE DEF Rest
  <1>1. CASE Reserve(t)
    <2>1. /\ phase = "up" /\ phase' = "up" /\ scan' = scan /\ pc[t] = "idle" /\ pc'[t] = "reserved"
          /\ tree > 0 /\ tree' = tree - 1 /\ hdr' = hdr /\ link' = link /\ logged' = logged
          /\ op'[t].kind = "activate" /\ op'[t].links = op[t].links
          /\ \A u \in Thread \ {t} : pc'[u] = pc[u] /\ op'[u] = op[u]
      BY <1>1, <1>a DEF Reserve, MayCall, At, Goto
    <2>2. \A u \in Thread \ {t} : pc[u] = "idle"
      BY Zenon, <2>1, CallerIsAlone
    <2>3. Settled'
      BY Zenon, <2>1, <2>2, <1>s DEF Settled, Midway, Allocated, AllNull, Working
    <2>4. CallOK(t)' /\ CallAt(t)'
      BY Zenon, <2>1, <1>b DEF CallOK, CallAt, Before, After
    <2>5. Kind = "huge" => HugeAt(t)' /\ InTree'
      BY <2>1, <1>a, <1>b DEF HugeAt, InTree, Allocated, After
    <2>6. Rest
      BY Zenon, <2>1, <2>3, <2>4, <2>5 DEF Rest
    <2> QED
      BY Zenon, <2>1, <2>2, <2>6, <1>f
  <1>2. CASE ReserveNew(t)
    <2>1. /\ phase = "up" /\ phase' = "up" /\ scan' = scan /\ pc[t] = "idle" /\ pc'[t] = "reserved"
          /\ hdr.usage = "DEFAULT" /\ tree' = tree /\ link' = link /\ logged' = logged
          /\ hdr' = [usage |-> Used, state |-> "INITIALIZING", on |-> ClearOn]
          /\ op'[t].kind = "activate" /\ op'[t].links = op[t].links
          /\ \A u \in Thread \ {t} : pc'[u] = pc[u] /\ op'[u] = op[u]
      BY <1>2, <1>a DEF ReserveNew, MayCall, At, Goto
    <2>2. \A u \in Thread \ {t} : pc[u] = "idle"
      BY Zenon, <2>1, CallerIsAlone
    <2>3. Settled /\ ~Allocated
      BY Zenon, <2>1, <2>2, <1>s, <1>a DEF Working, Allocated
    <2>4. Settled'
      BY Zenon, <2>1, <2>3, <1>a DEF Settled, Midway, Allocated, AllNull
    <2>5. CallOK(t)' /\ CallAt(t)'
      BY Zenon, <2>1, <1>b DEF CallOK, CallAt, Before, After
    <2>6. Kind = "huge" => HugeAt(t)' /\ InTree'
      BY Zenon, <2>1, <1>a, <1>b DEF HugeAt, InTree, Allocated, After
    <2>7. Rest
      BY Zenon, <2>1, <2>4, <2>5, <2>6 DEF Rest
    <2> QED
      BY Zenon, <2>1, <2>2, <2>7, <1>f
  <1>3. CASE CallActivate(t)
    <2>1. /\ phase = "up" /\ phase' = "up" /\ scan' = scan /\ pc[t] = "reserved" /\ pc'[t] = "log"
          /\ tree' = tree /\ link' = link /\ logged' = logged /\ hdr' = hdr
          /\ op'[t].kind = op[t].kind
          /\ \A u \in Thread \ {t} : pc'[u] = pc[u] /\ op'[u] = op[u]
      BY <1>3, <1>a DEF CallActivate, At, Goto
    <2>2. \A u \in Thread \ {t} : pc[u] = "idle"
      BY Zenon, <2>1, CallerIsAlone
    <2>3. Settled'
      BY Zenon, <2>1, <2>2, <1>s DEF Settled, Midway, Allocated, AllNull, Working
    <2>4. CallOK(t)' /\ CallAt(t)'
      BY Zenon, <2>1, <1>b DEF CallOK, CallAt, Before, After
    <2>5. Kind = "huge" => HugeAt(t)' /\ InTree'
      BY Zenon, <2>1, <1>a, <1>b DEF HugeAt, InTree, Allocated, After
    <2>6. Rest
      BY Zenon, <2>1, <2>3, <2>4, <2>5 DEF Rest
    <2> QED
      BY Zenon, <2>1, <2>2, <2>6, <1>f
  <1>4. CASE CallFree(t)
    <2>1. /\ phase = "up" /\ phase' = "up" /\ scan' = scan /\ pc[t] = "idle"
          /\ hdr.usage = Used /\ (hdr.state = "INITIALIZED" \/ ~AllNull)
          /\ tree' = tree /\ link' = link /\ logged' = logged /\ hdr' = hdr
          /\ \A u \in Thread : op[u].kind = "none"
      BY Zenon, <1>4, <1>a DEF CallFree, MayCall, At, AllNull
    <2>2. PICK l \in LinkArgs :
            /\ Cells(l) = {c \in Cell : link[c] # "null"}
            /\ op' = [op EXCEPT ![t] = [kind |-> "free", links |-> l]]
            /\ pc' = [pc EXCEPT ![t] = IF l[1] = NoCell THEN "settle" ELSE "on1"]
      BY Zenon, <1>4 DEF CallFree, Goto
    <2>3. /\ op'[t].kind = "free" /\ op'[t].links = l /\ pc'[t] = (IF l[1] = NoCell THEN "settle" ELSE "on1")
          /\ \A u \in Thread \ {t} : pc'[u] = pc[u] /\ op'[u] = op[u]
      BY Zenon, <2>2, <1>a
    <2>4. \A u \in Thread : pc[u] = "idle"
      BY Zenon, <2>1 DEF RInv, CallOK
    <2>5. Settled
      BY Zenon, <2>1, <2>4, <1>s DEF Working
    <2>6. Allocated /\ hdr.state = "INITIALIZED"
      BY Zenon, <2>1, <2>5, <1>a DEF Settled, Allocated, Midway
    <2>7. l[1] = NoCell => l = NoLinks
      BY DEF LinkArgs, NoLinks
    <2>8. CallOK(t)'
      BY Zenon, <2>3 DEF CallOK
    <2>9. logged => hdr.on = ClearOn
      BY Zenon, <2>1, <2>4, <2>6 DEF RInv, UpOK
    <2>10. hdr.on = ClearOn => hdr.on[2].ptr = NoCell
      BY DEF ClearOn, NoPtrSet
    <2>11. Before(t)' /\ ~After(t)'
      BY Zenon, <2>3, <2>7 DEF Before, After
    <2>12. pc'[t] = "settle" => Cells(l) = {}
      BY Zenon, <2>3, <2>7 DEF Cells, NoLinks
    <2>13. Allocated' /\ Working(t)'
      BY Zenon, <2>1, <2>3, <2>6 DEF Allocated, Working
    <2>14. CallAt(t)'
      BY <2>1, <2>2, <2>3, <2>6, <2>9, <2>10, <2>11, <2>12, <2>13 DEF CallAt
    <2>15. Kind = "huge" => HugeAt(t)' /\ InTree'
      BY Zenon, <2>1, <2>3, <2>6, <1>a, <1>b DEF HugeAt, InTree, Allocated, Used
    <2>16. Rest
      BY Zenon, <2>3, <2>8, <2>13, <2>14, <2>15 DEF Rest
    <2> QED
      BY Zenon, <2>1, <2>3, <2>4, <2>16, <1>f
  <1>5. CASE ThreadStep(t)
    <2>a. /\ phase = "up" /\ phase' = "up" /\ scan' = scan /\ pc[t] # "idle"
          /\ \A u \in Thread \ {t} : pc'[u] = pc[u] /\ op'[u] = op[u]
      BY Zenon, <1>5, <1>a DEF ThreadStep, Log, StoreOn1, StoreOn2, Commit, Link1, Link2, Settle, Clear,
                        Add, At, Goto
    <2>b. \A u \in Thread \ {t} : pc[u] = "idle"
      BY Zenon, <2>a, CallerIsAlone
    <2>c. CallAt(t) /\ (Kind = "huge" => HugeAt(t))
      BY Zenon, <2>a, <1>b
    <2>d. /\ op[t].kind \in {"activate", "free"}
          /\ op[t].kind = "activate" => Target(op[t]) = "rel"
          /\ op[t].kind = "free" => Target(op[t]) = "null"
      BY Zenon, <2>a, <1>a, <1>b DEF CallOK, Target
    <2> SUFFICES Rest
      BY Zenon, <2>a, <2>b, <1>f
    <2>1. CASE Log(t)
      <3>1. /\ pc[t] = "log" /\ tree' = tree /\ hdr' = hdr /\ link' = link /\ op' = op
            /\ pc'[t] = (IF Kind = "block" /\ hdr.usage # "FREE" THEN "spin"
                         ELSE IF op[t].links[1] = NoCell THEN "settle" ELSE "on1")
        BY Zenon, <2>1, <1>a DEF Log, At, Goto
      <3>2. op[t].kind = "activate" /\ Settled
        BY Zenon, <3>1, <2>a, <2>b, <1>b, <1>s DEF CallOK, Working
      <3>3. CallOK(t)' /\ Settled'
        BY Zenon, <3>1, <3>2 DEF CallOK, Settled, Midway, Allocated, AllNull
      <3>4. pc'[t] # "spin" => ~Allocated /\ hdr.usage # "DEFAULT" /\ AllNull
                               /\ hdr.state \in {"INITIALIZED", "INITIALIZING"}
        BY Zenon, <3>1, <3>2, <2>c, <1>a DEF HugeAt, OneCaller, Allocated, Settled, Midway, Used
      <3>5. pc'[t] = "settle" => Cells(op[t].links) = {} /\ op[t].links = NoLinks
        BY Zenon, <3>1, <1>l
      <3>6. ~After(t)'
        BY Zenon, <3>1, <3>5 DEF After
      <3>7. CallAt(t)'
        BY Zenon, <3>1, <3>2, <3>4, <3>5, <3>6 DEF CallAt, Before, Allocated, AllNull
      <3>8. Kind = "huge" => HugeAt(t)' /\ InTree'
        BY Zenon, <3>1, <3>2, <3>6, <2>c, <1>b DEF HugeAt, InTree
      <3> QED
        BY Zenon, <3>1, <3>3, <3>7, <3>8 DEF Rest
    <2>2. CASE StoreOn1(t)
      <3>1. /\ pc[t] = "on1" /\ tree' = tree /\ link' = link /\ op' = op /\ logged' = logged
            /\ pc'[t] = (IF op[t].links[2] = NoCell THEN "commit" ELSE "on2")
            /\ hdr' = [hdr EXCEPT !.on[1] = [ptr |-> op[t].links[1], value |-> Target(op[t])]]
        BY Zenon, <2>2, <1>a DEF StoreOn1, StoreOn, At, Goto
      <3>2. /\ hdr'.usage = hdr.usage /\ hdr'.state = hdr.state
            /\ hdr'.on[1] = [ptr |-> op[t].links[1], value |-> Target(op[t])]
            /\ hdr'.on[2] = hdr.on[2]
        BY <3>1, <1>a DEF Header
      <3>3. CallOK(t)' /\ Working(t)' /\ pc'[t] # "idle"
        BY Zenon, <3>1, <1>b DEF CallOK, Working
      <3>4. Before(t) /\ ~After(t)' /\ Before(t)'
        BY Zenon, <3>1 DEF Before, After
      <3>5. CallAt(t)'
        BY Zenon, <3>1, <3>2, <3>4, <2>c, <1>b DEF CallAt, CallOK, Allocated, AllNull, OnFor
      <3>6. Kind = "huge" => HugeAt(t)' /\ InTree'
        BY <3>1, <3>2, <3>4, <2>c, <1>b DEF HugeAt, InTree, ClearOn, NoPtrSet
      <3> QED
        BY Zenon, <3>3, <3>5, <3>6 DEF Rest
    <2>3. CASE StoreOn2(t)
      <3>1. /\ pc[t] = "on2" /\ tree' = tree /\ link' = link /\ op' = op /\ logged' = logged
            /\ pc'[t] = "commit"
            /\ hdr' = [hdr EXCEPT !.on[2] = [ptr |-> op[t].links[2], value |-> Target(op[t])]]
        BY Zenon, <2>3, <1>a DEF StoreOn2, StoreOn, At, Goto
      <3>2. /\ hdr'.usage = hdr.usage /\ hdr'.state = hdr.state
            /\ hdr'.on[2] = [ptr |-> op[t].links[2], value |-> Target(op[t])]
            /\ hdr'.on[1] = hdr.on[1]
        BY <3>1, <1>a DEF Header
      <3>3. CallOK(t)' /\ Working(t)' /\ pc'[t] # "idle"
        BY Zenon, <3>1, <1>b DEF CallOK, Working
      <3>4. Before(t) /\ ~After(t)' /\ Before(t)' /\ op[t].links[2] # NoCell /\ op[t].links[1] # NoCell
        BY Zenon, <3>1, <1>b DEF Before, After, CallOK
      <3>5. CallAt(t)'
        BY Zenon, <3>1, <3>2, <3>4, <2>c DEF CallAt, Allocated, AllNull, OnFor
      <3>6. Kind = "huge" => HugeAt(t)' /\ InTree'
        BY <3>1, <3>2, <3>4, <2>c, <1>b DEF HugeAt, InTree
      <3> QED
        BY Zenon, <3>3, <3>5, <3>6 DEF Rest
    <2>4. CASE Commit(t)
      <3>1. /\ pc[t] = "commit" /\ tree' = tree /\ link' = link /\ op' = op /\ logged' = logged
            /\ pc'[t] = "link1"
            /\ hdr'.usage = Used /\ hdr'.on = hdr.on
            /\ hdr'.state = IF op[t].kind = "activate" THEN "ACTIVATING" ELSE "FREEING"
        BY Zenon, <2>4, <1>a DEF Commit, At, Goto, Header
      <3>2. CallOK(t)' /\ Working(t)' /\ pc'[t] # "idle"
        BY Zenon, <3>1, <1>b DEF CallOK, Working
      <3>3. Before(t) /\ After(t)' /\ ~Before(t)'
        BY Zenon, <3>1 DEF Before, After
      <3>4. \A c \in Cell \ Cells(op[t].links) : link[c] = "null"
        BY Zenon, <3>3, <2>c, <2>d DEF CallAt, AllNull
      <3>5. CallAt(t)'
        BY Zenon, <3>1, <3>3, <3>4, <2>c DEF CallAt, OnFor
      <3>6. Kind = "huge" => HugeAt(t)' /\ InTree'
        BY <3>1, <3>3, <3>4, <2>c, <1>b DEF HugeAt, InTree
      <3> QED
        BY Zenon, <3>2, <3>5, <3>6 DEF Rest
    <2>5. CASE Link1(t)
      <3>1. /\ pc[t] = "link1" /\ tree' = tree /\ op' = op /\ logged' = logged /\ hdr' = hdr
            /\ pc'[t] = (IF op[t].links[2] = NoCell THEN "settle" ELSE "link2")
            /\ link' = [link EXCEPT ![op[t].links[1]] = Target(op[t])]
        BY Zenon, <2>5, <1>a DEF Link1, At, Goto
      <3>2. op[t].links[1] # NoCell /\ op[t].links # NoLinks
        BY Zenon, <3>1, <1>b, <1>l DEF CallOK
      <3>3. CallOK(t)' /\ Working(t)' /\ pc'[t] # "idle"
        BY Zenon, <3>1, <3>2, <1>b DEF CallOK, Working
      <3>4. After(t) /\ After(t)' /\ ~Before(t)'
        BY Zenon, <3>1, <3>2 DEF Before, After
      <3>5. /\ link'[op[t].links[1]] = Target(op[t])
            /\ \A c \in Cell : c # op[t].links[1] => link'[c] = link[c]
        BY Zenon, <3>1, <3>2, <1>a, <1>l
      <3>6. pc'[t] = "settle" => \A c \in Cells(op[t].links) : link'[c] = Target(op[t])
        BY Zenon, <3>1, <3>5, <1>l
      <3>7. \A c \in Cell \ Cells(op[t].links) : link'[c] = link[c]
        BY Zenon, <3>2, <3>5, <1>l
      <3>8. CallAt(t)'
        BY Zenon, <3>1, <3>2, <3>4, <3>5, <3>6, <3>7, <2>c DEF CallAt, OnFor
      <3>9. Kind = "huge" => HugeAt(t)' /\ InTree'
        BY Zenon, <3>1, <3>4, <3>7, <2>c, <1>b DEF HugeAt, InTree
      <3> QED
        BY Zenon, <3>3, <3>8, <3>9 DEF Rest
    <2>6. CASE Link2(t)
      <3>1. /\ pc[t] = "link2" /\ tree' = tree /\ op' = op /\ logged' = logged /\ hdr' = hdr
            /\ pc'[t] = "settle"
            /\ link' = [link EXCEPT ![op[t].links[2]] = Target(op[t])]
        BY Zenon, <2>6, <1>a DEF Link2, At, Goto
      <3>2. op[t].links[1] # NoCell /\ op[t].links # NoLinks /\ op[t].links[2] # NoCell
        BY Zenon, <3>1, <1>b, <1>l DEF CallOK
      <3>3. CallOK(t)' /\ Working(t)' /\ pc'[t] # "idle"
        BY Zenon, <3>1, <3>2, <1>b DEF CallOK, Working
      <3>4. After(t) /\ After(t)' /\ ~Before(t)'
        BY Zenon, <3>1, <3>2 DEF Before, After
      <3>5. /\ link'[op[t].links[2]] = Target(op[t])
            /\ \A c \in Cell : c # op[t].links[2] => link'[c] = link[c]
        BY Zenon, <3>1, <3>2, <1>a, <1>l
      <3>6. link[op[t].links[1]] = Target(op[t])
        BY Zenon, <3>1, <2>c DEF CallAt
      <3>7. \A c \in Cells(op[t].links) : link'[c] = Target(op[t])
        BY Zenon, <3>2, <3>5, <3>6, <1>l
      <3>8. \A c \in Cell \ Cells(op[t].links) : link'[c] = link[c]
        BY Zenon, <3>2, <3>5, <1>l
      <3>9. CallAt(t)'
        BY Zenon, <3>1, <3>2, <3>4, <3>7, <3>8, <2>c DEF CallAt, OnFor
      <3>10. Kind = "huge" => HugeAt(t)' /\ InTree'
        BY Zenon, <3>1, <3>4, <3>8, <2>c, <1>b DEF HugeAt, InTree
      <3> QED
        BY Zenon, <3>3, <3>9, <3>10 DEF Rest
    <2>7. CASE Settle(t)
      <3>1. /\ pc[t] = "settle" /\ tree' = tree /\ link' = link /\ op' = op /\ logged' = logged
            /\ pc'[t] = "clear"
            /\ hdr'.usage = IF op[t].kind = "activate" THEN Used ELSE "FREE"
            /\ hdr'.state = "INITIALIZED"
        BY Zenon, <2>7, <1>a DEF Settle, At, Goto, Header
      <3>2. CallOK(t)' /\ Working(t)' /\ pc'[t] # "idle"
        BY Zenon, <3>1, <1>b DEF CallOK, Working
      <3>3. Before(t) \/ After(t)
        BY Zenon, <3>1 DEF Before, After
      <3>4. op[t].kind = "free" => AllNull
        <4>1. op[t].kind = "free" => \A c \in Cell \ Cells(op[t].links) : link[c] = "null"
          BY Zenon, <3>3, <2>c DEF CallAt
        <4>2. op[t].kind = "free" => \A c \in Cells(op[t].links) : link[c] = "null"
          BY Zenon, <3>1, <2>c, <2>d DEF CallAt
        <4> QED
          BY Zenon, <4>1, <4>2 DEF AllNull
      <3>5. ~Before(t)' /\ ~After(t)'
        BY Zenon, <3>1 DEF Before, After
      <3>6. CallAt(t)'
        BY Zenon, <3>1, <3>4, <3>5 DEF CallAt, AllNull
      <3>7. Kind = "huge" => HugeAt(t)' /\ InTree'
        BY <3>1, <3>5, <2>c, <1>b DEF HugeAt, InTree
      <3> QED
        BY Zenon, <3>2, <3>6, <3>7 DEF Rest
    <2>8. CASE Clear(t)
      <3>1. /\ pc[t] = "clear" /\ tree' = tree /\ link' = link /\ logged' = logged
            /\ hdr'.usage = hdr.usage /\ hdr'.state = hdr.state /\ hdr'.on = ClearOn
        BY Zenon, <2>8, <1>a DEF Clear, At, Goto, Header
      <3>2. /\ hdr.state = "INITIALIZED"
            /\ hdr.usage = IF op[t].kind = "activate" THEN Used ELSE "FREE"
            /\ op[t].kind = "free" => AllNull
            /\ Kind = "huge" => tree = 0
        BY Zenon, <3>1, <2>c DEF CallAt, HugeAt
      <3>3. Settled'
        BY Zenon, <3>1, <3>2, <2>d, <1>a DEF Settled, Midway, Allocated, AllNull
      <3>4. CASE op[t].kind = "activate"
        <4>1. pc'[t] = "idle" /\ op'[t] = NoOp
          BY Zenon, <3>4, <2>8, <1>a DEF Clear, Goto
        <4>2. CallOK(t)' /\ CallAt(t)'
          BY <4>1 DEF CallOK, NoOp, CallAt, Before, After
        <4>3. Kind = "huge" => HugeAt(t)' /\ InTree'
          BY <4>1, <3>1, <3>2 DEF HugeAt, InTree, NoOp
        <4> QED
          BY Zenon, <3>1, <3>3, <4>2, <4>3 DEF Rest
      <3>5. CASE op[t].kind = "free"
        <4>1. pc'[t] = "add" /\ op' = op
          BY Zenon, <3>5, <2>8, <1>a DEF Clear, Goto
        <4>2. CallOK(t)' /\ CallAt(t)'
          BY Zenon, <4>1, <3>1, <3>2, <3>5 DEF CallOK, NoOp, CallAt, Before, After
        <4>3. Kind = "huge" => HugeAt(t)' /\ InTree'
          BY Zenon, <4>1, <3>1, <3>2, <3>5 DEF HugeAt, InTree
        <4> QED
          BY Zenon, <3>1, <3>3, <4>2, <4>3 DEF Rest
      <3> QED
        BY Zenon, <3>4, <3>5, <2>d
    <2>9. CASE Add(t)
      <3>1. /\ pc[t] = "add" /\ tree' = tree + 1 /\ hdr' = hdr /\ link' = link /\ logged' = logged
            /\ pc'[t] = "idle" /\ op'[t] = NoOp
        BY Zenon, <2>9, <1>a DEF Add, At, Goto
      <3>2. /\ hdr.usage = "FREE" /\ hdr.state = "INITIALIZED" /\ hdr.on = ClearOn
            /\ Kind = "huge" => tree = 0
        BY Zenon, <3>1, <2>c DEF CallAt, HugeAt
      <3>3. Settled'
        BY Zenon, <3>1, <2>a, <2>b, <1>s DEF Settled, Midway, Allocated, AllNull, Working
      <3>4. CallOK(t)' /\ CallAt(t)'
        BY <3>1 DEF CallOK, NoOp, CallAt, Before, After
      <3>5. Kind = "huge" => HugeAt(t)' /\ InTree'
        BY <3>1, <3>2 DEF HugeAt, InTree, NoOp
      <3> QED
        BY Zenon, <3>1, <3>2, <3>3, <3>4, <3>5 DEF Rest
    <2> QED
      BY Zenon, <1>5, <2>1, <2>2, <2>3, <2>4, <2>5, <2>6, <2>7, <2>8, <2>9 DEF ThreadStep
  <1> QED
    BY Zenon, <1>1, <1>2, <1>3, <1>4, <1>5

\* A crash leaves a header that the recovery can complete.
LEMMA CrashRInv ==
  ASSUME OneCaller, RInv, TypeOK', Crash
  PROVE  RInv'
  <1>1. /\ phase' = "recover" /\ rec' = "scan" /\ scan' = "off" /\ tree' = 0
        /\ \A t \in Thread : pc'[t] = "idle" /\ op'[t] = NoOp
        /\ hdr' = hdr /\ link' = link /\ logged' = logged
        /\ phase \in {"up", "recover"}
    BY Zenon DEF Crash
  <1>2. OneCall' /\ UpOK' /\ \A t \in Thread : CallOK(t)'
    BY <1>1 DEF OneCall, UpOK, CallOK, NoOp
  <1> DEFINE Values == hdr.state = "ACTIVATING" =>
                         \A k \in 1 .. 2 : hdr.on[k].ptr # NoCell => hdr.on[k].value = "rel"
  <1>3. Recoverable /\ (~Midway => Settled) /\ (logged \/ Settled) /\ (Kind = "huge" => Values)
    <2>1. CASE phase = "recover"
      BY Zenon, <2>1 DEF RInv, RecoverOK, TypeOK, HugeOK
    <2>2. CASE phase = "up" /\ \A t \in Thread : ~Working(t)
      <3>1. Settled
        BY Zenon, <2>2 DEF RInv, UpOK
      <3> QED
        BY Zenon, <3>1 DEF Settled, Recoverable, Midway
    <2>3. ASSUME phase = "up", NEW t \in Thread, Working(t)
          PROVE  Recoverable /\ (~Midway => Settled) /\ logged /\ (Kind = "huge" => Values)
      <3>1. logged
        BY Zenon, <2>3 DEF Crash, CallsAreLogged, Working, OneCaller, Logged
      <3>2. CallAt(t) /\ CallOK(t) /\ (Kind = "huge" => HugeAt(t))
        BY Zenon, <2>3 DEF RInv, UpOK, HugeOK
      <3>3. Before(t) \/ After(t) \/ pc[t] = "clear"
        BY Zenon, <2>3 DEF Working, Before, After, RInv, TypeOK
      <3>4. op[t].kind \in {"activate", "free"} /\ op[t].links \in LinkArgs
        BY Zenon, <2>3, <3>2 DEF CallOK, Working, RInv, TypeOK
      <3>5. CASE Before(t)
        BY Zenon, <3>1, <3>2, <3>4, <3>5 DEF CallAt, Recoverable, Midway, Settled, Allocated, Used, RInv, TypeOK, Header
      <3>6. CASE pc[t] = "clear"
        BY Zenon, <3>1, <3>2, <3>4, <3>6 DEF CallAt, Recoverable, Midway, Settled, Allocated, Used
      <3>7. CASE After(t)
        <4>1. /\ Midway /\ hdr.usage = Used /\ op[t].links[1] # NoCell
              /\ hdr.on[1] = OnFor(t, 1)
              /\ op[t].links[2] # NoCell => hdr.on[2] = OnFor(t, 2)
          BY Zenon, <3>2, <3>4, <3>7 DEF CallAt, Midway
        <4>2. hdr.on[1].ptr = op[t].links[1] /\ hdr.on[1].value = Target(op[t])
          BY <4>1 DEF OnFor
        <4>3. op[t].links[2] # NoCell => /\ hdr.on[2].ptr = op[t].links[2]
                                         /\ hdr.on[2].value = Target(op[t])
          BY <4>1 DEF OnFor
        <4>4. CASE hdr.state = "FREEING"
          <5>1. op[t].kind = "free" /\ Target(op[t]) = "null"
            BY Zenon, <3>2, <3>4, <3>7, <4>4 DEF CallAt, Target
          <5>2. op[t].links[2] = NoCell => hdr.on[2].ptr = NoCell
            BY Zenon, <3>1, <3>2, <3>7, <5>1 DEF CallAt
          <5>3. \A k \in 1 .. 2 : hdr.on[k].ptr # NoCell => hdr.on[k].value = "null"
            BY <4>2, <4>3, <5>1, <5>2
          <5>4. \A c \in Cell : link[c] # "null" => c \in Cells(op[t].links)
            BY Zenon, <3>2, <3>7, <5>1 DEF CallAt
          <5>5. \A c \in Cell : link[c] # "null" => \E k \in 1 .. 2 : hdr.on[k].ptr = c
            BY <4>2, <4>3, <5>2, <5>4 DEF Cells
          <5> QED
            BY Zenon, <3>1, <4>1, <4>2, <4>4, <5>3, <5>5 DEF Recoverable
        <4>5. CASE hdr.state = "ACTIVATING"
          <5>1. op[t].kind = "activate" /\ Target(op[t]) = "rel"
            BY Zenon, <3>2, <3>4, <3>7, <4>5 DEF CallAt, Target
          <5>2. Kind = "huge" /\ op[t].links[2] = NoCell => hdr.on[2].ptr = NoCell
            BY Zenon, <3>2, <3>7, <5>1 DEF HugeAt
          <5>3. Kind = "huge" => Values
            BY <4>2, <4>3, <5>1, <5>2
          <5> QED
            BY Zenon, <3>1, <4>1, <4>2, <4>5, <5>3 DEF Recoverable
        <4> QED
          BY Zenon, <4>1, <4>4, <4>5 DEF Midway
      <3> QED
        BY Zenon, <3>3, <3>5, <3>6, <3>7
    <2> QED
      BY Zenon, <1>1, <2>1, <2>2, <2>3
  <1>4. RecoverOK'
    BY Zenon, <1>1, <1>3 DEF RecoverOK, Recoverable, Midway, Settled, Allocated, AllNull
  <1>5. Kind = "huge" => HugeOK'
    BY <1>1, <1>3 DEF HugeOK, InTree
  <1> QED
    BY Zenon, <1>2, <1>4, <1>5 DEF RInv

\* Every step of the recovery preserves the invariant.
LEMMA RecoveryRInv ==
  ASSUME OneCaller, RInv, TypeOK', RecoveryStep
  PROVE  RInv'
  <1>a. /\ phase = "recover" /\ pc' = pc /\ op' = op
        /\ \A t \in Thread : pc[t] = "idle" /\ CallOK(t)
    BY Zenon DEF RecoveryStep, RecScan, RecAssertFails, RecLink1, RecLink2, RecClear, RecSettle,
           RecForget, RecDone, RecAt, RInv, RecoverOK
  <1>b. OneCall' /\ \A t \in Thread : CallOK(t)'
    BY Zenon, <1>a DEF OneCall, CallOK
  <1>c. /\ hdr \in Header /\ link \in [Cell -> {"null", "rel", "abs"}]
        /\ hdr.on \in [1 .. 2 -> [ptr : Cell \cup {NoCell}, value : {"null", "rel"}]]
        /\ hdr.on[1].ptr \in Cell \cup {NoCell} /\ hdr.on[2].ptr \in Cell \cup {NoCell}
        /\ NoCell \notin Cell /\ tree \in Nat /\ Used \in {"BLOCK", "HUGE"}
    BY DEF RInv, TypeOK, Header, OneCaller, Logged, Used
  <1>d. RecoverOK /\ (Kind = "huge" => HugeOK)
    BY Zenon DEF RInv
  <1>e. ASSUME phase' = "recover", RecoverOK', Kind = "huge" => HugeOK'
        PROVE  RInv'
    BY Zenon, <1>b, <1>e DEF RInv, UpOK
  <1>1. CASE RecScan
    <2>1. /\ rec = "scan" /\ phase' = "recover" /\ hdr' = hdr /\ link' = link /\ logged' = logged
          /\ tree' = tree /\ scan' = scan
          /\ rec' = IF ~logged THEN "done"
                    ELSE IF hdr.state = "INITIALIZED" THEN "forget"
                    ELSE IF hdr.on[1].ptr = NoCell THEN "clear" ELSE "link1"
          /\ logged => hdr.state \in {"INITIALIZED", "ACTIVATING", "FREEING"}
      BY Zenon, <1>1, <1>a DEF RecScan, RecAt
    <2>2. Recoverable /\ (~Midway => Settled) /\ (logged \/ Settled)
      BY Zenon, <2>1, <1>a, <1>d DEF RecoverOK
    <2>3. rec' \in {"clear", "link1"} => logged /\ Midway
      BY Zenon, <2>1 DEF Midway
    <2>4. rec' = "clear" /\ hdr.state = "FREEING" => AllNull
      BY <2>1, <2>2, <2>3, <1>c DEF Recoverable, AllNull
    <2>5. rec' \in {"forget", "done"} => Settled
      BY Zenon, <2>1, <2>2 DEF Midway
    <2>6. RecoverOK'
      BY Zenon, <2>1, <2>2, <2>3, <2>4, <2>5, <1>a DEF RecoverOK, Recoverable, Midway, Settled, Allocated, AllNull
    <2>7. rec' = "clear" => hdr.on[1].ptr = NoCell /\ hdr.on[2].ptr = NoCell
      BY Zenon, <2>1, <2>2, <2>3 DEF Recoverable
    <2>8. Kind = "huge" => HugeOK'
      BY <2>1, <2>7, <1>a, <1>d DEF HugeOK, InTree
    <2> QED
      BY Zenon, <2>1, <2>6, <2>8, <1>e
  <1>2. CASE RecAssertFails
    <2>1. /\ phase' = "aborted" /\ hdr' = hdr /\ tree' = tree /\ scan' = scan
      BY Zenon, <1>2 DEF RecAssertFails
    <2>2. UpOK' /\ RecoverOK' /\ (Kind = "huge" => HugeOK')
      BY Zenon, <2>1, <1>d DEF UpOK, RecoverOK, HugeOK, InTree
    <2> QED
      BY Zenon, <2>2, <1>b DEF RInv
  <1>3. CASE RecLink1 \/ RecLink2
    <2> DEFINE k == IF RecLink1 THEN 1 ELSE 2
               p == hdr.on[k].ptr
    <2>1. /\ rec \in {"link1", "link2"} /\ phase' = "recover" /\ hdr' = hdr /\ logged' = logged
          /\ tree' = tree /\ scan' = scan /\ rec' \in {"link2", "clear"}
          /\ rec' = "link2" => hdr.on[2].ptr # NoCell /\ k = 1
          /\ rec' = "clear" => hdr.on[2].ptr = NoCell \/ rec = "link2"
          /\ rec = "link2" => k = 2
          /\ rec = "link1" => k = 1
          /\ k \in 1 .. 2
      BY <1>3, <1>a DEF RecLink1, RecLink2, RecAt
    <2>2. link' = [link EXCEPT ![p] = Replayed(hdr.on[k].value)]
      <3>1. CASE RecLink1
        BY Zenon, <3>1 DEF RecLink1
      <3>2. CASE ~RecLink1
        BY Zenon, <3>2, <1>3 DEF RecLink2
      <3> QED
        BY Zenon, <3>1, <3>2
    <2>3. /\ Recoverable /\ logged /\ Midway /\ hdr.on[1].ptr # NoCell
          /\ rec = "link2" => hdr.on[2].ptr # NoCell /\ link[hdr.on[1].ptr] = Replayed(hdr.on[1].value)
      BY Zenon, <2>1, <1>a, <1>d DEF RecoverOK
    <2>4. p \in Cell /\ p # NoCell
      BY Zenon, <2>1, <2>3, <1>c
    <2> HIDE DEF k
    <2>5. link'[p] = Replayed(hdr.on[k].value) /\ \A c \in Cell : c # p => link'[c] = link[c]
      BY Zenon, <2>2, <2>4, <1>c
    <2>6. hdr.state = "FREEING" =>
            /\ \A j \in 1 .. 2 : hdr.on[j].ptr # NoCell => hdr.on[j].value = "null"
            /\ link'[p] = "null"
            /\ \A c \in Cell : link'[c] # "null" => \E j \in 1 .. 2 : hdr.on[j].ptr = c
      BY Zenon, <2>1, <2>3, <2>4, <2>5 DEF Recoverable, Replayed
    <2>7. Recoverable' /\ Midway'
      BY Zenon, <2>1, <2>3, <2>6 DEF Recoverable, Midway
    <2>8. rec' = "link2" => link'[hdr.on[1].ptr] = Replayed(hdr.on[1].value)
      BY Zenon, <2>1, <2>5
    <2>9. rec' = "clear" /\ hdr.state = "FREEING" => AllNull'
      <3> SUFFICES ASSUME rec' = "clear", hdr.state = "FREEING", NEW c \in Cell, link'[c] # "null"
                   PROVE  FALSE
        BY Zenon DEF AllNull
      <3>1. PICK j \in 1 .. 2 : hdr.on[j].ptr = c
        BY Zenon, <2>6
      <3>2. c # p /\ link'[c] = link[c]
        BY Zenon, <2>5, <2>6
      <3>3. j # k /\ c # NoCell
        BY Zenon, <3>1, <3>2, <1>c
      <3>4. CASE rec = "link2"
        <4>1. j = 1
          BY <3>3, <3>4, <2>1
        <4>2. link[c] = Replayed(hdr.on[1].value) /\ hdr.on[1].value = "null"
          BY Zenon, <4>1, <3>1, <3>4, <2>3, <2>6
        <4> QED
          BY Zenon, <4>2, <3>2 DEF Replayed
      <3>5. CASE rec = "link1"
        BY <3>1, <3>3, <3>5, <2>1
      <3> QED
        BY Zenon, <3>4, <3>5, <2>1
    <2>10. RecoverOK'
      BY Zenon, <2>1, <2>3, <2>7, <2>8, <2>9, <1>a DEF RecoverOK, Midway
    <2>11. Kind = "huge" => HugeOK'
      <3> SUFFICES ASSUME Kind = "huge" PROVE HugeOK'
        BY Zenon
      <3>1. /\ scan = "off" /\ InTree /\ tree # 1
            /\ hdr.state = "ACTIVATING" =>
                 \A j \in 1 .. 2 : hdr.on[j].ptr # NoCell => hdr.on[j].value = "rel"
        BY Zenon, <2>1, <1>a, <1>d DEF HugeOK
      <3>2. ASSUME hdr.state = "ACTIVATING", rec' = "clear", NEW j \in 1 .. 2, hdr.on[j].ptr # NoCell
            PROVE  link'[hdr.on[j].ptr] # "null"
        <4>1. hdr.on[j].value = "rel" /\ hdr.on[k].value = "rel" /\ link'[p] = "abs"
          BY Zenon, <3>1, <3>2, <2>1, <2>4, <2>5 DEF Replayed
        <4>2. CASE hdr.on[j].ptr = p
          BY Zenon, <4>1, <4>2
        <4>3. CASE hdr.on[j].ptr # p
          <5>1. rec = "link2" /\ j = 1
            BY <4>3, <3>2, <2>1
          <5>2. link[hdr.on[1].ptr] = "abs"
            BY Zenon, <5>1, <4>1, <2>3 DEF Replayed
          <5> QED
            BY Zenon, <5>1, <5>2, <4>3, <2>5, <1>c, <2>3
        <4> QED
          BY Zenon, <4>2, <4>3
      <3> QED
        BY Zenon, <3>1, <3>2, <2>1 DEF HugeOK, InTree
    <2> QED
      BY Zenon, <2>1, <2>10, <2>11, <1>e
  <1>4. CASE RecClear
    <2>1. /\ rec = "clear" /\ phase' = "recover" /\ link' = link /\ logged' = logged
          /\ tree' = tree /\ scan' = scan /\ rec' = "settle"
          /\ hdr'.usage = hdr.usage /\ hdr'.state = hdr.state /\ hdr'.on = ClearOn
      BY Zenon, <1>4, <1>a, <1>c DEF RecClear, RecAt, Header
    <2>2. Recoverable /\ logged /\ Midway /\ (hdr.state = "FREEING" => AllNull)
      BY Zenon, <2>1, <1>a, <1>d DEF RecoverOK
    <2>3. \A k \in 1 .. 2 : ClearOn[k].ptr = NoCell
      BY Zenon DEF ClearOn, NoPtrSet
    <2>4. Recoverable' /\ Midway'
      BY <2>1, <2>2, <2>3 DEF Recoverable, Midway, AllNull
    <2>5. RecoverOK'
      BY Zenon, <2>1, <2>2, <2>4, <1>a DEF RecoverOK, Midway, AllNull
    <2>6. Kind = "huge" => HugeOK'
      BY Zenon, <2>1, <2>3, <1>a, <1>d DEF HugeOK, InTree
    <2> QED
      BY Zenon, <2>1, <2>5, <2>6, <1>e
  <1>5. CASE RecSettle
    <2>1. /\ rec = "settle" /\ phase' = "recover" /\ link' = link /\ logged' = logged
          /\ tree' = (IF hdr.state = "FREEING" THEN tree + 1 ELSE tree)
          /\ scan' = scan /\ rec' = "forget"
          /\ hdr'.usage = (IF hdr.state = "FREEING" THEN "FREE" ELSE Used)
          /\ hdr'.state = "INITIALIZED" /\ hdr'.on = hdr.on
      BY Zenon, <1>5, <1>a, <1>c DEF RecSettle, RecAt, Header
    <2>2. logged /\ hdr.on = ClearOn /\ (hdr.state = "FREEING" => AllNull)
      BY Zenon, <2>1, <1>a, <1>d DEF RecoverOK
    <2>3. Settled'
      BY Zenon, <2>1, <2>2, <1>c DEF Settled, Midway, Allocated, AllNull
    <2>4. RecoverOK'
      BY Zenon, <2>1, <2>2, <2>3, <1>a DEF RecoverOK, Recoverable, Midway
    <2>5. Kind = "huge" => HugeOK'
      BY <2>1, <2>2, <1>a, <1>d DEF HugeOK, InTree
    <2> QED
      BY Zenon, <2>1, <2>4, <2>5, <1>e
  <1>6. CASE RecForget
    <2>1. /\ rec = "forget" /\ phase' = "recover" /\ link' = link /\ ~logged'
          /\ tree' = tree /\ scan' = scan /\ rec' = "done" /\ hdr' = hdr
      BY Zenon, <1>6, <1>a DEF RecForget, RecAt
    <2>2. Settled /\ Recoverable
      BY Zenon, <2>1, <1>a, <1>d DEF RecoverOK
    <2>3. RecoverOK'
      BY Zenon, <2>1, <2>2, <1>a DEF RecoverOK, Recoverable, Settled, Midway, Allocated, AllNull
    <2>4. Kind = "huge" => HugeOK'
      BY Zenon, <2>1, <1>a, <1>d DEF HugeOK, InTree
    <2> QED
      BY Zenon, <2>1, <2>3, <2>4, <1>e
  <1>7. CASE RecDone
    <2>1. /\ rec = "done" /\ phase' = "up" /\ link' = link /\ logged' = logged
          /\ tree' = tree /\ hdr' = hdr /\ scan' = (IF Kind = "block" THEN "read" ELSE "off")
      BY Zenon, <1>7, <1>a DEF RecDone, RecAt
    <2>2. Settled /\ ~logged
      BY Zenon, <2>1, <1>a, <1>d DEF RecoverOK
    <2>3. Settled'
      BY Zenon, <2>1, <2>2 DEF Settled, Midway, Allocated, AllNull
    <2>4. \A t \in Thread : pc'[t] = "idle" /\ op'[t].kind = "none"
      BY Zenon, <1>a DEF CallOK
    <2>5. UpOK'
      BY Zenon, <2>1, <2>2, <2>3, <2>4 DEF UpOK, CallAt, Before, After
    <2>6. RecoverOK'
      BY Zenon, <2>1 DEF RecoverOK
    <2>7. Kind = "huge" => HugeOK'
      BY Zenon, <2>1, <2>4, <1>d DEF HugeOK, InTree, HugeAt
    <2> QED
      BY Zenon, <2>5, <2>6, <2>7, <1>b DEF RInv
  <1> QED
    BY Zenon, <1>1, <1>2, <1>3, <1>4, <1>5, <1>6, <1>7 DEF RecoveryStep

\* The invariant is inductive.
LEMMA NextRInv ==
  ASSUME OneCaller, RInv, [Next]_vars
  PROVE  RInv'
  <1>1. TypeOK'
    BY Zenon, NextTypeOK
  <1>2. ASSUME NEW t \in Thread, Reserve(t) \/ ReserveNew(t) \/ CallActivate(t) \/ CallFree(t)
                                 \/ ThreadStep(t)
        PROVE  RInv'
    BY Zenon, <1>1, <1>2, ThreadRInv
  <1>3. CASE ScanRead \/ ScanAdd
    <2>1. /\ phase = "up" /\ phase' = "up" /\ scan # "off" /\ pc' = pc /\ op' = op /\ hdr' = hdr
          /\ link' = link /\ logged' = logged
      BY Zenon, <1>3 DEF ScanRead, ScanAdd
    <2>2. Kind # "huge"
      BY Zenon, <2>1 DEF RInv, HugeOK
    <2>3. OneCall' /\ RecoverOK' /\ \A t \in Thread : CallOK(t)'
      BY ZenonT(30), <2>1 DEF RInv, OneCall, CallOK, RecoverOK
    <2>4. UpOK'
      BY <2>1 DEF RInv, UpOK, CallAt, Before, After, Working, Settled, Midway, Allocated, AllNull, OnFor
    <2> QED
      BY Zenon, <2>2, <2>3, <2>4, <1>1 DEF RInv
  <1>4. CASE UNCHANGED vars
    <2>1. OneCall' /\ RecoverOK' /\ \A t \in Thread : CallOK(t)'
      BY ZenonT(30), <1>4 DEF RInv, OneCall, CallOK, RecoverOK, vars, Recoverable, Settled, Midway, Allocated, AllNull
    <2>2. UpOK'
      BY <1>4 DEF RInv, UpOK, CallAt, Before, After, Working, Settled, Midway, Allocated, AllNull, OnFor, vars
    <2>3. Kind = "huge" => HugeOK'
      BY Zenon, <1>4 DEF RInv, HugeOK, HugeAt, InTree, After, Allocated, vars
    <2> QED
      BY Zenon, <2>1, <2>2, <2>3, <1>1 DEF RInv
  <1> QED
    BY Zenon, <1>1, <1>2, <1>3, <1>4, CrashRInv, RecoveryRInv DEF Next

\* The invariant holds at the start.
LEMMA InitRInv ==
  ASSUME OneCaller, Init
  PROVE  RInv
  <1>1. TypeOK
    <2>1. hdr \in Header
      BY Zenon DEF Init, Header, ClearOn, NoPtrSet
    <2>2. op \in [Thread -> [kind : {"none", "activate", "free"}, links : LinkArgs]]
      BY SMTT(30) DEF Init, NoOp, LinkArgs, NoLinks
    <2>3. tree \in Nat /\ crashes \in 0 .. MaxCrash
      BY SMTT(30) DEF Init, OneCaller, Logged
    <2>4. logged \in BOOLEAN
      BY Zenon DEF Init
    <2> QED
      BY Zenon, <2>1, <2>2, <2>3, <2>4 DEF Init, TypeOK
  <1>2. OneCall /\ RecoverOK /\ \A t \in Thread : CallOK(t)
    BY Zenon DEF Init, OneCall, RecoverOK, CallOK, NoOp
  <1>3. UpOK
    BY Zenon DEF Init, UpOK, CallAt, Before, After, Settled, Midway, Allocated, AllNull, OneCaller, Used
  <1>4. Kind = "huge" => HugeOK
    BY SMTT(30) DEF Init, HugeOK, HugeAt, InTree, NoOp
  <1> QED
    BY Zenon, <1>1, <1>2, <1>3, <1>4 DEF RInv

--------------------------------------------------------------------------------
(* What follows from the invariant. *)

\* The inductive invariant holds of every state of a huge region with any
\* number of threads, and of a block with one.
THEOREM RInvHolds == OneCaller => (Spec => []RInv)
  <1> SUFFICES ASSUME OneCaller PROVE Spec => []RInv
    BY Zenon
  <1>1. Init => RInv
    BY Zenon, InitRInv
  <1>2. RInv /\ [Next]_vars => RInv'
    BY Zenon, NextRInv
  <1> QED
    BY <1>1, <1>2, PTL DEF Spec

\* nvm_reserve, nvm_activate, nvm_free and the replay never give a huge region
\* two owners, whatever crashes: tree_add puts it back once, and nobody who is
\* still at work on it.
THEOREM HugeHasOneOwner == HugeRegion => (Spec => []SingleOwner)
  <1> SUFFICES ASSUME HugeRegion PROVE Spec => []SingleOwner
    BY Zenon
  <1>1. OneCaller
    BY Zenon DEF HugeRegion, OneCaller
  <1>2. RInv => SingleOwner
    <2> SUFFICES ASSUME RInv, phase = "up"
                 PROVE  /\ tree <= 1 /\ \A t, u \in Holders : t = u
                        /\ tree = 1 => Holders = {} /\ ~Allocated
      BY Zenon DEF SingleOwner
    <2>1. InTree /\ \A t \in Thread : HugeAt(t)
      BY Zenon DEF RInv, HugeRegion, HugeOK
    <2>2. tree <= 1 /\ (tree = 1 => ~Allocated)
      BY SMTT(30), <2>1 DEF InTree, Allocated, Used
    <2>3. \A t, u \in Holders : t = u
      BY Zenon DEF Holders, RInv, OneCall
    <2>4. tree = 1 => Holders = {}
      BY SMTT(30), <2>1 DEF Holders, HugeAt
    <2> QED
      BY Zenon, <2>2, <2>3, <2>4
  <1> QED
    BY <1>1, <1>2, RInvHolds, PTL

\* When no call is in progress the header records no half-done one and a cell
\* names only an allocated region: what nvm_initialize_recovered leaves is
\* settled, whatever step of a logged call or of the replay the crashes hit.
THEOREM RestartsAreSettled == OneCaller => (Spec => []QuietIsSettled)
  <1> SUFFICES ASSUME OneCaller PROVE Spec => []QuietIsSettled
    BY Zenon
  <1>1. RInv => QuietIsSettled
    <2> SUFFICES ASSUME RInv, Quiet
                 PROVE  /\ hdr.state \notin {"ACTIVATING", "FREEING"}
                        /\ (\E c \in Cell : link[c] # "null") => Allocated
      BY Zenon DEF QuietIsSettled
    <2>1. Settled
      BY Zenon DEF RInv, UpOK, Working, Quiet
    <2> QED
      BY Zenon, <2>1 DEF Settled, Midway, AllNull
  <1> QED
    BY <1>1, RInvHolds, PTL

--------------------------------------------------------------------------------
(* The calls on a huge region implement the atomic ones. *)

\* A call that has been made and has not taken effect, and what it asks for.
Made(t) == pc[t] \in {"log", "on1", "on2", "commit", "spin"}
           \/ (pc[t] = "settle" /\ op[t].links = NoLinks)
RequestOf(t) == [kind |-> op[t].kind, slot |-> 0, cells |-> Cells(op[t].links)]

\* A step that leaves the recovered header, cells and requests alone.
Stutters == UNCHANGED <<RecoveredUsed, RecoveredCell, Pending>>

\* A header without a half-done call stands for itself.
LEMMA SettledStandsForItself ==
  ASSUME ~Midway
  PROVE  /\ RecoveredUsed = IF Allocated THEN {0} ELSE {}
         /\ RecoveredCell = [c \in Cell |-> IF link[c] = "null" THEN -1 ELSE 0]
  BY Zenon DEF Midway, RecoveredUsed, RecoveredCell

\* A call of thread t that takes effect is the step of the atomic one.
LEMMA CallSimulates ==
  ASSUME HugeRegion, RInv, RInv', NEW t \in Thread,
         Reserve(t) \/ ReserveNew(t) \/ CallActivate(t) \/ CallFree(t) \/ ThreadStep(t)
  PROVE  Stutters \/ \E r \in Atomic!Request : Atomic!Ask(r) \/ Atomic!Do(r)
  <1>o. OneCaller
    BY Zenon DEF HugeRegion, OneCaller
  <1>a. /\ hdr \in Header /\ link \in [Cell -> {"null", "rel", "abs"}]
        /\ hdr.on \in [1 .. 2 -> [ptr : Cell \cup {NoCell}, value : {"null", "rel"}]]
        /\ op \in [Thread -> [kind : {"none", "activate", "free"}, links : LinkArgs]]
        /\ op[t].links \in LinkArgs /\ op[t].kind \in {"none", "activate", "free"}
        /\ op' \in [Thread -> [kind : {"none", "activate", "free"}, links : LinkArgs]]
        /\ op'[t].links \in LinkArgs
        /\ pc \in [Thread -> {"idle", "reserved", "log", "on1", "on2", "commit", "link1",
                        "link2", "settle", "clear", "add", "spin"}]
        /\ NoCell \notin Cell /\ Used = "HUGE" /\ Kind = "huge"
    BY Zenon DEF RInv, TypeOK, Header, HugeRegion, Logged, Used
  <1>b. phase = "up" /\ phase' = "up"
    BY Zenon DEF Reserve, ReserveNew, CallActivate, CallFree, ThreadStep, Log, StoreOn1, StoreOn2, Commit,
           Link1, Link2, Settle, Clear, Add, At, MayCall
  <1>c. /\ CallOK(t) /\ CallAt(t) /\ HugeAt(t) /\ CallOK(t)' /\ CallAt(t)'
    BY Zenon, <1>a, <1>b DEF RInv, UpOK, HugeOK
  <1>d. \A u \in Thread \ {t} : pc[u] = "idle" /\ pc'[u] = "idle"
    <2>1. \A u \in Thread \ {t} : pc[u] = "idle"
      BY Zenon, <1>b, <1>o, CallerIsAlone DEF Reserve, ReserveNew, CallActivate, CallFree, ThreadStep, Log,
           StoreOn1, StoreOn2, Commit, Link1, Link2, Settle, Clear, Add, At
    <2> QED
      BY SMTT(30), <2>1, <1>a DEF Reserve, ReserveNew, CallActivate, CallFree, ThreadStep, Log, StoreOn1,
           StoreOn2, Commit, Link1, Link2, Settle, Clear, Add, Goto
  <1>e. ~Working(t) => Settled /\ ~Midway
    BY Zenon, <1>b, <1>d DEF RInv, UpOK, Working, Settled
  <1>p. /\ Made(t) => Pending = {RequestOf(t)}
        /\ ~Made(t) => Pending = {}
        /\ Made(t)' => Pending' = {RequestOf(t)'}
        /\ ~Made(t)' => Pending' = {}
    <2>1. \A u \in Thread : Made(u) => u = t
      BY SMTT(30), <1>d DEF Made
    <2>2. \A u \in Thread : Made(u)' => u = t
      BY SMTT(30), <1>d DEF Made
    <2>3. Pending = {RequestOf(u) : u \in {v \in Thread : Made(v)}}
      BY Zenon DEF Pending, RequestOf, Made
    <2>4. Pending' = {RequestOf(u)' : u \in {v \in Thread : Made(v)'}}
      BY Zenon DEF Pending, RequestOf, Made
    <2> QED
      BY Zenon, <2>1, <2>2, <2>3, <2>4
  <1>q. /\ op'[t].kind # "none" => RequestOf(t)' \in Atomic!Request
        /\ op[t].kind # "none" => RequestOf(t) \in Atomic!Request
    <2>1. Cells(op[t].links) \subseteq Cell /\ Cells(op'[t].links) \subseteq Cell
      BY SMTT(30), <1>a DEF Cells, LinkArgs
    <2>2. 0 \in Atomic!Objects
      BY SMTT(30) DEF Atomic!Objects
    <2>3. op'[t].kind \in {"none", "activate", "free"}
      BY Zenon, <1>a
    <2> QED
      BY Zenon, <2>1, <2>2, <2>3, <1>a DEF RequestOf, Atomic!Request
  <1>r. /\ ~Midway => /\ RecoveredUsed = IF Allocated THEN {0} ELSE {}
                      /\ RecoveredCell = [c \in Cell |-> IF link[c] = "null" THEN -1 ELSE 0]
        /\ ~Midway' => /\ RecoveredUsed' = IF Allocated' THEN {0} ELSE {}
                       /\ RecoveredCell' = [c \in Cell |-> IF link'[c] = "null" THEN -1 ELSE 0]
    BY Zenon, SettledStandsForItself DEF Midway, RecoveredUsed, RecoveredCell, Allocated
  <1>s. ASSUME Made(t)' <=> Made(t), op'[t] = op[t] \/ ~Made(t),
               RecoveredUsed' = RecoveredUsed, RecoveredCell' = RecoveredCell
        PROVE  Stutters
    BY Zenon, <1>p, <1>s DEF Stutters, RequestOf
  <1>1. CASE Reserve(t) \/ ReserveNew(t)
    <2>1. ~Made(t) /\ ~Made(t)' /\ link' = link /\ ~Midway
      BY Zenon, <1>1, <1>a, <1>e DEF Reserve, ReserveNew, Made, MayCall, At, Goto, Working
    <2>2. ~Midway' /\ (Allocated' <=> Allocated)
      BY SMTT(30), <1>1, <2>1, <1>a DEF Reserve, ReserveNew, Midway, Allocated
    <2>3. RecoveredUsed' = RecoveredUsed /\ RecoveredCell' = RecoveredCell
      BY Zenon, <2>1, <2>2, <1>r
    <2> QED
      BY Zenon, <2>1, <2>3, <1>s
  <1>2. CASE CallActivate(t)
    <2>1. PICK l \in LinkArgs : (\A c \in Cells(l) : link[c] = "null") /\ op' = [op EXCEPT ![t].links = l]
      BY Zenon, <1>2 DEF CallActivate
    <2>2. /\ ~Made(t) /\ Made(t)' /\ hdr' = hdr /\ link' = link /\ pc[t] = "reserved"
          /\ op'[t].links = l /\ op'[t].kind = op[t].kind
      BY SMTT(30), <1>2, <2>1, <1>a DEF CallActivate, Made, At, Goto
    <2>3. op[t].kind = "activate" /\ ~Allocated /\ ~Midway
      BY Zenon, <2>2, <1>c, <1>e DEF CallOK, HugeAt, Working
    <2>4. RequestOf(t)' \in Atomic!Request /\ RequestOf(t)'.kind = "activate" /\ RequestOf(t)'.slot = 0
          /\ RequestOf(t)'.cells = Cells(l)
      BY Zenon, <2>2, <2>3, <1>q DEF RequestOf
    <2>5. /\ Pending = {} /\ Pending' = {RequestOf(t)'}
          /\ RecoveredUsed' = RecoveredUsed /\ RecoveredCell' = RecoveredCell
      BY Zenon, <2>2, <1>p DEF RecoveredUsed, RecoveredCell, Allocated
    <2>6. 0 \notin RecoveredUsed /\ \A c \in Cells(l) : RecoveredCell[c] = -1
      BY SMTT(30), <2>1, <2>3, <1>r, <1>a DEF Cells, LinkArgs
    <2>7. Atomic!Ask(RequestOf(t)')
      BY Zenon, <2>4, <2>5, <2>6 DEF Atomic!Ask, Atomic!Legal
    <2> QED
      BY Zenon, <2>4, <2>7
  <1>3. CASE CallFree(t)
    <2>1. PICK l \in LinkArgs : /\ Cells(l) = {c \in Cell : link[c] # "null"}
                                /\ op' = [op EXCEPT ![t] = [kind |-> "free", links |-> l]]
                                /\ pc' = [pc EXCEPT ![t] = IF l[1] = NoCell THEN "settle" ELSE "on1"]
      BY Zenon, <1>3 DEF CallFree, Goto
    <2>2. l[1] = NoCell => l = NoLinks
      BY SMTT(30) DEF LinkArgs, NoLinks
    <2>3. /\ ~Made(t) /\ Made(t)' /\ hdr' = hdr /\ link' = link /\ pc[t] = "idle"
          /\ op'[t].links = l /\ op'[t].kind = "free"
      BY Zenon, <1>3, <2>1, <2>2, <1>a DEF CallFree, Made, MayCall, At
    <2>4. Before(t)'
      BY Zenon, <2>1, <2>2, <2>3, <1>a DEF Before
    <2>5. Allocated /\ ~Midway
      BY Zenon, <2>3, <2>4, <1>c, <1>e DEF CallAt, Allocated, Working
    <2>6. RequestOf(t)' \in Atomic!Request /\ RequestOf(t)'.kind = "free" /\ RequestOf(t)'.slot = 0
          /\ RequestOf(t)'.cells = Cells(l)
      BY Zenon, <2>3, <1>q DEF RequestOf
    <2>7. /\ Pending = {} /\ Pending' = {RequestOf(t)'}
          /\ RecoveredUsed' = RecoveredUsed /\ RecoveredCell' = RecoveredCell
      BY Zenon, <2>3, <1>p DEF RecoveredUsed, RecoveredCell, Allocated
    <2>8. 0 \in RecoveredUsed /\ Cells(l) = {c \in Cell : RecoveredCell[c] = 0}
      BY SMTT(30), <2>1, <2>5, <1>r
    <2>9. Atomic!Ask(RequestOf(t)')
      BY Zenon, <2>6, <2>7, <2>8 DEF Atomic!Ask, Atomic!Legal
    <2> QED
      BY Zenon, <2>6, <2>9
  <1>4. CASE Log(t)
    <2>1. /\ pc[t] = "log" /\ hdr' = hdr /\ link' = link /\ op' = op
          /\ pc'[t] = IF op[t].links[1] = NoCell THEN "settle" ELSE "on1"
      BY Zenon, <1>4, <1>a DEF Log, At, Goto
    <2>2. op[t].links[1] = NoCell => op[t].links = NoLinks
      BY SMTT(30), <1>a DEF LinkArgs, NoLinks
    <2>3. RecoveredUsed' = RecoveredUsed /\ RecoveredCell' = RecoveredCell
      BY Zenon, <2>1 DEF RecoveredUsed, RecoveredCell, Allocated
    <2> QED
      BY Zenon, <2>1, <2>2, <2>3, <1>s DEF Made
  <1>5. CASE StoreOn1(t) \/ StoreOn2(t) \/ Clear(t) \/ Add(t)
    <2>1. /\ hdr'.usage = hdr.usage /\ hdr'.state = hdr.state /\ link' = link
          /\ pc[t] \in {"on1", "on2", "clear", "add"}
      BY Zenon, <1>5, <1>a DEF StoreOn1, StoreOn2, StoreOn, Clear, Add, At, Header
    <2>2. ~Midway /\ ~Midway' /\ (Allocated' <=> Allocated)
      BY Zenon, <2>1, <1>c DEF CallAt, Before, Midway, Allocated
    <2>3. RecoveredUsed' = RecoveredUsed /\ RecoveredCell' = RecoveredCell
      BY Zenon, <2>1, <2>2, <1>r
    <2>4. (Made(t)' <=> Made(t)) /\ (op'[t] = op[t] \/ ~Made(t))
      BY ZenonT(30), <1>5, <1>a DEF StoreOn1, StoreOn2, Clear, Add, At, Goto, Made
    <2> QED
      BY Zenon, <2>3, <2>4, <1>s
  <1>6. CASE Commit(t)
    <2>1. /\ pc[t] = "commit" /\ pc'[t] = "link1" /\ link' = link /\ op' = op
          /\ hdr'.usage = Used /\ hdr'.on = hdr.on
          /\ hdr'.state = IF op[t].kind = "activate" THEN "ACTIVATING" ELSE "FREEING"
      BY Zenon, <1>6, <1>a DEF Commit, At, Goto, Header
    <2>2. Before(t) /\ op[t].kind \in {"activate", "free"}
      BY Zenon, <2>1, <1>a, <1>c DEF Before, CallOK
    <2>3. /\ ~Midway /\ op[t].links[1] # NoCell
          /\ op[t].kind = "activate" => ~Allocated
          /\ op[t].kind = "free" => Allocated
          /\ hdr.on[1].ptr = op[t].links[1]
          /\ op[t].links[2] # NoCell => hdr.on[2].ptr = op[t].links[2]
      <3>1. hdr.state \in {"INITIALIZED", "INITIALIZING"} => ~Midway
        BY DEF Midway
      <3>2. /\ hdr.state \in {"INITIALIZED", "INITIALIZING"} /\ op[t].links[1] # NoCell
            /\ op[t].kind = "activate" => ~Allocated
            /\ op[t].kind = "free" => Allocated
            /\ hdr.on[1] = OnFor(t, 1)
            /\ op[t].links[2] # NoCell => hdr.on[2] = OnFor(t, 2)
        BY Zenon, <2>1, <2>2, <1>c DEF CallAt
      <3>3. OnFor(t, 1).ptr = op[t].links[1] /\ OnFor(t, 2).ptr = op[t].links[2]
        BY DEF OnFor
      <3> QED
        BY Zenon, <3>1, <3>2, <3>3
    <2>4. op[t].links[2] = NoCell /\ op[t].kind = "activate" => hdr.on[2].ptr = NoCell
      BY Zenon, <2>1, <1>c DEF HugeAt
    <2>5. op[t].kind = "free" => \A c \in Cell \ Cells(op[t].links) : link[c] = "null"
      BY ZenonT(30), <2>2, <1>c DEF CallAt
    <2>6. \A c \in Cell : c \in Cells(op[t].links) <=> c = op[t].links[1] \/ c = op[t].links[2]
      BY SMTT(30), <1>a DEF Cells
    <2>7. RecoveredUsed' = IF op[t].kind = "activate" THEN RecoveredUsed \cup {0} ELSE RecoveredUsed \ {0}
      BY Zenon, <2>1, <2>2, <2>3, <1>r DEF RecoveredUsed, Allocated
    <2>8. RecoveredCell' = [c \in Cell |-> IF c \notin Cells(op[t].links) THEN RecoveredCell[c]
                                           ELSE IF op[t].kind = "activate" THEN 0 ELSE -1]
      <3>1. ASSUME NEW c \in Cell
            PROVE  RecoveredCell'[c] = IF c \notin Cells(op[t].links) THEN RecoveredCell[c]
                                       ELSE IF op[t].kind = "activate" THEN 0 ELSE -1
        <4>1. RecoveredCell[c] = IF link[c] = "null" THEN -1 ELSE 0
          BY Zenon, <2>3, <1>r
        <4>2. RecoveredCell'[c] = IF hdr.on[1].ptr = c \/ hdr.on[2].ptr = c
                                  THEN IF op[t].kind = "activate" THEN 0 ELSE -1
                                  ELSE IF link[c] = "null" THEN -1 ELSE 0
          BY Zenon, <2>1, <2>2, <2>3 DEF RecoveredCell
        <4>3. CASE op[t].kind = "activate"
          BY Zenon, <4>1, <4>2, <4>3, <2>3, <2>4, <2>6, <1>a
        <4>4. CASE op[t].kind = "free"
          BY Zenon, <4>1, <4>2, <4>4, <2>3, <2>5, <2>6, <1>a
        <4> QED
          BY Zenon, <4>3, <4>4, <2>2
      <3> QED
        BY Zenon, <3>1 DEF RecoveredCell
    <2>9. Pending = {RequestOf(t)} /\ Pending' = {}
      BY Zenon, <2>1, <1>p DEF Made
    <2>10. RequestOf(t) \in Atomic!Request /\ RequestOf(t).kind = op[t].kind /\ RequestOf(t).slot = 0
           /\ RequestOf(t).cells = Cells(op[t].links)
      BY Zenon, <2>2, <1>q DEF RequestOf
    <2>11. Atomic!Do(RequestOf(t))
      BY Zenon, <2>7, <2>8, <2>9, <2>10 DEF Atomic!Do
    <2> QED
      BY Zenon, <2>10, <2>11
  <1>7. CASE Link1(t) \/ Link2(t)
    <2>1. /\ hdr' = hdr /\ op' = op /\ pc[t] \in {"link1", "link2"}
          /\ link' \in {[link EXCEPT ![op[t].links[1]] = Target(op[t])],
                        [link EXCEPT ![op[t].links[2]] = Target(op[t])]}
          /\ pc[t] = "link1" => link' = [link EXCEPT ![op[t].links[1]] = Target(op[t])]
          /\ pc'[t] \in {"link2", "settle"}
      BY Zenon, <1>7, <1>a DEF Link1, Link2, At, Goto
    <2>2. After(t) /\ op[t].links[1] # NoCell /\ (pc[t] = "link2" => op[t].links[2] # NoCell)
      BY Zenon, <2>1, <1>c DEF After, CallOK
    <2>3. ~Made(t) /\ ~Made(t)'
      BY SMTT(30), <2>1, <2>2 DEF Made, NoLinks
    <2>4. /\ Midway /\ hdr.on[1].ptr = op[t].links[1]
          /\ op[t].links[2] # NoCell => hdr.on[2].ptr = op[t].links[2]
          /\ op[t].links[1] \in Cell /\ (op[t].links[2] # NoCell => op[t].links[2] \in Cell)
      BY SMTT(30), <2>2, <1>a, <1>c DEF CallAt, Midway, OnFor, LinkArgs
    <2>5. \A c \in Cell : link'[c] # link[c] => hdr.on[1].ptr = c \/ hdr.on[2].ptr = c
      BY Zenon, <2>1, <2>2, <2>4, <1>a
    <2>6. RecoveredUsed' = RecoveredUsed /\ RecoveredCell' = RecoveredCell
      BY Zenon, <2>1, <2>2, <2>4, <2>5 DEF RecoveredUsed, RecoveredCell, Allocated, Midway
    <2> QED
      BY Zenon, <2>3, <2>6, <1>s
  <1>8. CASE Settle(t)
    <2>1. /\ pc[t] = "settle" /\ pc'[t] = "clear" /\ link' = link /\ op' = op
          /\ hdr'.usage = (IF op[t].kind = "activate" THEN Used ELSE "FREE")
          /\ hdr'.state = "INITIALIZED"
      BY Zenon, <1>8, <1>a DEF Settle, At, Goto, Header
    <2>2. op[t].kind \in {"activate", "free"} /\ ~Made(t)' /\ ~Midway'
      BY Zenon, <2>1, <1>a, <1>c DEF CallOK, Made, Midway
    <2>3. Allocated' <=> op[t].kind = "activate"
      BY Zenon, <2>1, <2>2, <1>a DEF Allocated
    <2>4. \A c \in Cells(op[t].links) : link[c] = Target(op[t])
      BY Zenon, <2>1, <1>c DEF CallAt
    <2>5. CASE op[t].links = NoLinks
      <3>1. Before(t) /\ Made(t) /\ Cells(op[t].links) = {}
        BY Zenon, <2>1, <2>5 DEF Before, Made, Cells, NoLinks
      <3>2. ~Midway /\ (Allocated <=> op[t].kind = "free")
        BY Zenon, <3>1, <2>2, <1>c DEF CallAt, Midway
      <3>3. RecoveredUsed' = IF op[t].kind = "activate" THEN RecoveredUsed \cup {0} ELSE RecoveredUsed \ {0}
        BY Zenon, <3>2, <2>2, <2>3, <1>r
      <3>4. RecoveredCell' = [c \in Cell |-> RecoveredCell[c]]
        BY Zenon, <3>2, <2>1, <2>2, <1>r
      <3>5. Pending = {RequestOf(t)} /\ Pending' = {}
        BY Zenon, <3>1, <2>2, <1>p
      <3>6. RequestOf(t) \in Atomic!Request /\ RequestOf(t).kind = op[t].kind /\ RequestOf(t).slot = 0
             /\ RequestOf(t).cells = {}
        BY Zenon, <3>1, <2>2, <1>q DEF RequestOf
      <3>7. Atomic!Do(RequestOf(t))
        BY Zenon, <3>3, <3>4, <3>5, <3>6 DEF Atomic!Do
      <3> QED
        BY Zenon, <3>6, <3>7
    <2>6. CASE op[t].links # NoLinks
      <3>1. After(t) /\ ~Made(t)
        BY ZenonT(30), <2>1, <2>6 DEF After, Made
      <3>2. /\ hdr.usage = Used /\ op[t].links[1] # NoCell
            /\ hdr.state = IF op[t].kind = "activate" THEN "ACTIVATING" ELSE "FREEING"
            /\ hdr.on[1].ptr = op[t].links[1]
            /\ op[t].links[2] # NoCell => hdr.on[2].ptr = op[t].links[2]
            /\ op[t].kind = "free" => \A c \in Cell \ Cells(op[t].links) : link[c] = "null"
        <4>1. /\ hdr.usage = Used /\ op[t].links[1] # NoCell
              /\ hdr.state = IF op[t].kind = "activate" THEN "ACTIVATING" ELSE "FREEING"
              /\ op[t].kind = "free" => \A c \in Cell \ Cells(op[t].links) : link[c] = "null"
          BY Zenon, <3>1, <1>c DEF CallAt
        <4>2. /\ hdr.on[1] = OnFor(t, 1)
              /\ op[t].links[2] # NoCell => hdr.on[2] = OnFor(t, 2)
          BY Zenon, <3>1, <1>c DEF CallAt
        <4> QED
          BY SMTT(30), <4>1, <4>2 DEF OnFor
      <3>3. op[t].links[2] = NoCell /\ op[t].kind = "activate" => hdr.on[2].ptr = NoCell
        BY Zenon, <3>1, <1>c DEF HugeAt
      <3>4. RecoveredUsed' = RecoveredUsed
        BY Zenon, <3>2, <2>2, <2>3, <1>r DEF RecoveredUsed, Allocated
      <3>5. ASSUME NEW c \in Cell
            PROVE  RecoveredCell[c] = IF link[c] = "null" THEN -1 ELSE 0
        <4>1. CASE op[t].kind = "activate"
          BY SMTT(30), <4>1, <3>2, <3>3, <2>4, <1>a DEF RecoveredCell, Cells, Target
        <4>2. CASE op[t].kind = "free"
          BY Zenon, <4>2, <3>2, <2>4, <1>a DEF RecoveredCell, Cells, Target
        <4> QED
          BY Zenon, <4>1, <4>2, <2>2
      <3>6. RecoveredCell' = RecoveredCell
        BY Zenon, <3>5, <2>1, <2>2, <1>r DEF RecoveredCell
      <3> QED
        BY Zenon, <3>1, <3>4, <3>6, <2>2, <1>s
    <2> QED
      BY Zenon, <2>5, <2>6
  <1> QED
    BY Zenon, <1>1, <1>2, <1>3, <1>4, <1>5, <1>6, <1>7, <1>8 DEF ThreadStep

\* A step of the recovery changes nothing that it would itself make of the header.
LEMMA RecoverySimulates ==
  ASSUME HugeRegion, RInv, RInv', RecoveryStep
  PROVE  Stutters
  <1>a. /\ hdr \in Header /\ link \in [Cell -> {"null", "rel", "abs"}]
        /\ hdr.on \in [1 .. 2 -> [ptr : Cell \cup {NoCell}, value : {"null", "rel"}]]
        /\ hdr.on[1].ptr \in Cell \cup {NoCell} /\ hdr.on[2].ptr \in Cell \cup {NoCell}
        /\ NoCell \notin Cell /\ Used = "HUGE" /\ Kind = "huge"
    BY SMTT(30) DEF RInv, TypeOK, Header, HugeRegion, Logged, Used
  <1>b. phase = "recover" /\ pc' = pc /\ op' = op
    BY Zenon DEF RecoveryStep, RecScan, RecAssertFails, RecLink1, RecLink2, RecClear, RecSettle,
           RecForget, RecDone, RecAt
  <1>c. RecoverOK /\ HugeOK
    BY Zenon, <1>a DEF RInv
  <1>d. Pending' = Pending
    BY Zenon, <1>b DEF Pending
  <1>1. CASE RecScan \/ RecAssertFails \/ RecForget \/ RecDone
    <2>1. hdr' = hdr /\ link' = link
      BY Zenon, <1>1 DEF RecScan, RecAssertFails, RecForget, RecDone
    <2> QED
      BY Zenon, <2>1, <1>d DEF Stutters, RecoveredUsed, RecoveredCell, Allocated
  <1>2. CASE RecLink1 \/ RecLink2
    <2>1. /\ hdr' = hdr /\ rec \in {"link1", "link2"}
          /\ rec = "link1" => link' = [link EXCEPT ![hdr.on[1].ptr] = Replayed(hdr.on[1].value)]
          /\ rec = "link2" => link' = [link EXCEPT ![hdr.on[2].ptr] = Replayed(hdr.on[2].value)]
      BY Zenon, <1>2 DEF RecLink1, RecLink2, RecAt
    <2>2. Midway /\ hdr.on[1].ptr # NoCell
      BY Zenon, <2>1, <1>b, <1>c DEF RecoverOK
    <2>3. \A c \in Cell : link'[c] # link[c] => hdr.on[1].ptr = c \/ hdr.on[2].ptr = c
      BY Zenon, <2>1, <1>a
    <2>4. RecoveredUsed' = RecoveredUsed /\ RecoveredCell' = RecoveredCell
      BY Zenon, <2>1, <2>2, <2>3 DEF RecoveredUsed, RecoveredCell, Allocated, Midway
    <2> QED
      BY Zenon, <2>4, <1>d DEF Stutters
  <1>3. CASE RecClear
    <2>1. /\ rec = "clear" /\ link' = link
          /\ hdr'.usage = hdr.usage /\ hdr'.state = hdr.state /\ hdr'.on = ClearOn
      BY Zenon, <1>3, <1>a DEF RecClear, RecAt, Header
    <2>2. /\ Midway /\ Recoverable /\ (hdr.state = "FREEING" => AllNull)
          /\ hdr.state = "ACTIVATING" =>
               \A k \in 1 .. 2 : hdr.on[k].ptr # NoCell => link[hdr.on[k].ptr] # "null"
      BY Zenon, <2>1, <1>b, <1>c DEF RecoverOK, HugeOK
    <2>3. RecoveredUsed' = RecoveredUsed
      BY Zenon, <2>1 DEF RecoveredUsed, Allocated
    <2>4. ASSUME NEW c \in Cell
          PROVE  RecoveredCell'[c] = RecoveredCell[c]
      <3>1. RecoveredCell'[c] = IF link[c] = "null" THEN -1 ELSE 0
        BY SMTT(30), <2>1, <1>a DEF RecoveredCell, ClearOn, NoPtrSet
      <3>2. CASE hdr.state = "FREEING"
        BY Zenon, <3>1, <3>2, <2>2 DEF RecoveredCell, AllNull
      <3>3. CASE hdr.state = "ACTIVATING"
        BY SMTT(30), <3>1, <3>3, <2>2, <1>a DEF RecoveredCell
      <3> QED
        BY Zenon, <3>2, <3>3, <2>2 DEF Midway
    <2>5. RecoveredCell' = RecoveredCell
      BY Zenon, <2>4 DEF RecoveredCell
    <2> QED
      BY Zenon, <2>3, <2>5, <1>d DEF Stutters
  <1>4. CASE RecSettle
    <2>1. /\ rec = "settle" /\ link' = link
          /\ hdr'.usage = (IF hdr.state = "FREEING" THEN "FREE" ELSE Used)
          /\ hdr'.state = "INITIALIZED" /\ hdr'.on = hdr.on
      BY Zenon, <1>4, <1>a DEF RecSettle, RecAt, Header
    <2>2. Midway /\ hdr.on = ClearOn
      BY Zenon, <2>1, <1>b, <1>c DEF RecoverOK
    <2>3. RecoveredUsed' = RecoveredUsed
      BY Zenon, <2>1, <2>2, <1>a DEF RecoveredUsed, Allocated, Midway
    <2>4. RecoveredCell' = RecoveredCell
      BY SMTT(30), <2>1, <2>2, <1>a DEF RecoveredCell, ClearOn, NoPtrSet
    <2> QED
      BY Zenon, <2>3, <2>4, <1>d DEF Stutters
  <1> QED
    BY Zenon, <1>1, <1>2, <1>3, <1>4 DEF RecoveryStep

\* Every step is a step of the atomic calls or changes nothing there.
LEMMA StepSimulates ==
  ASSUME HugeRegion, RInv, RInv', [Next]_vars
  PROVE  [Atomic!Next]_(Atomic!absvars)
  <1>1. ASSUME NEW t \in Thread, Reserve(t) \/ ReserveNew(t) \/ CallActivate(t) \/ CallFree(t)
                                 \/ ThreadStep(t)
        PROVE  [Atomic!Next]_(Atomic!absvars)
    <2>1. Stutters \/ \E r \in Atomic!Request : Atomic!Ask(r) \/ Atomic!Do(r)
      BY Zenon, <1>1, CallSimulates
    <2> QED
      BY Zenon, <2>1 DEF Stutters, Atomic!Next, Atomic!absvars
  <1>2. CASE Crash
    <2>1. hdr' = hdr /\ link' = link /\ \A t \in Thread : pc'[t] = "idle"
      BY Zenon, <1>2 DEF Crash
    <2>2. Pending' = {}
      BY Zenon, <2>1 DEF Pending
    <2>3. RecoveredUsed' = RecoveredUsed /\ RecoveredCell' = RecoveredCell
      BY Zenon, <2>1 DEF RecoveredUsed, RecoveredCell, Allocated
    <2>4. Atomic!Forget
      BY Zenon, <2>2, <2>3 DEF Atomic!Forget
    <2> QED
      BY Zenon, <2>4 DEF Atomic!Next
  <1>3. CASE RecoveryStep
    BY Zenon, <1>3, RecoverySimulates DEF Stutters, Atomic!absvars
  <1>4. CASE ScanRead \/ ScanAdd \/ UNCHANGED vars
    <2>1. hdr' = hdr /\ link' = link /\ pc' = pc /\ op' = op
      BY Zenon, <1>4 DEF ScanRead, ScanAdd, vars
    <2> QED
      BY Zenon, <2>1 DEF Atomic!absvars, RecoveredUsed, RecoveredCell, Allocated, Pending
  <1> QED
    BY Zenon, <1>1, <1>2, <1>3, <1>4 DEF Next

\* nvm_activate and nvm_free on a huge region are failure-atomic, for any number
\* of threads, cells and crashes that hit calls the log names: with every such
\* crash and every step of the replay they implement calls that take effect in one
\* step or not at all.
THEOREM HugeCallsImplementAtomicOnes == HugeRegion => (Spec => CallsAreFailureAtomic)
  <1> SUFFICES ASSUME HugeRegion PROVE Spec => CallsAreFailureAtomic
    BY Zenon
  <1>1. OneCaller
    BY Zenon DEF HugeRegion, OneCaller
  <1>2. Init => Atomic!Init
    <2> SUFFICES ASSUME Init PROVE Atomic!Init
      BY Zenon
    <2>1. RecoveredUsed = {} /\ RecoveredCell = [c \in Cell |-> -1]
      BY Zenon DEF Init, RecoveredUsed, RecoveredCell, Allocated, HugeRegion, Used
    <2>2. Pending = {}
      BY Zenon DEF Init, Pending
    <2> QED
      BY Zenon, <2>1, <2>2 DEF Atomic!Init
  <1>3. RInv /\ RInv' /\ [Next]_vars => [Atomic!Next]_(Atomic!absvars)
    BY Zenon, StepSimulates
  <1> QED
    BY <1>1, <1>2, <1>3, RInvHolds, PTL DEF Spec, Atomic!Spec, CallsAreFailureAtomic

================================================================================
