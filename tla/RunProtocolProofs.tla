--------------------------- MODULE RunProtocolProofs ---------------------------
(******************************************************************************)
(* Proofs about RunProtocol for every number of threads, slots, link cells,    *)
(* log entries, crashes and foreign activations and every durability.          *)
(******************************************************************************)
EXTENDS RunProtocol, TLAPS

\* The steps of a call at which it has not yet written its bit.
BeforeBitmap(t) == \/ pc[t] \in {"reserved", "log_claim", "log_store", "cas"}
                   \/ Preparing(t)
                   \/ pc[t] \in {"link1", "link2", "bitmap"}

\* What a thread knows of its call, and of the slot it is about while the run has
\* one VHeader.
CallOK(t) ==
  /\ pc[t] = "idle" <=> op[t].kind = "none"
  /\ pc[t] = "idle" <=> op[t].slot = NoBit
  /\ pc[t] \in {"reserved", "log_claim", "log_store"} => op[t].kind = "activate"
  /\ pc[t] = "vfree" => op[t].kind = "free"
  /\ pc[t] \in {"on1", "on2", "commit", "link1", "link2"} => op[t].links[1] # NoCell
  /\ op[t].kind = "activate" => fresh
  /\ op[t].kind = "free" /\ pc[t] \notin {"cas", "prepare"} => fresh
  /\ old = {} /\ op[t].kind = "activate" =>
       /\ op[t].slot \in vbitmap
       /\ BeforeBitmap(t) => op[t].slot \notin hdr.bitmap
  /\ old = {} /\ op[t].kind = "free" =>
       /\ BeforeBitmap(t) => op[t].slot \in hdr.bitmap
       /\ ~BeforeBitmap(t) => op[t].slot \notin hdr.bitmap
       /\ fresh => op[t].slot \in vbitmap

\* No two calls are about the same slot.
SlotsDistinct ==
  old = {} => \A t, u \in Thread : t # u /\ op[t].slot = op[u].slot => op[t].slot = NoBit

\* What is used on NVRAM is used in the VHeader.
BitmapsOK == old = {} /\ fresh => hdr.bitmap \subseteq vbitmap

\* The recovery replays the run before it gives it a VHeader, and never after.
ReplayOK ==
  phase = "recover" =>
    /\ \A t \in Thread : pc[t] = "idle"
    /\ fresh => /\ rec.at \notin {"link1", "link2", "bitmap"}
                /\ rec.at \in {"scan", "forget"} => hdr.state = "INITIALIZED"

\* The inductive invariant.
IInv ==
  /\ TypeOK
  /\ HeaderExclusion
  /\ BitmapsOK
  /\ \A t \in Thread : CallOK(t)
  /\ SlotsDistinct
  /\ ReplayOK

--------------------------------------------------------------------------------

USE RunAssumption

\* A run that arena_create_run has just made satisfies the invariant.
LEMMA InitIInv == Init => IInv
  <1> SUFFICES ASSUME Init PROVE IInv
    BY Zenon
  <1>1. TypeOK
    <2> NoOp \in Op
      BY DEF Op, NoOp, NoLinks, LinkArgs
    <2> EmptyHeader \in Header
      BY Zenon DEF EmptyHeader, Header, RunState, ClearOn, NoPtrSet, PtrSet
    <2> Null \in LinkVal
      BY Zenon DEF LinkVal, Null
    <2> QED
      BY DEF Init, TypeOK, LogVal, RecPCs, PCs
  <1>2. \A t \in Thread : pc[t] = "idle" /\ op[t] = NoOp
    BY Zenon DEF Init
  <1>3. HeaderExclusion
    BY Zenon, <1>2 DEF HeaderExclusion, Holds, Preparing
  <1>4. \A t \in Thread : CallOK(t)
    BY <1>2 DEF CallOK, NoOp
  <1>5. SlotsDistinct
    BY <1>2 DEF SlotsDistinct, NoOp
  <1>6. QED
    BY Zenon, <1>1, <1>3, <1>4, <1>5 DEF Init, IInv, BitmapsOK, ReplayOK, EmptyHeader

\* The three kinds of store keep NVRAM, cached and durable, in its type.
MemoryOK ==
  /\ hdr \in Header
  /\ link \in [Cell -> LinkVal]
  /\ log \in [0 .. LogSize - 1 -> LogVal]
  /\ nvm \in [hdr : Header, link : [Cell -> LinkVal],
              log : [0 .. LogSize - 1 -> LogVal]]

\* A store to the header line leaves a memory of the right type.
LEMMA StoreHdrType ==
  ASSUME MemoryOK, NEW h \in Header, StoreHdr(h)
  PROVE  MemoryOK'
BY Zenon DEF MemoryOK, StoreHdr

\* So does a store to a link cell ...
LEMMA StoreLinkType ==
  ASSUME MemoryOK, NEW c, NEW v \in LinkVal, StoreLink(c, v)
  PROVE  MemoryOK'
BY Zenon DEF MemoryOK, StoreLink

\* ... and one to an entry of the log.
LEMMA StoreLogType ==
  ASSUME MemoryOK, NEW i, NEW v \in LogVal, StoreLog(i, v)
  PROVE  MemoryOK'
  <1>1. log' \in [0 .. LogSize - 1 -> LogVal]
    BY Zenon DEF MemoryOK, StoreLog
  <1>2. QED
    BY Zenon, <1>1 DEF MemoryOK, StoreLog

\* A successor of a log index, modulo the size of the ring, is a log index.
LEMMA NextLogType ==
  ASSUME NEW i \in 0 .. LogSize - 1
  PROVE  (i + 1) % LogSize \in 0 .. LogSize - 1
OBVIOUS

\* The arguments of a thread that is in no call are of the right type.
LEMMA NoOpType == NoOp \in Op
BY DEF Op, NoOp, NoLinks, LinkArgs

\* Every step keeps every variable in its type.
LEMMA NextTypeOK ==
  ASSUME TypeOK, \A t \in Thread : CallOK(t), [Next]_vars
  PROVE  TypeOK'
  <1> USE NoOpType
  <1> DEFINE ControlOK == /\ next_log \in 0 .. LogSize - 1
                          /\ fresh \in BOOLEAN
                          /\ vbitmap \in SUBSET Slot
                          /\ old \subseteq [entry : 0 .. LogSize - 1, bitmap : SUBSET Slot]
                          /\ phase \in {"up", "recover"}
                          /\ rec \in [i : 0 .. LogSize, at : RecPCs]
                          /\ pc \in [Thread -> PCs]
                          /\ op \in [Thread -> Op]
                          /\ crashes \in 0 .. MaxCrash
                          /\ foreign \in 0 .. MaxForeign
  <1>a. MemoryOK /\ ControlOK
    BY Zenon DEF TypeOK, MemoryOK
  <1>b. SUFFICES MemoryOK' /\ ControlOK'
    BY Zenon DEF TypeOK, MemoryOK
  <1>c. /\ hdr.state \in RunState /\ hdr.bitmap \in SUBSET Slot
        /\ hdr.bit_idx \in Slot \cup {NoBit} /\ hdr.on \in [1 .. 2 -> PtrSet]
    BY Zenon, <1>a DEF MemoryOK, Header
  <1>d. \A t \in Thread : /\ op[t].slot \in Slot \cup {NoBit}
                          /\ op[t].links \in LinkArgs
                          /\ op[t].links \in [1 .. 2 -> Cell \cup {NoCell}]
                          /\ Target(op[t]) \in Slot \cup {NoBit}
    BY Zenon, <1>a DEF Op, Target, LinkArgs
  <1>e. ASSUME UNCHANGED memory PROVE MemoryOK'
    BY Zenon, <1>a, <1>e DEF memory, MemoryOK
  <1>f. \A s \in Slot \cup {NoBit} : RelPtr(s) \in LinkVal /\ AbsPtr(s) \in LinkVal
    BY Zenon DEF RelPtr, AbsPtr, LinkVal, Null
  <1>g. ASSUME NEW st \in RunState PROVE [hdr EXCEPT !.state = st] \in Header
    BY Zenon, <1>a DEF MemoryOK, Header
  <1>h. ASSUME NEW B \in SUBSET Slot PROVE [hdr EXCEPT !.bitmap = B] \in Header
    BY Zenon, <1>a DEF MemoryOK, Header
  <1>i. ASSUME NEW b \in Slot \cup {NoBit} PROVE [hdr EXCEPT !.bit_idx = b] \in Header
    BY Zenon, <1>a DEF MemoryOK, Header
  <1>j. ASSUME NEW o \in [1 .. 2 -> PtrSet] PROVE [hdr EXCEPT !.on = o] \in Header
    BY Zenon, <1>a DEF MemoryOK, Header
  <1>k. ClearOn \in [1 .. 2 -> PtrSet]
    BY Zenon DEF ClearOn, PtrSet, NoPtrSet
  <1>1. ASSUME NEW t \in Thread, Reserve(t) PROVE MemoryOK' /\ ControlOK'
    <2>1. PICK s \in Slot :
            /\ \/ vbitmap' = vbitmap \cup {s} /\ UNCHANGED old
               \/ /\ \E h \in old : old' = (old \ {h}) \cup {[h EXCEPT !.bitmap = @ \cup {s}]}
                  /\ UNCHANGED vbitmap
            /\ op' = [op EXCEPT ![t] = [NoOp EXCEPT !.kind = "activate", !.slot = s]]
      BY Zenon, <1>1 DEF Reserve
    <2>2. [NoOp EXCEPT !.kind = "activate", !.slot = s] \in Op
      BY Zenon DEF Op, NoOp
    <2>3. vbitmap' \in SUBSET Slot
      BY Zenon, <1>a, <2>1
    <2>4. \A h \in old : [h EXCEPT !.bitmap = @ \cup {s}] \in [entry : 0 .. LogSize - 1, bitmap : SUBSET Slot]
      BY <1>a
    <2>5. old' \subseteq [entry : 0 .. LogSize - 1, bitmap : SUBSET Slot]
      BY Zenon, <1>a, <2>1, <2>4
    <2>6. QED
      BY Zenon, <1>a, <1>e, <1>1, <2>1, <2>2, <2>3, <2>5 DEF Reserve, Goto, PCs
  <1>2. ASSUME NEW t \in Thread, CallActivate(t) PROVE MemoryOK' /\ ControlOK'
    <2>1. op' \in [Thread -> Op]
      BY <1>a, <1>2 DEF CallActivate, Op
    <2>2. QED
      BY Zenon, <1>a, <1>e, <1>2, <2>1 DEF CallActivate, Goto, PCs, volatile
  <1>3. ASSUME NEW t \in Thread, CallFree(t) PROVE MemoryOK' /\ ControlOK'
    <2>1. PICK s \in hdr.bitmap, l \in LinkArgs :
            op' = [op EXCEPT ![t] = [kind |-> "free", slot |-> s, links |-> l, idx |-> 0]]
      BY Zenon, <1>3 DEF CallFree
    <2>2. [kind |-> "free", slot |-> s, links |-> l, idx |-> 0] \in Op
      BY <1>c DEF Op
    <2>3. QED
      BY Zenon, <1>a, <1>e, <1>3, <2>1, <2>2 DEF CallFree, Goto, PCs, volatile
  <1>4. ASSUME NEW t \in Thread, LogClaim(t) PROVE MemoryOK' /\ ControlOK'
    <2>1. op' \in [Thread -> Op]
      BY Zenon, <1>a, <1>4 DEF LogClaim, Op
    <2>2. QED
      BY Zenon, <1>a, <1>e, <1>4, <2>1, NextLogType DEF LogClaim, Goto, PCs
  <1>5. ASSUME NEW t \in Thread, LogStore(t) PROVE MemoryOK' /\ ControlOK'
    BY Zenon, <1>a, <1>5, StoreLogType DEF LogStore, LogVal, Goto, PCs, volatile
  <1>6. ASSUME NEW t \in Thread, Cas(t) PROVE MemoryOK' /\ ControlOK'
    <2>1. Prepared(op[t]) \in RunState
      BY Zenon DEF Prepared, RunState
    <2>2. QED
      BY Zenon, <1>a, <1>6, <1>g, <2>1, StoreHdrType DEF Cas, Goto, PCs, volatile
  <1>7. ASSUME NEW t \in Thread, Prepare(t) PROVE MemoryOK' /\ ControlOK'
    <2>1. MemoryOK'
      BY Zenon, <1>a, <1>7, <1>d, <1>i, StoreHdrType DEF Prepare
    <2>2. QED
      BY Zenon, <1>a, <1>c, <1>7, <2>1 DEF Prepare, Goto, PCs
  <1>8. ASSUME NEW t \in Thread, NEW k \in 1 .. 2, StoreOn(t, k),
               op[t].links[k] \in Cell \cup {NoCell}
        PROVE MemoryOK'
    <2>1. [hdr.on EXCEPT ![k] = [ptr |-> op[t].links[k], value |-> Target(op[t])]]
            \in [1 .. 2 -> PtrSet]
      BY Zenon, <1>c, <1>d, <1>8 DEF PtrSet
    <2>2. QED
      BY Zenon, <1>a, <1>8, <1>j, <2>1, StoreHdrType DEF StoreOn
  <1>9. ASSUME NEW t \in Thread, StoreOn1(t) \/ StoreOn2(t) PROVE MemoryOK' /\ ControlOK'
    <2>1. MemoryOK'
      BY <1>d, <1>8, <1>9 DEF StoreOn1, StoreOn2
    <2>2. QED
      BY Zenon, <1>a, <1>9, <2>1 DEF StoreOn1, StoreOn2, Goto, PCs, volatile
  <1>10. ASSUME NEW t \in Thread, Commit(t) PROVE MemoryOK' /\ ControlOK'
    <2>1. InProgress(op[t]) \in RunState
      BY Zenon DEF InProgress, RunState
    <2>2. QED
      BY Zenon, <1>a, <1>10, <1>g, <2>1, StoreHdrType DEF Commit, Goto, PCs, volatile
  <1>11. ASSUME NEW t \in Thread, Link1(t) \/ Link2(t) PROVE MemoryOK' /\ ControlOK'
    <2>1. MemoryOK'
      BY Zenon, <1>a, <1>d, <1>f, <1>11, StoreLinkType DEF Link1, Link2
    <2>2. QED
      BY Zenon, <1>a, <1>11, <2>1 DEF Link1, Link2, Goto, PCs, volatile
  <1>12. ASSUME NEW t \in Thread, Bitmap(t) PROVE MemoryOK' /\ ControlOK'
    <2>1. op[t].slot \in Slot
      BY Zenon, <1>d, <1>12 DEF Bitmap, At, CallOK
    <2>2. MemoryOK'
      BY Zenon, <1>a, <1>c, <1>h, <1>12, <2>1, StoreHdrType DEF Bitmap
    <2>3. QED
      BY Zenon, <1>a, <1>12, <2>2 DEF Bitmap, Goto, PCs, volatile
  <1>13. ASSUME NEW t \in Thread, Release(t) PROVE MemoryOK' /\ ControlOK'
    BY Zenon, <1>a, <1>13, <1>g, StoreHdrType DEF Release, RunState, Goto, PCs, volatile
  <1>14. ASSUME NEW t \in Thread, Unset(t) PROVE MemoryOK' /\ ControlOK'
    BY Zenon, <1>a, <1>14, <1>i, StoreHdrType DEF Unset, Goto, PCs, volatile
  <1>15. ASSUME NEW t \in Thread, Clear(t) PROVE MemoryOK' /\ ControlOK'
    BY Zenon, <1>a, <1>15, <1>j, <1>k, StoreHdrType DEF Clear, Goto, Return, PCs, volatile
  <1>16. ASSUME NEW t \in Thread, VFree(t) PROVE MemoryOK' /\ ControlOK'
    BY Zenon, <1>a, <1>e, <1>16 DEF VFree, Return, PCs
  <1>17. CASE Foreign
    <2>1. MemoryOK'
      BY Zenon, <1>a, <1>17, StoreLogType DEF Foreign, LogVal
    <2>2. QED
      BY <1>a, <1>17, <2>1, NextLogType DEF Foreign
  <1>18. CASE Evict
    <2>1. CASE nvm' = [nvm EXCEPT !.hdr = hdr]
      BY Zenon, <1>a, <1>18, <2>1 DEF Evict, MemoryOK, volatile
    <2>2. ASSUME NEW c \in Cell, nvm' = [nvm EXCEPT !.link[c] = link[c]]
          PROVE  MemoryOK'
      <3>1. link[c] \in LinkVal /\ nvm.link \in [Cell -> LinkVal]
        BY Zenon, <1>a DEF MemoryOK
      <3>2. [nvm.link EXCEPT ![c] = link[c]] \in [Cell -> LinkVal]
        BY Zenon, <3>1
      <3>3. QED
        BY Zenon, <1>a, <1>18, <2>2, <3>2 DEF Evict, MemoryOK, volatile
    <2>3. CASE nvm' = [nvm EXCEPT !.log = log]
      BY Zenon, <1>a, <1>18, <2>3 DEF Evict, MemoryOK, volatile
    <2>4. MemoryOK'
      <3>1. \/ nvm' = [nvm EXCEPT !.hdr = hdr]
            \/ \E c \in Cell : nvm' = [nvm EXCEPT !.link[c] = link[c]]
            \/ nvm' = [nvm EXCEPT !.log = log]
        BY Zenon, <1>18 DEF Evict
      <3>2. QED
        BY Zenon, <3>1, <2>1, <2>2, <2>3
    <2>5. QED
      BY Zenon, <1>a, <1>18, <2>4 DEF Evict, volatile
  <1>19. CASE Crash
    <2>1. MemoryOK'
      BY Zenon, <1>a, <1>19 DEF Crash, MemoryOK
    <2>2. crashes' \in 0 .. MaxCrash
      BY <1>a, <1>19 DEF Crash
    <2>3. /\ pc' \in [Thread -> PCs] /\ op' \in [Thread -> Op]
          /\ rec' \in [i : 0 .. LogSize, at : RecPCs]
      BY <1>19 DEF Crash, PCs, RecPCs
    <2>4. /\ next_log' \in 0 .. LogSize - 1 /\ vbitmap' \in SUBSET Slot
          /\ old' \subseteq [entry : 0 .. LogSize - 1, bitmap : SUBSET Slot]
      BY <1>19 DEF Crash
    <2>5. fresh' \in BOOLEAN
      BY <1>19, Zenon DEF Crash
    <2>6. phase' \in {"up", "recover"} /\ foreign' \in 0 .. MaxForeign
      BY Zenon, <1>a, <1>19 DEF Crash
    <2>7. QED
      BY Zenon, <2>1, <2>2, <2>3, <2>4, <2>5, <2>6
  <1>20. CASE RecScan
    BY Zenon, <1>a, <1>e, <1>20 DEF RecScan, RecGoto, RecPCs, volatile
  <1>21. CASE RecLink1 \/ RecLink2
    <2>1. hdr.on[1].value \in Slot \cup {NoBit} /\ hdr.on[2].value \in Slot \cup {NoBit}
      BY <1>c DEF PtrSet
    <2>2. MemoryOK'
      BY Zenon, <1>a, <1>f, <1>21, <2>1, StoreLinkType DEF RecLink1, RecLink2
    <2>3. QED
      BY Zenon, <1>a, <1>21, <2>2 DEF RecLink1, RecLink2, RecGoto, RecPCs, volatile
  <1>22. CASE RecBitmap
    <2>1. (IF hdr.state = "ACTIVATING" THEN hdr.bitmap \cup ({hdr.bit_idx} \ {NoBit})
                                       ELSE hdr.bitmap \ {hdr.bit_idx}) \in SUBSET Slot
      BY Zenon, <1>c
    <2>2. MemoryOK'
      BY Zenon, <1>a, <1>h, <1>22, <2>1, StoreHdrType DEF RecBitmap
    <2>3. QED
      BY Zenon, <1>a, <1>22, <2>2 DEF RecBitmap, RecGoto, RecPCs, volatile
  <1>23. CASE RecVHeader
    <2>1. MemoryOK'
      BY Zenon, <1>a, <1>j, <1>k, <1>23, StoreHdrType DEF RecVHeader
    <2>2. rec.i \in 0 .. LogSize - 1
      BY <1>a, <1>23 DEF RecVHeader, RecAt
    <2>3. old' \subseteq [entry : 0 .. LogSize - 1, bitmap : SUBSET Slot]
      <3>1. [entry |-> rec.i, bitmap |-> vbitmap] \in [entry : 0 .. LogSize - 1, bitmap : SUBSET Slot]
        BY <1>a, <2>2
      <3>2. old' \subseteq old \cup {[entry |-> rec.i, bitmap |-> vbitmap]}
        BY Zenon, <1>23 DEF RecVHeader
      <3>3. QED
        BY Zenon, <1>a, <3>1, <3>2
    <2>4. QED
      BY Zenon, <1>a, <1>c, <1>23, <2>1, <2>3 DEF RecVHeader, RecGoto, RecPCs
  <1>24. CASE RecUnset
    BY Zenon, <1>a, <1>24, <1>i, StoreHdrType DEF RecUnset, RecGoto, RecPCs, volatile
  <1>25. CASE RecSettle
    BY Zenon, <1>a, <1>25, <1>g, StoreHdrType DEF RecSettle, RunState, RecGoto, RecPCs, volatile
  <1>26. CASE RecForget
    <2>1. MemoryOK'
      BY Zenon, <1>a, <1>26, StoreLogType DEF RecForget, LogVal
    <2>2. QED
      BY <1>a, <1>26, <2>1 DEF RecForget, RecAt, RecPCs, volatile
  <1>27. CASE RecDone
    BY <1>a, <1>e, <1>27 DEF RecDone, RecPCs, volatile
  <1>28. CASE RecoveryThread
    <2>1. MemoryOK'
      BY Zenon, <1>e, <1>28 DEF RecoveryThread
    <2>2. QED
      BY Zenon, <1>a, <1>c, <1>28, <2>1 DEF RecoveryThread
  <1>29. CASE UNCHANGED vars
    BY Zenon, <1>a, <1>29 DEF vars, MemoryOK
  <1> HIDE DEF ControlOK
  <1>30. QED
    BY Zenon, <1>1, <1>2, <1>3, <1>4, <1>5, <1>6, <1>7, <1>9, <1>10, <1>11, <1>12, <1>13,
       <1>14, <1>15, <1>16, <1>17, <1>18, <1>19, <1>20, <1>21, <1>22, <1>23, <1>24,
       <1>25, <1>26, <1>27, <1>28, <1>29 DEF Next, ThreadStep, RecoveryStep

\* Every step keeps what the invariant says about calls, header and VHeader.
LEMMA NextCallsOK ==
  ASSUME IInv, [Next]_vars
  PROVE  /\ HeaderExclusion'
         /\ BitmapsOK'
         /\ \A t \in Thread : CallOK(t)'
         /\ SlotsDistinct'
         /\ ReplayOK'
  <1> DEFINE Goal == /\ HeaderExclusion
                     /\ BitmapsOK
                     /\ \A t \in Thread : CallOK(t)
                     /\ SlotsDistinct
                     /\ ReplayOK
  <1> SUFFICES Goal'
    BY Zenon
  <1>a. /\ Goal
        /\ hdr \in Header
        /\ pc \in [Thread -> PCs]
        /\ op \in [Thread -> Op]
        /\ vbitmap \in SUBSET Slot
        /\ hdr.bitmap \in SUBSET Slot
    BY Zenon DEF IInv, TypeOK, Header
  <1>b. \A t \in Thread : op[t].links \in LinkArgs /\ op[t].slot \in Slot \cup {NoBit}
    BY Zenon, <1>a DEF Op
  <1>1. ASSUME NEW t \in Thread, CallActivate(t) PROVE Goal'
    <2>1. /\ phase = "up" /\ pc[t] = "reserved"
          /\ pc' = [pc EXCEPT ![t] = "log_claim"]
          /\ \E l \in LinkArgs : op' = [op EXCEPT ![t].links = l]
          /\ hdr'.state = hdr.state /\ hdr'.bitmap = hdr.bitmap
          /\ UNCHANGED <<fresh, vbitmap, old, phase, rec>>
      BY Zenon, <1>a, <1>1 DEF CallActivate, At, Goto, memory, volatile
    <2>2. HeaderExclusion'
      BY Zenon, <1>a, <1>b, <2>1 DEF HeaderExclusion, Holds, Preparing
    <2>3. BitmapsOK'
      BY Zenon, <1>a, <2>1 DEF CallOK, BitmapsOK
    <2>4. \A u \in Thread : CallOK(u)'
      BY <1>a, <1>b, <2>1 DEF CallOK, BeforeBitmap, Preparing, SlotsDistinct
    <2>5. SlotsDistinct' /\ ReplayOK'
      BY <1>a, <2>1 DEF SlotsDistinct, ReplayOK
    <2>6. QED
      BY Zenon, <2>2, <2>3, <2>4, <2>5
  <1>2. ASSUME NEW t \in Thread, LogClaim(t) PROVE Goal'
    <2>1. /\ phase = "up" /\ pc[t] = "log_claim"
          /\ pc' = [pc EXCEPT ![t] = "log_store"]
          /\ op' = [op EXCEPT ![t].idx = next_log]
          /\ hdr'.state = hdr.state /\ hdr'.bitmap = hdr.bitmap
          /\ UNCHANGED <<fresh, vbitmap, old, phase, rec>>
      BY Zenon, <1>a, <1>2 DEF LogClaim, At, Goto, memory
    <2>2. HeaderExclusion'
      BY Zenon, <1>a, <1>b, <2>1 DEF HeaderExclusion, Holds, Preparing
    <2>3. BitmapsOK'
      BY Zenon, <1>a, <2>1 DEF CallOK, BitmapsOK
    <2>4. \A u \in Thread : CallOK(u)'
      BY <1>a, <1>b, <2>1 DEF CallOK, BeforeBitmap, Preparing, SlotsDistinct
    <2>5. SlotsDistinct' /\ ReplayOK'
      BY <1>a, <2>1 DEF SlotsDistinct, ReplayOK
    <2>6. QED
      BY Zenon, <2>2, <2>3, <2>4, <2>5
  <1>3. ASSUME NEW t \in Thread, LogStore(t) PROVE Goal'
    <2>1. /\ phase = "up" /\ pc[t] = "log_store"
          /\ pc' = [pc EXCEPT ![t] = "cas"]
          /\ op' = op
          /\ hdr'.state = hdr.state /\ hdr'.bitmap = hdr.bitmap
          /\ UNCHANGED <<fresh, vbitmap, old, phase, rec>>
      BY Zenon, <1>a, <1>3 DEF LogStore, StoreLog, At, Goto, volatile
    <2>2. HeaderExclusion'
      BY Zenon, <1>a, <1>b, <2>1 DEF HeaderExclusion, Holds, Preparing
    <2>3. BitmapsOK'
      BY Zenon, <1>a, <2>1 DEF CallOK, BitmapsOK
    <2>4. \A u \in Thread : CallOK(u)'
      BY <1>a, <1>b, <2>1 DEF CallOK, BeforeBitmap, Preparing, SlotsDistinct
    <2>5. SlotsDistinct' /\ ReplayOK'
      BY Zenon, <1>a, <2>1 DEF SlotsDistinct, ReplayOK
    <2>6. QED
      BY Zenon, <2>2, <2>3, <2>4, <2>5
  <1>4. ASSUME NEW t \in Thread, Cas(t) PROVE Goal'
    <2>1. /\ phase = "up" /\ pc[t] = "cas"
          /\ hdr.state = "INITIALIZED"
          /\ pc' = [pc EXCEPT ![t] = "prepare"]
          /\ op' = op
          /\ hdr'.state = Prepared(op[t]) /\ hdr'.bitmap = hdr.bitmap
          /\ UNCHANGED <<fresh, vbitmap, old, phase, rec>>
      BY Zenon, <1>a, <1>4 DEF Cas, Header, StoreHdr, At, Goto, volatile
    <2>2. HeaderExclusion'
      BY Zenon, <1>a, <1>b, <2>1 DEF HeaderExclusion, Holds, Preparing, Prepared, InProgress
    <2>3. BitmapsOK'
      BY Zenon, <1>a, <2>1 DEF CallOK, BitmapsOK
    <2>4. \A u \in Thread : CallOK(u)'
      BY <1>a, <1>b, <2>1 DEF CallOK, BeforeBitmap, Preparing, SlotsDistinct
    <2>5. SlotsDistinct' /\ ReplayOK'
      BY Zenon, <1>a, <2>1 DEF SlotsDistinct, ReplayOK
    <2>6. QED
      BY Zenon, <2>2, <2>3, <2>4, <2>5
  <1>5. ASSUME NEW t \in Thread, Prepare(t) PROVE Goal'
    <2>1. /\ phase = "up" /\ pc[t] = "prepare"
          /\ pc' = [pc EXCEPT ![t] = IF op[t].links[1] = NoCell THEN "bitmap" ELSE "on1"]
          /\ op' = op
          /\ hdr'.state = hdr.state /\ hdr'.bitmap = hdr.bitmap
          /\ UNCHANGED <<old, phase, rec>>
          /\ IF op[t].kind = "free" /\ ~fresh
             THEN fresh' = TRUE /\ vbitmap' = hdr.bitmap
             ELSE UNCHANGED <<fresh, vbitmap>>
      BY Zenon, <1>a, <1>5 DEF Prepare, Header, StoreHdr, At, Goto
    <2>2. HeaderExclusion'
      BY <1>a, <1>b, <2>1 DEF HeaderExclusion, Holds, Preparing, LinkArgs, NoLinks
    <2>3. BitmapsOK'
      BY Zenon, <1>a, <2>1 DEF CallOK, BitmapsOK
    <2>4. \A u \in Thread : CallOK(u)'
      BY <1>a, <1>b, <2>1 DEF CallOK, BeforeBitmap, Preparing, SlotsDistinct
    <2>5. SlotsDistinct' /\ ReplayOK'
      BY Zenon, <1>a, <2>1 DEF SlotsDistinct, ReplayOK
    <2>6. QED
      BY Zenon, <2>2, <2>3, <2>4, <2>5
  <1>6. ASSUME NEW t \in Thread, StoreOn1(t) PROVE Goal'
    <2>1. /\ phase = "up" /\ pc[t] = "on1"
          /\ pc' = [pc EXCEPT ![t] = IF op[t].links[2] = NoCell THEN "commit" ELSE "on2"]
          /\ op' = op
          /\ hdr'.state = hdr.state /\ hdr'.bitmap = hdr.bitmap
          /\ UNCHANGED <<fresh, vbitmap, old, phase, rec>>
      BY Zenon, <1>a, <1>6 DEF StoreOn1, StoreOn, Header, StoreHdr, At, Goto, volatile
    <2>2. HeaderExclusion'
      BY Zenon, <1>a, <1>b, <2>1 DEF HeaderExclusion, Holds, Preparing
    <2>3. BitmapsOK'
      BY Zenon, <1>a, <2>1 DEF CallOK, BitmapsOK
    <2>4. \A u \in Thread : CallOK(u)'
      BY <1>a, <1>b, <2>1 DEF CallOK, BeforeBitmap, Preparing, SlotsDistinct
    <2>5. SlotsDistinct' /\ ReplayOK'
      BY Zenon, <1>a, <2>1 DEF SlotsDistinct, ReplayOK
    <2>6. QED
      BY Zenon, <2>2, <2>3, <2>4, <2>5
  <1>7. ASSUME NEW t \in Thread, StoreOn2(t) PROVE Goal'
    <2>1. /\ phase = "up" /\ pc[t] = "on2"
          /\ pc' = [pc EXCEPT ![t] = "commit"]
          /\ op' = op
          /\ hdr'.state = hdr.state /\ hdr'.bitmap = hdr.bitmap
          /\ UNCHANGED <<fresh, vbitmap, old, phase, rec>>
      BY Zenon, <1>a, <1>7 DEF StoreOn2, StoreOn, Header, StoreHdr, At, Goto, volatile
    <2>2. HeaderExclusion'
      BY Zenon, <1>a, <1>b, <2>1 DEF HeaderExclusion, Holds, Preparing
    <2>3. BitmapsOK'
      BY Zenon, <1>a, <2>1 DEF CallOK, BitmapsOK
    <2>4. \A u \in Thread : CallOK(u)'
      BY <1>a, <1>b, <2>1 DEF CallOK, BeforeBitmap, Preparing, SlotsDistinct
    <2>5. SlotsDistinct' /\ ReplayOK'
      BY Zenon, <1>a, <2>1 DEF SlotsDistinct, ReplayOK
    <2>6. QED
      BY Zenon, <2>2, <2>3, <2>4, <2>5
  <1>8. ASSUME NEW t \in Thread, Commit(t) PROVE Goal'
    <2>1. /\ phase = "up" /\ pc[t] = "commit"
          /\ pc' = [pc EXCEPT ![t] = "link1"]
          /\ op' = op
          /\ hdr'.state = InProgress(op[t]) /\ hdr'.bitmap = hdr.bitmap
          /\ UNCHANGED <<fresh, vbitmap, old, phase, rec>>
      BY Zenon, <1>a, <1>8 DEF Commit, Header, StoreHdr, At, Goto, volatile
    <2>2. HeaderExclusion'
      BY <1>a, <1>b, <2>1 DEF HeaderExclusion, Holds, Preparing, CallOK, NoLinks
    <2>3. BitmapsOK'
      BY Zenon, <1>a, <2>1 DEF CallOK, BitmapsOK
    <2>4. \A u \in Thread : CallOK(u)'
      BY <1>a, <1>b, <2>1 DEF CallOK, BeforeBitmap, Preparing, SlotsDistinct
    <2>5. SlotsDistinct' /\ ReplayOK'
      BY Zenon, <1>a, <2>1 DEF SlotsDistinct, ReplayOK
    <2>6. QED
      BY Zenon, <2>2, <2>3, <2>4, <2>5
  <1>9. ASSUME NEW t \in Thread, Link1(t) PROVE Goal'
    <2>1. /\ phase = "up" /\ pc[t] = "link1"
          /\ pc' = [pc EXCEPT ![t] = IF op[t].links[2] = NoCell THEN "bitmap" ELSE "link2"]
          /\ op' = op
          /\ hdr'.state = hdr.state /\ hdr'.bitmap = hdr.bitmap
          /\ UNCHANGED <<fresh, vbitmap, old, phase, rec>>
      BY Zenon, <1>a, <1>9 DEF Link1, StoreLink, At, Goto, volatile
    <2>2. HeaderExclusion'
      BY Zenon, <1>a, <1>b, <2>1 DEF HeaderExclusion, Holds, Preparing
    <2>3. BitmapsOK'
      BY Zenon, <1>a, <2>1 DEF CallOK, BitmapsOK
    <2>4. \A u \in Thread : CallOK(u)'
      BY <1>a, <1>b, <2>1 DEF CallOK, BeforeBitmap, Preparing, SlotsDistinct
    <2>5. SlotsDistinct' /\ ReplayOK'
      BY Zenon, <1>a, <2>1 DEF SlotsDistinct, ReplayOK
    <2>6. QED
      BY Zenon, <2>2, <2>3, <2>4, <2>5
  <1>10. ASSUME NEW t \in Thread, Link2(t) PROVE Goal'
    <2>1. /\ phase = "up" /\ pc[t] = "link2"
          /\ pc' = [pc EXCEPT ![t] = "bitmap"]
          /\ op' = op
          /\ hdr'.state = hdr.state /\ hdr'.bitmap = hdr.bitmap
          /\ UNCHANGED <<fresh, vbitmap, old, phase, rec>>
      BY Zenon, <1>a, <1>10 DEF Link2, StoreLink, At, Goto, volatile
    <2>2. HeaderExclusion'
      BY Zenon, <1>a, <1>b, <2>1 DEF HeaderExclusion, Holds, Preparing
    <2>3. BitmapsOK'
      BY Zenon, <1>a, <2>1 DEF CallOK, BitmapsOK
    <2>4. \A u \in Thread : CallOK(u)'
      BY <1>a, <1>b, <2>1 DEF CallOK, BeforeBitmap, Preparing, SlotsDistinct
    <2>5. SlotsDistinct' /\ ReplayOK'
      BY Zenon, <1>a, <2>1 DEF SlotsDistinct, ReplayOK
    <2>6. QED
      BY Zenon, <2>2, <2>3, <2>4, <2>5
  <1>11. ASSUME NEW t \in Thread, Bitmap(t) PROVE Goal'
    <2>1. /\ phase = "up" /\ pc[t] = "bitmap"
          /\ pc' = [pc EXCEPT ![t] = "release"]
          /\ op' = op
          /\ hdr'.state = hdr.state
          /\ hdr'.bitmap = IF op[t].kind = "activate" THEN hdr.bitmap \cup {op[t].slot}
                                               ELSE hdr.bitmap \ {op[t].slot}
          /\ UNCHANGED <<fresh, vbitmap, old, phase, rec>>
      BY Zenon, <1>a, <1>11 DEF Bitmap, Header, StoreHdr, At, Goto, volatile
    <2>2. HeaderExclusion'
      BY Zenon, <1>a, <1>b, <2>1 DEF HeaderExclusion, Holds, Preparing
    <2>3. BitmapsOK'
      BY Zenon, <1>a, <2>1 DEF CallOK, BitmapsOK
    <2>4. \A u \in Thread : CallOK(u)'
      BY <1>a, <1>b, <2>1 DEF CallOK, BeforeBitmap, Preparing, SlotsDistinct
    <2>5. SlotsDistinct' /\ ReplayOK'
      BY Zenon, <1>a, <2>1 DEF SlotsDistinct, ReplayOK
    <2>6. QED
      BY Zenon, <2>2, <2>3, <2>4, <2>5
  <1>12. ASSUME NEW t \in Thread, Release(t) PROVE Goal'
    <2>1. /\ phase = "up" /\ pc[t] = "release"
          /\ pc' = [pc EXCEPT ![t] = "unset"]
          /\ op' = op
          /\ hdr'.state = "INITIALIZED" /\ hdr'.bitmap = hdr.bitmap
          /\ UNCHANGED <<fresh, vbitmap, old, phase, rec>>
      BY Zenon, <1>a, <1>12 DEF Release, Header, StoreHdr, At, Goto, volatile
    <2>2. HeaderExclusion'
      BY Zenon, <1>a, <1>b, <2>1 DEF HeaderExclusion, Holds, Preparing
    <2>3. BitmapsOK'
      BY Zenon, <1>a, <2>1 DEF CallOK, BitmapsOK
    <2>4. \A u \in Thread : CallOK(u)'
      BY <1>a, <1>b, <2>1 DEF CallOK, BeforeBitmap, Preparing, SlotsDistinct
    <2>5. SlotsDistinct' /\ ReplayOK'
      BY Zenon, <1>a, <2>1 DEF SlotsDistinct, ReplayOK
    <2>6. QED
      BY Zenon, <2>2, <2>3, <2>4, <2>5
  <1>13. ASSUME NEW t \in Thread, Unset(t) PROVE Goal'
    <2>1. /\ phase = "up" /\ pc[t] = "unset"
          /\ pc' = [pc EXCEPT ![t] = "clear"]
          /\ op' = op
          /\ hdr'.state = hdr.state /\ hdr'.bitmap = hdr.bitmap
          /\ UNCHANGED <<fresh, vbitmap, old, phase, rec>>
      BY Zenon, <1>a, <1>13 DEF Unset, Header, StoreHdr, At, Goto, volatile
    <2>2. HeaderExclusion'
      BY Zenon, <1>a, <1>b, <2>1 DEF HeaderExclusion, Holds, Preparing
    <2>3. BitmapsOK'
      BY Zenon, <1>a, <2>1 DEF CallOK, BitmapsOK
    <2>4. \A u \in Thread : CallOK(u)'
      BY <1>a, <1>b, <2>1 DEF CallOK, BeforeBitmap, Preparing, SlotsDistinct
    <2>5. SlotsDistinct' /\ ReplayOK'
      BY Zenon, <1>a, <2>1 DEF SlotsDistinct, ReplayOK
    <2>6. QED
      BY Zenon, <2>2, <2>3, <2>4, <2>5
  <1>14. ASSUME NEW t \in Thread, Clear(t) PROVE Goal'
    <2>1. /\ phase = "up" /\ pc[t] = "clear" /\ UNCHANGED <<fresh, vbitmap, old, phase, rec>>
          /\ hdr'.state = hdr.state /\ hdr'.bitmap = hdr.bitmap
          /\ IF op[t].kind = "activate"
             THEN pc' = [pc EXCEPT ![t] = "idle"] /\ op' = [op EXCEPT ![t] = NoOp]
             ELSE pc' = [pc EXCEPT ![t] = "vfree"] /\ op' = op
      BY Zenon, <1>a, <1>14 DEF Clear, Return, Header, StoreHdr, At, Goto, volatile
    <2>2. HeaderExclusion'
      BY <1>a, <1>b, <2>1 DEF HeaderExclusion, Holds, Preparing
    <2>3. BitmapsOK'
      BY Zenon, <1>a, <2>1 DEF CallOK, BitmapsOK
    <2>4. \A u \in Thread : CallOK(u)'
      <3>1. ASSUME NEW u \in Thread \ {t} PROVE CallOK(u)'
        BY <1>a, <2>1 DEF CallOK, BeforeBitmap, Preparing
      <3>2. CASE op[t].kind = "activate"
        <4>1. pc'[t] = "idle" /\ op'[t] = NoOp
          BY Zenon, <1>a, <2>1, <3>2
        <4>2. QED
          BY <3>1, <4>1 DEF CallOK, NoOp
      <3>3. CASE op[t].kind # "activate"
        <4>1. pc'[t] = "vfree" /\ op' = op
          BY Zenon, <1>a, <2>1, <3>3
        <4>2. QED
          BY <1>a, <2>1, <3>1, <3>3, <4>1 DEF CallOK, BeforeBitmap, Preparing, Op
      <3>4. QED
        BY Zenon, <3>2, <3>3
    <2>5. SlotsDistinct' /\ ReplayOK'
      BY <1>a, <2>1 DEF SlotsDistinct, ReplayOK, NoOp
    <2>6. QED
      BY Zenon, <2>2, <2>3, <2>4, <2>5
  <1>15. ASSUME NEW t \in Thread, VFree(t) PROVE Goal'
    <2>1. /\ phase = "up" /\ pc[t] = "vfree" /\ UNCHANGED <<fresh, old, phase, rec, hdr>>
          /\ pc' = [pc EXCEPT ![t] = "idle"] /\ op' = [op EXCEPT ![t] = NoOp]
          /\ vbitmap' = vbitmap \ {op[t].slot}
      BY Zenon, <1>a, <1>15 DEF VFree, Return, At, memory
    <2>2. HeaderExclusion'
      BY Zenon, <1>a, <1>b, <2>1 DEF HeaderExclusion, Holds, Preparing
    <2>3. BitmapsOK'
      BY Zenon, <1>a, <2>1 DEF CallOK, BeforeBitmap, Preparing, BitmapsOK
    <2>4. \A u \in Thread : CallOK(u)'
      BY <1>a, <1>b, <2>1 DEF NoOp, CallOK, BeforeBitmap, Preparing, SlotsDistinct
    <2>5. SlotsDistinct' /\ ReplayOK'
      BY Zenon, <1>a, <2>1 DEF SlotsDistinct, ReplayOK, NoOp
    <2>6. QED
      BY Zenon, <2>2, <2>3, <2>4, <2>5
  <1>16. ASSUME NEW t \in Thread, Reserve(t) PROVE Goal'
    <2>1. PICK s \in Slot :
            /\ old = {} => s \notin vbitmap /\ vbitmap' = vbitmap \cup {s}
            /\ old' = {} => old = {}
            /\ op' = [op EXCEPT ![t] = [NoOp EXCEPT !.kind = "activate", !.slot = s]]
      <3>1. PICK s \in Slot :
              /\ \/ s \notin vbitmap /\ vbitmap' = vbitmap \cup {s} /\ UNCHANGED old
                 \/ \E h \in old : old' = (old \ {h}) \cup {[h EXCEPT !.bitmap = @ \cup {s}]}
              /\ op' = [op EXCEPT ![t] = [NoOp EXCEPT !.kind = "activate", !.slot = s]]
        BY Zenon, <1>16 DEF Reserve, LowestFree
      <3>2. QED
        BY Zenon, <3>1
    <2>2. /\ phase = "up" /\ pc[t] = "idle" /\ fresh
          /\ pc' = [pc EXCEPT ![t] = "reserved"]
          /\ UNCHANGED <<hdr, fresh, phase, rec>>
      BY Zenon, <1>16 DEF Reserve, At, Goto, memory
    <2>3. op'[t].slot = s /\ op'[t].kind = "activate" /\ s # NoBit
      BY <1>a, <2>1 DEF NoOp, Slot, NoBit
    <2>4. \A u \in Thread \ {t} : op'[u] = op[u] /\ pc'[u] = pc[u]
      BY Zenon, <1>a, <2>1, <2>2
    <2>5. pc'[t] = "reserved"
      BY Zenon, <1>a, <2>2
    <2>6. old = {} => \A u \in Thread : op[u].slot # s
      BY Zenon, <1>a, <2>1, <2>2, <2>3 DEF CallOK, Op
    <2>7. HeaderExclusion'
      BY <1>a, <2>2, <2>4, <2>5 DEF HeaderExclusion, Holds, Preparing
    <2>8. BitmapsOK'
      BY Zenon, <1>a, <2>1, <2>2 DEF BitmapsOK
    <2>9. CallOK(t)'
      <3>1. old' = {} => s \in vbitmap' /\ s \notin hdr'.bitmap
        BY Zenon, <1>a, <2>1, <2>2 DEF BitmapsOK
      <3>2. QED
        BY <2>2, <2>3, <2>5, <3>1 DEF CallOK
    <2>10. ASSUME NEW u \in Thread \ {t} PROVE CallOK(u)'
      BY Zenon, <1>a, <2>1, <2>2, <2>4 DEF CallOK, BeforeBitmap, Preparing
    <2>11. SlotsDistinct'
      BY Zenon, <1>a, <2>1, <2>3, <2>4, <2>6 DEF SlotsDistinct
    <2>12. ReplayOK'
      BY Zenon, <2>2 DEF ReplayOK
    <2>13. QED
      BY Zenon, <2>7, <2>8, <2>9, <2>10, <2>11, <2>12
  <1>17. ASSUME NEW t \in Thread, CallFree(t) PROVE Goal'
    <2>1. PICK s \in hdr.bitmap, l \in LinkArgs :
            /\ \A u \in Thread : op[u].slot # s
            /\ op' = [op EXCEPT ![t] = [kind |-> "free", slot |-> s, links |-> l, idx |-> 0]]
      BY Zenon, <1>17 DEF CallFree
    <2>2. /\ phase = "up" /\ pc[t] = "idle"
          /\ pc' = [pc EXCEPT ![t] = "cas"]
          /\ UNCHANGED <<hdr, fresh, vbitmap, old, phase, rec>>
      BY Zenon, <1>17 DEF CallFree, At, Goto, memory, volatile
    <2>3. op'[t].slot = s /\ op'[t].kind = "free" /\ s # NoBit
      BY <1>a, <2>1 DEF Slot, NoBit
    <2>4. \A u \in Thread \ {t} : op'[u] = op[u] /\ pc'[u] = pc[u]
      BY Zenon, <1>a, <2>1, <2>2
    <2>5. pc'[t] = "cas"
      BY Zenon, <1>a, <2>2
    <2>6. HeaderExclusion'
      BY <1>a, <2>2, <2>4, <2>5 DEF HeaderExclusion, Holds, Preparing
    <2>7. BitmapsOK'
      BY Zenon, <1>a, <2>2 DEF BitmapsOK
    <2>8. CallOK(t)'
      <3>1. old' = {} => (BeforeBitmap(t) => s \in hdr.bitmap)' /\ (fresh' => s \in vbitmap')
        BY Zenon, <1>a, <2>1, <2>2 DEF BitmapsOK
      <3>2. BeforeBitmap(t)'
        BY Zenon, <2>5 DEF BeforeBitmap, Preparing
      <3>3. QED
        BY <2>2, <2>3, <2>5, <3>1, <3>2 DEF CallOK
    <2>9. ASSUME NEW u \in Thread \ {t} PROVE CallOK(u)'
      BY <1>a, <2>2, <2>4 DEF CallOK, BeforeBitmap, Preparing
    <2>10. SlotsDistinct'
      <3>1. ASSUME old' = {}, NEW u \in Thread, NEW w \in Thread, u # w, op'[u].slot = op'[w].slot
            PROVE  op'[u].slot = NoBit
        <4>1. u # t /\ w # t
          BY <2>1, <2>3, <2>4, <3>1
        <4>2. QED
          BY <1>a, <2>2, <2>4, <3>1, <4>1 DEF SlotsDistinct
      <3>2. QED
        BY Zenon, <3>1 DEF SlotsDistinct
    <2>11. ReplayOK'
      BY Zenon, <2>2 DEF ReplayOK
    <2>12. QED
      BY Zenon, <2>6, <2>7, <2>8, <2>9, <2>10, <2>11
  <1>18. CASE Foreign \/ Evict \/ UNCHANGED vars
    <2>1. UNCHANGED <<hdr, fresh, vbitmap, old, phase, rec, pc, op>>
      BY Zenon, <1>18 DEF Foreign, Evict, StoreLog, volatile, vars
    <2>2. QED
      BY <1>a, <2>1 DEF BitmapsOK, HeaderExclusion, Holds, Preparing, CallOK, BeforeBitmap, SlotsDistinct, ReplayOK
  <1>19. CASE Crash
    <2>1. /\ phase' = "recover" /\ ~fresh'
          /\ \A t \in Thread : pc'[t] = "idle" /\ op'[t] = NoOp
      BY Zenon, <1>19 DEF Crash
    <2>2. QED
      BY <2>1 DEF BitmapsOK, HeaderExclusion, Holds, Preparing, CallOK, BeforeBitmap, SlotsDistinct, ReplayOK, NoOp
  <1>c. ASSUME phase = "recover", UNCHANGED <<pc, op>>, BitmapsOK'
        PROVE  /\ HeaderExclusion' /\ (\A t \in Thread : CallOK(t)') /\ SlotsDistinct'
               /\ \A t \in Thread : pc'[t] = "idle"
    BY Zenon, <1>a, <1>c DEF HeaderExclusion, Holds, Preparing, CallOK, SlotsDistinct, ReplayOK
  <1>d. rec \in [i : 0 .. LogSize, at : RecPCs]
    BY Zenon DEF IInv, TypeOK
  <1>20. CASE RecScan
    <2>1. /\ phase = "recover" /\ UNCHANGED <<pc, op>>
          /\ rec.at = "scan"
          /\ UNCHANGED <<fresh, vbitmap, old, phase>>
          /\ UNCHANGED hdr
          /\ rec'.at \in {"forget", "vheader"} \/ (Committed /\ rec'.at \in {"bitmap", "link1"})
      BY Zenon, <1>a, <1>d, <1>20 DEF RecScan, RecAt, RecGoto, memory, volatile
    <2>2. BitmapsOK'
      BY Zenon, <1>a, <2>1 DEF ReplayOK, BitmapsOK
    <2>3. ReplayOK'
      BY Zenon, <1>a, <1>c, <2>1, <2>2 DEF ReplayOK, Committed
    <2>4. QED
      BY Zenon, <1>c, <2>1, <2>2, <2>3
  <1>21. CASE RecLink1 \/ RecLink2
    <2>1. /\ phase = "recover" /\ UNCHANGED <<pc, op>>
          /\ rec.at \in {"link1", "link2"}
          /\ UNCHANGED <<fresh, vbitmap, old, phase>>
          /\ UNCHANGED hdr
      BY Zenon, <1>a, <1>d, <1>21 DEF RecLink1, RecLink2, RecAt, StoreLink, volatile
    <2>2. BitmapsOK'
      BY Zenon, <1>a, <2>1 DEF ReplayOK, BitmapsOK
    <2>3. ReplayOK'
      BY Zenon, <1>a, <1>c, <2>1, <2>2 DEF ReplayOK
    <2>4. QED
      BY Zenon, <1>c, <2>1, <2>2, <2>3
  <1>22. CASE RecBitmap
    <2>1. /\ phase = "recover" /\ UNCHANGED <<pc, op>>
          /\ rec.at = "bitmap"
          /\ UNCHANGED <<fresh, vbitmap, old, phase>>
      BY Zenon, <1>a, <1>d, <1>22 DEF RecBitmap, RecAt, volatile
    <2>2. BitmapsOK'
      BY Zenon, <1>a, <2>1 DEF ReplayOK, BitmapsOK
    <2>3. ReplayOK'
      BY Zenon, <1>a, <1>c, <2>1, <2>2 DEF ReplayOK
    <2>4. QED
      BY Zenon, <1>c, <2>1, <2>2, <2>3
  <1>23. CASE RecVHeader
    <2>1. /\ phase = "recover" /\ UNCHANGED <<pc, op>>
          /\ rec.at = "vheader"
          /\ UNCHANGED phase /\ rec'.at = "unset"
          /\ hdr'.bitmap = hdr.bitmap /\ vbitmap' = hdr.bitmap
      BY Zenon, <1>a, <1>d, <1>23 DEF RecVHeader, RecAt, RecGoto, StoreHdr, Header, volatile
    <2>2. BitmapsOK'
      BY Zenon, <1>a, <2>1 DEF ReplayOK, BitmapsOK
    <2>3. ReplayOK'
      BY Zenon, <1>a, <1>c, <2>1, <2>2 DEF ReplayOK
    <2>4. QED
      BY Zenon, <1>c, <2>1, <2>2, <2>3
  <1>24. CASE RecUnset
    <2>1. /\ phase = "recover" /\ UNCHANGED <<pc, op>>
          /\ rec.at = "unset"
          /\ UNCHANGED <<fresh, vbitmap, old, phase>>
          /\ rec'.at = "settle" /\ hdr'.bitmap = hdr.bitmap
      BY Zenon, <1>a, <1>d, <1>24 DEF RecUnset, RecAt, RecGoto, StoreHdr, Header, volatile
    <2>2. BitmapsOK'
      BY Zenon, <1>a, <2>1 DEF ReplayOK, BitmapsOK
    <2>3. ReplayOK'
      BY Zenon, <1>a, <1>c, <2>1, <2>2 DEF ReplayOK
    <2>4. QED
      BY Zenon, <1>c, <2>1, <2>2, <2>3
  <1>25. CASE RecSettle
    <2>1. /\ phase = "recover" /\ UNCHANGED <<pc, op>>
          /\ rec.at = "settle"
          /\ UNCHANGED <<fresh, vbitmap, old, phase>>
          /\ rec'.at = "forget" /\ hdr'.bitmap = hdr.bitmap
          /\ hdr'.state = "INITIALIZED"
      BY Zenon, <1>a, <1>d, <1>25 DEF RecSettle, RecAt, RecGoto, StoreHdr, Header, volatile
    <2>2. BitmapsOK'
      BY Zenon, <1>a, <2>1 DEF ReplayOK, BitmapsOK
    <2>3. ReplayOK'
      BY Zenon, <1>a, <1>c, <2>1, <2>2 DEF ReplayOK
    <2>4. QED
      BY Zenon, <1>c, <2>1, <2>2, <2>3
  <1>26. CASE RecForget
    <2>1. /\ phase = "recover" /\ UNCHANGED <<pc, op>>
          /\ rec.at = "forget"
          /\ UNCHANGED <<fresh, vbitmap, old, phase>>
          /\ UNCHANGED hdr /\ rec'.at = "scan"
      BY Zenon, <1>a, <1>d, <1>26 DEF RecForget, RecAt, StoreLog, volatile
    <2>2. BitmapsOK'
      BY Zenon, <1>a, <2>1 DEF ReplayOK, BitmapsOK
    <2>3. ReplayOK'
      BY Zenon, <1>a, <1>c, <2>1, <2>2 DEF ReplayOK
    <2>4. QED
      BY Zenon, <1>c, <2>1, <2>2, <2>3
  <1>27. CASE RecDone
    <2>1. /\ phase = "recover" /\ UNCHANGED <<pc, op>>
          /\ UNCHANGED <<hdr, fresh, vbitmap, old>> /\ phase' = "up"
      BY Zenon, <1>a, <1>d, <1>27 DEF RecDone, memory, volatile
    <2>2. BitmapsOK'
      BY Zenon, <1>a, <2>1 DEF ReplayOK, BitmapsOK
    <2>3. ReplayOK'
      BY Zenon, <1>a, <1>c, <2>1, <2>2 DEF ReplayOK
    <2>4. QED
      BY Zenon, <1>c, <2>1, <2>2, <2>3
  <1>28. CASE RecoveryThread
    <2>1. /\ phase = "up" /\ ~fresh /\ fresh' /\ vbitmap' = hdr.bitmap
          /\ UNCHANGED <<hdr, old, phase, rec, pc, op>>
      BY Zenon, <1>28 DEF RecoveryThread, memory
    <2>2. QED
      BY Zenon, <1>a, <2>1 DEF BitmapsOK, HeaderExclusion, Holds, Preparing, CallOK, BeforeBitmap, SlotsDistinct, ReplayOK
  <1> HIDE DEF Goal
  <1>29. QED
    BY Zenon, <1>1, <1>2, <1>3, <1>4, <1>5, <1>6, <1>7, <1>8, <1>9, <1>10, <1>11, <1>12, <1>13, <1>14, <1>15, <1>16, <1>17, <1>18, <1>19, <1>20, <1>21, <1>22, <1>23, <1>24, <1>25, <1>26, <1>27, <1>28
       DEF Next, ThreadStep, RecoveryStep

\* Every step of the calls, of a crash and of recovery preserves the invariant.
LEMMA NextIInv == IInv /\ [Next]_vars => IInv'
  <1> SUFFICES ASSUME IInv, [Next]_vars PROVE IInv'
    BY Zenon
  <1>1. TypeOK'
    BY Zenon, NextTypeOK DEF IInv
  <1>2. QED
    BY Zenon, <1>1, NextCallsOK DEF IInv

\* The invariant implies that no slot is given to two calls or given out while
\* it is allocated, as long as the run has one VHeader.
LEMMA IInvNoDoubleAllocation == IInv => NoDoubleAllocation
  <1> SUFFICES ASSUME IInv, phase = "up", old = {} PROVE NoDoubleAllocation
    BY Zenon DEF NoDoubleAllocation
  <1>1. ASSUME NEW t \in Thread, op[t].kind = "activate"
        PROVE  /\ op[t].slot \in vbitmap
               /\ pc[t] \notin {"release", "unset", "clear"} => op[t].slot \notin hdr.bitmap
               /\ \A u \in Thread \ {t} : op[u].slot # op[t].slot
    <2>1. pc[t] \in PCs /\ CallOK(t) /\ vbitmap \subseteq Slot
      BY Zenon DEF IInv, TypeOK
    <2>2. op[t].slot \in vbitmap /\ op[t].slot # NoBit
      BY Zenon, <1>1, <2>1 DEF CallOK
    <2>3. pc[t] \notin {"release", "unset", "clear"} => BeforeBitmap(t)
      BY Zenon, <1>1, <2>1 DEF CallOK, BeforeBitmap, Preparing, PCs
    <2>4. \A u \in Thread \ {t} : op[u].slot # op[t].slot
      BY Zenon, <2>2 DEF IInv, SlotsDistinct
    <2>5. QED
      BY Zenon, <1>1, <2>1, <2>2, <2>3, <2>4 DEF CallOK
  <1>2. QED
    BY Zenon, <1>1 DEF IInv, BitmapsOK, NoDoubleAllocation

\* The inductive invariant holds in every reachable state.
THEOREM Inductive == Spec => []IInv
  <1>1. QED
    BY InitIInv, NextIInv, PTL DEF Spec

\* Every variable keeps its type, through calls, crashes, evictions and
\* recoveries, for any number of threads, slots, cells and log entries.
THEOREM TypeCorrect == Spec => []TypeOK
  <1>1. IInv => TypeOK
    BY Zenon DEF IInv
  <1>2. QED
    BY <1>1, Inductive, PTL

\* nvm_activate and arena_free exclude each other between the compare-and-swap
\* on a run's state and the store of STATE_INITIALIZED, for any number of
\* threads and whatever state earlier crashes left behind.
THEOREM MutualExclusion == Spec => []HeaderExclusion
  <1>1. IInv => HeaderExclusion
    BY Zenon DEF IInv
  <1>2. QED
    BY <1>1, Inductive, PTL

\* While a run has one VHeader, arena_allocate never hands out a slot of it that is
\* allocated on NVRAM or reserved by another call, for any number of threads and
\* slots, however many crashes there were and whatever part of the cache they
\* lost.  A restart that finds the run in the log twice makes two VHeaders, and
\* the theorem says nothing of the run until the next restart.
THEOREM AllocationIsExclusive == Spec => []NoDoubleAllocation
  <1>1. QED
    BY IInvNoDoubleAllocation, Inductive, PTL

================================================================================
