----------------------------- MODULE RunCrashProofs -----------------------------
(******************************************************************************)
(* What survives a crash, for every number of slots, link cells, log entries,  *)
(* crashes and foreign activations: the calls of one thread are failure-atomic *)
(* when every store is durable and no crash interrupts a call that the log     *)
(* does not name (two threads, or a crash during an unlogged free, break it:   *)
(* the run RunTwoThreadsCrash; so does a power failure, since PERSIST flushes  *)
(* nothing of NVRAM: the run RunPersist).                                      *)
(******************************************************************************)
EXTENDS RunProtocolProofs

\* Thread t is between the compare-and-swap and the end of its stores.
Changing(t) == Holds(t) \/ pc[t] \in {"unset", "clear"}

\* A header that no call has touched since it was released and cleared.
Clean == hdr.state = "INITIALIZED" /\ hdr.on = ClearOn /\ hdr.bit_idx = NoBit

\* What the calls store in on[k], or leave there when no link is given.
OnFor(t, k) == IF op[t].links[k] = NoCell THEN NoPtrSet
               ELSE [ptr |-> op[t].links[k], value |-> Target(op[t])]

\* The header and the links as far as a thread has got with its call.
CallAt(t) ==
  /\ pc[t] = "prepare" => hdr.bit_idx = NoBit
  /\ pc[t] \in {"on1", "on2", "commit", "link1", "link2", "bitmap", "release"}
       => hdr.bit_idx = op[t].slot
  /\ pc[t] \in {"prepare", "on1"} => hdr.on = ClearOn
  /\ pc[t] = "on2" => hdr.on[1] = OnFor(t, 1) /\ hdr.on[2] = NoPtrSet /\ op[t].links[2] # NoCell
  /\ pc[t] = "link2" => op[t].links[2] # NoCell
  /\ pc[t] \in {"commit", "link1", "link2", "bitmap", "release"}
       => \A k \in 1 .. 2 : hdr.on[k] = OnFor(t, k)
  /\ pc[t] = "link2" => link[op[t].links[1]].obj = Target(op[t])
  /\ pc[t] \in {"bitmap", "release"}
       => \A k \in 1 .. 2 : op[t].links[k] # NoCell => link[op[t].links[k]].obj = Target(op[t])
  /\ pc[t] = "release" => (op[t].slot \in hdr.bitmap <=> op[t].kind = "activate")
  /\ pc[t] \in {"unset", "clear"} => hdr.state = "INITIALIZED"
  /\ pc[t] = "clear" => hdr.bit_idx = NoBit

UpOK ==
  phase = "up" => /\ \A t \in Thread : CallAt(t)
                  /\ (\A t \in Thread : ~Changing(t)) => Clean

\* There is an entry from i on that makes the recovery visit the run.
Named(i) == \E j \in i .. LogSize - 1 : log[j] = "run"

\* The links of a committed header have been rewritten, its bit has been.
LinksDone == \A k \in 1 .. 2 : hdr.on[k].ptr # NoCell => link[hdr.on[k].ptr].obj = hdr.on[k].value
BitDone == hdr.bit_idx # NoBit => (hdr.bit_idx \in hdr.bitmap <=> hdr.state = "ACTIVATING")

\* The header and the links as far as the recovery has got.
RecoverOK ==
  phase = "recover" =>
    /\ rec.at = "scan" => Clean \/ Named(rec.i)
    /\ rec.at = "forget" => Clean \/ Named(rec.i + 1)
    /\ rec.at \notin {"scan", "forget"} => log[rec.i] = "run"
    /\ rec.at \in {"link1", "link2", "bitmap"} => Committed
    /\ rec.at \in {"link1", "link2"} => hdr.on[1].ptr # NoCell
    /\ rec.at = "link2" => hdr.on[2].ptr # NoCell /\ link[hdr.on[1].ptr].obj = hdr.on[1].value
    /\ rec.at \in {"bitmap", "vheader"} /\ Committed => LinksDone
    /\ rec.at \in {"vheader", "unset"} /\ Committed => BitDone
    /\ rec.at \in {"unset", "settle"} => hdr.on = ClearOn
    /\ rec.at = "settle" => hdr.bit_idx = NoBit

\* The recovery has no entry in hand when it has seen the whole log.
ScanEnds == phase = "recover" /\ rec.i = LogSize => rec.at = "scan"

\* The second link of a committed call comes with a first, other one.
LinksOrdered ==
  Committed /\ hdr.on[2].ptr # NoCell => hdr.on[1].ptr # NoCell /\ hdr.on[1].ptr # hdr.on[2].ptr

\* Only NULL is stored for no object.
NullOnly == \A c \in Cell : link[c].obj = NoBit => link[c] = Null

\* Every store is durable at once.
Mirror == nvm.hdr = hdr /\ nvm.link = link /\ nvm.log = log

\* The inductive invariant of one thread whose stores are durable at once.
CrashInv ==
  /\ IInv
  /\ Mirror
  /\ UpOK
  /\ RecoverOK
  /\ ScanEnds
  /\ LinksOrdered
  /\ NullOnly

--------------------------------------------------------------------------------
(* Facts about any number of threads and any durability.                      *)

USE RunAssumption

\* What a durable store to the header does to NVRAM.
LEMMA HeaderStores ==
  ASSUME Durability = "store", TypeOK, NEW h, StoreHdr(h)
  PROVE  /\ hdr' = h
         /\ nvm'.hdr = h
         /\ nvm'.link = nvm.link /\ nvm'.log = nvm.log
         /\ link' = link /\ log' = log
BY Zenon DEF StoreHdr, TypeOK

\* The recovery leaves an entry before it goes to the next one.
LEMMA NextScanEnds ==
  ASSUME TypeOK, ScanEnds, [Next]_vars
  PROVE  ScanEnds'
  <1>a. rec \in [i : 0 .. LogSize, at : RecPCs]
    BY Zenon DEF TypeOK
  <1>1. ASSUME NEW t \in Thread,
               Reserve(t) \/ CallActivate(t) \/ CallFree(t) \/ ThreadStep(t)
        PROVE  ScanEnds'
    BY Zenon, <1>1 DEF ThreadStep, Reserve, CallActivate, CallFree, LogClaim, LogStore, Cas, Prepare, StoreOn1,
          StoreOn2, Commit, Link1, Link2, Bitmap, Release, Unset, Clear, VFree, At, ScanEnds
  <1>2. CASE RecScan \/ RecLink1 \/ RecLink2 \/ RecBitmap \/ RecVHeader \/ RecUnset \/ RecSettle
    <2>1. rec.i < LogSize /\ rec'.i = rec.i
      BY Zenon, <1>2, <1>a DEF RecScan, RecLink1, RecLink2, RecBitmap, RecVHeader, RecUnset, RecSettle, RecAt, RecGoto
    <2> QED
      BY <2>1, <1>a DEF ScanEnds
  <1>3. CASE RecForget \/ Crash
    <2>1. (\E n : rec' = [i |-> n, at |-> "scan"])
      BY Zenon, <1>3 DEF RecForget, Crash
    <2> QED
      BY <2>1 DEF ScanEnds
  <1>4. CASE Foreign \/ Evict \/ RecDone \/ RecoveryThread \/ UNCHANGED vars
    BY Zenon, <1>4 DEF Foreign, Evict, RecDone, RecoveryThread, vars, ScanEnds
  <1> QED
    BY Zenon, <1>1, <1>2, <1>3, <1>4 DEF Next, RecoveryStep

--------------------------------------------------------------------------------
(* One thread, durable stores, and no crash in a call that the log does not    *)
(* name.                                                                       *)

LoggedThread ==
  /\ Durability = "store"
  /\ CrashAnywhere = FALSE
  /\ \A t, u \in Thread : t = u

\* Memory and what a crash leaves of it stay the same.
LEMMA NextMirror ==
  ASSUME Durability = "store", TypeOK, Mirror, [Next]_vars
  PROVE  Mirror'
  <1>1. ASSUME NEW h, StoreHdr(h) PROVE Mirror'
    BY Zenon, <1>1, HeaderStores DEF Mirror
  <1>2. ASSUME NEW c, NEW v, StoreLink(c, v) PROVE Mirror'
    <2>1. /\ link' = [link EXCEPT ![c] = v] /\ hdr' = hdr /\ log' = log
          /\ nvm' = [nvm EXCEPT !.link[c] = v]
      BY Zenon, <1>2 DEF StoreLink
    <2> QED
      BY Zenon, <2>1 DEF Mirror, TypeOK
  <1>3. ASSUME NEW i, NEW v, StoreLog(i, v) PROVE Mirror'
    <2>1. /\ hdr' = hdr /\ link' = link
          /\ nvm' = [nvm EXCEPT !.log = log']
      BY Zenon, <1>3 DEF StoreLog
    <2> QED
      BY Zenon, <2>1 DEF Mirror, TypeOK
  <1>4. CASE UNCHANGED memory
    BY Zenon, <1>4 DEF memory, Mirror
  <1>5. ASSUME NEW t \in Thread,
               Reserve(t) \/ CallActivate(t) \/ CallFree(t) \/ LogClaim(t) \/ VFree(t)
        PROVE  Mirror'
    BY Zenon, <1>4, <1>5 DEF Reserve, CallActivate, CallFree, LogClaim, VFree
  <1>6. ASSUME NEW t \in Thread,
               \/ Cas(t) \/ Prepare(t) \/ StoreOn1(t) \/ StoreOn2(t) \/ Commit(t)
               \/ Bitmap(t) \/ Release(t) \/ Unset(t) \/ Clear(t)
        PROVE  Mirror'
    BY Zenon, <1>1, <1>6 DEF Cas, Prepare, StoreOn1, StoreOn2, StoreOn, Commit, Bitmap, Release, Unset, Clear
  <1>7. ASSUME NEW t \in Thread, Link1(t) \/ Link2(t) PROVE Mirror'
    BY Zenon, <1>2, <1>7 DEF Link1, Link2
  <1>8. ASSUME NEW t \in Thread, LogStore(t) PROVE Mirror'
    BY Zenon, <1>3, <1>8 DEF LogStore
  <1>9. CASE Foreign \/ RecForget
    BY Zenon, <1>3, <1>9 DEF Foreign, RecForget
  <1>10. CASE RecScan \/ RecDone \/ RecoveryThread \/ UNCHANGED vars
    BY Zenon, <1>4, <1>10 DEF RecScan, RecDone, RecoveryThread, vars, memory
  <1>11. CASE RecLink1 \/ RecLink2
    BY Zenon, <1>2, <1>11 DEF RecLink1, RecLink2
  <1>12. CASE RecBitmap \/ RecVHeader \/ RecUnset \/ RecSettle
    BY Zenon, <1>1, <1>12 DEF RecBitmap, RecVHeader, RecUnset, RecSettle
  <1>13. CASE Evict
    BY Zenon, <1>13 DEF Evict
  <1>14. CASE Crash
    BY Zenon, <1>14 DEF Crash, Mirror
  <1> QED
    BY Zenon, <1>5, <1>6, <1>7, <1>8, <1>9, <1>10, <1>11, <1>12, <1>13, <1>14
       DEF Next, ThreadStep, RecoveryStep

\* Every step of the thread, of a crash and of the recovery preserves the invariant.
LEMMA NextCrashInv ==
  ASSUME LoggedThread, CrashInv, [Next]_vars
  PROVE  CrashInv'
  <1> DEFINE Rest == UpOK /\ RecoverOK /\ LinksOrdered /\ NullOnly
  <1>a. /\ hdr \in Header /\ hdr.on \in [1 .. 2 -> PtrSet]
        /\ link \in [Cell -> LinkVal]
        /\ log \in [0 .. LogSize - 1 -> LogVal]
        /\ rec \in [i : 0 .. LogSize, at : RecPCs]
        /\ pc \in [Thread -> PCs]
        /\ op \in [Thread -> Op]
        /\ \A t \in Thread : op[t].links \in LinkArgs /\ CallOK(t)
        /\ HeaderExclusion
        /\ LinksOrdered /\ NullOnly
    BY Zenon DEF CrashInv, IInv, TypeOK, Header, Op
  <1>e. ASSUME NEW t \in Thread
        PROVE  /\ op[t].links[1] \in Cell \cup {NoCell} /\ op[t].links[2] \in Cell \cup {NoCell}
               /\ op[t].links[2] # NoCell => op[t].links[1] # NoCell /\ op[t].links[1] # op[t].links[2]
    BY <1>a DEF LinkArgs
  <1>b. \A t \in Thread : phase = "up" => CallAt(t)
    BY Zenon DEF CrashInv, UpOK
  <1>c. ASSUME NEW t \in Thread, phase = "up", ~Changing(t)
        PROVE  Clean
    BY Zenon, <1>c DEF LoggedThread, CrashInv, UpOK
  <1>d. IInv' /\ Mirror' /\ ScanEnds'
    BY Zenon, NextIInv, NextMirror, NextScanEnds DEF CrashInv, IInv, LoggedThread
  <1> SUFFICES Rest'
    BY Zenon, <1>d DEF CrashInv
  <1>u. ASSUME NEW t \in Thread, phase' = "up", CallAt(t)', (~Changing(t) => Clean)',
               LinksOrdered', NullOnly'
        PROVE  Rest'
    <2>1. \A u \in Thread : u = t
      BY Zenon DEF LoggedThread
    <2> QED
      BY Zenon, <1>u, <2>1 DEF UpOK, RecoverOK
  <1> HIDE DEF Rest
  <1>1. ASSUME NEW t \in Thread, CallActivate(t) PROVE Rest'
    <2>1. /\ phase = "up" /\ phase' = "up"
          /\ pc[t] = "reserved" /\ pc'[t] = "log_claim"
          /\ UNCHANGED <<hdr, link>>
      BY Zenon, <1>a, <1>1 DEF CallActivate, At, Goto, memory
    <2>2. CallAt(t)'
      BY Zenon, <1>a, <1>b, <1>c, <1>e, <2>1 DEF CallAt
    <2>3. (~Changing(t) => Clean)'
      BY Zenon, <1>a, <1>c, <2>1 DEF Changing, Holds, Preparing, Clean
    <2>4. LinksOrdered' /\ NullOnly'
      BY Zenon, <1>a, <1>b, <1>e, <2>1 DEF LinksOrdered, NullOnly, Committed
    <2> QED
      BY Zenon, <1>u, <2>1, <2>2, <2>3, <2>4
  <1>2. ASSUME NEW t \in Thread, LogClaim(t) PROVE Rest'
    <2>1. /\ phase = "up" /\ phase' = "up"
          /\ pc[t] = "log_claim" /\ pc'[t] = "log_store"
          /\ UNCHANGED <<hdr, link>>
      BY Zenon, <1>a, <1>2 DEF LogClaim, At, Goto, memory
    <2>2. CallAt(t)'
      BY Zenon, <1>a, <1>b, <1>c, <1>e, <2>1 DEF CallAt
    <2>3. (~Changing(t) => Clean)'
      BY Zenon, <1>a, <1>c, <2>1 DEF Changing, Holds, Preparing, Clean
    <2>4. LinksOrdered' /\ NullOnly'
      BY Zenon, <1>a, <1>b, <1>e, <2>1 DEF LinksOrdered, NullOnly, Committed
    <2> QED
      BY Zenon, <1>u, <2>1, <2>2, <2>3, <2>4
  <1>3. ASSUME NEW t \in Thread, LogStore(t) PROVE Rest'
    <2>1. /\ phase = "up" /\ phase' = "up"
          /\ pc[t] = "log_store" /\ pc'[t] = "cas"
          /\ UNCHANGED <<hdr, link>>
      BY Zenon, <1>a, <1>3 DEF LogStore, At, Goto, StoreLog
    <2>2. CallAt(t)'
      BY Zenon, <1>a, <1>b, <1>c, <1>e, <2>1 DEF CallAt
    <2>3. (~Changing(t) => Clean)'
      BY Zenon, <1>a, <1>c, <2>1 DEF Changing, Holds, Preparing, Clean
    <2>4. LinksOrdered' /\ NullOnly'
      BY Zenon, <1>a, <1>b, <1>e, <2>1 DEF LinksOrdered, NullOnly, Committed
    <2> QED
      BY Zenon, <1>u, <2>1, <2>2, <2>3, <2>4
  <1>4. ASSUME NEW t \in Thread, CallFree(t) PROVE Rest'
    <2>1. /\ phase = "up" /\ phase' = "up"
          /\ pc[t] = "idle" /\ pc'[t] = "cas"
          /\ UNCHANGED <<hdr, link>>
      BY Zenon, <1>a, <1>4 DEF CallFree, At, Goto, memory
    <2>2. CallAt(t)'
      BY Zenon, <1>a, <1>b, <1>c, <1>e, <2>1 DEF CallAt
    <2>3. (~Changing(t) => Clean)'
      BY Zenon, <1>a, <1>c, <2>1 DEF Changing, Holds, Preparing, Clean
    <2>4. LinksOrdered' /\ NullOnly'
      BY Zenon, <1>a, <1>b, <1>e, <2>1 DEF LinksOrdered, NullOnly, Committed
    <2> QED
      BY Zenon, <1>u, <2>1, <2>2, <2>3, <2>4
  <1>5. ASSUME NEW t \in Thread, Reserve(t) PROVE Rest'
    <2>1. /\ phase = "up" /\ phase' = "up"
          /\ pc[t] = "idle" /\ pc'[t] = "reserved"
          /\ UNCHANGED <<hdr, link>>
      BY Zenon, <1>a, <1>5 DEF Reserve, At, Goto, memory
    <2>2. CallAt(t)'
      BY Zenon, <1>a, <1>b, <1>c, <1>e, <2>1 DEF CallAt
    <2>3. (~Changing(t) => Clean)'
      BY Zenon, <1>a, <1>c, <2>1 DEF Changing, Holds, Preparing, Clean
    <2>4. LinksOrdered' /\ NullOnly'
      BY Zenon, <1>a, <1>b, <1>e, <2>1 DEF LinksOrdered, NullOnly, Committed
    <2> QED
      BY Zenon, <1>u, <2>1, <2>2, <2>3, <2>4
  <1>6. ASSUME NEW t \in Thread, VFree(t) PROVE Rest'
    <2>1. /\ phase = "up" /\ phase' = "up"
          /\ pc[t] = "vfree" /\ pc'[t] = "idle"
          /\ UNCHANGED <<hdr, link>>
      BY Zenon, <1>a, <1>6 DEF VFree, At, Return, memory
    <2>2. CallAt(t)'
      BY Zenon, <1>a, <1>b, <1>c, <1>e, <2>1 DEF CallAt
    <2>3. (~Changing(t) => Clean)'
      BY Zenon, <1>a, <1>c, <2>1 DEF Changing, Holds, Preparing, Clean
    <2>4. LinksOrdered' /\ NullOnly'
      BY Zenon, <1>a, <1>b, <1>e, <2>1 DEF LinksOrdered, NullOnly, Committed
    <2> QED
      BY Zenon, <1>u, <2>1, <2>2, <2>3, <2>4
  <1>7. ASSUME NEW t \in Thread, Cas(t) PROVE Rest'
    <2>1. /\ phase = "up" /\ phase' = "up"
          /\ pc[t] = "cas" /\ pc'[t] = "prepare"
          /\ op' = op
          /\ link' = link
          /\ hdr'.state = Prepared(op[t]) /\ hdr'.on = hdr.on /\ hdr'.bit_idx = hdr.bit_idx
      BY Zenon, <1>a, <1>7 DEF Cas, At, Goto, StoreHdr, Header
    <2>2. CallAt(t)'
      BY Zenon, <1>a, <1>b, <1>c, <1>e, <2>1 DEF CallAt, Changing, Holds, Preparing, Clean
    <2>3. (~Changing(t) => Clean)'
      BY Zenon, <1>a, <1>c, <2>1 DEF Changing, Holds, Preparing
    <2>4. LinksOrdered' /\ NullOnly'
      BY Zenon, <1>a, <1>b, <1>e, <2>1 DEF LinksOrdered, NullOnly, Committed, Prepared
    <2> QED
      BY Zenon, <1>u, <2>1, <2>2, <2>3, <2>4
  <1>8. ASSUME NEW t \in Thread, Prepare(t) PROVE Rest'
    <2>1. /\ phase = "up" /\ phase' = "up"
          /\ pc[t] = "prepare" /\ pc'[t] = IF op[t].links[1] = NoCell THEN "bitmap" ELSE "on1"
          /\ op' = op
          /\ link' = link
          /\ hdr'.state = hdr.state /\ hdr'.on = hdr.on /\ hdr'.bit_idx = op[t].slot
      BY ZenonT(30), <1>a, <1>8 DEF Prepare, At, Goto, StoreHdr, Header
    <2>2. CallAt(t)'
      BY <1>a, <1>b, <1>c, <1>e, <2>1 DEF CallAt, OnFor, ClearOn
    <2>3. (~Changing(t) => Clean)'
      BY Zenon, <1>a, <1>c, <2>1 DEF Changing, Holds, Preparing
    <2>4. LinksOrdered' /\ NullOnly'
      BY Zenon, <1>a, <1>b, <1>e, <2>1 DEF LinksOrdered, NullOnly, Committed, Prepared, HeaderExclusion, Holds, Preparing
    <2> QED
      BY Zenon, <1>u, <2>1, <2>2, <2>3, <2>4
  <1>9. ASSUME NEW t \in Thread, StoreOn1(t) PROVE Rest'
    <2>1. /\ phase = "up" /\ phase' = "up"
          /\ pc[t] = "on1" /\ pc'[t] = IF op[t].links[2] = NoCell THEN "commit" ELSE "on2"
          /\ op' = op
          /\ link' = link
          /\ hdr'.state = hdr.state /\ hdr'.bit_idx = hdr.bit_idx
          /\ hdr'.on = [hdr.on EXCEPT ![1] = [ptr |-> op[t].links[1], value |-> Target(op[t])]]
      BY ZenonT(30), <1>a, <1>9 DEF StoreOn1, At, Goto, StoreHdr, Header, StoreOn
    <2>2. CallAt(t)'
      BY <1>a, <1>b, <1>c, <1>e, <2>1 DEF CallAt, OnFor, ClearOn, CallOK, Target
    <2>3. (~Changing(t) => Clean)'
      BY Zenon, <1>a, <1>c, <2>1 DEF Changing, Holds, Preparing
    <2>4. LinksOrdered' /\ NullOnly'
      BY Zenon, <1>a, <1>b, <1>e, <2>1 DEF LinksOrdered, NullOnly, Committed, Prepared, HeaderExclusion, Holds, Preparing
    <2> QED
      BY Zenon, <1>u, <2>1, <2>2, <2>3, <2>4
  <1>10. ASSUME NEW t \in Thread, StoreOn2(t) PROVE Rest'
    <2>1. /\ phase = "up" /\ phase' = "up"
          /\ pc[t] = "on2" /\ pc'[t] = "commit"
          /\ op' = op
          /\ link' = link
          /\ hdr'.state = hdr.state /\ hdr'.bit_idx = hdr.bit_idx
          /\ hdr'.on = [hdr.on EXCEPT ![2] = [ptr |-> op[t].links[2], value |-> Target(op[t])]]
      BY ZenonT(30), <1>a, <1>10 DEF StoreOn2, At, Goto, StoreHdr, Header, StoreOn
    <2>2. CallAt(t)'
      BY <1>a, <1>b, <1>c, <1>e, <2>1 DEF CallAt, OnFor, ClearOn, CallOK, Target
    <2>3. (~Changing(t) => Clean)'
      BY Zenon, <1>a, <1>c, <2>1 DEF Changing, Holds, Preparing
    <2>4. LinksOrdered' /\ NullOnly'
      BY Zenon, <1>a, <1>b, <1>e, <2>1 DEF LinksOrdered, NullOnly, Committed, Prepared, HeaderExclusion, Holds, Preparing
    <2> QED
      BY Zenon, <1>u, <2>1, <2>2, <2>3, <2>4
  <1>11. ASSUME NEW t \in Thread, Commit(t) PROVE Rest'
    <2>1. /\ phase = "up" /\ phase' = "up"
          /\ pc[t] = "commit" /\ pc'[t] = "link1"
          /\ op' = op
          /\ link' = link
          /\ hdr'.state = InProgress(op[t]) /\ hdr'.bit_idx = hdr.bit_idx /\ hdr'.on = hdr.on
      BY ZenonT(30), <1>a, <1>11 DEF Commit, At, Goto, StoreHdr, Header
    <2>2. CallAt(t)'
      BY <1>a, <1>b, <1>c, <1>e, <2>1 DEF CallAt, OnFor, Target
    <2>3. (~Changing(t) => Clean)'
      BY Zenon, <1>a, <1>c, <2>1 DEF Changing, Holds, Preparing
    <2>4. LinksOrdered' /\ NullOnly'
      <3>1. \A k \in 1 .. 2 : hdr'.on[k].ptr = op[t].links[k]
        <4>1. \A k \in 1 .. 2 : hdr'.on[k] = OnFor(t, k)
          BY Zenon, <1>b, <2>1 DEF CallAt
        <4>2. \A k \in 1 .. 2 : OnFor(t, k).ptr = op[t].links[k]
          BY Zenon DEF OnFor, NoPtrSet
        <4> QED
          BY Zenon, <4>1, <4>2
      <3> QED
        BY <1>a, <1>e, <2>1, <3>1 DEF LinksOrdered, NullOnly
    <2> QED
      BY Zenon, <1>u, <2>1, <2>2, <2>3, <2>4
  <1>12. ASSUME NEW t \in Thread, Link1(t) PROVE Rest'
    <2>1. /\ phase = "up" /\ phase' = "up"
          /\ pc[t] = "link1" /\ pc'[t] = IF op[t].links[2] = NoCell THEN "bitmap" ELSE "link2"
          /\ op' = op
          /\ hdr' = hdr
          /\ link' = [link EXCEPT ![op[t].links[1]] = RelPtr(Target(op[t]))]
      BY ZenonT(30), <1>a, <1>12 DEF Link1, At, Goto, StoreLink
    <2>2. CallAt(t)'
      <3>1. link'[op[t].links[1]].obj = Target(op[t])
        BY Zenon, <1>a, <1>e, <2>1 DEF RelPtr, Null, CallOK
      <3> QED
        BY <1>b, <2>1, <3>1 DEF CallAt, OnFor, Target
    <2>3. (~Changing(t) => Clean)'
      BY Zenon, <1>a, <1>c, <2>1 DEF Changing, Holds, Preparing
    <2>4. LinksOrdered' /\ NullOnly'
      BY Zenon, <1>a, <1>b, <1>e, <2>1 DEF LinksOrdered, NullOnly, Committed, RelPtr, Null
    <2> QED
      BY Zenon, <1>u, <2>1, <2>2, <2>3, <2>4
  <1>13. ASSUME NEW t \in Thread, Link2(t) PROVE Rest'
    <2>1. /\ phase = "up" /\ phase' = "up"
          /\ pc[t] = "link2" /\ pc'[t] = "bitmap"
          /\ op' = op
          /\ hdr' = hdr
          /\ link' = [link EXCEPT ![op[t].links[2]] = RelPtr(Target(op[t]))]
      BY ZenonT(30), <1>a, <1>13 DEF Link2, At, Goto, StoreLink
    <2>2. CallAt(t)'
      <3>1. op[t].links[2] # NoCell /\ link[op[t].links[1]].obj = Target(op[t])
        BY Zenon, <1>b, <2>1 DEF CallAt
      <3>2. link'[op[t].links[2]].obj = Target(op[t]) /\ link'[op[t].links[1]] = link[op[t].links[1]]
        BY Zenon, <1>a, <1>e, <2>1, <3>1 DEF RelPtr, Null
      <3> QED
        BY <1>b, <2>1, <3>1, <3>2 DEF CallAt, OnFor, Target
    <2>3. (~Changing(t) => Clean)'
      BY Zenon, <1>a, <1>c, <2>1 DEF Changing, Holds, Preparing
    <2>4. LinksOrdered' /\ NullOnly'
      BY Zenon, <1>a, <1>b, <1>e, <2>1 DEF LinksOrdered, NullOnly, Committed, RelPtr, Null
    <2> QED
      BY Zenon, <1>u, <2>1, <2>2, <2>3, <2>4
  <1>14. ASSUME NEW t \in Thread, Bitmap(t) PROVE Rest'
    <2>1. /\ phase = "up" /\ phase' = "up"
          /\ pc[t] = "bitmap" /\ pc'[t] = "release"
          /\ op' = op
          /\ link' = link
          /\ hdr'.state = hdr.state /\ hdr'.bit_idx = hdr.bit_idx /\ hdr'.on = hdr.on
          /\ hdr'.bitmap = IF op[t].kind = "activate" THEN hdr.bitmap \cup {op[t].slot} ELSE hdr.bitmap \ {op[t].slot}
      BY ZenonT(30), <1>a, <1>14 DEF Bitmap, At, Goto, StoreHdr, Header
    <2>2. CallAt(t)'
      BY <1>a, <1>b, <1>c, <1>e, <2>1 DEF CallAt, OnFor, Target
    <2>3. (~Changing(t) => Clean)'
      BY Zenon, <1>a, <1>c, <2>1 DEF Changing, Holds, Preparing
    <2>4. LinksOrdered' /\ NullOnly'
      BY Zenon, <1>a, <1>b, <1>e, <2>1 DEF LinksOrdered, NullOnly, Committed
    <2> QED
      BY Zenon, <1>u, <2>1, <2>2, <2>3, <2>4
  <1>15. ASSUME NEW t \in Thread, Release(t) PROVE Rest'
    <2>1. /\ phase = "up" /\ phase' = "up"
          /\ pc[t] = "release" /\ pc'[t] = "unset"
          /\ op' = op
          /\ link' = link
          /\ hdr'.state = "INITIALIZED"
      BY Zenon, <1>a, <1>15 DEF Release, At, Goto, StoreHdr, Header
    <2>2. CallAt(t)'
      BY Zenon, <1>a, <1>b, <1>c, <1>e, <2>1 DEF CallAt
    <2>3. (~Changing(t) => Clean)'
      BY Zenon, <1>a, <1>c, <2>1 DEF Changing, Holds, Preparing
    <2>4. LinksOrdered' /\ NullOnly'
      BY Zenon, <1>a, <1>b, <1>e, <2>1 DEF LinksOrdered, NullOnly, Committed
    <2> QED
      BY Zenon, <1>u, <2>1, <2>2, <2>3, <2>4
  <1>16. ASSUME NEW t \in Thread, Unset(t) PROVE Rest'
    <2>1. /\ phase = "up" /\ phase' = "up"
          /\ pc[t] = "unset" /\ pc'[t] = "clear"
          /\ op' = op
          /\ link' = link
          /\ hdr'.state = hdr.state /\ hdr'.bit_idx = NoBit
      BY Zenon, <1>a, <1>16 DEF Unset, At, Goto, StoreHdr, Header
    <2>2. CallAt(t)'
      BY Zenon, <1>a, <1>b, <1>c, <1>e, <2>1 DEF CallAt
    <2>3. (~Changing(t) => Clean)'
      BY Zenon, <1>a, <1>c, <2>1 DEF Changing, Holds, Preparing
    <2>4. LinksOrdered' /\ NullOnly'
      BY Zenon, <1>a, <1>b, <1>e, <2>1 DEF LinksOrdered, NullOnly, Committed, CallAt
    <2> QED
      BY Zenon, <1>u, <2>1, <2>2, <2>3, <2>4
  <1>17. ASSUME NEW t \in Thread, Clear(t) PROVE Rest'
    <2>1. /\ phase = "up" /\ phase' = "up"
          /\ pc[t] = "clear" /\ pc'[t] = IF op[t].kind = "activate" THEN "idle" ELSE "vfree"
          /\ link' = link
          /\ hdr'.state = hdr.state /\ hdr'.bit_idx = hdr.bit_idx /\ hdr'.on = ClearOn
      BY Zenon, <1>a, <1>17 DEF Clear, At, Goto, StoreHdr, Header, Return
    <2>2. CallAt(t)'
      BY Zenon, <1>a, <1>b, <1>c, <1>e, <2>1 DEF CallAt
    <2>3. (~Changing(t) => Clean)'
      BY Zenon, <1>a, <1>b, <2>1 DEF Changing, Holds, Preparing, Clean, CallAt
    <2>4. LinksOrdered' /\ NullOnly'
      BY Zenon, <1>a, <1>b, <1>e, <2>1 DEF LinksOrdered, NullOnly, Committed, CallAt
    <2> QED
      BY Zenon, <1>u, <2>1, <2>2, <2>3, <2>4
  <1>18. CASE Foreign \/ RecoveryThread \/ UNCHANGED vars
    <2>1. UNCHANGED <<hdr, link, phase, rec, pc, op>> /\ (phase = "recover" => log' = log)
      BY ZenonT(30), <1>18 DEF Foreign, RecoveryThread, StoreLog, memory, vars
    <2>2. UpOK'
      BY <2>1 DEF CrashInv, UpOK, CallAt, OnFor, Target, Changing, Holds, Preparing, Clean
    <2>3. RecoverOK'
      BY Zenon, <2>1 DEF CrashInv, RecoverOK, Clean, Named, Committed, LinksDone, BitDone
    <2>4. LinksOrdered' /\ NullOnly'
      BY Zenon, <1>a, <2>1 DEF LinksOrdered, NullOnly, Committed
    <2> QED
      BY Zenon, <2>2, <2>3, <2>4 DEF Rest
  <1>19. CASE Evict
    BY Zenon, <1>19 DEF Evict, LoggedThread
  <1>20. CASE Crash
    <2>1. /\ phase' = "recover" /\ rec'.at = "scan" /\ rec'.i = 0
          /\ hdr' = hdr /\ link' = link /\ log' = log
      BY Zenon, <1>20 DEF Crash, CrashInv, Mirror
    <2>2. Clean \/ Named(0)
      <3>1. CASE phase = "up" /\ \A t \in Thread : ~Changing(t)
        BY Zenon, <3>1 DEF CrashInv, UpOK
      <3>2. CASE phase = "up" /\ \E t \in Thread : Changing(t)
        BY Zenon, <1>20, <3>2 DEF Crash, LoggedThread, CallsAreLogged, Changing, Holds, Preparing, Named
      <3>3. CASE phase # "up"
        <4>1. phase = "recover" /\ rec.i \in 0 .. LogSize
          BY Zenon, <1>a, <1>20, <3>3 DEF Crash
        <4>2. CASE rec.at \in {"scan", "forget"}
          BY <4>1, <4>2 DEF CrashInv, RecoverOK, Named
        <4>3. CASE rec.at \notin {"scan", "forget"}
          <5>1. log[rec.i] = "run" /\ rec.i # LogSize
            BY Zenon, <4>1, <4>3 DEF CrashInv, RecoverOK, ScanEnds
          <5> QED
            BY <4>1, <5>1 DEF Named
        <4> QED
          BY Zenon, <4>2, <4>3
      <3> QED
        BY Zenon, <3>1, <3>2, <3>3
    <2>3. RecoverOK'
      BY Zenon, <2>1, <2>2 DEF RecoverOK, Clean, Named
    <2>4. UpOK' /\ LinksOrdered' /\ NullOnly'
      BY Zenon, <1>a, <2>1 DEF UpOK, LinksOrdered, NullOnly, Committed
    <2> QED
      BY Zenon, <2>3, <2>4 DEF Rest
  <1>21. CASE RecScan
    <2>1. /\ phase = "recover" /\ phase' = "recover" /\ rec.at = "scan" /\ rec.i < LogSize
          /\ hdr' = hdr /\ link' = link /\ log' = log
          /\ rec'.i = rec.i
          /\ rec'.at = IF log[rec.i] # "run" THEN "forget"
                       ELSE IF ~Committed THEN "vheader"
                       ELSE IF hdr.on[1].ptr = NoCell THEN "bitmap" ELSE "link1"
      BY Zenon, <1>a, <1>21 DEF RecScan, RecAt, RecGoto, memory
    <2>2. Clean \/ Named(rec.i)
      BY Zenon, <2>1 DEF CrashInv, RecoverOK
    <2>3. log[rec.i] # "run" => Clean \/ Named(rec.i + 1)
      BY <1>a, <2>1, <2>2 DEF Named
    <2>4. Committed /\ hdr.on[1].ptr = NoCell => LinksDone
      BY <1>a DEF LinksOrdered, LinksDone
    <2>5. RecoverOK'
      BY Zenon, <2>1, <2>3, <2>4 DEF RecoverOK, Clean, Named, Committed, LinksDone
    <2>6. UpOK' /\ LinksOrdered' /\ NullOnly'
      BY Zenon, <1>a, <2>1 DEF UpOK, LinksOrdered, NullOnly, Committed
    <2> QED
      BY Zenon, <2>5, <2>6 DEF Rest
  <1>22. CASE RecLink1
    <2>1. /\ phase = "recover" /\ phase' = "recover" /\ rec.at = "link1"
          /\ hdr' = hdr /\ log' = log
          /\ link' = [link EXCEPT ![hdr.on[1].ptr] = AbsPtr(hdr.on[1].value)]
          /\ rec'.i = rec.i
          /\ rec'.at = IF hdr.on[2].ptr = NoCell THEN "bitmap" ELSE "link2"
      BY Zenon, <1>a, <1>22 DEF RecLink1, RecAt, RecGoto, StoreLink
    <2>2. /\ log[rec.i] = "run" /\ Committed /\ hdr.on[1].ptr # NoCell
      BY Zenon, <2>1 DEF CrashInv, RecoverOK
    <2>3. hdr.on[1].ptr \in Cell /\ link'[hdr.on[1].ptr].obj = hdr.on[1].value
      BY <1>a, <2>1, <2>2 DEF AbsPtr, Null, PtrSet
    <2>4. hdr.on[2].ptr = NoCell => LinksDone'
      BY <2>1, <2>3 DEF LinksDone
    <2>5. RecoverOK'
      BY Zenon, <2>1, <2>2, <2>3, <2>4 DEF RecoverOK, Committed
    <2>6. NullOnly'
      BY Zenon, <1>a, <2>1 DEF NullOnly, AbsPtr, Null
    <2>7. UpOK' /\ LinksOrdered'
      BY Zenon, <1>a, <2>1 DEF UpOK, LinksOrdered, Committed
    <2> QED
      BY Zenon, <2>5, <2>6, <2>7 DEF Rest
  <1>23. CASE RecLink2
    <2>1. /\ phase = "recover" /\ phase' = "recover" /\ rec.at = "link2"
          /\ hdr' = hdr /\ log' = log
          /\ link' = [link EXCEPT ![hdr.on[2].ptr] = AbsPtr(hdr.on[2].value)]
          /\ rec'.i = rec.i /\ rec'.at = "bitmap"
      BY Zenon, <1>a, <1>23 DEF RecLink2, RecAt, RecGoto, StoreLink
    <2>2. /\ log[rec.i] = "run" /\ Committed /\ hdr.on[2].ptr # NoCell
          /\ link[hdr.on[1].ptr].obj = hdr.on[1].value
      BY Zenon, <2>1 DEF CrashInv, RecoverOK
    <2>3. /\ hdr.on[2].ptr \in Cell /\ link'[hdr.on[2].ptr].obj = hdr.on[2].value
          /\ link'[hdr.on[1].ptr] = link[hdr.on[1].ptr]
      <3>1. hdr.on[2].ptr \in Cell /\ hdr.on[1].ptr \in Cell /\ hdr.on[1].ptr # hdr.on[2].ptr
        BY <1>a, <2>2 DEF PtrSet, LinksOrdered
      <3> QED
        BY Zenon, <1>a, <2>1, <3>1 DEF AbsPtr, Null
    <2>4. LinksDone'
      BY <2>1, <2>2, <2>3 DEF LinksDone
    <2>5. RecoverOK'
      BY Zenon, <2>1, <2>2, <2>4 DEF RecoverOK, Committed
    <2>6. NullOnly'
      BY Zenon, <1>a, <2>1 DEF NullOnly, AbsPtr, Null
    <2>7. UpOK' /\ LinksOrdered'
      BY Zenon, <1>a, <2>1 DEF UpOK, LinksOrdered, Committed
    <2> QED
      BY Zenon, <2>5, <2>6, <2>7 DEF Rest
  <1>24. CASE RecBitmap
    <2>1. /\ phase = "recover" /\ phase' = "recover" /\ rec.at = "bitmap"
          /\ link' = link /\ log' = log
          /\ hdr'.state = hdr.state /\ hdr'.on = hdr.on /\ hdr'.bit_idx = hdr.bit_idx
          /\ hdr'.bitmap = IF hdr.state = "ACTIVATING" THEN hdr.bitmap \cup ({hdr.bit_idx} \ {NoBit})
                                                       ELSE hdr.bitmap \ {hdr.bit_idx}
          /\ rec'.i = rec.i /\ rec'.at = "vheader"
      BY Zenon, <1>a, <1>24 DEF RecBitmap, RecAt, RecGoto, StoreHdr, Header
    <2>2. log[rec.i] = "run" /\ Committed /\ LinksDone
      BY Zenon, <2>1 DEF CrashInv, RecoverOK
    <2>3. LinksDone' /\ BitDone'
      BY Zenon, <2>1, <2>2 DEF LinksDone, BitDone
    <2>4. RecoverOK'
      BY Zenon, <2>1, <2>2, <2>3 DEF RecoverOK
    <2>5. UpOK' /\ LinksOrdered' /\ NullOnly'
      BY Zenon, <1>a, <2>1 DEF UpOK, LinksOrdered, NullOnly, Committed
    <2> QED
      BY Zenon, <2>4, <2>5 DEF Rest
  <1>25. CASE RecVHeader
    <2>1. /\ phase = "recover" /\ phase' = "recover" /\ rec.at = "vheader"
          /\ link' = link /\ log' = log
          /\ hdr'.state = hdr.state /\ hdr'.on = ClearOn /\ hdr'.bit_idx = hdr.bit_idx
          /\ hdr'.bitmap = hdr.bitmap
          /\ rec'.i = rec.i /\ rec'.at = "unset"
      BY Zenon, <1>a, <1>25 DEF RecVHeader, RecAt, RecGoto, StoreHdr, Header
    <2>2. log[rec.i] = "run" /\ (Committed => BitDone)
      BY Zenon, <2>1 DEF CrashInv, RecoverOK
    <2>3. RecoverOK'
      BY Zenon, <2>1, <2>2 DEF RecoverOK, BitDone, Committed
    <2>4. UpOK' /\ LinksOrdered' /\ NullOnly'
      BY <1>a, <2>1 DEF UpOK, LinksOrdered, NullOnly, Committed, ClearOn, NoPtrSet
    <2> QED
      BY Zenon, <2>3, <2>4 DEF Rest
  <1>26. CASE RecUnset
    <2>1. /\ phase = "recover" /\ phase' = "recover" /\ rec.at = "unset"
          /\ link' = link /\ log' = log
          /\ hdr'.state = hdr.state /\ hdr'.on = hdr.on /\ hdr'.bit_idx = NoBit
          /\ rec'.i = rec.i /\ rec'.at = "settle"
      BY Zenon, <1>a, <1>26 DEF RecUnset, RecAt, RecGoto, StoreHdr, Header
    <2>2. log[rec.i] = "run" /\ hdr.on = ClearOn
      BY Zenon, <2>1 DEF CrashInv, RecoverOK
    <2>3. RecoverOK'
      BY Zenon, <2>1, <2>2 DEF RecoverOK
    <2>4. UpOK' /\ LinksOrdered' /\ NullOnly'
      BY Zenon, <1>a, <2>1 DEF UpOK, LinksOrdered, NullOnly, Committed
    <2> QED
      BY Zenon, <2>3, <2>4 DEF Rest
  <1>27. CASE RecSettle
    <2>1. /\ phase = "recover" /\ phase' = "recover" /\ rec.at = "settle"
          /\ link' = link
          /\ hdr'.state = "INITIALIZED" /\ hdr'.on = hdr.on /\ hdr'.bit_idx = hdr.bit_idx
          /\ rec'.at = "forget"
      BY Zenon, <1>a, <1>27 DEF RecSettle, RecAt, RecGoto, StoreHdr, Header
    <2>2. Clean'
      BY Zenon, <2>1 DEF CrashInv, RecoverOK, Clean
    <2>3. RecoverOK'
      BY Zenon, <2>1, <2>2 DEF RecoverOK, Clean, Committed
    <2>4. UpOK' /\ LinksOrdered' /\ NullOnly'
      BY Zenon, <1>a, <2>1 DEF UpOK, LinksOrdered, NullOnly, Committed
    <2> QED
      BY Zenon, <2>3, <2>4 DEF Rest
  <1>28. CASE RecForget
    <2>1. /\ phase = "recover" /\ phase' = "recover" /\ rec.at = "forget" /\ rec.i < LogSize
          /\ hdr' = hdr /\ link' = link
          /\ log' = [log EXCEPT ![rec.i] = "none"]
          /\ rec'.i = rec.i + 1 /\ rec'.at = "scan"
      BY Zenon, <1>a, <1>28 DEF RecForget, RecAt, StoreLog
    <2>2. Clean \/ Named(rec.i + 1)
      BY Zenon, <2>1 DEF CrashInv, RecoverOK
    <2>3. Clean' \/ Named(rec.i)'
      <3>1. CASE Clean
        BY Zenon, <2>1, <3>1 DEF Clean
      <3>2. CASE Named(rec.i + 1)
        <4>1. PICK j \in rec.i + 1 .. LogSize - 1 : log[j] = "run"
          BY Zenon, <3>2 DEF Named
        <4>2. log'[j] = "run" /\ j \in rec'.i .. LogSize - 1
          BY <1>a, <2>1, <4>1
        <4> QED
          BY Zenon, <4>2 DEF Named
      <3> QED
        BY Zenon, <2>2, <3>1, <3>2
    <2>4. RecoverOK'
      BY Zenon, <2>1, <2>3 DEF RecoverOK
    <2>5. UpOK' /\ LinksOrdered' /\ NullOnly'
      BY Zenon, <1>a, <2>1 DEF UpOK, LinksOrdered, NullOnly, Committed
    <2> QED
      BY Zenon, <2>4, <2>5 DEF Rest
  <1>29. CASE RecDone
    <2>1. /\ phase = "recover" /\ phase' = "up" /\ rec.i = LogSize
          /\ hdr' = hdr /\ link' = link /\ pc' = pc
      BY Zenon, <1>29 DEF RecDone, memory
    <2>2. rec.at = "scan" /\ ~Named(rec.i)
      BY <2>1 DEF CrashInv, ScanEnds, Named
    <2>3. Clean
      BY Zenon, <2>1, <2>2 DEF CrashInv, RecoverOK
    <2>4. \A t \in Thread : pc'[t] = "idle"
      BY Zenon, <2>1 DEF CrashInv, IInv, ReplayOK
    <2>5. UpOK'
      BY Zenon, <2>1, <2>3, <2>4 DEF UpOK, CallAt, Clean
    <2>6. RecoverOK' /\ LinksOrdered' /\ NullOnly'
      BY Zenon, <1>a, <2>1 DEF RecoverOK, LinksOrdered, NullOnly, Committed
    <2> QED
      BY Zenon, <2>5, <2>6 DEF Rest
  <1> QED
    BY Zenon, <1>1, <1>2, <1>3, <1>4, <1>5, <1>6, <1>7, <1>8, <1>9, <1>10, <1>11, <1>12, <1>13, <1>14,
       <1>15, <1>16, <1>17, <1>18, <1>19, <1>20, <1>21, <1>22, <1>23, <1>24, <1>25, <1>26, <1>27,
       <1>28, <1>29 DEF Next, ThreadStep, RecoveryStep

\* The empty run satisfies it.
LEMMA InitCrashInv == Init => CrashInv
  <1> SUFFICES ASSUME Init PROVE CrashInv
    BY Zenon
  <1>1. \A t \in Thread : pc[t] = "idle"
    BY Zenon DEF Init
  <1>2. Clean /\ ~Committed
    BY Zenon DEF Init, Clean, EmptyHeader, Committed
  <1>3. UpOK /\ RecoverOK /\ LinksOrdered /\ ScanEnds
    BY Zenon, <1>1, <1>2 DEF Init, UpOK, CallAt, RecoverOK, LinksOrdered, ScanEnds
  <1>4. Mirror /\ NullOnly
    BY Zenon DEF Init, Mirror, NullOnly
  <1> QED
    BY Zenon, <1>3, <1>4, InitIInv DEF CrashInv

\* The inductive invariant holds in every reachable state.
THEOREM CrashInvHolds == LoggedThread => (Spec => []CrashInv)
  <1> SUFFICES ASSUME LoggedThread PROVE Spec => []CrashInv
    BY Zenon
  <1>1. CrashInv /\ [Next]_vars => CrashInv'
    BY Zenon, NextCrashInv
  <1> QED
    BY <1>1, InitCrashInv, PTL DEF Spec

\* When no call is in progress no call is left half done on NVRAM, whatever
\* crashes there were in the calls that the log names and in the recovery.
THEOREM RecoveredHeaderIsFree == LoggedThread => (Spec => []QuietHeaderIsFree)
  <1> SUFFICES ASSUME LoggedThread PROVE Spec => []QuietHeaderIsFree
    BY Zenon
  <1>1. CrashInv => QuietHeaderIsFree
    BY Zenon DEF CrashInv, UpOK, Clean, QuietHeaderIsFree, Quiet, Changing, Holds, Preparing
  <1> QED
    BY <1>1, CrashInvHolds, PTL

--------------------------------------------------------------------------------
(* Refinement: the calls of the thread implement the atomic ones of AtomicRun. *)

\* What the recovery would make of a header and of a cell.
UsedIn(h) ==
  {s \in Slot : \/ s \in h.bitmap /\ ~(h.state = "FREEING" /\ s = h.bit_idx)
                \/ h.state = "ACTIVATING" /\ s = h.bit_idx}

CommittedIn(h) == h.state \in {"ACTIVATING", "FREEING"}

CellIn(h, l, c) ==
  IF CommittedIn(h) /\ \E k \in 1 .. 2 : h.on[k].ptr = c
  THEN h.on[CHOOSE k \in 1 .. 2 : h.on[k].ptr = c].value
  ELSE l[c].obj

\* The call of thread t as a request, and whether it has yet to take effect.
RequestOf(t) == [kind |-> op[t].kind, slot |-> op[t].slot, cells |-> Cells(op[t].links)]
Waits(t) == \/ pc[t] \in {"log_claim", "log_store", "cas"} \/ Preparing(t)
            \/ pc[t] = "bitmap" /\ op[t].links = NoLinks

\* The recovery leaves a cell as it is when no committed call names it, or when
\* what the call stores there has been stored.
LEMMA CellKept ==
  ASSUME NEW h, NEW l, NEW c,
         ~CommittedIn(h) \/ \A k \in 1 .. 2 : h.on[k].ptr = c => l[c].obj = h.on[k].value
  PROVE  CellIn(h, l, c) = l[c].obj
  <1>1. CASE CommittedIn(h) /\ \E k \in 1 .. 2 : h.on[k].ptr = c
    <2> DEFINE j == CHOOSE k \in 1 .. 2 : h.on[k].ptr = c
    <2>1. j \in 1 .. 2 /\ h.on[j].ptr = c
      BY Zenon, <1>1
    <2>2. CellIn(h, l, c) = h.on[j].value
      BY Zenon, <1>1 DEF CellIn
    <2> HIDE DEF j
    <2> QED
      BY Zenon, <1>1, <2>1, <2>2
  <1>2. CASE ~(CommittedIn(h) /\ \E k \in 1 .. 2 : h.on[k].ptr = c)
    BY Zenon, <1>2 DEF CellIn
  <1> QED
    BY Zenon, <1>1, <1>2

\* Every step of the thread, of a crash and of the recovery is a step of the
\* atomic calls, or none.
LEMMA StepSimulates ==
  ASSUME LoggedThread, CrashInv, CrashInv', [Next]_vars
  PROVE  [Atomic!Next]_(Atomic!absvars)
  <1> DEFINE M(h, l) == [c \in Cell |-> CellIn(h, l, c)]
  <1>a. /\ hdr \in Header /\ hdr.on \in [1 .. 2 -> PtrSet]
        /\ link \in [Cell -> LinkVal]
        /\ rec \in [i : 0 .. LogSize, at : RecPCs]
        /\ pc \in [Thread -> PCs]
        /\ op \in [Thread -> Op]
        /\ \A t \in Thread : op[t].links \in LinkArgs /\ CallOK(t)
        /\ HeaderExclusion
    BY Zenon DEF CrashInv, IInv, TypeOK, Header, Op
  <1>b. \A t \in Thread : phase = "up" => CallAt(t)
    BY Zenon DEF CrashInv, UpOK
  <1>c. ASSUME NEW t \in Thread, phase = "up", ~Changing(t)
        PROVE  Clean
    BY Zenon, <1>c DEF LoggedThread, CrashInv, UpOK
  <1>m. /\ RecoveredUsed = UsedIn(hdr) /\ RecoveredCell = M(hdr, link)
        /\ RecoveredUsed' = UsedIn(hdr') /\ RecoveredCell' = M(hdr', link')
    BY Zenon DEF RecoveredUsed, RecoveredCell, UsedIn, CellIn, Committed, CommittedIn
  <1>p. ASSUME NEW t \in Thread
        PROVE  /\ Pending = IF Waits(t) THEN {RequestOf(t)} ELSE {}
               /\ Pending' = IF Waits(t)' THEN {RequestOf(t)'} ELSE {}
    <2>1. \A u \in Thread : u = t
      BY Zenon DEF LoggedThread
    <2> QED
      BY Zenon, <2>1 DEF Pending, Waits, RequestOf
  <1>s. ASSUME UsedIn(hdr') = UsedIn(hdr), M(hdr', link') = M(hdr, link), Pending' = Pending
        PROVE  UNCHANGED Atomic!absvars
    BY Zenon, <1>m, <1>s DEF Atomic!absvars
  <1> HIDE DEF M
  <1>u. \A c : Cells(NoLinks) = {} /\ NoCell \notin Cells(NoLinks)
    BY Zenon DEF Cells, NoLinks
  <1>r. ASSUME NEW t \in Thread, Waits(t), phase = "up"
        PROVE  RequestOf(t) \in Atomic!Request
    <2>1. pc[t] # "idle" /\ op[t] \in Op
      BY Zenon, <1>r, <1>a DEF Waits, Preparing
    <2>2. op[t].kind \in {"activate", "free"} /\ op[t].slot \in Slot
      BY Zenon, <2>1, <1>a DEF CallOK, Op
    <2>3. Cells(op[t].links) \subseteq Cell
      BY <1>a DEF Cells, LinkArgs
    <2> QED
      BY Zenon, <2>2, <2>3 DEF RequestOf, Atomic!Request, Atomic!Objects, Slot
  <1>1. ASSUME NEW t \in Thread, Reserve(t) \/ LogClaim(t) \/ LogStore(t) \/ VFree(t)
        PROVE  UNCHANGED Atomic!absvars
    <2>1. hdr' = hdr /\ link' = link
      BY Zenon, <1>1 DEF Reserve, LogClaim, LogStore, VFree, StoreLog, memory
    <2>2. CASE Reserve(t) \/ VFree(t)
      <3>1. pc[t] \in {"idle", "vfree"} /\ pc'[t] \in {"idle", "reserved"}
        BY Zenon, <2>2, <1>a DEF Reserve, VFree, At, Goto, Return
      <3> QED
        BY Zenon, <3>1, <1>p, <1>s, <2>1 DEF Waits, Preparing
    <2>3. CASE LogClaim(t) \/ LogStore(t)
      <3>1. /\ pc[t] \in {"log_claim", "log_store"} /\ pc'[t] \in {"log_store", "cas"}
            /\ op'[t].kind = op[t].kind /\ op'[t].slot = op[t].slot /\ op'[t].links = op[t].links
        <4>1. CASE LogClaim(t)
          <5>1. op' = [op EXCEPT ![t].idx = next_log] /\ op[t] \in Op
            BY Zenon, <4>1, <1>a DEF LogClaim
          <5>2. /\ op'[t].kind = op[t].kind /\ op'[t].slot = op[t].slot /\ op'[t].links = op[t].links
            BY Zenon, <5>1, <1>a DEF Op
          <5> QED
            BY Zenon, <4>1, <5>2, <1>a DEF LogClaim, At, Goto
        <4>2. CASE LogStore(t)
          BY Zenon, <4>2, <1>a DEF LogStore, At, Goto
        <4> QED
          BY Zenon, <2>3, <4>1, <4>2
      <3>2. RequestOf(t)' = RequestOf(t)
        BY Zenon, <3>1 DEF RequestOf
      <3> QED
        BY Zenon, <3>1, <3>2, <1>p, <1>s, <2>1 DEF Waits
    <2> QED
      BY Zenon, <1>1, <2>2, <2>3
  <1>2. CASE Foreign \/ Evict \/ RecScan \/ RecForget \/ RecDone \/ RecoveryThread \/ UNCHANGED vars
    <2>1. hdr' = hdr /\ link' = link /\ pc' = pc /\ op' = op
      BY Zenon, <1>2 DEF Foreign, Evict, RecScan, RecForget, RecDone, RecoveryThread, StoreLog, memory, vars
    <2>2. Pending' = Pending
      BY Zenon, <2>1 DEF Pending, Preparing
    <2> QED
      BY Zenon, <1>s, <2>1, <2>2
  <1>3. ASSUME NEW t \in Thread, CallActivate(t) \/ CallFree(t)
        PROVE  \E r \in Atomic!Request : Atomic!Ask(r)
    <2>1. /\ phase = "up" /\ pc[t] \in {"idle", "reserved"} /\ pc'[t] \in {"log_claim", "cas"}
          /\ hdr' = hdr /\ link' = link /\ phase' = phase
      BY Zenon, <1>3, <1>a DEF CallActivate, CallFree, At, Goto, memory
    <2>2. Clean
      BY Zenon, <2>1, <1>c DEF Changing, Holds, Preparing
    <2>3. ~CommittedIn(hdr) /\ hdr.state # "FREEING" /\ hdr.state # "ACTIVATING"
      BY Zenon, <2>2 DEF Clean, CommittedIn
    <2>4. UsedIn(hdr) = hdr.bitmap /\ \A c \in Cell : M(hdr, link)[c] = link[c].obj
      BY <2>3, CellKept, <1>a DEF UsedIn, Header, M
    <2>5. Pending = {} /\ Pending' = {RequestOf(t)'}
      BY Zenon, <2>1, <1>p DEF Waits, Preparing
    <2>6. RequestOf(t)' \in Atomic!Request
      <3>1. op'[t] \in Op /\ op'[t].links \in LinkArgs /\ CallOK(t)'
        BY Zenon DEF CrashInv, IInv, TypeOK, Op
      <3>2. op'[t].kind \in {"activate", "free"} /\ op'[t].slot \in Slot
        BY Zenon, <2>1, <3>1 DEF CallOK, Op
      <3>3. Cells(op'[t].links) \subseteq Cell
        BY Zenon, <3>1 DEF Cells, LinkArgs
      <3> QED
        BY Zenon, <3>2, <3>3 DEF RequestOf, Atomic!Request, Atomic!Objects, Slot
    <2>7. CASE CallActivate(t)
      <3>1. PICK l \in LinkArgs : /\ \A c \in Cells(l) : link[c] = Null
                                  /\ op' = [op EXCEPT ![t].links = l]
        BY Zenon, <2>7 DEF CallActivate
      <3>2. op'[t].kind = "activate" /\ op'[t].slot = op[t].slot /\ op'[t].links = l
        BY <3>1, <2>7, <1>a DEF Op, CallOK, CallActivate, At
      <3>3. Cells(l) \subseteq Cell
        BY Zenon DEF Cells, LinkArgs
      <3>4. \A c \in Cells(l) : M(hdr, link)[c] = -1
        BY <3>1, <3>3, <2>4 DEF Null, NoBit
      <3>5. RequestOf(t)'.kind = "activate" /\ RequestOf(t)'.slot = op[t].slot /\ RequestOf(t)'.cells = Cells(l)
        BY Zenon, <3>2 DEF RequestOf
      <3> QED
        BY Zenon, <3>4, <3>5, <2>1, <2>4, <2>5, <2>6, <1>m DEF Atomic!Ask, Atomic!Legal
    <2>8. CASE CallFree(t)
      <3>1. PICK s \in hdr.bitmap, l \in LinkArgs :
              /\ Cells(l) = {c \in Cell : link[c].obj = s}
              /\ op' = [op EXCEPT ![t] = [kind |-> "free", slot |-> s, links |-> l, idx |-> 0]]
        BY Zenon, <2>8 DEF CallFree
      <3>2. op'[t].kind = "free" /\ op'[t].slot = s /\ op'[t].links = l
        BY Zenon, <3>1, <1>a
      <3>3. Cells(l) = {c \in Cell : M(hdr, link)[c] = s}
        BY Zenon, <3>1, <2>4
      <3>4. RequestOf(t)'.kind = "free" /\ RequestOf(t)'.slot = s /\ RequestOf(t)'.cells = Cells(l)
        BY Zenon, <3>2 DEF RequestOf
      <3> QED
        BY Zenon, <3>3, <3>4, <2>1, <2>4, <2>5, <2>6, <1>m DEF Atomic!Ask, Atomic!Legal
    <2> QED
      BY Zenon, <1>3, <2>7, <2>8
  <1>4. ASSUME NEW t \in Thread, Cas(t) \/ Prepare(t) \/ StoreOn1(t) \/ StoreOn2(t)
        PROVE  UNCHANGED Atomic!absvars
    <2>1. /\ phase = "up" /\ pc[t] \in {"cas", "prepare", "on1", "on2"} /\ op' = op /\ link' = link
          /\ hdr'.bitmap = hdr.bitmap
      BY Zenon, <1>4, <1>a DEF Cas, Prepare, StoreOn1, StoreOn2, StoreOn, StoreHdr, At, Header
    <2>2. hdr.state \notin {"ACTIVATING", "FREEING"}
      <3>1. CASE Cas(t)
        BY Zenon, <3>1 DEF Cas
      <3>2. CASE Prepare(t) \/ StoreOn1(t) \/ StoreOn2(t)
        BY Zenon, <3>2, <1>a DEF Prepare, StoreOn1, StoreOn2, At, HeaderExclusion, Holds, Preparing, Prepared
      <3> QED
        BY Zenon, <1>4, <3>1, <3>2
    <2>3. hdr'.state \notin {"ACTIVATING", "FREEING"}
      <3>1. hdr'.state \in {hdr.state, Prepared(op[t])}
        BY Zenon, <1>4, <1>a DEF Cas, Prepare, StoreOn1, StoreOn2, StoreOn, StoreHdr, At, Header
      <3> QED
        BY Zenon, <3>1, <2>2 DEF Prepared
    <2>4. UsedIn(hdr') = UsedIn(hdr)
      BY Zenon, <2>1, <2>2, <2>3 DEF UsedIn
    <2>5. M(hdr', link') = M(hdr, link)
      BY <2>1, <2>2, <2>3, CellKept DEF M, CommittedIn
    <2>6. RequestOf(t)' = RequestOf(t)
      BY Zenon, <2>1 DEF RequestOf
    <2>7. Waits(t)
      BY Zenon, <2>1 DEF Waits, Preparing
    <2>8. Waits(t)'
      <3>1. CASE pc'[t] # "bitmap"
        BY Zenon, <3>1, <1>4, <1>a DEF Cas, Prepare, StoreOn1, StoreOn2, Goto, Waits, Preparing
      <3>2. CASE pc'[t] = "bitmap"
        <4>1. op[t].links[1] = NoCell
          BY Zenon, <3>2, <1>4, <1>a DEF Cas, Prepare, StoreOn1, StoreOn2, Goto
        <4>2. op[t].links = NoLinks
          BY <4>1, <1>a DEF LinkArgs, NoLinks
        <4> QED
          BY Zenon, <3>2, <4>2, <2>1 DEF Waits
      <3> QED
        BY Zenon, <3>1, <3>2
    <2> QED
      BY Zenon, <2>4, <2>5, <2>6, <2>7, <2>8, <1>p, <1>s
  <1>5. ASSUME NEW t \in Thread, Commit(t)
        PROVE  \E r \in Atomic!Request : Atomic!Do(r)
    <2>1. /\ phase = "up" /\ pc[t] = "commit" /\ pc'[t] = "link1" /\ op' = op /\ link' = link
          /\ hdr'.bitmap = hdr.bitmap /\ hdr'.on = hdr.on /\ hdr'.bit_idx = hdr.bit_idx
          /\ hdr'.state = InProgress(op[t])
      BY Zenon, <1>5, <1>a DEF Commit, StoreHdr, At, Goto, Header
    <2>2. hdr.state = Prepared(op[t]) /\ hdr.bit_idx = op[t].slot
      BY Zenon, <2>1, <1>a, <1>b DEF HeaderExclusion, Holds, Preparing, CallAt
    <2>3. \A k \in 1 .. 2 : hdr'.on[k] = OnFor(t, k)
      BY Zenon, <2>1, <1>b DEF CallAt
    <2>4. Waits(t) /\ ~Waits(t)'
      BY Zenon, <2>1 DEF Waits, Preparing
    <2>5. RequestOf(t) \in Atomic!Request
      BY Zenon, <2>4, <2>1, <1>r
    <2>6. Pending = {RequestOf(t)} /\ Pending' = {}
      BY Zenon, <2>4, <1>p
    <2>7. op[t].kind \in {"activate", "free"} /\ op[t].slot \in Slot
      BY Zenon, <2>5 DEF RequestOf, Atomic!Request, Atomic!Objects, Slot
    <2>8. ~CommittedIn(hdr) /\ CommittedIn(hdr')
      BY Zenon, <2>1, <2>2 DEF CommittedIn, Prepared, InProgress
    <2>9. UsedIn(hdr') = IF op[t].kind = "activate" THEN UsedIn(hdr) \cup {op[t].slot}
                                                    ELSE UsedIn(hdr) \ {op[t].slot}
      BY Zenon, <2>1, <2>2, <2>7 DEF UsedIn, Prepared, InProgress
    <2>10. ASSUME NEW c \in Cell
           PROVE  M(hdr', link')[c] = IF c \notin Cells(op[t].links) THEN M(hdr, link)[c] ELSE Target(op[t])
      <3>1. M(hdr, link)[c] = link[c].obj
        BY <2>8, CellKept DEF M
      <3>2. CASE c \notin Cells(op[t].links)
        <4>1. \A k \in 1 .. 2 : op[t].links[k] # c
          BY Zenon, <3>2 DEF Cells
        <4>2. \A k \in 1 .. 2 : hdr'.on[k].ptr # c
          BY <4>1, <2>3 DEF OnFor, NoPtrSet
        <4>3. CellIn(hdr', link', c) = link'[c].obj
          BY <4>2, CellKept
        <4> QED
          BY Zenon, <4>3, <3>1, <3>2, <2>1 DEF M
      <3>3. CASE c \in Cells(op[t].links)
        <4>1. \E k \in 1 .. 2 : op[t].links[k] = c
          BY Zenon, <3>3 DEF Cells
        <4>2. \E k \in 1 .. 2 : hdr'.on[k].ptr = c
          BY <4>1, <2>3 DEF OnFor
        <4>3. \A k \in 1 .. 2 : hdr'.on[k].ptr = c => hdr'.on[k].value = Target(op[t])
          BY <2>3 DEF OnFor, NoPtrSet
        <4>4. CellIn(hdr', link', c) = Target(op[t])
          <5> DEFINE j == CHOOSE k \in 1 .. 2 : hdr'.on[k].ptr = c
          <5>1. j \in 1 .. 2 /\ hdr'.on[j].ptr = c
            BY Zenon, <4>2
          <5>2. CellIn(hdr', link', c) = hdr'.on[j].value
            BY Zenon, <2>8, <4>2 DEF CellIn
          <5> HIDE DEF j
          <5> QED
            BY Zenon, <4>3, <5>1, <5>2
        <4> QED
          BY Zenon, <4>4, <3>3 DEF M
      <3> QED
        BY Zenon, <3>2, <3>3
    <2>11. M(hdr', link') = [c \in Cell |-> IF c \notin RequestOf(t).cells THEN M(hdr, link)[c]
                                            ELSE IF RequestOf(t).kind = "activate" THEN RequestOf(t).slot ELSE -1]
      BY Zenon, <2>10 DEF M, RequestOf, Target, NoBit
    <2> QED
      BY Zenon, <2>5, <2>6, <2>9, <2>11, <1>m DEF Atomic!Do, RequestOf
  <1>6. ASSUME NEW t \in Thread, Link1(t) \/ Link2(t)
        PROVE  UNCHANGED Atomic!absvars
    <2>1. PICK k \in 1 .. 2 : /\ phase = "up" /\ pc[t] = (IF k = 1 THEN "link1" ELSE "link2")
                              /\ link' = [link EXCEPT ![op[t].links[k]] = RelPtr(Target(op[t]))]
      <3>1. CASE Link1(t)
        BY <3>1 DEF Link1, At, StoreLink
      <3>2. CASE Link2(t)
        <4>1. phase = "up" /\ pc[t] = "link2" /\ link' = [link EXCEPT ![op[t].links[2]] = RelPtr(Target(op[t]))]
          BY Zenon, <3>2 DEF Link2, At, StoreLink
        <4> QED
          BY <4>1
      <3> QED
        BY Zenon, <1>6, <3>1, <3>2
    <2>2. hdr' = hdr /\ op' = op /\ pc'[t] \in {"link2", "bitmap"}
      BY ZenonT(30), <1>6, <1>a DEF Link1, Link2, StoreLink, Goto
    <2>3. hdr.on[k] = OnFor(t, k) /\ op[t].links[k] # NoCell /\ op[t].links[1] # NoCell
      BY <2>1, <1>a, <1>b DEF CallAt, CallOK
    <2>4. CommittedIn(hdr)
      <3>1. Holds(t) /\ ~Preparing(t) /\ op[t].links # NoLinks
        BY Zenon, <2>1, <2>3 DEF Holds, Preparing, NoLinks
      <3> QED
        BY Zenon, <3>1, <1>a DEF HeaderExclusion, InProgress, CommittedIn
    <2>5. hdr.on[k].ptr = op[t].links[k]
      BY <2>3 DEF OnFor
    <2>6. \A c \in Cell : CellIn(hdr, link', c) = CellIn(hdr, link, c)
      BY Zenon, <2>1, <2>4, <2>5, <1>a DEF CellIn
    <2>7. M(hdr', link') = M(hdr, link)
      BY Zenon, <2>6, <2>2 DEF M
    <2>8. ~Waits(t) /\ ~Waits(t)'
      BY Zenon, <2>1, <2>2, <2>3 DEF Waits, Preparing, NoLinks
    <2> QED
      BY Zenon, <2>2, <2>7, <2>8, <1>p, <1>s
  <1>7. ASSUME NEW t \in Thread, Bitmap(t)
        PROVE  UNCHANGED Atomic!absvars \/ \E r \in Atomic!Request : Atomic!Do(r)
    <2>1. /\ phase = "up" /\ pc[t] = "bitmap" /\ pc'[t] = "release" /\ op' = op /\ link' = link
          /\ hdr'.bitmap = (IF op[t].kind = "activate" THEN hdr.bitmap \cup {op[t].slot}
                                                       ELSE hdr.bitmap \ {op[t].slot})
          /\ hdr'.on = hdr.on /\ hdr'.bit_idx = hdr.bit_idx /\ hdr'.state = hdr.state
      BY Zenon, <1>7, <1>a DEF Bitmap, StoreHdr, At, Goto, Header
    <2>2. ~Waits(t)'
      BY Zenon, <2>1 DEF Waits, Preparing
    <2>3. M(hdr', link') = M(hdr, link)
      BY Zenon, <2>1 DEF M, CellIn, CommittedIn
    <2>4. op[t].kind \in {"activate", "free"} /\ op[t].slot \in Slot
      BY Zenon, <2>1, <1>a DEF CallOK, Op
    <2>5. hdr.bit_idx = op[t].slot
      BY Zenon, <2>1, <1>b DEF CallAt
    <2>6. Holds(t) /\ ~Preparing(t)
      BY Zenon, <2>1 DEF Holds, Preparing
    <2>7. CASE op[t].links = NoLinks
      <3>1. hdr.state = Prepared(op[t])
        BY Zenon, <2>6, <2>7, <1>a DEF HeaderExclusion
      <3>2. UsedIn(hdr') = IF op[t].kind = "activate" THEN UsedIn(hdr) \cup {op[t].slot}
                                                      ELSE UsedIn(hdr) \ {op[t].slot}
        BY Zenon, <2>1, <2>4, <3>1 DEF UsedIn, Prepared
      <3>3. Waits(t)
        BY Zenon, <2>1, <2>7 DEF Waits
      <3>4. RequestOf(t) \in Atomic!Request /\ Pending = {RequestOf(t)} /\ Pending' = {}
        BY Zenon, <3>3, <2>1, <2>2, <1>r, <1>p
      <3>5. RequestOf(t).cells = {}
        BY Zenon, <2>7, <1>u DEF RequestOf
      <3>6. M(hdr, link) = [c \in Cell |-> M(hdr, link)[c]]
        BY Zenon DEF M
      <3> QED
        BY Zenon, <3>2, <3>4, <3>5, <3>6, <2>3, <1>m DEF Atomic!Do, RequestOf
    <2>8. CASE op[t].links # NoLinks
      <3>1. hdr.state = InProgress(op[t])
        BY Zenon, <2>6, <2>8, <1>a DEF HeaderExclusion
      <3>2. UsedIn(hdr') = UsedIn(hdr)
        BY Zenon, <2>1, <2>4, <2>5, <3>1 DEF UsedIn, InProgress
      <3>3. ~Waits(t)
        BY Zenon, <2>1, <2>8 DEF Waits, Preparing
      <3> QED
        BY Zenon, <3>2, <3>3, <2>2, <2>3, <1>p, <1>s
    <2> QED
      BY Zenon, <2>7, <2>8
  <1>8. ASSUME NEW t \in Thread, Release(t)
        PROVE  UNCHANGED Atomic!absvars
    <2>1. /\ phase = "up" /\ pc[t] = "release" /\ pc'[t] = "unset" /\ link' = link
          /\ hdr'.bitmap = hdr.bitmap /\ hdr'.state = "INITIALIZED"
      BY Zenon, <1>8, <1>a DEF Release, StoreHdr, At, Goto, Header
    <2>2. /\ hdr.bit_idx = op[t].slot
          /\ \A k \in 1 .. 2 : hdr.on[k] = OnFor(t, k)
          /\ \A k \in 1 .. 2 : op[t].links[k] # NoCell => link[op[t].links[k]].obj = Target(op[t])
          /\ op[t].slot \in hdr.bitmap <=> op[t].kind = "activate"
      BY Zenon, <2>1, <1>b DEF CallAt
    <2>3. hdr.state \in {Prepared(op[t]), InProgress(op[t])}
      BY Zenon, <2>1, <1>a DEF HeaderExclusion, Holds, Preparing
    <2>4. UsedIn(hdr') = UsedIn(hdr)
      BY Zenon, <2>1, <2>2, <2>3 DEF UsedIn, Prepared, InProgress
    <2>5. ASSUME NEW c \in Cell, NEW k \in 1 .. 2, hdr.on[k].ptr = c
          PROVE  link[c].obj = hdr.on[k].value
      BY <2>5, <2>2 DEF OnFor, NoPtrSet
    <2>6. \A c \in Cell : CellIn(hdr, link, c) = link[c].obj /\ CellIn(hdr', link', c) = link[c].obj
      BY <2>1, <2>5, CellKept DEF CommittedIn
    <2>7. M(hdr', link') = M(hdr, link)
      BY Zenon, <2>6 DEF M
    <2>8. ~Waits(t) /\ ~Waits(t)'
      BY Zenon, <2>1 DEF Waits, Preparing
    <2> QED
      BY Zenon, <2>4, <2>7, <2>8, <1>p, <1>s
  <1>9. ASSUME NEW t \in Thread, Unset(t) \/ Clear(t)
        PROVE  UNCHANGED Atomic!absvars
    <2>1. /\ phase = "up" /\ pc[t] \in {"unset", "clear"} /\ pc'[t] \in {"idle", "clear", "vfree"} /\ link' = link
          /\ hdr'.bitmap = hdr.bitmap /\ hdr'.state = hdr.state
      BY Zenon, <1>9, <1>a DEF Unset, Clear, StoreHdr, At, Goto, Return, Header
    <2>2. hdr.state = "INITIALIZED"
      BY Zenon, <2>1, <1>b DEF CallAt
    <2>3. UsedIn(hdr') = UsedIn(hdr)
      BY Zenon, <2>1, <2>2 DEF UsedIn
    <2>4. M(hdr', link') = M(hdr, link)
      BY <2>1, <2>2, CellKept DEF M, CommittedIn
    <2>5. ~Waits(t) /\ ~Waits(t)'
      BY Zenon, <2>1 DEF Waits, Preparing
    <2> QED
      BY Zenon, <2>3, <2>4, <2>5, <1>p, <1>s
  <1>10. CASE Crash
    <2>1. hdr' = hdr /\ link' = link /\ \A t \in Thread : pc'[t] = "idle"
      BY Zenon, <1>10 DEF Crash, CrashInv, Mirror
    <2>2. Pending' = {}
      BY Zenon, <2>1 DEF Pending, Preparing
    <2>3. Atomic!Forget
      BY Zenon, <2>1, <2>2, <1>m DEF Atomic!Forget
    <2> QED
      BY Zenon, <2>3 DEF Atomic!Next
  <1>i. ASSUME phase = "recover", pc' = pc
        PROVE  Pending = {} /\ Pending' = {}
    <2>1. \A t \in Thread : pc[t] = "idle"
      BY Zenon, <1>i DEF CrashInv, IInv, ReplayOK
    <2> QED
      BY Zenon, <2>1, <1>i DEF Pending, Preparing
  <1>11. CASE RecLink1 \/ RecLink2
    <2>1. phase = "recover" /\ rec.at \in {"link1", "link2"} /\ pc' = pc /\ hdr' = hdr
      BY Zenon, <1>11 DEF RecLink1, RecLink2, RecAt, StoreLink
    <2>2. \E k \in 1 .. 2 : link' = [link EXCEPT ![hdr.on[k].ptr] = AbsPtr(hdr.on[k].value)]
      <3>1. CASE RecLink1
        BY <3>1 DEF RecLink1, StoreLink
      <3>2. CASE RecLink2
        <4>1. link' = [link EXCEPT ![hdr.on[2].ptr] = AbsPtr(hdr.on[2].value)]
          BY Zenon, <3>2 DEF RecLink2, StoreLink
        <4> QED
          BY <4>1
      <3> QED
        BY Zenon, <1>11, <3>1, <3>2
    <2>3. CommittedIn(hdr)
      BY Zenon, <2>1 DEF CrashInv, RecoverOK, Committed, CommittedIn
    <2>4. \A c \in Cell : CellIn(hdr, link', c) = CellIn(hdr, link, c)
      BY Zenon, <2>2, <2>3, <1>a DEF CellIn
    <2>5. M(hdr', link') = M(hdr, link)
      BY Zenon, <2>4, <2>1 DEF M
    <2> QED
      BY Zenon, <2>1, <2>5, <1>i, <1>s
  <1>12. CASE RecBitmap
    <2>1. /\ phase = "recover" /\ rec.at = "bitmap" /\ pc' = pc /\ link' = link
          /\ hdr'.bitmap = (IF hdr.state = "ACTIVATING" THEN hdr.bitmap \cup ({hdr.bit_idx} \ {NoBit})
                                                        ELSE hdr.bitmap \ {hdr.bit_idx})
          /\ hdr'.on = hdr.on /\ hdr'.bit_idx = hdr.bit_idx /\ hdr'.state = hdr.state
      BY Zenon, <1>12, <1>a DEF RecBitmap, RecAt, StoreHdr, Header
    <2>2. hdr.state \in {"ACTIVATING", "FREEING"}
      BY Zenon, <2>1 DEF CrashInv, RecoverOK, Committed
    <2>3. UsedIn(hdr') = UsedIn(hdr)
      BY Zenon, <2>1, <2>2 DEF UsedIn
    <2>4. M(hdr', link') = M(hdr, link)
      BY Zenon, <2>1 DEF M, CellIn, CommittedIn
    <2> QED
      BY Zenon, <2>1, <2>3, <2>4, <1>i, <1>s
  <1>13. CASE RecVHeader
    <2>1. /\ phase = "recover" /\ rec.at = "vheader" /\ pc' = pc /\ link' = link
          /\ hdr'.bitmap = hdr.bitmap /\ hdr'.on = ClearOn /\ hdr'.bit_idx = hdr.bit_idx
          /\ hdr'.state = hdr.state
      BY Zenon, <1>13, <1>a DEF RecVHeader, RecAt, StoreHdr, Header
    <2>2. UsedIn(hdr') = UsedIn(hdr)
      BY Zenon, <2>1 DEF UsedIn
    <2>3. CommittedIn(hdr) => LinksDone
      BY Zenon, <2>1 DEF CrashInv, RecoverOK, Committed, CommittedIn
    <2>4. \A c \in Cell : c # NoCell /\ CellIn(hdr, link, c) = link[c].obj
      BY <2>3, CellKept DEF LinksDone
    <2>5. \A c \in Cell : \A k \in 1 .. 2 : hdr'.on[k].ptr # c
      BY <2>1 DEF ClearOn, NoPtrSet
    <2>6. \A c \in Cell : CellIn(hdr', link', c) = link[c].obj
      BY <2>1, <2>5, CellKept
    <2>7. M(hdr', link') = M(hdr, link)
      BY Zenon, <2>4, <2>6 DEF M
    <2> QED
      BY Zenon, <2>1, <2>2, <2>7, <1>i, <1>s
  <1>14. CASE RecUnset \/ RecSettle
    <2>1. /\ phase = "recover" /\ rec.at \in {"unset", "settle"} /\ pc' = pc /\ link' = link
          /\ hdr'.bitmap = hdr.bitmap /\ hdr'.on = hdr.on
          /\ hdr'.bit_idx = NoBit /\ hdr'.state \in {hdr.state, "INITIALIZED"}
      <3>1. CASE RecUnset
        BY Zenon, <3>1, <1>a DEF RecUnset, RecAt, StoreHdr, Header
      <3>2. CASE RecSettle
        <4>1. hdr.bit_idx = NoBit
          BY Zenon, <3>2 DEF RecSettle, RecAt, CrashInv, RecoverOK
        <4> QED
          BY Zenon, <4>1, <3>2, <1>a DEF RecSettle, RecAt, StoreHdr, Header
      <3> QED
        BY Zenon, <1>14, <3>1, <3>2
    <2>2. /\ hdr.on = ClearOn
          /\ CommittedIn(hdr) => hdr.bit_idx = NoBit \/ (hdr.bit_idx \in hdr.bitmap <=> hdr.state = "ACTIVATING")
      BY Zenon, <2>1 DEF CrashInv, RecoverOK, BitDone, Committed, CommittedIn
    <2>3. UsedIn(hdr') = UsedIn(hdr)
      BY <2>1, <2>2 DEF UsedIn, CommittedIn, NoBit, Slot
    <2>4. \A c \in Cell : \A k \in 1 .. 2 : hdr.on[k].ptr # c /\ hdr'.on[k].ptr # c
      BY <2>1, <2>2 DEF ClearOn, NoPtrSet
    <2>5. \A c \in Cell : CellIn(hdr, link, c) = link[c].obj /\ CellIn(hdr', link', c) = link[c].obj
      BY <2>1, <2>4, CellKept
    <2>6. M(hdr', link') = M(hdr, link)
      BY Zenon, <2>5 DEF M
    <2> QED
      BY Zenon, <2>1, <2>3, <2>6, <1>i, <1>s
  <1> QED
    BY Zenon, <1>1, <1>2, <1>3, <1>4, <1>5, <1>6, <1>7, <1>8, <1>9, <1>10, <1>11, <1>12, <1>13, <1>14
    DEF Next, ThreadStep, RecoveryStep, Atomic!Next

\* nvm_activate and nvm_free are failure-atomic with respect to crashes at any
\* store, in the calls that the log names and in the recovery: what the recovery would make of NVRAM
\* behaves like the allocator whose calls are single steps.
THEOREM CallsImplementAtomicOnes == LoggedThread => (Spec => CallsAreFailureAtomic)
  <1> SUFFICES ASSUME LoggedThread PROVE Spec => CallsAreFailureAtomic
    BY Zenon
  <1>1. Init => Atomic!Init
    <2> SUFFICES ASSUME Init PROVE Atomic!Init
      BY Zenon
    <2>1. hdr.state = "INITIALIZED" /\ hdr.bitmap = {}
      BY Zenon DEF Init, EmptyHeader
    <2>2. RecoveredUsed = {}
      BY Zenon, <2>1 DEF RecoveredUsed
    <2>3. RecoveredCell = [c \in Cell |-> -1]
      BY Zenon, <2>1 DEF Init, RecoveredCell, Committed, Null, NoBit
    <2>4. Pending = {}
      BY Zenon DEF Init, Pending, Preparing
    <2> QED
      BY Zenon, <2>2, <2>3, <2>4 DEF Atomic!Init
  <1>2. CrashInv /\ CrashInv' /\ [Next]_vars => [Atomic!Next]_(Atomic!absvars)
    BY Zenon, StepSimulates
  <1> QED
    BY <1>1, <1>2, CrashInvHolds, PTL DEF Spec, Atomic!Spec, CallsAreFailureAtomic

\* A pointer on NVRAM that names an object names an allocated one, before and after
\* any crash: the atomic allocator leaves no dangling cell, the calls implement
\* it, and when no call is in progress NVRAM is what the recovery would make of it.
THEOREM LinksNameObjects == LoggedThread => (Spec => []LinksNameAllocatedObjects)
  <1> SUFFICES ASSUME LoggedThread PROVE Spec => []LinksNameAllocatedObjects
    BY Zenon
  <1>1. CallsAreFailureAtomic => []Atomic!NoDangling
    BY Zenon, Atomic!CellsNameAllocatedObjects DEF CallsAreFailureAtomic
  <1>2. CrashInv /\ Atomic!NoDangling => LinksNameAllocatedObjects
    <2> SUFFICES ASSUME CrashInv, Atomic!NoDangling, Quiet, NEW c \in Cell, link[c] # Null
                 PROVE  link[c].obj \in hdr.bitmap
      BY Zenon DEF LinksNameAllocatedObjects
    <2>1. hdr.state = "INITIALIZED"
      BY Zenon DEF CrashInv, UpOK, Clean, Quiet, Changing, Holds, Preparing
    <2>2. RecoveredCell[c] = link[c].obj /\ RecoveredUsed \subseteq hdr.bitmap
      BY Zenon, <2>1 DEF RecoveredCell, RecoveredUsed, Committed
    <2>3. link[c].obj # -1
      BY Zenon DEF CrashInv, NullOnly, NoBit
    <2> QED
      BY Zenon, <2>2, <2>3 DEF Atomic!NoDangling
  <1> QED
    BY <1>1, <1>2, CallsImplementAtomicOnes, CrashInvHolds, PTL

================================================================================
