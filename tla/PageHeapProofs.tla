---------------------------- MODULE PageHeapProofs -----------------------------
(******************************************************************************)
(* The pages of an arena, for every number of threads, pages, chunks and      *)
(* crashes: at any store of a carving, a free or a restart the headers of a   *)
(* chunk tile it, every tile has one owner or will be met by the walk of the  *)
(* recovery thread, and so no page has two owners and none is lost.           *)
(******************************************************************************)
EXTENDS PageHeapTiles, WellFoundedInduction

(* The other calls and the crash. *)

\* The cleared header becomes that of a run.
LEMMA SetRunHInv ==
  ASSUME Waits, NEW T, TileInv(T), NEW t \in Thread, SetRun(t)
  PROVE  TileInv(T)'
<1> USE DEF TileInv
<1> DEFINE x == op[t].node
<1>1. /\ Busy(t) /\ pc[t] = "set_run" /\ op[t].kind = "run" /\ op[t].n = 1 /\ x.n = 1
  <2>1. pc[t] = "set_run" /\ OpOK(T, t)
    BY Zenon DEF SetRun, At, Good
  <2> QED
    BY Zenon, <2>1 DEF OpOK, CallOK, NodeOK, Busy
<1>2. /\ x.c \in Chunk /\ x.p \in Page /\ x.n \in Page /\ Tile(T[x.c], x.p, x.n)
      /\ scan.at = "off" /\ chunk[x.c] # "absent" /\ x.p \in T[x.c]
  BY Zenon, <1>1, NodeFacts
<1>3. PICK o : o = Object(t, x.c, x.p)
  BY Zenon
<1>4. /\ owned' = owned \cup {o} /\ Return(t) /\ UNCHANGED <<chunk, tree, mtx, scan, crashes>>
      /\ SetHeader(x.c, x.p, "RUN", 0)
  BY Zenon, <1>3 DEF SetRun
<1>5. o = [c |-> x.c, p |-> x.p, n |-> 1, kind |-> "run", active |-> TRUE]
  BY Zenon, <1>1, <1>3 DEF Object
<1>6. /\ \A d \in Chunk, q \in Page : d # x.c \/ q # x.p => hdr'[d][q] = hdr[d][q]
      /\ hdr'[x.c][x.p] = RunHeader
      /\ hdr' \in [Chunk -> [Page -> Header]]
  <2>1. 0 \in 0 .. Pages
    BY DEF Waits
  <2> QED
    BY <1>2, <1>4, <2>1, HeaderStore DEF RunHeader, TypeInv
<1>7. /\ \A y \in tree \cup owned : First(y) # <<x.c, x.p>>
      /\ \A u \in Thread : Busy(u) /\ u # t => First(op[u].node) # <<x.c, x.p>>
      /\ First(o) = <<x.c, x.p>>
  BY Zenon, <1>1, <1>5, NodeIsOwn DEF First
<1>8. /\ pc'[t] = "idle" /\ op'[t] = NoOp /\ ~Busy(t)'
      /\ \A u \in Thread : u # t => pc'[u] = pc[u] /\ op'[u] = op[u] /\ (Busy(u)' <=> Busy(u))
      /\ pc' \in [Thread -> Label]
      /\ op' \in [Thread -> OpType]
  BY Zenon, <1>4, ReturnFacts DEF Waits
<1>9. TypeInv'
  <2>1. o \in [c : Chunk, p : Page, n : Page, kind : {"block", "run"}, active : BOOLEAN]
    BY Zenon, <1>1, <1>2, <1>5
  <2> QED
    BY Zenon, <1>4, <1>6, <1>8, <2>1 DEF TypeInv, TypeOK
<1>10. OwnersApart'
  <2>1. \A z \in tree', w \in owned' : First(z) # First(w)
    BY Zenon, <1>4, <1>7 DEF OwnersApart
  <2>2. \A u \in Thread : Busy(u)' => \A z \in tree' \cup owned' : First(op'[u].node) # First(z)
    BY Zenon, <1>4, <1>7, <1>8 DEF OwnersApart
  <2>3. \A u, v \in Thread : Busy(u)' /\ Busy(v)' /\ u # v => First(op'[u].node) # First(op'[v].node)
    BY Zenon, <1>8 DEF OwnersApart
  <2> QED
    BY Zenon, <2>1, <2>2, <2>3 DEF OwnersApart, First
<1>11. /\ \A y, g : Is(T, y, g) /\ y.c \in Chunk /\ First(y) # <<x.c, x.p>> => Is(T, y, g)'
       /\ \A u \in Thread :
            /\ pc'[u] = pc[u] /\ op'[u] = op[u] /\ (mtx' = mtx \/ mtx # u)
            /\ Busy(u) => First(op[u].node) # <<x.c, x.p>>
            => OpOK(T, u)'
       /\ Tiled(T)'
  <2>1. hdr'[x.c][x.p].usage = "RUN" /\ Width(hdr'[x.c][x.p]) = 1
    BY <1>6 DEF RunHeader, Width
  <2>2. hdr'[x.c][x.p].usage # "DEFAULT" /\ Tile(T[x.c], x.p, Width(hdr'[x.c][x.p]))
    BY Zenon, <1>1, <1>2, <2>1
  <2> QED
    BY Zenon, <1>2, <1>4, <1>6, <2>2, StoreFrame
<1>12. TreeOK(T)'
  BY Zenon, <1>4, <1>7, <1>11 DEF TypeInv, TypeOK, Good, TreeOK
<1>13. OwnedOK(T)'
  <2>1. \A w, g : w \in owned /\ Is(T, w, g) => Is(T, w, g)'
    BY Zenon, <1>7, <1>11 DEF TypeInv, TypeOK
  <2>2. Is(T, o, RunHeader)'
    BY Zenon, <1>1, <1>2, <1>4, <1>5, <1>6 DEF Is
  <2>3. /\ ~o.active => o.kind = "block" /\ Is(T, o, FreeHeader(o.n))'
        /\ o.active /\ o.kind = "block" => Is(T, o, [usage |-> "BLOCK", n |-> o.n])'
        /\ o.active /\ o.kind = "run" => o.n = 1 /\ Is(T, o, RunHeader)'
    BY Zenon, <1>5, <2>2
  <2> QED
    BY Zenon, <1>4, <2>1, <2>3 DEF OwnedOK, Good
<1>14. UsedAreOwned(T)'
  <2> SUFFICES ASSUME NEW d \in Chunk, NEW q \in T[d], hdr'[d][q].usage \in {"BLOCK", "RUN"}
               PROVE  \E w \in owned' : First(w) = <<d, q>>
    BY Zenon DEF UsedAreOwned, First
  <2>1. CASE <<d, q>> = <<x.c, x.p>>
    BY Zenon, <1>4, <1>7, <2>1
  <2>2. CASE <<d, q>> # <<x.c, x.p>>
    <3>1. hdr'[d][q] = hdr[d][q]
      BY Zenon, <1>6, <2>2
    <3> QED
      BY Zenon, <1>4, <3>1 DEF Good, UsedAreOwned
  <2> QED
    BY Zenon, <2>1, <2>2
<1>15. ASSUME NEW u \in Thread PROVE OpOK(T, u)'
  <2>1. CASE u = t
    BY Zenon, <1>8, <2>1, IdleThread
  <2>2. CASE u # t
    BY Zenon, <1>4, <1>7, <1>8, <1>11, <2>2
  <2> QED
    BY Zenon, <2>1, <2>2
<1>16. ScanOK(T)'
  BY Zenon, <1>2, <1>4 DEF Good, ScanOK
<1>17. NoTileLost(T)'
  <2> SUFFICES ASSUME NEW d \in Chunk, chunk[d] # "absent", NEW q \in T[d]
               PROVE  Claimed(d, q)'
    BY Zenon, <1>4 DEF NoTileLost
  <2>1. Claimed(d, q)
    BY Zenon, <1>2 DEF Good, NoTileLost, Ahead
  <2>2. CASE <<d, q>> = <<x.c, x.p>>
    BY Zenon, <1>4, <1>7, <2>2 DEF Claimed, First
  <2>3. CASE <<d, q>> # <<x.c, x.p>>
    <3>1. CASE \E z \in tree \cup owned : First(z) = <<d, q>>
      BY Zenon, <1>4, <3>1 DEF Claimed
    <3>2. CASE \E u \in Thread : Busy(u) /\ First(op[u].node) = <<d, q>>
      BY Zenon, <1>8, <2>3, <3>2 DEF Claimed, First
    <3> QED
      BY Zenon, <2>1, <3>1, <3>2 DEF Claimed
  <2> QED
    BY Zenon, <2>2, <2>3
<1>18. Prefix'
  BY Zenon, <1>4 DEF Prefix
<1> QED
  BY Zenon, <1>9, <1>10, <1>11, <1>12, <1>13, <1>14, <1>15, <1>16, <1>17, <1>18 DEF Good

\* A reservation takes a free block out of the tree, or goes for a new chunk.
LEMMA CreateHInv ==
  ASSUME Waits, NEW T, TileInv(T), NEW t \in Thread, Create(t)
  PROVE  TileInv(T)'
<1> USE DEF TileInv
<1>1. pc[t] = "idle" /\ scan.at = "off" /\ ~Busy(t)
  BY Zenon, MayCallFacts DEF Create
<1>2. mtx = NoThread /\ mtx' = t /\ UNCHANGED <<chunk, hdr, owned, scan, crashes>>
  BY Zenon DEF Create
<1>3. PICK k \in {"block", "run"}, n \in Sizes \cup {1} :
       /\ IF k = "run" THEN n = 1 /\ Cardinality(Runs) < MaxRuns ELSE n \in Sizes
       /\ \/ \E x \in UpperBound(n) :
               /\ tree' = tree \ {x}
               /\ op' = [op EXCEPT ![t] = [kind |-> k, n |-> n, node |-> x]]
               /\ Goto(t, "carve")
          \/ /\ UpperBound(n) = {}
             /\ \E c \in Chunk : chunk[c] = "absent"
             /\ op' = [op EXCEPT ![t] = [kind |-> k, n |-> n, node |-> Node(0, 0, 0)]]
             /\ Goto(t, "add_chunk")
             /\ UNCHANGED tree
  BY Zenon DEF Create
<1>4. n \in Page /\ n \in 0 .. Pages /\ (k = "run" => n = 1)
  <2>1. n \in Page
    BY DEF Waits, Page
  <2> QED
    BY <1>3, <2>1 DEF Page
<1>5. SameTiles(T)
  BY Zenon, <1>2 DEF SameTiles
<1>6. Tiled(T)' /\ OwnedOK(T)' /\ UsedAreOwned(T)' /\ Prefix'
  BY Zenon, <1>2, <1>5, TilesFrame DEF Good
<1>7. ScanOK(T)'
  BY Zenon, <1>1, <1>2 DEF Good, ScanOK
<1>8. \A u \in Thread : mtx # u
  BY Zenon, <1>2 DEF Waits
<1>9. CASE \E x \in UpperBound(n) :
               /\ tree' = tree \ {x}
               /\ op' = [op EXCEPT ![t] = [kind |-> k, n |-> n, node |-> x]]
               /\ Goto(t, "carve")
  <2>1. PICK x \in tree : /\ x.n >= n /\ tree' = tree \ {x}
                          /\ op' = [op EXCEPT ![t] = [kind |-> k, n |-> n, node |-> x]]
                          /\ pc' = [pc EXCEPT ![t] = "carve"]
    BY Zenon, <1>9 DEF UpperBound, Goto
  <2>2. /\ x \in [c : Chunk, p : Page, n : Page] /\ chunk[x.c] # "absent"
        /\ Tile(T[x.c], x.p, x.n) /\ hdr[x.c][x.p] = FreeHeader(x.n)
    BY Zenon DEF TypeInv, TypeOK, Good, TreeOK, Is
  <2>3. /\ op'[t] = [kind |-> k, n |-> n, node |-> x] /\ pc'[t] = "carve" /\ Busy(t)'
        /\ \A u \in Thread : u # t => pc'[u] = pc[u] /\ op'[u] = op[u] /\ (Busy(u)' <=> Busy(u))
    BY Zenon, <2>1 DEF TypeInv, TypeOK, Busy
  <2>4. TypeInv'
    <3>1. x \in [c : 0 .. MaxChunks, p : 0 .. Pages, n : 0 .. Pages]
      BY <2>2 DEF Page, Chunk, Waits
    <3>2. op' \in [Thread -> OpType]
      BY Zenon, <1>4, <2>1, <3>1 DEF TypeInv, OpType
    <3>3. tree' \subseteq [c : Chunk, p : Page, n : Page] /\ mtx' \in Thread \cup {NoThread}
      BY Zenon, <1>2, <2>1 DEF TypeInv, TypeOK
    <3> QED
      BY Zenon, <1>2, <2>1, <3>2, <3>3 DEF TypeInv, TypeOK, Label
  <2>5. /\ \A y \in tree' \cup owned' : First(y) # First(x)
        /\ \A u \in Thread : Busy(u) => First(op[u].node) # First(x)
    <3>1. \A y \in tree' : First(y) # First(x)
      BY Zenon, <2>1, ClaimsUnique
    <3> QED
      BY Zenon, <1>2, <3>1 DEF OwnersApart
  <2>6. OwnersApart'
    <3>1. \A z \in tree', w \in owned' : First(z) # First(w)
      BY Zenon, <1>2, <2>1 DEF OwnersApart
    <3>2. \A u \in Thread : Busy(u)' => \A z \in tree' \cup owned' : First(op'[u].node) # First(z)
      BY <1>2, <2>1, <2>3, <2>5 DEF OwnersApart
    <3>3. \A u, v \in Thread : Busy(u)' /\ Busy(v)' /\ u # v => First(op'[u].node) # First(op'[v].node)
      BY <2>3, <2>5 DEF OwnersApart
    <3> QED
      BY Zenon, <3>1, <3>2, <3>3 DEF OwnersApart, First
  <2>7. TreeOK(T)'
    BY Zenon, <1>2, <2>1 DEF Good, TreeOK, Is
  <2>8. ASSUME NEW u \in Thread PROVE OpOK(T, u)'
    <3>1. CASE u = t
      <4>1. op'[t].kind = k /\ op'[t].n = n /\ op'[t].node = x /\ n <= x.n
        BY <1>4, <2>1, <2>2, <2>3 DEF Page, Waits
      <4>2. CallOK(t)'
        BY Zenon, <1>2, <1>3, <1>4, <2>3, <4>1 DEF CallOK
      <4>3. NodeOK(T, t)'
        BY Zenon, <1>2, <2>2, <2>3, <4>1 DEF NodeOK, Busy
      <4>4. HeadersOK(t)'
        BY Zenon, <1>2, <2>2, <2>3, <4>1 DEF HeadersOK
      <4> QED
        BY Zenon, <3>1, <4>2, <4>3, <4>4 DEF OpOK
    <3>2. CASE u # t
      BY Zenon, <1>2, <1>8, <2>3, <3>2, OthersFrame
    <3> QED
      BY Zenon, <3>1, <3>2
  <2>9. NoTileLost(T)'
    <3> SUFFICES ASSUME NEW d \in Chunk, chunk[d] # "absent", NEW q \in T[d]
                 PROVE  Claimed(d, q)'
      BY Zenon, <1>2 DEF NoTileLost
    <3>1. Claimed(d, q)
      BY Zenon, <1>1 DEF Good, NoTileLost, Ahead
    <3>2. CASE \E z \in tree \cup owned : z # x /\ First(z) = <<d, q>>
      BY Zenon, <1>2, <2>1, <3>2 DEF Claimed
    <3>3. CASE First(x) = <<d, q>>
      BY <2>3, <3>3 DEF Claimed, First
    <3>4. CASE \E u \in Thread : Busy(u) /\ First(op[u].node) = <<d, q>>
      BY Zenon, <1>1, <2>3, <3>4 DEF Claimed
    <3> QED
      BY Zenon, <3>1, <3>2, <3>3, <3>4 DEF Claimed
  <2> QED
    BY Zenon, <1>6, <1>7, <2>4, <2>6, <2>7, <2>8, <2>9 DEF Good
<1>10. CASE /\ UpperBound(n) = {}
            /\ \E c \in Chunk : chunk[c] = "absent"
            /\ op' = [op EXCEPT ![t] = [kind |-> k, n |-> n, node |-> Node(0, 0, 0)]]
            /\ Goto(t, "add_chunk")
            /\ UNCHANGED tree
  <2>1. /\ op' = [op EXCEPT ![t] = [kind |-> k, n |-> n, node |-> Node(0, 0, 0)]]
        /\ pc' = [pc EXCEPT ![t] = "add_chunk"] /\ tree' = tree
    BY Zenon, <1>10 DEF Goto
  <2>2. /\ op'[t] = [kind |-> k, n |-> n, node |-> Node(0, 0, 0)] /\ pc'[t] = "add_chunk" /\ ~Busy(t)'
        /\ \A u \in Thread : u # t => pc'[u] = pc[u] /\ op'[u] = op[u] /\ (Busy(u)' <=> Busy(u))
    BY Zenon, <2>1 DEF TypeInv, TypeOK, Busy
  <2>3. TypeInv'
    <3>1. op' \in [Thread -> OpType]
      BY <1>4, <2>1 DEF TypeInv, OpType, Node, Waits
    <3> QED
      BY Zenon, <1>2, <2>1, <3>1 DEF TypeInv, TypeOK, Label
  <2>4. OwnersApart'
    <3>1. \A u, v \in Thread : Busy(u)' /\ Busy(v)' /\ u # v => First(op'[u].node) # First(op'[v].node)
      BY Zenon, <2>2 DEF OwnersApart
    <3>2. \A u \in Thread : Busy(u)' => \A z \in tree \cup owned : First(op'[u].node) # First(z)
      BY Zenon, <2>2 DEF OwnersApart
    <3> QED
      BY Zenon, <1>2, <2>1, <3>1, <3>2 DEF OwnersApart, First
  <2>5. TreeOK(T)'
    BY Zenon, <1>5, <2>1, TilesFrame DEF Good
  <2>6. ASSUME NEW u \in Thread PROVE OpOK(T, u)'
    <3>1. CASE u = t
      <4>1. op'[t].kind = k /\ op'[t].n = n /\ op'[t].node = Node(0, 0, 0) /\ pc'[t] = "add_chunk"
        BY <2>2
      <4>2. \E c \in Chunk : chunk'[c] = "absent"
        BY Zenon, <1>2, <1>10
      <4>3. CallOK(t)'
        BY Zenon, <1>2, <1>3, <1>4, <4>1 DEF CallOK
      <4>4. NodeOK(T, t)'
        BY Zenon, <4>1, <4>2 DEF NodeOK, Busy
      <4>5. HeadersOK(t)'
        BY Zenon, <4>1 DEF HeadersOK
      <4> QED
        BY Zenon, <3>1, <4>3, <4>4, <4>5 DEF OpOK
    <3>2. CASE u # t
      BY Zenon, <1>2, <1>8, <2>2, <3>2, OthersFrame
    <3> QED
      BY Zenon, <3>1, <3>2
  <2>7. NoTileLost(T)'
    <3> SUFFICES ASSUME NEW d \in Chunk, chunk[d] # "absent", NEW q \in T[d]
                 PROVE  Claimed(d, q)'
      BY Zenon, <1>2 DEF NoTileLost
    <3>1. Claimed(d, q)
      BY Zenon, <1>1 DEF Good, NoTileLost, Ahead
    <3>2. CASE \E z \in tree \cup owned : First(z) = <<d, q>>
      BY Zenon, <1>2, <2>1, <3>2 DEF Claimed
    <3>3. CASE \E u \in Thread : Busy(u) /\ First(op[u].node) = <<d, q>>
      BY Zenon, <1>1, <2>2, <3>3 DEF Claimed
    <3> QED
      BY Zenon, <3>1, <3>2, <3>3 DEF Claimed
  <2> QED
    BY Zenon, <1>6, <1>7, <2>3, <2>4, <2>5, <2>6, <2>7 DEF Good
<1> QED
  BY Zenon, <1>3, <1>9, <1>10

\* A freed block goes back into the tree.
LEMMA AddHInv ==
  ASSUME Waits, NEW T, TileInv(T), NEW t \in Thread, Add(t)
  PROVE  TileInv(T)'
<1> USE DEF TileInv
<1>1. PICK x : x = op[t].node
  BY Zenon
<1>2. /\ Busy(t) /\ pc[t] = "add" /\ hdr[x.c][x.p] = FreeHeader(x.n)
      /\ tree' = tree \cup {x} /\ Return(t) /\ UNCHANGED <<chunk, hdr, owned, mtx, scan, crashes>>
  <2>1. pc[t] = "add" /\ OpOK(T, t)
    BY Zenon DEF Add, At, Good
  <2>2. hdr[x.c][x.p] = FreeHeader(x.n)
    BY Zenon, <1>1, <2>1 DEF OpOK, HeadersOK
  <2> QED
    BY Zenon, <1>1, <2>1, <2>2 DEF Add, Busy
<1>3. /\ x = [c |-> x.c, p |-> x.p, n |-> x.n]
      /\ x.c \in Chunk /\ x.p \in Page /\ x.n \in Page /\ Tile(T[x.c], x.p, x.n)
      /\ scan.at = "off" /\ chunk[x.c] # "absent" /\ x.p \in T[x.c]
  BY Zenon, <1>1, <1>2, NodeFacts DEF Node
<1>4. /\ pc'[t] = "idle" /\ op'[t] = NoOp /\ ~Busy(t)'
      /\ \A u \in Thread : u # t => pc'[u] = pc[u] /\ op'[u] = op[u] /\ (Busy(u)' <=> Busy(u))
      /\ pc' \in [Thread -> Label]
      /\ op' \in [Thread -> OpType]
  BY Zenon, <1>2, ReturnFacts DEF Waits
<1>5. TypeInv'
  <2>1. x \in [c : Chunk, p : Page, n : Page]
    BY Zenon, <1>3
  <2> QED
    BY Zenon, <1>2, <1>4, <2>1 DEF TypeInv, TypeOK
<1>6. SameTiles(T)
  BY Zenon, <1>2 DEF SameTiles
<1>7. Tiled(T)' /\ OwnedOK(T)' /\ UsedAreOwned(T)' /\ Prefix'
  BY Zenon, <1>2, <1>6, TilesFrame DEF Good
<1>8. TreeOK(T)'
  BY Zenon, <1>2, <1>3 DEF Good, TreeOK, Is
<1>9. OwnersApart'
  <2>1. \A z \in tree', w \in owned' : First(z) # First(w)
    BY Zenon, <1>1, <1>2 DEF OwnersApart
  <2>2. \A u \in Thread : Busy(u)' => \A z \in tree' \cup owned' : First(op'[u].node) # First(z)
    BY SMTT(30), <1>1, <1>2, <1>4 DEF OwnersApart
  <2>3. \A u, v \in Thread : Busy(u)' /\ Busy(v)' /\ u # v => First(op'[u].node) # First(op'[v].node)
    BY Zenon, <1>4 DEF OwnersApart
  <2> QED
    BY Zenon, <2>1, <2>2, <2>3 DEF OwnersApart, First
<1>10. ASSUME NEW u \in Thread PROVE OpOK(T, u)'
  <2>1. CASE u = t
    BY Zenon, <1>4, <2>1, IdleThread
  <2>2. CASE u # t
    BY Zenon, <1>2, <1>4, <2>2, OthersFrame
  <2> QED
    BY Zenon, <2>1, <2>2
<1>11. ScanOK(T)'
  BY Zenon, <1>2, <1>3 DEF Good, ScanOK
<1>12. NoTileLost(T)'
  <2> SUFFICES ASSUME NEW d \in Chunk, chunk[d] # "absent", NEW q \in T[d]
               PROVE  Claimed(d, q)'
    BY Zenon, <1>2 DEF NoTileLost
  <2>1. Claimed(d, q)
    BY Zenon, <1>3 DEF Good, NoTileLost, Ahead
  <2>2. CASE \E z \in tree \cup owned : First(z) = <<d, q>>
    BY Zenon, <1>2, <2>2 DEF Claimed
  <2>3. CASE \E u \in Thread : Busy(u) /\ First(op[u].node) = <<d, q>>
    BY Zenon, <1>1, <1>2, <1>4, <2>3 DEF Claimed
  <2> QED
    BY Zenon, <2>1, <2>2, <2>3 DEF Claimed
<1> QED
  BY Zenon, <1>5, <1>7, <1>8, <1>9, <1>10, <1>11, <1>12 DEF Good

\* The application makes a block its own, or gives one back, by its header alone.
LEMMA ActivateHInv ==
  ASSUME Waits, NEW T, TileInv(T), NEW t \in Thread, Activate(t)
  PROVE  TileInv(T)'
<1> USE DEF TileInv
<1>1. PICK o \in owned : /\ o.kind = "block" /\ ~o.active
                         /\ hdr' = [hdr EXCEPT ![o.c][o.p].usage = "BLOCK"]
                         /\ owned' = (owned \ {o}) \cup {[o EXCEPT !.active = TRUE]}
  BY Zenon DEF Activate
<1>2. PICK a : a = [o EXCEPT !.active = TRUE]
  BY Zenon
<1>3. /\ o \in [c : Chunk, p : Page, n : Page, kind : {"block", "run"}, active : BOOLEAN]
      /\ a \in [c : Chunk, p : Page, n : Page, kind : {"block", "run"}, active : BOOLEAN]
      /\ a.c = o.c /\ a.p = o.p /\ a.n = o.n /\ a.kind = "block" /\ a.active
  BY Zenon, <1>1, <1>2 DEF TypeInv, TypeOK
<1>4. /\ chunk[o.c] # "absent" /\ Tile(T[o.c], o.p, o.n) /\ o.p \in T[o.c]
      /\ hdr[o.c][o.p] = FreeHeader(o.n)
  BY Zenon, <1>1 DEF Good, OwnedOK, Is, Tile
<1>5. /\ scan.at = "off" /\ UNCHANGED <<chunk, tree, mtx, pc, op, scan, crashes>>
      /\ owned' = (owned \ {o}) \cup {a}
  BY Zenon, <1>1, <1>2, MayCallFacts DEF Activate
<1>6. /\ \A d \in Chunk, q \in Page : d # o.c \/ q # o.p => hdr'[d][q] = hdr[d][q]
      /\ hdr'[o.c][o.p] = [usage |-> "BLOCK", n |-> o.n]
      /\ hdr' \in [Chunk -> [Page -> Header]]
  <2>1. hdr[o.c][o.p].n = o.n
    BY <1>4 DEF FreeHeader
  <2>2. o.c \in Chunk /\ o.p \in Page
    BY Zenon, <1>1, <1>3
  <2>3. hdr' = [hdr EXCEPT ![o.c][o.p].usage = "BLOCK"] /\ TypeOK
    BY Zenon, <1>1 DEF TypeInv
  <2>4. /\ \A d \in Chunk, q \in Page :
             hdr'[d][q] = IF d = o.c /\ q = o.p THEN [usage |-> "BLOCK", n |-> hdr[o.c][o.p].n]
                          ELSE hdr[d][q]
        /\ hdr' \in [Chunk -> [Page -> Header]]
    BY Zenon, <2>2, <2>3, UsageStore
  <2> QED
    BY Zenon, <2>1, <2>2, <2>4
<1>7. TypeInv'
  BY Zenon, <1>3, <1>5, <1>6 DEF TypeInv, TypeOK
<1>8. First(a) = First(o) /\ First(o) = <<o.c, o.p>>
  BY Zenon, <1>3 DEF First
<1>9. /\ \A y \in tree : First(y) # <<o.c, o.p>>
      /\ \A y \in owned : y # o => First(y) # <<o.c, o.p>>
      /\ \A u \in Thread : Busy(u) => First(op[u].node) # <<o.c, o.p>>
  BY Zenon, <1>8, ClaimsUnique DEF OwnersApart
<1>10. \A u \in Thread : Busy(u)' <=> Busy(u)
  BY Zenon, <1>5 DEF Busy
<1>11. OwnersApart'
  <2>1. \A z \in tree', w \in owned' : First(z) # First(w)
    BY Zenon, <1>5, <1>8 DEF OwnersApart
  <2>2. \A u \in Thread : Busy(u)' => \A z \in tree' \cup owned' : First(op'[u].node) # First(z)
    BY Zenon, <1>5, <1>8, <1>10 DEF OwnersApart
  <2>3. \A u, v \in Thread : Busy(u)' /\ Busy(v)' /\ u # v => First(op'[u].node) # First(op'[v].node)
    BY Zenon, <1>5, <1>10 DEF OwnersApart
  <2> QED
    BY Zenon, <2>1, <2>2, <2>3 DEF OwnersApart, First
<1>12. /\ \A y, g : Is(T, y, g) /\ y.c \in Chunk /\ First(y) # <<o.c, o.p>> => Is(T, y, g)'
       /\ \A u \in Thread :
            /\ pc'[u] = pc[u] /\ op'[u] = op[u] /\ (mtx' = mtx \/ mtx # u)
            /\ Busy(u) => First(op[u].node) # <<o.c, o.p>>
            => OpOK(T, u)'
       /\ Tiled(T)'
  <2>1. hdr'[o.c][o.p].usage = "BLOCK" /\ Width(hdr'[o.c][o.p]) = o.n
    BY <1>6 DEF Width
  <2>2. hdr'[o.c][o.p].usage # "DEFAULT" /\ Tile(T[o.c], o.p, Width(hdr'[o.c][o.p]))
    BY Zenon, <1>4, <2>1
  <2> QED
    BY <1>3, <1>4, <1>5, <1>6, <2>2, StoreFrame
<1>13. TreeOK(T)'
  BY Zenon, <1>5, <1>9, <1>12 DEF TypeInv, TypeOK, Good, TreeOK
<1>14. OwnedOK(T)'
  <2>1. \A w, g : w \in owned /\ w # o /\ Is(T, w, g) => Is(T, w, g)'
    BY Zenon, <1>9, <1>12 DEF TypeInv, TypeOK
  <2>2. Is(T, a, [usage |-> "BLOCK", n |-> a.n])'
    BY Zenon, <1>3, <1>4, <1>5, <1>6 DEF Is
  <2>3. /\ ~a.active => a.kind = "block" /\ Is(T, a, FreeHeader(a.n))'
        /\ a.active /\ a.kind = "block" => Is(T, a, [usage |-> "BLOCK", n |-> a.n])'
        /\ a.active /\ a.kind = "run" => a.n = 1 /\ Is(T, a, RunHeader)'
    BY Zenon, <1>3, <2>2
  <2> QED
    BY Zenon, <1>5, <2>1, <2>3 DEF OwnedOK, Good
<1>15. UsedAreOwned(T)'
  <2> SUFFICES ASSUME NEW d \in Chunk, NEW q \in T[d], hdr'[d][q].usage \in {"BLOCK", "RUN"}
               PROVE  \E w \in owned' : First(w) = <<d, q>>
    BY Zenon DEF UsedAreOwned, First
  <2>1. CASE <<d, q>> = <<o.c, o.p>>
    BY Zenon, <1>5, <1>8, <2>1
  <2>2. CASE <<d, q>> # <<o.c, o.p>>
    <3>1. hdr'[d][q] = hdr[d][q]
      BY Zenon, <1>6, <2>2
    <3>2. PICK w \in owned : First(w) = <<d, q>>
      BY Zenon, <3>1 DEF Good, UsedAreOwned
    <3> QED
      BY Zenon, <1>5, <1>8, <2>2, <3>2
  <2> QED
    BY Zenon, <2>1, <2>2
<1>16. \A u \in Thread : OpOK(T, u)'
  BY Zenon, <1>5, <1>9, <1>12
<1>17. ScanOK(T)'
  BY Zenon, <1>5 DEF Good, ScanOK
<1>18. NoTileLost(T)'
  <2> SUFFICES ASSUME NEW d \in Chunk, chunk[d] # "absent", NEW q \in T[d]
               PROVE  Claimed(d, q)'
    BY Zenon, <1>5 DEF NoTileLost
  <2>1. Claimed(d, q)
    BY Zenon, <1>5 DEF Good, NoTileLost, Ahead
  <2>2. CASE \E z \in tree \cup owned : First(z) = <<d, q>>
    BY Zenon, <1>5, <1>8, <2>2 DEF Claimed
  <2>3. CASE \E u \in Thread : Busy(u) /\ First(op[u].node) = <<d, q>>
    BY Zenon, <1>5, <1>10, <2>3 DEF Claimed
  <2> QED
    BY Zenon, <2>1, <2>2, <2>3 DEF Claimed
<1>19. Prefix'
  BY Zenon, <1>5 DEF Prefix
<1> QED
  BY Zenon, <1>7, <1>11, <1>12, <1>13, <1>14, <1>15, <1>16, <1>17, <1>18, <1>19 DEF Good

\* A freed block has the header of a free one before the tree has it.
LEMMA FreeHInv ==
  ASSUME Waits, NEW T, TileInv(T), NEW t \in Thread, Free(t)
  PROVE  TileInv(T)'
<1> USE DEF TileInv
<1>1. PICK o \in owned : /\ o.kind = "block" /\ o.active
                         /\ hdr' = [hdr EXCEPT ![o.c][o.p].usage = "FREE"]
                         /\ owned' = owned \ {o}
                         /\ op' = [op EXCEPT ![t] = [kind |-> "free", n |-> o.n,
                                         node |-> Node(o.c, o.p, hdr[o.c][o.p].n)]]
  BY Zenon DEF Free
<1>2. o \in [c : Chunk, p : Page, n : Page, kind : {"block", "run"}, active : BOOLEAN]
  BY Zenon, <1>1 DEF TypeInv, TypeOK
<1>3. /\ chunk[o.c] # "absent" /\ Tile(T[o.c], o.p, o.n) /\ o.p \in T[o.c]
      /\ hdr[o.c][o.p] = [usage |-> "BLOCK", n |-> o.n]
  BY Zenon, <1>1 DEF Good, OwnedOK, Is, Tile
<1>4. /\ scan.at = "off" /\ pc[t] = "idle" /\ ~Busy(t)
      /\ pc' = [pc EXCEPT ![t] = "add"]
      /\ UNCHANGED <<chunk, tree, mtx, scan, crashes>>
  BY Zenon, MayCallFacts DEF Free, Goto
<1>5. PICK x : x = Node(o.c, o.p, o.n)
  BY Zenon
<1>6. /\ op'[t].kind = "free" /\ op'[t].node = x /\ pc'[t] = "add" /\ Busy(t)'
      /\ \A u \in Thread : u # t => pc'[u] = pc[u] /\ op'[u] = op[u] /\ (Busy(u)' <=> Busy(u))
  <2>1. hdr[o.c][o.p].n = o.n
    BY <1>3
  <2>2. op' = [op EXCEPT ![t] = [kind |-> "free", n |-> o.n, node |-> x]]
    BY Zenon, <1>1, <1>5, <2>1
  <2> QED
    BY Zenon, <1>4, <2>2 DEF TypeInv, TypeOK, Busy
<1>7. x.c = o.c /\ x.p = o.p /\ x.n = o.n /\ x \in [c : Chunk, p : Page, n : Page]
  BY Zenon, <1>2, <1>5 DEF Node
<1>8. /\ \A d \in Chunk, q \in Page : d # o.c \/ q # o.p => hdr'[d][q] = hdr[d][q]
      /\ hdr'[o.c][o.p] = FreeHeader(o.n)
      /\ hdr' \in [Chunk -> [Page -> Header]]
  <2>1. hdr[o.c][o.p].n = o.n
    BY <1>3
  <2>2. o.c \in Chunk /\ o.p \in Page
    BY Zenon, <1>1, <1>2
  <2>3. hdr' = [hdr EXCEPT ![o.c][o.p].usage = "FREE"] /\ TypeOK
    BY Zenon, <1>1 DEF TypeInv
  <2>4. /\ \A d \in Chunk, q \in Page :
             hdr'[d][q] = IF d = o.c /\ q = o.p THEN [usage |-> "FREE", n |-> hdr[o.c][o.p].n]
                          ELSE hdr[d][q]
        /\ hdr' \in [Chunk -> [Page -> Header]]
    BY Zenon, <2>2, <2>3, UsageStore
  <2> QED
    BY Zenon, <2>1, <2>2, <2>4 DEF FreeHeader
<1>9. TypeInv'
  <2>1. x \in [c : 0 .. MaxChunks, p : 0 .. Pages, n : 0 .. Pages] /\ o.n \in 0 .. Pages
    BY <1>2, <1>7 DEF Page, Chunk, Waits
  <2>2. op' = [op EXCEPT ![t] = [kind |-> "free", n |-> o.n, node |-> x]]
    BY <1>1, <1>3, <1>5
  <2>3. op' \in [Thread -> OpType]
    BY Zenon, <2>1, <2>2 DEF TypeInv, OpType
  <2>4. pc' \in [Thread -> Label]
    BY Zenon, <1>4 DEF TypeInv, TypeOK, Label
  <2> QED
    BY Zenon, <1>1, <1>4, <1>8, <2>3, <2>4 DEF TypeInv, TypeOK
<1>10. First(x) = First(o) /\ First(o) = <<o.c, o.p>>
  BY Zenon, <1>7 DEF First
<1>11. /\ \A y \in tree : First(y) # <<o.c, o.p>>
       /\ \A y \in owned : y # o => First(y) # <<o.c, o.p>>
       /\ \A u \in Thread : Busy(u) => First(op[u].node) # <<o.c, o.p>>
  BY Zenon, <1>10, ClaimsUnique DEF OwnersApart
<1>12. OwnersApart'
  <2>1. \A z \in tree', w \in owned' : First(z) # First(w)
    BY Zenon, <1>1, <1>4 DEF OwnersApart
  <2>2. \A u \in Thread : Busy(u)' => \A z \in tree' \cup owned' : First(op'[u].node) # First(z)
    BY <1>1, <1>4, <1>6, <1>10, <1>11 DEF OwnersApart
  <2>3. \A u, v \in Thread : Busy(u)' /\ Busy(v)' /\ u # v => First(op'[u].node) # First(op'[v].node)
    BY <1>6, <1>10, <1>11 DEF OwnersApart
  <2> QED
    BY Zenon, <2>1, <2>2, <2>3 DEF OwnersApart, First
<1>13. /\ \A y, g : Is(T, y, g) /\ y.c \in Chunk /\ First(y) # <<o.c, o.p>> => Is(T, y, g)'
       /\ \A u \in Thread :
            /\ pc'[u] = pc[u] /\ op'[u] = op[u] /\ (mtx' = mtx \/ mtx # u)
            /\ Busy(u) => First(op[u].node) # <<o.c, o.p>>
            => OpOK(T, u)'
       /\ Tiled(T)'
  <2>1. hdr'[o.c][o.p].usage = "FREE" /\ Width(hdr'[o.c][o.p]) = o.n
    BY <1>8 DEF Width, FreeHeader
  <2>2. hdr'[o.c][o.p].usage # "DEFAULT" /\ Tile(T[o.c], o.p, Width(hdr'[o.c][o.p]))
    BY Zenon, <1>3, <2>1
  <2> QED
    BY Zenon, <1>2, <1>3, <1>4, <1>8, <2>2, StoreFrame
<1>14. TreeOK(T)'
  BY Zenon, <1>4, <1>11, <1>13 DEF TypeInv, TypeOK, Good, TreeOK
<1>15. OwnedOK(T)'
  <2>1. \A w, g : w \in owned /\ w # o /\ Is(T, w, g) => Is(T, w, g)'
    BY Zenon, <1>11, <1>13 DEF TypeInv, TypeOK
  <2> QED
    BY Zenon, <1>1, <2>1 DEF OwnedOK, Good
<1>16. UsedAreOwned(T)'
  <2> SUFFICES ASSUME NEW d \in Chunk, NEW q \in T[d], hdr'[d][q].usage \in {"BLOCK", "RUN"}
               PROVE  \E w \in owned' : First(w) = <<d, q>>
    BY Zenon DEF UsedAreOwned, First
  <2>1. <<d, q>> # <<o.c, o.p>>
    BY <1>8 DEF FreeHeader
  <2>2. hdr'[d][q] = hdr[d][q]
    BY Zenon, <1>8, <2>1
  <2>3. PICK w \in owned : First(w) = <<d, q>>
    BY Zenon, <2>2 DEF Good, UsedAreOwned
  <2> QED
    BY Zenon, <1>1, <1>10, <2>1, <2>3
<1>17. ASSUME NEW u \in Thread PROVE OpOK(T, u)'
  <2>1. CASE u = t
    <3>1. hdr'[x.c][x.p] = FreeHeader(x.n) /\ chunk'[x.c] # "absent" /\ Tile(T[x.c], x.p, x.n)
      BY Zenon, <1>3, <1>4, <1>7, <1>8
    <3>2. CallOK(t)'
      BY Zenon, <1>6, <1>7 DEF CallOK
    <3>3. NodeOK(T, t)'
      BY Zenon, <1>6, <1>7, <3>1 DEF NodeOK, Busy
    <3>4. HeadersOK(t)'
      BY Zenon, <1>6, <1>7, <3>1 DEF HeadersOK
    <3> QED
      BY Zenon, <2>1, <3>2, <3>3, <3>4 DEF OpOK
  <2>2. CASE u # t
    BY Zenon, <1>4, <1>6, <1>11, <1>13, <2>2
  <2> QED
    BY Zenon, <2>1, <2>2
<1>18. ScanOK(T)'
  BY Zenon, <1>4 DEF Good, ScanOK
<1>19. NoTileLost(T)'
  <2> SUFFICES ASSUME NEW d \in Chunk, chunk[d] # "absent", NEW q \in T[d]
               PROVE  Claimed(d, q)'
    BY Zenon, <1>4 DEF NoTileLost
  <2>1. Claimed(d, q)
    BY Zenon, <1>4 DEF Good, NoTileLost, Ahead
  <2>2. CASE <<d, q>> = <<o.c, o.p>>
    BY Zenon, <1>6, <1>10, <2>2 DEF Claimed, First
  <2>3. CASE <<d, q>> # <<o.c, o.p>>
    <3>1. CASE \E z \in tree \cup owned : First(z) = <<d, q>>
      BY Zenon, <1>1, <1>4, <1>10, <2>3, <3>1 DEF Claimed
    <3>2. CASE \E u \in Thread : Busy(u) /\ First(op[u].node) = <<d, q>>
      BY Zenon, <1>4, <1>6, <3>2 DEF Claimed
    <3> QED
      BY Zenon, <2>1, <3>1, <3>2 DEF Claimed
  <2> QED
    BY Zenon, <2>2, <2>3
<1>20. Prefix'
  BY Zenon, <1>4 DEF Prefix
<1> QED
  BY Zenon, <1>9, <1>12, <1>13, <1>14, <1>15, <1>16, <1>17, <1>18, <1>19, <1>20 DEF Good

\* After a crash every tile is either active and known, or ahead of the walk.
LEMMA CrashHInv ==
  ASSUME Waits, NEW T, TileInv(T), Crash
  PROVE  TileInv(T)'
<1> USE DEF TileInv
<1>1. PICK k \in Chunk : \A c \in Chunk : chunk[c] # "absent" <=> c <= k
  BY Zenon DEF Prefix
<1>2. LastChunk = k
  <2>1. chunk[k] # "absent" /\ \A d \in Chunk : chunk[d] # "absent" => d <= k
    BY <1>1 DEF Chunk, Waits
  <2>2. /\ LastChunk \in Chunk /\ chunk[LastChunk] # "absent"
        /\ \A d \in Chunk : chunk[d] # "absent" => d <= LastChunk
    BY Zenon, <2>1 DEF LastChunk
  <2> QED
    BY <2>1, <2>2 DEF Chunk, Waits
<1>3. /\ tree' = {} /\ owned' = {o \in owned : o.active} /\ mtx' = NoThread
      /\ pc' = [t \in Thread |-> "idle"] /\ op' = [t \in Thread |-> NoOp]
      /\ scan' = [at |-> "chunk", c |-> 1, j |-> 0, last |-> k, node |-> Node(0, 0, 0)]
      /\ UNCHANGED <<chunk, hdr>>
  BY Zenon, <1>2 DEF Crash
<1>4. scan'.at = "chunk" /\ scan'.c = 1 /\ scan'.last = k
  BY Zenon, <1>3
<1>5. MaxCrash # 0 /\ crashes' \in 0 .. MaxCrash
  BY DEF Crash, TypeInv, TypeOK, Waits
<1>6. TypeInv'
  <2>1. scan' \in ScanType
    BY <1>3 DEF ScanType, Node, Chunk
  <2>2. op' \in [Thread -> OpType]
    BY <1>3 DEF OpType, NoOp, Node, Waits
  <2> QED
    BY Zenon, <1>3, <1>5, <2>1, <2>2 DEF TypeInv, TypeOK, Label
<1>7. \A u \in Thread : pc'[u] = "idle" /\ op'[u] = NoOp /\ ~Busy(u)'
  BY Zenon, <1>3 DEF Busy
<1>8. OwnersApart'
  BY Zenon, <1>3, <1>7 DEF OwnersApart
<1>9. SameTiles(T)
  BY Zenon, <1>3 DEF SameTiles
<1>10. Tiled(T)' /\ Prefix'
  BY Zenon, <1>9, TilesFrame DEF Good
<1>11. TreeOK(T)'
  BY Zenon, <1>3 DEF TreeOK
<1>12. OwnedOK(T)'
  BY Zenon, <1>3 DEF Good, OwnedOK, Is
<1>13. UsedAreOwned(T)'
  <2> SUFFICES ASSUME NEW d \in Chunk, NEW q \in T[d], hdr[d][q].usage \in {"BLOCK", "RUN"}
               PROVE  \E w \in owned' : First(w) = <<d, q>>
    BY <1>3 DEF UsedAreOwned, First
  <2>1. PICK o \in owned : First(o) = <<d, q>>
    BY Zenon DEF Good, UsedAreOwned
  <2>2. ~o.active => hdr[o.c][o.p] = FreeHeader(o.n)
    BY Zenon DEF Good, OwnedOK, Is
  <2>3. o.active
    BY <2>1, <2>2 DEF First, FreeHeader
  <2> QED
    BY Zenon, <1>3, <2>1, <2>3
<1>14. \A u \in Thread : OpOK(T, u)'
  BY Zenon, <1>7, IdleThread
<1>15. ScanOK(T)'
  <2>1. 1 \in 1 .. k + 1
    BY DEF Chunk
  <2> QED
    BY Zenon, <1>1, <1>3, <1>4, <1>5, <1>7, <2>1 DEF ScanOK
<1>16. NoTileLost(T)'
  BY <1>4 DEF NoTileLost, Ahead, Chunk
<1> QED
  BY Zenon, <1>6, <1>8, <1>10, <1>11, <1>12, <1>13, <1>14, <1>15, <1>16 DEF Good

\* A new region is one chunk, and that is one free block.
LEMMA InitHInv ==
  ASSUME Waits, Init
  PROVE  HInv
<1>1. PICK T \in [Chunk -> SUBSET Page] : T = [c \in Chunk |-> {1}]
  <2>1. 1 \in Page
    BY DEF Waits, Page
  <2>2. [c \in Chunk |-> {1}] \in [Chunk -> SUBSET Page]
    BY Zenon, <2>1
  <2> QED
    BY Zenon, <2>2
<1>2. /\ 1 \in Chunk /\ 1 \in Page /\ Pages \in Page /\ 0 \in 0 .. Pages /\ Pages \in 0 .. Pages
      /\ 0 \in 0 .. MaxChunks /\ 0 \in 0 .. MaxCrash
  BY DEF Waits, Chunk, Page
<1>3. /\ \A c \in Chunk : chunk[c] = IF c = 1 THEN "initialized" ELSE "absent"
      /\ \A c \in Chunk, p \in Page : hdr[c][p] = IF c = 1 /\ p = 1 THEN FreeHeader(Pages) ELSE Zero
      /\ \A t \in Thread : pc[t] = "idle" /\ op[t] = NoOp /\ ~Busy(t)
      /\ scan.at = "off"
      /\ tree = {Node(1, 1, Pages)} /\ owned = {}
  BY Zenon DEF Init, FreeHeader, Busy, NoScan
<1>4. TypeInv
  <2>1. hdr \in [Chunk -> [Page -> Header]]
    BY Zenon, <1>2 DEF Init, Zero, Header
  <2>2. tree \subseteq [c : Chunk, p : Page, n : Page]
    BY <1>2, <1>3 DEF Node
  <2>3. op \in [Thread -> OpType]
    BY Zenon, <1>2 DEF Init, OpType, NoOp, Node
  <2>4. scan \in ScanType
    BY Zenon DEF Init, NoScan, ScanType, Node
  <2> QED
    BY Zenon, <1>2, <2>1, <2>2, <2>3, <2>4 DEF Init, TypeInv, TypeOK, Label
<1>5. Prefix
  <2>1. \A c \in Chunk : chunk[c] # "absent" <=> c <= 1
    BY <1>3 DEF Chunk, Waits
  <2> QED
    BY Zenon, <1>2, <2>1 DEF Prefix
<1>6. OwnersApart
  BY Zenon, <1>3 DEF OwnersApart
<1>7. /\ Node(1, 1, Pages).c = 1 /\ Node(1, 1, Pages).p = 1 /\ Node(1, 1, Pages).n = Pages
      /\ FreeHeader(Pages).usage = "FREE" /\ FreeHeader(Pages).n = Pages /\ Zero.usage = "DEFAULT"
  BY Zenon DEF Node, FreeHeader, Zero
<1>8. Tile(T[1], 1, Pages) /\ \A c \in Chunk : T[c] = {1}
  BY <1>1, <1>2 DEF Tile, Waits
<1>9. Tiled(T)
  BY SMTT(30), <1>2, <1>3, <1>7, <1>8 DEF Tiled, Width
<1>10. TreeOK(T)
  BY <1>2, <1>3, <1>7, <1>8 DEF TreeOK, Is
<1>11. OwnedOK(T) /\ ScanOK(T)
  BY Zenon, <1>3 DEF OwnedOK, ScanOK
<1>12. UsedAreOwned(T)
  BY <1>2, <1>3, <1>7, <1>8 DEF UsedAreOwned
<1>13. \A t \in Thread : OpOK(T, t)
  BY Zenon, <1>3 DEF OpOK, CallOK, NodeOK, HeadersOK, Busy
<1>14. NoTileLost(T)
  BY <1>3, <1>7, <1>8 DEF NoTileLost, Claimed, First
<1> QED
  BY Zenon, <1>4, <1>5, <1>6, <1>9, <1>10, <1>11, <1>12, <1>13, <1>14 DEF HInv, TileInv, Good

\* Every step keeps it.
LEMMA NextHInv ==
  ASSUME Waits, HInv, [Next]_vars
  PROVE  HInv'
<1>1. PICK T \in [Chunk -> SUBSET Page] : TileInv(T)
  BY Zenon DEF HInv
<1>2. CASE UNCHANGED vars
  <2> USE <1>1, <1>2 DEF vars, TileInv
  <2>1. TypeInv' /\ Prefix' /\ OwnersApart'
    BY Zenon DEF TypeInv, TypeOK, Prefix, OwnersApart, Busy
  <2>2. Tiled(T)' /\ TreeOK(T)' /\ OwnedOK(T)' /\ UsedAreOwned(T)'
    BY Zenon DEF Good, Tiled, TreeOK, OwnedOK, UsedAreOwned, Is
  <2>3. (\A t \in Thread : OpOK(T, t)') /\ ScanOK(T)'
    <3>1. ScanOK(T)'
      BY Zenon DEF Good, ScanOK
    <3>2. ASSUME NEW t \in Thread PROVE CallOK(t)' /\ NodeOK(T, t)'
      BY Zenon DEF Good, OpOK, CallOK, NodeOK, Busy
    <3>3. ASSUME NEW t \in Thread PROVE HeadersOK(t)'
      BY Zenon DEF Good, OpOK, HeadersOK, CarvedPage
    <3> QED
      BY Zenon, <3>1, <3>2, <3>3 DEF OpOK
  <2>4. NoTileLost(T)'
    BY Zenon DEF Good, NoTileLost, Claimed, Ahead, Busy
  <2> QED
    BY Zenon, <2>1, <2>2, <2>3, <2>4 DEF HInv, TileInv, Good
<1>3. CASE Crash
  BY Zenon, <1>1, <1>3, CrashHInv DEF HInv, TileInv
<1>4. CASE ScanStep
  BY Zenon, <1>1, <1>4, ScanChunkHInv, ScanPageHInv, ScanAddHInv, ScanNextHInv DEF HInv, TileInv, ScanStep
<1>5. ASSUME NEW t \in Thread, Create(t) \/ CreateStep(t) \/ Activate(t) \/ Free(t) \/ Add(t)
      PROVE  HInv'
  <2>1. CASE Shrink(t)
    BY Zenon, <1>1, <2>1, ShrinkHInv DEF HInv, TileInv
  <2>2. CASE Create(t)
    BY Zenon, <1>1, <2>2, CreateHInv DEF HInv, TileInv
  <2>3. CASE ActivateChunk(t)
    BY Zenon, <1>1, <2>3, ActivateChunkHInv DEF HInv, TileInv
  <2>4. CASE ChunkHeader(t) \/ ChunkDone(t)
    BY Zenon, <1>1, <2>4, ChunkStateHInv DEF HInv, TileInv
  <2>5. CASE ChunkBlock(t) \/ ZeroHeader(t)
    BY Zenon, <1>1, <2>5, OwnHeaderHInv DEF HInv, TileInv
  <2>6. CASE Carve(t)
    BY Zenon, <1>1, <2>6, CarveHInv DEF HInv, TileInv
  <2>7. CASE CarveWhole(t)
    BY Zenon, <1>1, <2>7, CarveWholeHInv DEF HInv, TileInv
  <2>8. CASE SetRun(t)
    BY Zenon, <1>1, <2>8, SetRunHInv DEF HInv, TileInv
  <2>9. CASE Activate(t)
    BY Zenon, <1>1, <2>9, ActivateHInv DEF HInv, TileInv
  <2>10. CASE Free(t)
    BY Zenon, <1>1, <2>10, FreeHInv DEF HInv, TileInv
  <2>11. CASE Add(t)
    BY Zenon, <1>1, <2>11, AddHInv DEF HInv, TileInv
  <2> QED
    BY Zenon, <1>5, <2>1, <2>2, <2>3, <2>4, <2>5, <2>6, <2>7, <2>8, <2>9, <2>10, <2>11 DEF CreateStep
<1> QED
  BY Zenon, <1>2, <1>3, <1>4, <1>5 DEF Next

--------------------------------------------------------------------------------
(* Every page is in a tile, and a walk over the headers meets every tile. *)

\* Every set of natural numbers that is not empty has a least one.
LEMMA LeastNat ==
  ASSUME NEW D \in SUBSET Nat, D # {}
  PROVE  \E d \in D : \A e \in D : d <= e
<1> DEFINE R == {ss \in Nat \X Nat : ss[1] < ss[2]}
<1>1. IsWellFoundedOn(R, Nat)
  BY Zenon, NatLessThanWellFounded DEF OpToRel
<1> HIDE DEF R
<1>2. PICK d \in D : \A e \in D : ~(<<e, d>> \in R)
  BY Zenon, <1>1, WFMin
<1>3. \A e \in D : ~(e < d)
  BY Zenon, <1>2 DEF R
<1> QED
  BY <1>3

\* A set of pages that has one up to page p has a last one up to it.
LEMMA LastBefore ==
  ASSUME Pages \in Nat, NEW S \in SUBSET Page, NEW p \in Page, NEW s \in S, s <= p
  PROVE  \E q \in S : q <= p /\ \A r \in S : r <= p => r <= q
<1> DEFINE D == {d \in Nat : p - d \in S}
<1>1. p - s \in D /\ D \in SUBSET Nat
  BY DEF Page
<1>5. D # {}
  BY Zenon, <1>1
<1> HIDE DEF D
<1>2. PICK d \in D : \A e \in D : d <= e
  BY Zenon, <1>1, <1>5, LeastNat
<1> USE DEF D
<1>3. p - d \in S /\ p - d <= p /\ d \in Nat
  BY DEF Page
<1>4. ASSUME NEW r \in S, r <= p PROVE r <= p - d
  <2>1. r \in Nat /\ p \in Nat /\ p - r \in Nat /\ p - (p - r) = r
    BY <1>4 DEF Page
  <2>2. p - r \in D
    BY Zenon, <2>1
  <2> QED
    BY <1>2, <1>3, <2>1, <2>2
<1> QED
  BY Zenon, <1>3, <1>4

\* Every page is in the tile that starts last before it.
LEMMA PagesCovered ==
  ASSUME Waits, NEW T, TileInv(T)
  PROVE  NoPageLost
<1> USE DEF TileInv
<1>1. TileInv(T)
  BY Zenon
<1> SUFFICES ASSUME \A t \in Thread : pc[t] = "idle", scan.at = "off",
                    NEW c \in Chunk, chunk[c] # "absent", NEW p \in Page
             PROVE  \E a \in Claims : <<c, p>> \in PagesOf(a[2])
  BY DEF NoPageLost
<1>2. T[c] \in SUBSET Page /\ 1 \in T[c] /\ 1 <= p /\ Pages \in Nat
  BY SMTT(30), <1>1 DEF Good, Tiled, Page, Waits
<1>3. PICK q \in T[c] : q <= p /\ \A r \in T[c] : r <= p => r <= q
  BY Zenon, <1>2, LastBefore
<1>4. PICK x \in tree \cup owned : First(x) = <<c, q>>
  BY Zenon, <1>1 DEF Good, NoTileLost, Claimed, Ahead, Busy
<1>5. x.c = c /\ x.p = q /\ Tile(T[c], q, x.n)
  BY Zenon, <1>1, <1>4, ClaimFacts DEF First
<1>6. p \in 1 .. Pages /\ q \in 1 .. Pages /\ x.n \in 1 .. Pages
  BY Zenon, <1>2, <1>5 DEF Tile, Page
<1>7. p < q + x.n
  BY <1>2, <1>3, <1>5, <1>6 DEF Tile
<1>8. <<c, p>> \in PagesOf(x)
  BY <1>3, <1>5, <1>6, <1>7 DEF PagesOf
<1>9. \E a \in Claims : a[2] = x
  <2>1. CASE x \in tree
    <3>1. <<"tree", x>> \in Claims
      BY Zenon, <2>1 DEF Claims
    <3> QED
      BY Zenon, <3>1
  <2>2. CASE x \in owned
    <3>1. <<"app", x>> \in Claims
      BY Zenon, <2>2 DEF Claims
    <3> QED
      BY Zenon, <3>1
  <2> QED
    BY Zenon, <2>1, <2>2
<1> QED
  BY Zenon, <1>8, <1>9

\* A walk over the headers comes from tile to tile.
LEMMA WalkMeetsActive ==
  ASSUME Waits, NEW T, TileInv(T)
  PROVE  ActiveAreScanned
<1> USE DEF TileInv
<1>1. TileInv(T)
  BY Zenon
<1> SUFFICES ASSUME NEW o \in owned, o.active
             PROVE  /\ \/ o.p \in Starts(o.c)
                       \/ \E p \in Starts(o.c) : p < o.p /\ Width(hdr[o.c][p]) = 0
                    /\ hdr[o.c][o.p].usage = IF o.kind = "run" THEN "RUN" ELSE "BLOCK"
                    /\ Width(hdr[o.c][o.p]) = o.n
  BY Zenon DEF ActiveAreScanned
<1>2. hdr[o.c][o.p].usage = (IF o.kind = "run" THEN "RUN" ELSE "BLOCK") /\ Width(hdr[o.c][o.p]) = o.n
  <2>1. o.kind \in {"block", "run"}
    BY Zenon DEF TypeInv, TypeOK
  <2>2. /\ o.kind = "block" => hdr[o.c][o.p] = [usage |-> "BLOCK", n |-> o.n]
        /\ o.kind = "run" => o.n = 1 /\ hdr[o.c][o.p] = RunHeader
    BY Zenon, <1>1 DEF Good, OwnedOK, Is
  <2>3. RunHeader.usage = "RUN"
    BY Zenon DEF RunHeader
  <2> QED
    BY <2>1, <2>2, <2>3 DEF Width
<1>3. o.c \in Chunk /\ o.p \in T[o.c] /\ T[o.c] \in SUBSET Page /\ 1 \in T[o.c] /\ Pages \in Nat
  BY Zenon, <1>1, ClaimFacts DEF Good, Tiled, Waits
<1> DEFINE c == o.c
           B == {p \in T[c] : p <= o.p /\ p \notin Starts(c)}
<1>4. 1 \in Starts(c)
  BY Zenon, <1>3 DEF Starts
<1>5. ASSUME NEW q \in Starts(c), q + Width(hdr[c][q]) \in Page
      PROVE  q + Width(hdr[c][q]) \in Starts(c)
  BY Zenon, <1>5 DEF Starts
<1> SUFFICES ASSUME o.p \notin Starts(c), \A p \in Starts(c) : p < o.p => Width(hdr[c][p]) # 0
             PROVE  FALSE
  BY Zenon, <1>2
<1>6. B \in SUBSET Nat /\ B # {}
  BY <1>3 DEF Page
<1>7. PICK m \in B : \A e \in B : m <= e
  <2> HIDE DEF B
  <2> QED
    BY Zenon, <1>6, LeastNat
<1>8. m \in T[c] /\ m \in Page /\ m <= o.p /\ m \notin Starts(c) /\ m # 1 /\ m > 1 /\ m - 1 \in Page
  BY <1>3, <1>4 DEF Page
<1>9. PICK q \in T[c] : q <= m - 1 /\ \A r \in T[c] : r <= m - 1 => r <= q
  <2>1. 1 <= m - 1
    BY <1>8 DEF Page
  <2> QED
    BY <1>3, <1>8, <2>1, LastBefore
<1>10. q \in Page /\ q < m /\ q < o.p
  BY <1>3, <1>8, <1>9 DEF Page
<1>11. q \in Starts(c)
  BY <1>3, <1>7, <1>8, <1>10 DEF Page
<1>12. Width(hdr[c][q]) # 0
  BY Zenon, <1>10, <1>11
<1>13. Tile(T[c], q, Width(hdr[c][q]))
  <2>1. hdr[c][q] # Zero
    BY <1>12 DEF Zero, Width
  <2> QED
    BY Zenon, <1>1, <1>3, <2>1 DEF Good, Tiled
<1>14. PICK w : w = Width(hdr[c][q])
  BY Zenon
<1>15. w \in 1 .. Pages /\ q \in 1 .. Pages /\ m \in 1 .. Pages /\ m >= q + w
  BY <1>8, <1>10, <1>13, <1>14 DEF Tile, Page
<1>16. q + w \in T[c]
  BY <1>3, <1>13, <1>14, <1>15 DEF Tile
<1>17. q + w = m
  BY <1>9, <1>15, <1>16
<1> QED
  BY Zenon, <1>5, <1>8, <1>11, <1>14, <1>17

--------------------------------------------------------------------------------
(* The theorem. *)

\* The pages of an arena, whatever threads do and wherever a crash strikes, as
\* long as the application waits for nvm_recovery_thread: the headers of a chunk
\* always tile it, no page is given out twice, the walk of a restart meets what
\* is active unless a cleared header holds it up, and no page is lost.
THEOREM PagesAreKept == Waits => (Spec => []PagesSurvive)
<1> SUFFICES ASSUME Waits PROVE Spec => []PagesSurvive
  BY Zenon
<1>1. Init => HInv
  BY Zenon, InitHInv
<1>2. HInv /\ [Next]_vars => HInv'
  BY Zenon, NextHInv
<1>3. HInv => PagesSurvive
  <2> SUFFICES ASSUME HInv PROVE PagesSurvive
    BY Zenon
  <2>1. PICK T \in [Chunk -> SUBSET Page] : TileInv(T)
    BY Zenon DEF HInv
  <2>2. NoOverlap /\ NoPageLost /\ ActiveAreScanned
    BY Zenon, <2>1, ClaimsApart, PagesCovered, WalkMeetsActive
  <2> QED
    BY Zenon, <2>1, <2>2 DEF PagesSurvive, TileInv, TypeInv
<1> QED
  BY <1>1, <1>2, <1>3, PTL DEF Spec

================================================================================
