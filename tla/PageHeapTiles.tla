----------------------------- MODULE PageHeapTiles -----------------------------
(******************************************************************************)
(* The tiles of a chunk: the inductive invariant of the page heap, what a step*)
(* that leaves the tiles alone keeps of it, and that nvm_recovery_thread,     *)
(* which walks from tile to tile, and the stores of a carving keep it         *)
(* (PageHeapProofs has the other calls, the crash and the theorem).           *)
(******************************************************************************)
EXTENDS PageHeap, TLAPS

\* Requests are for blocks that fit into a chunk, and the application lets the
\* recovery thread finish, or nothing crashes.
Waits ==
  /\ Pages \in Nat \ {0} /\ MaxChunks \in Nat \ {0} /\ MaxCrash \in Nat
  /\ Sizes \subseteq Page /\ NoThread \notin Thread
  /\ AppWaits = TRUE \/ MaxCrash = 0

First(x) == <<x.c, x.p>>
Busy(t) == pc[t] \notin {"idle", "add_chunk"}

\* With the set S of the first pages, n pages from p on are a tile.
Tile(S, p, n) ==
  /\ p \in S /\ n \in Page
  /\ p + n \in S \/ p + n = Pages + 1
  /\ \A q \in S : q <= p \/ q >= p + n

\* The headers on the first pages T tile every chunk; a cleared one does not say
\* how long its tile is.
Tiled(T) ==
  \A c \in Chunk :
    /\ 1 \in T[c]
    /\ \A p \in T[c] : \/ hdr[c][p] = Zero
                       \/ hdr[c][p].usage # "DEFAULT" /\ Tile(T[c], p, Width(hdr[c][p]))
    /\ chunk[c] = "absent" => T[c] = {1} /\ hdr[c][1] = Zero

Is(T, x, h) == /\ chunk[x.c] # "absent"
               /\ Tile(T[x.c], x.p, x.n)
               /\ hdr[x.c][x.p] = h

FreeHeader(n) == [usage |-> "FREE", n |-> n]
RunHeader == [usage |-> "RUN", n |-> 0]

TreeOK(T) == \A x \in tree : Is(T, x, FreeHeader(x.n))

\* What the application has, has the header for it.
OwnedOK(T) ==
  \A o \in owned :
    /\ ~o.active => o.kind = "block" /\ Is(T, o, FreeHeader(o.n))
    /\ o.active /\ o.kind = "block" => Is(T, o, [usage |-> "BLOCK", n |-> o.n])
    /\ o.active /\ o.kind = "run" => o.n = 1 /\ Is(T, o, RunHeader)

\* ... and nothing else has such a header.
UsedAreOwned(T) ==
  \A c \in Chunk : \A p \in T[c] : hdr[c][p].usage \in {"BLOCK", "RUN"} =>
    \E o \in owned : First(o) = <<c, p>>

\* A call in progress has the mutex as long as it needs it and knows what it asks for ...
CallOK(t) ==
  /\ pc[t] = "idle" => op[t] = NoOp
  /\ pc[t] \notin {"idle", "add"} => /\ op[t].kind \in {"block", "run"} /\ op[t].n \in Page
                                     /\ op[t].kind = "run" => op[t].n = 1
  /\ pc[t] \notin {"idle", "add", "zero", "set_run"} => mtx = t
  /\ pc[t] \in {"zero", "set_run"} => op[t].kind = "run"
  /\ pc[t] = "add" => op[t].kind = "free"

\* ... its node is a tile of a chunk, long enough for what is asked ...
NodeOK(T, t) ==
  LET x == op[t].node
  IN /\ pc[t] = "add_chunk" => x = Node(0, 0, 0) /\ \E c \in Chunk : chunk[c] = "absent"
     /\ Busy(t) => x \in [c : Chunk, p : Page, n : Page] /\ chunk[x.c] # "absent" /\ Tile(T[x.c], x.p, x.n)
     /\ pc[t] \in {"chunk_header", "chunk_block", "chunk_done"} => x.p = 1 /\ x.n = Pages
     /\ pc[t] = "carve" => op[t].n <= x.n
     /\ pc[t] = "shrink" => op[t].n < x.n
     /\ pc[t] \in {"zero", "set_run"} => x.n = 1

\* ... and the headers are as the stores so far left them.
HeadersOK(t) ==
  LET x == op[t].node
  IN /\ pc[t] \in {"chunk_done", "carve", "shrink", "zero", "add"} => hdr[x.c][x.p] = FreeHeader(x.n)
     /\ pc[t] = "shrink" => hdr[x.c][CarvedPage(t)] = IF op[t].kind = "run" THEN RunHeader
                                                     ELSE FreeHeader(op[t].n)
     /\ pc[t] = "set_run" => hdr[x.c][x.p] = Zero

OpOK(T, t) == CallOK(t) /\ NodeOK(T, t) /\ HeadersOK(t)

\* No two of them start on the same page.
OwnersApart ==
  /\ \A x \in tree, o \in owned : First(x) # First(o)
  /\ \A t \in Thread : Busy(t) => \A x \in tree \cup owned : First(op[t].node) # First(x)
  /\ \A t, u \in Thread : Busy(t) /\ Busy(u) /\ t # u => First(op[t].node) # First(op[u].node)

\* Where the recovery thread is.
ScanOK(T) ==
  /\ MaxCrash = 0 => scan.at = "off"
  /\ scan.at # "off" =>
       /\ \A t \in Thread : pc[t] = "idle"
       /\ \A o \in owned : o.active
       /\ scan.last \in Chunk /\ scan.c \in 1 .. scan.last + 1
       /\ \A c \in Chunk : chunk[c] # "absent" <=> c <= scan.last
       /\ scan.at # "chunk" => scan.c <= scan.last /\ scan.j \in T[scan.c] \cup {Pages + 1}
       /\ scan.at \in {"add", "next"} => /\ scan.j \in T[scan.c]
                                         /\ hdr[scan.c][scan.j] = FreeHeader(hdr[scan.c][scan.j].n)
       /\ scan.at = "add" => scan.node = Node(scan.c, scan.j, hdr[scan.c][scan.j].n)
       /\ \A x \in tree : \/ x.c < scan.c
                          \/ x.c = scan.c /\ scan.at # "chunk" /\ x.p < scan.j
                          \/ x.c = scan.c /\ scan.at = "next" /\ x.p = scan.j

\* The walk has not yet come by page p of chunk c.
Ahead(c, p) ==
  /\ scan.at # "off"
  /\ \/ c > scan.c
     \/ c = scan.c /\ scan.at = "chunk"
     \/ c = scan.c /\ p > scan.j
     \/ c = scan.c /\ scan.at \in {"page", "add"} /\ p = scan.j

Claimed(c, p) ==
  \/ \E x \in tree \cup owned : First(x) = <<c, p>>
  \/ \E t \in Thread : Busy(t) /\ First(op[t].node) = <<c, p>>

\* Every tile has an owner, or the walk will find it.
NoTileLost(T) ==
  \A c \in Chunk : chunk[c] # "absent" => \A p \in T[c] : Claimed(c, p) \/ Ahead(c, p)

\* The chunks of the file come first.
Prefix == \E k \in Chunk : \A c \in Chunk : chunk[c] # "absent" <=> c <= k

Good(T) == /\ Tiled(T) /\ TreeOK(T) /\ OwnedOK(T) /\ UsedAreOwned(T)
           /\ \A t \in Thread : OpOK(T, t)
           /\ ScanOK(T) /\ NoTileLost(T)

OpType == [kind : {"none", "block", "run", "free"}, n : 0 .. Pages,
           node : [c : 0 .. MaxChunks, p : 0 .. Pages, n : 0 .. Pages]]
ScanType == [at : {"off", "chunk", "page", "add", "next"}, c : Nat, j : Nat, last : Nat,
             node : [c : Nat, p : Nat, n : Nat]]

TypeInv == TypeOK /\ op \in [Thread -> OpType] /\ scan \in ScanType

\* T is the set of the first pages of the tiles of each chunk.
TileInv(T) == /\ T \in [Chunk -> SUBSET Page]
              /\ TypeInv /\ Prefix /\ OwnersApart /\ Good(T)

\* The inductive invariant: the heap is tiled.
HInv == \E T \in [Chunk -> SUBSET Page] : TileInv(T)

--------------------------------------------------------------------------------
(* Tiles, headers and what a step leaves alone. *)

\* Pages that are carved off the end of a tile are a tile, what is left of it is
\* one, and no other tile notices.
LEMMA TileSplit ==
  ASSUME Pages \in Nat, NEW S \in SUBSET Page, NEW p, NEW n, Tile(S, p, n),
         NEW m \in Page, m < n
  PROVE  /\ p + n - m \in Page /\ p + n - m \notin S
         /\ Tile(S \cup {p + n - m}, p, n - m)
         /\ Tile(S \cup {p + n - m}, p + n - m, m)
         /\ \A q, k : Tile(S, q, k) /\ q # p => Tile(S \cup {p + n - m}, q, k)
<1> DEFINE r == p + n - m
<1>1. /\ p \in Page /\ n \in Page /\ S \subseteq 1 .. Pages
      /\ p + n \in S \/ p + n = Pages + 1
      /\ \A q \in S : q <= p \/ q >= p + n
  BY Zenon DEF Tile, Page
<1>2. /\ r \in Page /\ r > p /\ r < p + n /\ r + m = p + n /\ p + (n - m) = r
      /\ m \in Page /\ n - m \in Page /\ p \in 1 .. Pages
  BY <1>1 DEF Page
<1> HIDE DEF r
<1>3. r \notin S
  BY <1>1, <1>2 DEF Page
<1>4. Tile(S \cup {r}, p, n - m)
  BY <1>1, <1>2 DEF Tile, Page
<1>5. Tile(S \cup {r}, r, m)
  BY <1>1, <1>2 DEF Tile, Page
<1>6. ASSUME NEW q, NEW k, Tile(S, q, k), q # p
      PROVE  Tile(S \cup {r}, q, k)
  <2>1. /\ q \in S /\ q \in 1 .. Pages /\ k \in 1 .. Pages /\ p \in S
        /\ q <= p \/ q >= p + n
        /\ p <= q \/ p >= q + k
    BY Zenon, <1>1, <1>6 DEF Tile, Page
  <2>2. r <= q \/ r >= q + k
    BY <1>1, <1>2, <1>6, <2>1 DEF Page
  <2> QED
    BY Zenon, <1>6, <2>2 DEF Tile
<1> QED
  BY Zenon, <1>2, <1>3, <1>4, <1>5, <1>6 DEF r

\* A store of a header changes that header only.
LEMMA HeaderStore ==
  ASSUME TypeOK, NEW c \in Chunk, NEW p \in Page, NEW u, NEW n, SetHeader(c, p, u, n)
  PROVE  /\ \A d \in Chunk, q \in Page :
              hdr'[d][q] = IF d = c /\ q = p THEN [usage |-> u, n |-> n] ELSE hdr[d][q]
         /\ u \in {"DEFAULT", "FREE", "BLOCK", "RUN"} /\ n \in 0 .. Pages =>
              hdr' \in [Chunk -> [Page -> Header]]
  BY Zenon DEF TypeOK, SetHeader, Header

\* So does a store to the usage of a block.
LEMMA UsageStore ==
  ASSUME TypeOK, NEW c \in Chunk, NEW p \in Page, NEW u \in {"DEFAULT", "FREE", "BLOCK", "RUN"},
         hdr' = [hdr EXCEPT ![c][p].usage = u]
  PROVE  /\ \A d \in Chunk, q \in Page :
              hdr'[d][q] = IF d = c /\ q = p THEN [usage |-> u, n |-> hdr[c][p].n] ELSE hdr[d][q]
         /\ hdr' \in [Chunk -> [Page -> Header]]
<1> DEFINE Hdr == [usage : {"DEFAULT", "FREE", "BLOCK", "RUN"}, n : 0 .. Pages]
           h == [hdr[c][p] EXCEPT !.usage = u]
<1>1. hdr \in [Chunk -> [Page -> Hdr]]
  BY Zenon DEF TypeOK, Header
<1>2. hdr[c][p] \in Hdr
  BY Zenon, <1>1
<1>3. h = [usage |-> u, n |-> hdr[c][p].n] /\ h \in Hdr
  BY <1>2
<1>4. hdr' = [hdr EXCEPT ![c] = [hdr[c] EXCEPT ![p] = h]]
  BY Zenon
<1> HIDE DEF h, Hdr
<1>5. hdr' \in [Chunk -> [Page -> Hdr]]
  BY <1>1, <1>3, <1>4
<1>6. \A d \in Chunk, q \in Page : hdr'[d][q] = IF d = c /\ q = p THEN h ELSE hdr[d][q]
  BY <1>1, <1>4
<1> QED
  BY Zenon, <1>3, <1>5, <1>6 DEF Hdr, Header

\* How long the headers that the calls write say a block is.
LEMMA HeaderWidths ==
  /\ \A n : FreeHeader(n).usage = "FREE" /\ Width(FreeHeader(n)) = n
  /\ RunHeader.usage = "RUN" /\ Width(RunHeader) = 1
  BY Zenon DEF FreeHeader, RunHeader, Width

\* A thread notices a step only in the mutex, its chunk, its tile and its headers.
LEMMA OpFrame ==
  ASSUME TypeInv, NEW T \in [Chunk -> SUBSET Page], NEW T2 \in [Chunk -> SUBSET Page],
         NEW u \in Thread, OpOK(T, u), pc'[u] = pc[u], op'[u] = op[u],
         mtx' = mtx \/ mtx # u,
         pc[u] = "add_chunk" => \E c \in Chunk : chunk'[c] = "absent",
         Busy(u) => /\ chunk'[op[u].node.c] # "absent"
                    /\ Tile(T2[op[u].node.c], op[u].node.p, op[u].node.n)
                    /\ hdr'[op[u].node.c][op[u].node.p] = hdr[op[u].node.c][op[u].node.p],
         pc[u] = "shrink" =>
           hdr'[op[u].node.c][CarvedPage(u)] = hdr[op[u].node.c][CarvedPage(u)]
  PROVE  OpOK(T2, u)'
<1>1. CarvedPage(u)' = CarvedPage(u)
  BY Zenon DEF CarvedPage
<1>2. Busy(u)' <=> Busy(u)
  BY Zenon DEF Busy
<1>3. CallOK(u)'
  BY Zenon DEF OpOK, CallOK
<1>4. NodeOK(T2, u)'
  BY Zenon, <1>2 DEF OpOK, NodeOK
<1>5. HeadersOK(u)'
  BY Zenon, <1>1 DEF OpOK, HeadersOK, Busy
<1> QED
  BY Zenon, <1>3, <1>4, <1>5 DEF OpOK

\* A thread whose call is over needs nothing.
LEMMA IdleThread ==
  ASSUME NEW T, NEW u, pc'[u] = "idle", op'[u] = NoOp
  PROVE  OpOK(T, u)'
<1>1. CallOK(u)'
  BY Zenon DEF CallOK
<1>2. NodeOK(T, u)'
  BY Zenon DEF NodeOK, Busy
<1>3. HeadersOK(u)'
  BY Zenon DEF HeadersOK
<1> QED
  BY Zenon, <1>1, <1>2, <1>3 DEF OpOK

\* A step that leaves the chunks and the headers of the tiles alone ...
SameTiles(T) ==
  \A d \in Chunk : /\ chunk'[d] = "absent" <=> chunk[d] = "absent"
                   /\ \A q \in T[d] : hdr'[d][q] = hdr[d][q]

\* ... leaves the tiles alone.
LEMMA TilesFrame ==
  ASSUME TypeInv, NEW T \in [Chunk -> SUBSET Page], SameTiles(T)
  PROVE  /\ Tiled(T) => Tiled(T)'
         /\ \A x, h : Is(T, x, h) /\ x.c \in Chunk => /\ chunk'[x.c] # "absent"
                                                      /\ Tile(T[x.c], x.p, x.n)
                                                      /\ hdr'[x.c][x.p] = h
         /\ tree' = tree /\ TreeOK(T) => TreeOK(T)'
         /\ owned' = owned /\ OwnedOK(T) => OwnedOK(T)'
         /\ owned' = owned /\ UsedAreOwned(T) => UsedAreOwned(T)'
         /\ Prefix => Prefix'
<1>1. Tiled(T) => Tiled(T)'
  BY DEF Tiled, SameTiles
<1>2. \A x, h : Is(T, x, h) /\ x.c \in Chunk => /\ chunk'[x.c] # "absent"
                                                /\ Tile(T[x.c], x.p, x.n)
                                                /\ hdr'[x.c][x.p] = h
  BY Zenon DEF Is, SameTiles, Tile
<1>3. tree' = tree /\ TreeOK(T) => TreeOK(T)'
  BY Zenon, <1>2 DEF TreeOK, Is, TypeInv, TypeOK
<1>4. owned' = owned /\ OwnedOK(T) => OwnedOK(T)'
  <2> SUFFICES ASSUME owned' = owned, OwnedOK(T), NEW o \in owned
               PROVE  /\ ~o.active => o.kind = "block" /\ Is(T, o, FreeHeader(o.n))'
                      /\ o.active /\ o.kind = "block" => Is(T, o, [usage |-> "BLOCK", n |-> o.n])'
                      /\ o.active /\ o.kind = "run" => o.n = 1 /\ Is(T, o, RunHeader)'
    BY Zenon DEF OwnedOK
  <2>1. /\ ~o.active => o.kind = "block" /\ Is(T, o, FreeHeader(o.n))
        /\ o.active /\ o.kind = "block" => Is(T, o, [usage |-> "BLOCK", n |-> o.n])
        /\ o.active /\ o.kind = "run" => o.n = 1 /\ Is(T, o, RunHeader)
        /\ o.c \in Chunk
    BY Zenon DEF OwnedOK, TypeInv, TypeOK
  <2> QED
    BY Zenon, <1>2, <2>1 DEF Is, FreeHeader, RunHeader
<1>5. owned' = owned /\ UsedAreOwned(T) => UsedAreOwned(T)'
  BY Zenon DEF UsedAreOwned, SameTiles
<1>6. Prefix => Prefix'
  BY Zenon DEF Prefix, SameTiles
<1> QED
  BY Zenon, <1>1, <1>2, <1>3, <1>4, <1>5, <1>6

\* What a thread that is carving works on.
LEMMA NodeFacts ==
  ASSUME Waits, NEW T, TileInv(T), NEW t \in Thread, Busy(t)
  PROVE  /\ op[t].node = Node(op[t].node.c, op[t].node.p, op[t].node.n)
         /\ op[t].node.c \in Chunk /\ op[t].node.p \in Page /\ op[t].node.n \in Page
         /\ chunk[op[t].node.c] # "absent"
         /\ Tile(T[op[t].node.c], op[t].node.p, op[t].node.n)
         /\ op[t].node.p \in T[op[t].node.c]
         /\ scan.at = "off"
         /\ op[t].kind # "none"
  BY Zenon DEF Good, OpOK, CallOK, NodeOK, Busy, Node, ScanOK, Tile, TileInv

\* While a call is in progress the recovery thread is not.
LEMMA CallsAlone ==
  ASSUME Waits, NEW T, TileInv(T), NEW t \in Thread, pc[t] # "idle"
  PROVE  scan.at = "off"
  BY Zenon DEF Good, ScanOK, TileInv

\* The page that is being carved off is inside a tile.
LEMMA CarvedIsInside ==
  ASSUME Waits, NEW T, TileInv(T), NEW t \in Thread,
         pc[t] = "shrink"
  PROVE  CarvedPage(t) \in Page /\ CarvedPage(t) \notin T[op[t].node.c]
<1> USE DEF TileInv
<1>1. Busy(t) /\ op[t].n \in Page /\ op[t].n < op[t].node.n
  BY Zenon DEF Good, OpOK, CallOK, NodeOK, Busy
<1>2. op[t].node.c \in Chunk /\ Tile(T[op[t].node.c], op[t].node.p, op[t].node.n)
  BY Zenon, <1>1, NodeFacts
<1>3. T[op[t].node.c] \in SUBSET Page /\ Pages \in Nat
  BY Zenon, <1>2 DEF Waits
<1> QED
  BY Zenon, <1>1, <1>2, <1>3, TileSplit DEF CarvedPage

\* What another thread does to its own tile, this one does not notice.
LEMMA OthersFrame ==
  ASSUME Waits, NEW T, TileInv(T), NEW u \in Thread,
         pc'[u] = pc[u], op'[u] = op[u], mtx' = mtx \/ mtx # u,
         \A d \in Chunk : chunk'[d] = "absent" <=> chunk[d] = "absent",
         \A d \in Chunk : \A q \in Page \ T[d] : hdr'[d][q] = hdr[d][q],
         Busy(u) => hdr'[op[u].node.c][op[u].node.p] = hdr[op[u].node.c][op[u].node.p]
  PROVE  OpOK(T, u)'
<1> USE DEF TileInv
<1>1. OpOK(T, u) /\ TypeInv
  BY Zenon DEF Good
<1>2. pc[u] = "add_chunk" => \E c \in Chunk : chunk'[c] = "absent"
  BY Zenon, <1>1 DEF OpOK, NodeOK
<1>3. Busy(u) => /\ op[u].node.c \in Chunk /\ chunk'[op[u].node.c] # "absent"
                 /\ Tile(T[op[u].node.c], op[u].node.p, op[u].node.n)
  BY Zenon, NodeFacts
<1>4. pc[u] = "shrink" =>
        hdr'[op[u].node.c][CarvedPage(u)] = hdr[op[u].node.c][CarvedPage(u)]
  BY Zenon, <1>3, CarvedIsInside DEF Busy
<1> QED
  BY Zenon, <1>1, <1>2, <1>3, <1>4, OpFrame

\* What the tree and the application have is a tile.
LEMMA ClaimFacts ==
  ASSUME Waits, NEW T, TileInv(T), NEW x \in tree \cup owned
  PROVE  /\ x.c \in Chunk /\ x.p \in Page /\ x.n \in Page /\ x.p \in T[x.c]
         /\ chunk[x.c] # "absent" /\ Tile(T[x.c], x.p, x.n)
<1> USE DEF TileInv
<1>1. x.c \in Chunk /\ x.p \in Page /\ x.n \in Page
  BY Zenon DEF TypeInv, TypeOK
<1>2. \E h : Is(T, x, h)
  <2>1. CASE x \in tree
    BY Zenon, <2>1 DEF Good, TreeOK
  <2>2. CASE x \in owned
    <3>1. x.kind \in {"block", "run"} /\ x.active \in BOOLEAN
      BY Zenon, <2>2 DEF TypeInv, TypeOK
    <3> QED
      BY Zenon, <2>2, <3>1 DEF Good, OwnedOK
  <2> QED
    BY Zenon, <2>1, <2>2
<1> QED
  BY Zenon, <1>1, <1>2 DEF Is, Tile

\* A store to the header of one tile is noticed by its owner only.
LEMMA StoreFrame ==
  ASSUME Waits, NEW T, TileInv(T),
         NEW c \in Chunk, NEW p \in T[c], chunk' = chunk, chunk[c] # "absent",
         \A d \in Chunk, q \in Page : d # c \/ q # p => hdr'[d][q] = hdr[d][q]
  PROVE  /\ \/ hdr'[c][p] = Zero
            \/ hdr'[c][p].usage # "DEFAULT" /\ Tile(T[c], p, Width(hdr'[c][p]))
            => Tiled(T)'
         /\ \A x, h : Is(T, x, h) /\ x.c \in Chunk /\ First(x) # <<c, p>> => Is(T, x, h)'
         /\ \A u \in Thread :
              /\ pc'[u] = pc[u] /\ op'[u] = op[u] /\ (mtx' = mtx \/ mtx # u)
              /\ Busy(u) => First(op[u].node) # <<c, p>>
              => OpOK(T, u)'
<1> USE DEF TileInv
<1>1. \/ hdr'[c][p] = Zero
      \/ hdr'[c][p].usage # "DEFAULT" /\ Tile(T[c], p, Width(hdr'[c][p]))
      => Tiled(T)'
  BY DEF Good, Tiled
<1>2. \A x, h : Is(T, x, h) /\ x.c \in Chunk /\ First(x) # <<c, p>> => Is(T, x, h)'
  BY Zenon DEF Is, First, Tile
<1>3. ASSUME NEW u \in Thread,
             pc'[u] = pc[u], op'[u] = op[u], mtx' = mtx \/ mtx # u,
             Busy(u) => First(op[u].node) # <<c, p>>
      PROVE  OpOK(T, u)'
  <2>1. \A d \in Chunk : \A q \in Page \ T[d] : hdr'[d][q] = hdr[d][q]
    BY Zenon
  <2>2. Busy(u) => hdr'[op[u].node.c][op[u].node.p] = hdr[op[u].node.c][op[u].node.p]
    BY Zenon, <1>3, NodeFacts DEF First
  <2> QED
    BY <1>3, <2>1, <2>2, OthersFrame
<1> QED
  BY Zenon, <1>1, <1>2, <1>3

\* Nobody else has the tile of a thread.
LEMMA NodeIsOwn ==
  ASSUME Waits, NEW T, TileInv(T), NEW t \in Thread, Busy(t)
  PROVE  /\ \A x \in tree \cup owned : First(x) # <<op[t].node.c, op[t].node.p>>
         /\ \A u \in Thread : Busy(u) /\ u # t => First(op[u].node) # <<op[t].node.c, op[t].node.p>>
  BY Zenon DEF OwnersApart, First, TileInv

\* A call that returns leaves the other threads alone.
LEMMA ReturnFacts ==
  ASSUME TypeInv, NEW t \in Thread, Return(t), Pages \in Nat, MaxChunks \in Nat
  PROVE  /\ pc'[t] = "idle" /\ op'[t] = NoOp /\ ~Busy(t)'
         /\ \A u \in Thread : u # t => pc'[u] = pc[u] /\ op'[u] = op[u] /\ (Busy(u)' <=> Busy(u))
         /\ pc' \in [Thread -> Label]
         /\ op' \in [Thread -> OpType]
<1>1. NoOp \in OpType
  BY DEF NoOp, Node, OpType
<1> QED
  BY Zenon, <1>1 DEF TypeInv, TypeOK, Return, Goto, Busy, Label

\* The headers tell the free blocks, and what the application has, apart.
LEMMA ClaimsUnique ==
  ASSUME Waits, NEW T, TileInv(T)
  PROVE  /\ \A x, y \in tree : First(x) = First(y) => x = y
         /\ \A x, y \in owned : First(x) = First(y) => x = y
<1> USE DEF TileInv
<1>1. ASSUME NEW x \in tree, NEW y \in tree, First(x) = First(y)
      PROVE  x = y
  <2>1. x.c = y.c /\ x.p = y.p
    BY Zenon, <1>1 DEF First
  <2>2. hdr[x.c][x.p] = FreeHeader(x.n) /\ hdr[y.c][y.p] = FreeHeader(y.n)
    BY Zenon DEF Good, TreeOK, Is
  <2>3. x.n = y.n
    BY <2>1, <2>2 DEF FreeHeader
  <2>4. x \in [c : Chunk, p : Page, n : Page] /\ y \in [c : Chunk, p : Page, n : Page]
    BY Zenon DEF TypeInv, TypeOK
  <2> QED
    BY <2>1, <2>3, <2>4
<1>2. ASSUME NEW x \in owned, NEW y \in owned, First(x) = First(y)
      PROVE  x = y
  <2>1. x.c = y.c /\ x.p = y.p
    BY Zenon, <1>2 DEF First
  <2>2. /\ x \in [c : Chunk, p : Page, n : Page, kind : {"block", "run"}, active : BOOLEAN]
        /\ y \in [c : Chunk, p : Page, n : Page, kind : {"block", "run"}, active : BOOLEAN]
    BY Zenon DEF TypeInv, TypeOK
  <2>3. ASSUME NEW o \in owned
        PROVE  /\ ~o.active => o.kind = "block" /\ hdr[o.c][o.p].usage = "FREE" /\ hdr[o.c][o.p].n = o.n
               /\ o.active /\ o.kind = "block" => hdr[o.c][o.p].usage = "BLOCK" /\ hdr[o.c][o.p].n = o.n
               /\ o.active /\ o.kind = "run" => hdr[o.c][o.p].usage = "RUN" /\ o.n = 1
    <3>1. /\ ~o.active => o.kind = "block" /\ hdr[o.c][o.p] = FreeHeader(o.n)
          /\ o.active /\ o.kind = "block" => hdr[o.c][o.p] = [usage |-> "BLOCK", n |-> o.n]
          /\ o.active /\ o.kind = "run" => hdr[o.c][o.p] = RunHeader /\ o.n = 1
      BY Zenon DEF Good, OwnedOK, Is
    <3>2. \A n : FreeHeader(n).usage = "FREE" /\ FreeHeader(n).n = n /\ RunHeader.usage = "RUN"
      BY Zenon DEF FreeHeader, RunHeader
    <3> QED
      BY <3>1, <3>2
  <2>4. /\ ~x.active => x.kind = "block" /\ hdr[x.c][x.p].usage = "FREE" /\ hdr[x.c][x.p].n = x.n
        /\ x.active /\ x.kind = "block" => hdr[x.c][x.p].usage = "BLOCK" /\ hdr[x.c][x.p].n = x.n
        /\ x.active /\ x.kind = "run" => hdr[x.c][x.p].usage = "RUN" /\ x.n = 1
        /\ ~y.active => y.kind = "block" /\ hdr[x.c][x.p].usage = "FREE" /\ hdr[x.c][x.p].n = y.n
        /\ y.active /\ y.kind = "block" => hdr[x.c][x.p].usage = "BLOCK" /\ hdr[x.c][x.p].n = y.n
        /\ y.active /\ y.kind = "run" => hdr[x.c][x.p].usage = "RUN" /\ y.n = 1
    BY Zenon, <2>1, <2>3
  <2>5. x.n = y.n /\ x.kind = y.kind
    BY Zenon, <2>2, <2>4
  <2>6. x.active = y.active
    BY <2>2, <2>4
  <2> QED
    BY <2>1, <2>2, <2>5, <2>6
<1> QED
  BY Zenon, <1>1, <1>2

\* The application calls when the recovery thread is done.
LEMMA MayCallFacts ==
  ASSUME Waits, NEW T, TileInv(T), NEW t \in Thread, MayCall(t)
  PROVE  pc[t] = "idle" /\ scan.at = "off" /\ ~Busy(t)
  BY Zenon DEF Waits, Good, ScanOK, MayCall, At, Busy, TileInv

--------------------------------------------------------------------------------
(* The recovery thread. *)

\* What the recovery thread leaves alone as long as it only moves on.
LEMMA ScanFrame ==
  ASSUME Waits, NEW T, TileInv(T), scan.at # "off",
         UNCHANGED <<chunk, hdr, owned, mtx, pc, op, crashes>>
  PROVE  /\ Prefix' /\ Tiled(T)' /\ OwnedOK(T)' /\ UsedAreOwned(T)'
         /\ \A u \in Thread : OpOK(T, u)' /\ ~Busy(u)' /\ ~Busy(u)
         /\ tree' = tree => TreeOK(T)' /\ OwnersApart'
         /\ tree' \subseteq [c : Chunk, p : Page, n : Page] /\ scan' \in ScanType => TypeInv'
<1> USE DEF TileInv
<1>1. SameTiles(T)
  BY Zenon DEF SameTiles
<1>2. Prefix' /\ Tiled(T)' /\ OwnedOK(T)' /\ UsedAreOwned(T)' /\ (tree' = tree => TreeOK(T)')
  BY Zenon, <1>1, TilesFrame DEF Good
<1>3. \A u \in Thread : ~Busy(u)' /\ ~Busy(u) /\ pc[u] = "idle" /\ op[u] = NoOp
  BY Zenon DEF Good, ScanOK, Busy, OpOK, CallOK
<1>4. \A u \in Thread : OpOK(T, u)'
  BY Zenon, <1>3, IdleThread
<1>5. tree' = tree => OwnersApart'
  BY Zenon, <1>3 DEF OwnersApart
<1>6. tree' \subseteq [c : Chunk, p : Page, n : Page] /\ scan' \in ScanType => TypeInv'
  BY Zenon DEF TypeInv, TypeOK
<1> QED
  BY Zenon, <1>2, <1>3, <1>4, <1>5, <1>6

\* Tiles that the walk moves over have an owner by then.
LEMMA MoveOver ==
  ASSUME Waits, NEW T, TileInv(T), scan.at \in {"page", "next"},
         scan.j \in T[scan.c], scan.at = "page" => hdr[scan.c][scan.j].usage \in {"BLOCK", "RUN"},
         NEW w, Tile(T[scan.c], scan.j, w),
         UNCHANGED <<chunk, hdr, tree, owned, mtx, pc, op, crashes>>,
         scan' = [scan EXCEPT !.at = "page", !.j = scan.j + w]
  PROVE  TileInv(T)'
<1> USE DEF TileInv
<1>1. /\ scan'.at = "page" /\ scan'.c = scan.c /\ scan'.last = scan.last /\ scan'.node = scan.node
      /\ scan'.j = scan.j + w
  BY Zenon DEF TypeInv, ScanType
<1>2. /\ scan.last \in Chunk /\ scan.c \in Chunk /\ scan.c <= scan.last /\ w \in Nat /\ scan.j \in Nat
      /\ scan.j \in Page /\ w \in Page
      /\ \A c \in Chunk : chunk[c] # "absent" <=> c <= scan.last
      /\ scan.j + w \in T[scan.c] \/ scan.j + w = Pages + 1
      /\ \A q \in T[scan.c] : q <= scan.j \/ q >= scan.j + w
  <2>1. scan.last \in Chunk /\ scan.c \in Chunk /\ scan.c <= scan.last
    BY DEF Good, ScanOK, Chunk, Waits
  <2>2. w \in Page /\ scan.j \in Page
    BY Zenon, <2>1 DEF Tile
  <2> QED
    BY <2>1, <2>2 DEF Good, ScanOK, Tile, Page
<1>3. scan' \in ScanType
  <2>1. scan.j + w \in Nat
    BY <1>2
  <2> QED
    BY Zenon, <2>1 DEF TypeInv, ScanType
<1>4. /\ Prefix' /\ Tiled(T)' /\ OwnedOK(T)' /\ UsedAreOwned(T)' /\ TreeOK(T)' /\ OwnersApart' /\ TypeInv'
      /\ \A u \in Thread : OpOK(T, u)' /\ ~Busy(u)' /\ ~Busy(u)
  BY Zenon, <1>3, ScanFrame DEF TypeInv, TypeOK
<1>5. ScanOK(T)'
  <2>1. \A x \in tree' : x.c < scan.c \/ (x.c = scan.c /\ x.p < scan.j + w)
    <3> SUFFICES ASSUME NEW x \in tree PROVE x.c < scan.c \/ (x.c = scan.c /\ x.p < scan.j + w)
      BY Zenon
    <3>1. x.p \in Page
      BY Zenon DEF TypeInv, TypeOK
    <3>2. x.c < scan.c \/ (x.c = scan.c /\ (x.p < scan.j \/ x.p = scan.j))
      BY Zenon DEF Good, ScanOK
    <3> QED
      BY <1>2, <3>1, <3>2 DEF Page, Waits
  <2>2. scan.j + w \in T[scan.c] \cup {Pages + 1}
    BY Zenon, <1>2
  <2>3. /\ \A t \in Thread : pc[t] = "idle"
        /\ \A o \in owned : o.active
        /\ scan.c \in 1 .. scan.last + 1 /\ MaxCrash # 0
    BY Zenon DEF Good, ScanOK
  <2> QED
    BY Zenon, <1>1, <1>2, <2>1, <2>2, <2>3 DEF ScanOK
<1>6. NoTileLost(T)'
  <2> SUFFICES ASSUME NEW c \in Chunk, chunk[c] # "absent", NEW p \in T[c]
               PROVE  Claimed(c, p)' \/ Ahead(c, p)'
    BY Zenon DEF NoTileLost
  <2>1. Claimed(c, p) => Claimed(c, p)'
    BY Zenon, <1>4 DEF Claimed
  <2>2. Claimed(c, p) \/ Ahead(c, p)
    BY Zenon DEF Good, NoTileLost
  <2>3. CASE c = scan.c /\ p = scan.j /\ scan.at = "page"
    <3>1. \E o \in owned : First(o) = <<c, p>>
      BY Zenon, <2>3 DEF Good, UsedAreOwned
    <3> QED
      BY Zenon, <2>1, <3>1 DEF Claimed
  <2>4. CASE Ahead(c, p) /\ ~(c = scan.c /\ p = scan.j /\ scan.at = "page")
    <3>1. p \in Page
      BY Zenon
    <3>2. c > scan.c \/ (c = scan.c /\ p > scan.j)
      BY Zenon, <2>4 DEF Ahead
    <3>3. c > scan.c \/ (c = scan.c /\ (p > scan.j + w \/ p = scan.j + w))
      BY <1>2, <3>1, <3>2 DEF Page, Waits
    <3> QED
      BY Zenon, <1>1, <3>3 DEF Ahead
  <2> QED
    BY Zenon, <2>1, <2>2, <2>3, <2>4
<1> QED
  BY Zenon, <1>4, <1>5, <1>6 DEF Good

\* The walk comes to the next chunk, or to its end.
LEMMA ScanChunkHInv ==
  ASSUME Waits, NEW T, TileInv(T), ScanChunk
  PROVE  TileInv(T)'
<1> USE DEF TileInv
<1>1. scan.at = "chunk" /\ UNCHANGED <<chunk, hdr, tree, owned, mtx, pc, op, crashes>>
  BY Zenon DEF ScanChunk
<1>2. /\ scan.last \in Chunk /\ scan.c \in 1 .. scan.last + 1 /\ scan.c \in Nat /\ MaxCrash # 0
      /\ \A c \in Chunk : chunk[c] # "absent" <=> c <= scan.last
      /\ \A t \in Thread : pc[t] = "idle"
      /\ \A o \in owned : o.active
      /\ \A x \in tree : x.c < scan.c
  BY <1>1 DEF Good, ScanOK
<1>3. /\ Prefix' /\ Tiled(T)' /\ OwnedOK(T)' /\ UsedAreOwned(T)' /\ TreeOK(T)' /\ OwnersApart'
      /\ \A u \in Thread : OpOK(T, u)' /\ ~Busy(u)' /\ ~Busy(u)
      /\ scan' \in ScanType => TypeInv'
  BY Zenon, <1>1, ScanFrame DEF TypeInv, TypeOK
<1>4. \A c, p : Claimed(c, p) => Claimed(c, p)'
  BY Zenon, <1>1, <1>3 DEF Claimed
<1>5. ASSUME NEW c \in Chunk, chunk[c] # "absent", NEW p \in T[c]
      PROVE  Claimed(c, p) \/ (c <= scan.last /\ c >= scan.c)
  <2>1. c <= scan.last
    BY Zenon, <1>2, <1>5
  <2>2. Ahead(c, p) => c >= scan.c
    BY <1>2 DEF Ahead, Chunk
  <2> QED
    BY Zenon, <1>5, <2>1, <2>2 DEF Good, NoTileLost
<1>6. CASE scan.c > scan.last
  <2>1. scan' = NoScan
    BY Zenon, <1>6 DEF ScanChunk
  <2>2. scan' \in ScanType /\ scan'.at = "off"
    BY Zenon, <2>1 DEF NoScan, Node, ScanType
  <2>3. ScanOK(T)'
    BY Zenon, <2>2 DEF ScanOK
  <2>4. \A c \in Chunk : ~(c <= scan.last /\ c >= scan.c)
    BY <1>2, <1>6 DEF Chunk
  <2>5. NoTileLost(T)'
    BY Zenon, <1>1, <1>4, <1>5, <2>4 DEF NoTileLost
  <2> QED
    BY Zenon, <1>3, <2>2, <2>3, <2>5 DEF Good
<1>7. CASE ~(scan.c > scan.last) /\ chunk[scan.c] = "raw"
  <2>1. scan' = scan
    BY Zenon, <1>7 DEF ScanChunk
  <2>2. ScanOK(T)'
    BY Zenon, <1>1, <2>1 DEF Good, ScanOK
  <2>3. NoTileLost(T)'
    BY Zenon, <1>1, <1>4, <2>1 DEF Good, NoTileLost, Ahead
  <2> QED
    BY Zenon, <1>3, <2>1, <2>2, <2>3 DEF Good, TypeInv
<1>8. CASE ~(scan.c > scan.last) /\ chunk[scan.c] # "raw"
  <2>1. scan' = [scan EXCEPT !.at = "page", !.j = 1]
    BY Zenon, <1>8 DEF ScanChunk
  <2>2. /\ scan'.at = "page" /\ scan'.c = scan.c /\ scan'.last = scan.last /\ scan'.j = 1
        /\ scan' \in ScanType
    BY Zenon, <2>1 DEF TypeInv, ScanType
  <2>3. scan.c <= scan.last /\ scan.c \in Chunk
    BY <1>2, <1>8 DEF Chunk, Waits
  <2>4. 1 \in T[scan.c]
    BY Zenon, <2>3 DEF Good, Tiled
  <2>5. ScanOK(T)'
    BY Zenon, <1>1, <1>2, <2>2, <2>3, <2>4 DEF ScanOK
  <2>6. NoTileLost(T)'
    <3> SUFFICES ASSUME NEW c \in Chunk, chunk[c] # "absent", NEW p \in T[c]
                 PROVE  Claimed(c, p)' \/ Ahead(c, p)'
      BY Zenon, <1>1 DEF NoTileLost
    <3>1. p \in Nat /\ p >= 1 /\ c \in Nat
      BY DEF Page, Waits, Chunk
    <3>2. c >= scan.c => Ahead(c, p)'
      BY <1>2, <2>2, <3>1 DEF Ahead
    <3> QED
      BY Zenon, <1>4, <1>5, <3>2
  <2> QED
    BY Zenon, <1>3, <2>2, <2>5, <2>6 DEF Good
<1> QED
  BY Zenon, <1>6, <1>7, <1>8

\* The walk looks at the header of a tile, and moves over it unless it is free.
LEMMA ScanPageHInv ==
  ASSUME Waits, NEW T, TileInv(T), ScanPage
  PROVE  TileInv(T)'
<1> USE DEF TileInv
<1>1. scan.at = "page" /\ UNCHANGED <<chunk, hdr, tree, owned, mtx, pc, op, crashes>>
  BY Zenon DEF ScanPage
<1>2. /\ scan.last \in Chunk /\ scan.c \in 1 .. scan.last + 1 /\ scan.c <= scan.last /\ MaxCrash # 0
      /\ scan.j \in T[scan.c] \cup {Pages + 1}
      /\ \A c \in Chunk : chunk[c] # "absent" <=> c <= scan.last
      /\ \A t \in Thread : pc[t] = "idle"
      /\ \A o \in owned : o.active
      /\ \A x \in tree : x.c < scan.c \/ (x.c = scan.c /\ x.p < scan.j)
  BY Zenon, <1>1 DEF Good, ScanOK
<1>3. scan.c \in Chunk /\ T[scan.c] \in SUBSET Page /\ scan.j \in Nat /\ scan.c \in Nat
  BY <1>2 DEF Chunk, Waits, Page
<1>4. /\ Prefix' /\ Tiled(T)' /\ OwnedOK(T)' /\ UsedAreOwned(T)' /\ TreeOK(T)' /\ OwnersApart'
      /\ \A u \in Thread : OpOK(T, u)' /\ ~Busy(u)' /\ ~Busy(u)
      /\ scan' \in ScanType => TypeInv'
  BY Zenon, <1>1, ScanFrame DEF TypeInv, TypeOK
<1>5. \A c, p : Claimed(c, p) => Claimed(c, p)'
  BY Zenon, <1>1, <1>4 DEF Claimed
<1>6. CASE scan.j > Pages
  <2>1. scan' = [scan EXCEPT !.at = "chunk", !.c = scan.c + 1]
    BY Zenon, <1>6 DEF ScanPage
  <2>2. /\ scan'.at = "chunk" /\ scan'.c = scan.c + 1 /\ scan'.last = scan.last
        /\ scan' \in ScanType
    <3>1. scan.c + 1 \in Nat
      BY <1>3
    <3> QED
      BY Zenon, <2>1, <3>1 DEF TypeInv, ScanType
  <2>3. scan.c + 1 \in 1 .. scan.last + 1 /\ \A x \in tree : x.c < scan.c + 1
    <3>1. \A x \in tree : x.c \in Nat
      BY DEF TypeInv, TypeOK, Chunk
    <3> QED
      BY <1>2, <1>3, <3>1 DEF Chunk
  <2>4. ScanOK(T)'
    BY Zenon, <1>1, <1>2, <2>2, <2>3 DEF ScanOK
  <2>5. NoTileLost(T)'
    <3> SUFFICES ASSUME NEW c \in Chunk, chunk[c] # "absent", NEW p \in T[c]
                 PROVE  Claimed(c, p)' \/ Ahead(c, p)'
      BY Zenon, <1>1 DEF NoTileLost
    <3>1. p \in Nat /\ p <= Pages /\ c \in Nat
      BY DEF Page, Waits, Chunk
    <3>2. Ahead(c, p) => c > scan.c
      BY <1>1, <1>3, <1>6, <3>1 DEF Ahead, Waits
    <3>3. c > scan.c => Ahead(c, p)'
      BY <1>3, <2>2, <3>1 DEF Ahead
    <3> QED
      BY Zenon, <1>5, <3>2, <3>3 DEF Good, NoTileLost
  <2> QED
    BY Zenon, <1>4, <2>2, <2>4, <2>5 DEF Good
<1>7. CASE ~(scan.j > Pages) /\ hdr[scan.c][scan.j].usage = "FREE"
  <2>1. scan.j \in T[scan.c] /\ scan.j \in Page
    BY <1>2, <1>3, <1>7 DEF Waits
  <2>2. scan' = [scan EXCEPT !.at = "add", !.node = Node(scan.c, scan.j, hdr[scan.c][scan.j].n)]
    BY Zenon, <1>7 DEF ScanPage
  <2>3. /\ hdr[scan.c][scan.j] = FreeHeader(hdr[scan.c][scan.j].n) /\ hdr[scan.c][scan.j].n \in Nat
    BY <1>3, <1>7, <2>1 DEF TypeInv, TypeOK, FreeHeader, Header
  <2>4. /\ scan'.at = "add" /\ scan'.c = scan.c /\ scan'.last = scan.last /\ scan'.j = scan.j
        /\ scan'.node = Node(scan.c, scan.j, hdr[scan.c][scan.j].n)
    BY Zenon, <2>2 DEF TypeInv, ScanType
  <2>5. scan' \in ScanType
    <3>1. Node(scan.c, scan.j, hdr[scan.c][scan.j].n) \in [c : Nat, p : Nat, n : Nat]
      BY Zenon, <1>3, <2>3 DEF Node
    <3> QED
      BY Zenon, <2>2, <3>1 DEF TypeInv, ScanType
  <2>6. ScanOK(T)'
    BY Zenon, <1>1, <1>2, <2>1, <2>3, <2>4 DEF ScanOK
  <2>7. NoTileLost(T)'
    <3>1. \A c, p : Ahead(c, p) => Ahead(c, p)'
      BY Zenon, <1>1, <2>4 DEF Ahead
    <3> QED
      BY Zenon, <1>1, <1>5, <3>1 DEF Good, NoTileLost
  <2> QED
    BY Zenon, <1>4, <2>5, <2>6, <2>7 DEF Good
<1>8. CASE ~(scan.j > Pages) /\ hdr[scan.c][scan.j].usage # "FREE"
  <2>1. scan.j \in T[scan.c] /\ scan.j \in Page
    BY <1>2, <1>3, <1>8 DEF Waits
  <2>2. scan' = [scan EXCEPT !.j = scan.j + Width(hdr[scan.c][scan.j])]
    BY Zenon, <1>8 DEF ScanPage
  <2>3. CASE hdr[scan.c][scan.j] = Zero
    <3>1. Width(hdr[scan.c][scan.j]) = 0
      BY <2>3 DEF Zero, Width
    <3>2. scan' = scan
      BY <1>3, <2>2, <3>1 DEF TypeInv, ScanType
    <3>3. ScanOK(T)'
      BY Zenon, <1>1, <3>2 DEF Good, ScanOK
    <3>4. NoTileLost(T)'
      BY Zenon, <1>1, <1>5, <3>2 DEF Good, NoTileLost, Ahead
    <3> QED
      BY Zenon, <1>4, <3>2, <3>3, <3>4 DEF Good, TypeInv
  <2>4. CASE hdr[scan.c][scan.j] # Zero
    <3>1. /\ hdr[scan.c][scan.j].usage # "DEFAULT"
          /\ Tile(T[scan.c], scan.j, Width(hdr[scan.c][scan.j]))
      BY Zenon, <1>3, <2>1, <2>4 DEF Good, Tiled
    <3>2. hdr[scan.c][scan.j].usage \in {"BLOCK", "RUN"}
      BY <1>3, <1>8, <2>1, <3>1 DEF TypeInv, TypeOK, Header
    <3>3. scan' = [scan EXCEPT !.at = "page", !.j = scan.j + Width(hdr[scan.c][scan.j])]
      BY Zenon, <1>1, <2>2 DEF TypeInv, ScanType
    <3> QED
      BY Zenon, <1>1, <2>1, <3>1, <3>2, <3>3, MoveOver
  <2> QED
    BY Zenon, <2>3, <2>4
<1> QED
  BY Zenon, <1>6, <1>7, <1>8

\* The free block that the walk has found goes into the tree.
LEMMA ScanAddHInv ==
  ASSUME Waits, NEW T, TileInv(T), ScanAdd
  PROVE  TileInv(T)'
<1> USE DEF TileInv
<1>1. PICK x : x = scan.node
  BY Zenon
<1>2. /\ scan.at = "add" /\ UNCHANGED <<chunk, hdr, owned, mtx, pc, op, crashes>>
      /\ tree' = tree \cup {x} /\ scan' = [scan EXCEPT !.at = "next"]
  BY Zenon, <1>1 DEF ScanAdd
<1>3. /\ scan.last \in Chunk /\ scan.c \in 1 .. scan.last + 1 /\ scan.c <= scan.last /\ MaxCrash # 0
      /\ scan.j \in T[scan.c] /\ hdr[scan.c][scan.j] = FreeHeader(hdr[scan.c][scan.j].n)
      /\ x = Node(scan.c, scan.j, hdr[scan.c][scan.j].n)
      /\ \A c \in Chunk : chunk[c] # "absent" <=> c <= scan.last
      /\ \A t \in Thread : pc[t] = "idle"
      /\ \A o \in owned : o.active
      /\ \A y \in tree : y.c < scan.c \/ (y.c = scan.c /\ y.p < scan.j)
  BY Zenon, <1>1, <1>2 DEF Good, ScanOK
<1>4. /\ scan.c \in Chunk /\ T[scan.c] \in SUBSET Page /\ scan.j \in Page
      /\ scan.c \in Nat /\ chunk[scan.c] # "absent"
  BY <1>3 DEF Chunk, Waits
<1>5. x.c = scan.c /\ x.p = scan.j /\ x.n = hdr[scan.c][scan.j].n
  BY Zenon, <1>3 DEF Node
<1>6. /\ Tile(T[scan.c], scan.j, x.n) /\ hdr[x.c][x.p] = FreeHeader(x.n)
  <2>1. hdr[scan.c][scan.j].usage = "FREE" /\ Width(hdr[scan.c][scan.j]) = x.n
    BY <1>3, <1>5 DEF FreeHeader, Width
  <2>2. hdr[scan.c][scan.j] # Zero
    BY <2>1 DEF Zero
  <2>3. Tile(T[scan.c], scan.j, Width(hdr[scan.c][scan.j]))
    BY Zenon, <1>3, <1>4, <2>2 DEF Good, Tiled
  <2> QED
    BY Zenon, <1>3, <1>5, <2>1, <2>3
<1>7. x \in [c : Chunk, p : Page, n : Page]
  BY Zenon, <1>3, <1>4, <1>5, <1>6 DEF Tile, Node
<1>8. /\ scan'.at = "next" /\ scan'.c = scan.c /\ scan'.last = scan.last /\ scan'.j = scan.j
      /\ scan' \in ScanType
  BY Zenon, <1>2 DEF TypeInv, ScanType
<1>9. /\ Prefix' /\ Tiled(T)' /\ OwnedOK(T)' /\ UsedAreOwned(T)' /\ TypeInv'
      /\ \A u \in Thread : OpOK(T, u)' /\ ~Busy(u)' /\ ~Busy(u)
  <2>1. tree' \subseteq [c : Chunk, p : Page, n : Page]
    BY Zenon, <1>2, <1>7 DEF TypeInv, TypeOK
  <2> QED
    BY Zenon, <1>2, <1>8, <2>1, ScanFrame
<1>10. TreeOK(T)'
  BY Zenon, <1>2, <1>4, <1>5, <1>6 DEF Good, TreeOK, Is
<1>11. OwnersApart'
  <2>1. \A o \in owned : First(o) # First(x)
    <3> SUFFICES ASSUME NEW o \in owned, First(o) = First(x) PROVE FALSE
      BY Zenon
    <3>1. o.c = x.c /\ o.p = x.p /\ o.kind \in {"block", "run"} /\ o.active
      BY Zenon, <1>3 DEF First, TypeInv, TypeOK
    <3>2. hdr[o.c][o.p] \in {[usage |-> "BLOCK", n |-> o.n], RunHeader}
      BY Zenon, <3>1 DEF Good, OwnedOK, Is
    <3> QED
      BY <1>6, <3>1, <3>2 DEF FreeHeader, RunHeader
  <2> QED
    BY Zenon, <1>2, <1>9, <2>1 DEF OwnersApart
<1>12. ScanOK(T)'
  <2>1. \A y \in tree' : \/ y.c < scan.c
                         \/ y.c = scan.c /\ y.p < scan.j
                         \/ y.c = scan.c /\ y.p = scan.j
    BY Zenon, <1>2, <1>3, <1>5
  <2> QED
    BY Zenon, <1>2, <1>3, <1>8, <2>1 DEF ScanOK
<1>13. NoTileLost(T)'
  <2> SUFFICES ASSUME NEW c \in Chunk, chunk[c] # "absent", NEW p \in T[c]
               PROVE  Claimed(c, p)' \/ Ahead(c, p)'
    BY Zenon, <1>2 DEF NoTileLost
  <2>1. Claimed(c, p) => Claimed(c, p)'
    BY Zenon, <1>2, <1>9 DEF Claimed
  <2>2. CASE c = scan.c /\ p = scan.j
    BY Zenon, <1>2, <1>5, <2>2 DEF Claimed, First
  <2>3. CASE ~(c = scan.c /\ p = scan.j)
    <3>1. Ahead(c, p) => Ahead(c, p)'
      BY Zenon, <1>2, <1>8, <2>3 DEF Ahead
    <3> QED
      BY Zenon, <2>1, <3>1 DEF Good, NoTileLost
  <2> QED
    BY Zenon, <2>2, <2>3
<1> QED
  BY Zenon, <1>9, <1>10, <1>11, <1>12, <1>13 DEF Good

\* The walk moves over the free block.
LEMMA ScanNextHInv ==
  ASSUME Waits, NEW T, TileInv(T), ScanNext
  PROVE  TileInv(T)'
<1> USE DEF TileInv
<1>1. /\ scan.at = "next" /\ UNCHANGED <<chunk, hdr, tree, owned, mtx, pc, op, crashes>>
      /\ scan' = [scan EXCEPT !.at = "page", !.j = scan.j + hdr[scan.c][scan.j].n]
  BY Zenon DEF ScanNext
<1>2. /\ scan.last \in Chunk /\ scan.c \in 1 .. scan.last + 1 /\ scan.c <= scan.last
      /\ scan.j \in T[scan.c] /\ hdr[scan.c][scan.j] = FreeHeader(hdr[scan.c][scan.j].n)
  BY Zenon, <1>1 DEF Good, ScanOK
<1>3. scan.c \in Chunk
  BY <1>2 DEF Chunk, Waits
<1>4. hdr[scan.c][scan.j].usage = "FREE" /\ Width(hdr[scan.c][scan.j]) = hdr[scan.c][scan.j].n
  BY <1>2 DEF FreeHeader, Width
<1>5. hdr[scan.c][scan.j] # Zero
  BY <1>4 DEF Zero
<1>6. Tile(T[scan.c], scan.j, hdr[scan.c][scan.j].n)
  BY Zenon, <1>2, <1>3, <1>4, <1>5 DEF Good, Tiled
<1> QED
  BY Zenon, <1>1, <1>2, <1>6, MoveOver

--------------------------------------------------------------------------------
(* What the tiling means for the pages. *)

\* Two tiles that start on different pages have no page in common.
LEMMA TilesDisjoint ==
  ASSUME Pages \in Nat, NEW S \in SUBSET Page, NEW p, NEW n, NEW q, NEW m,
         Tile(S, p, n), Tile(S, q, m), p # q
  PROVE  (p .. p + n - 1) \cap (q .. q + m - 1) = {}
<1>1. p \in 1 .. Pages /\ q \in 1 .. Pages /\ n \in 1 .. Pages /\ m \in 1 .. Pages
  BY Zenon DEF Tile, Page
<1>2. p + n <= q \/ q + m <= p
  BY <1>1 DEF Tile
<1> QED
  BY <1>1, <1>2

\* A claim is a tile, or the empty one of a thread that waits for a new chunk.
LEMMA ClaimIsTile ==
  ASSUME Waits, NEW T, TileInv(T),
         NEW t \in Thread, op[t].kind # "none"
  PROVE  Busy(t) \/ (~Busy(t) /\ PagesOf(op[t].node) = {})
<1> USE DEF TileInv
<1>1. pc[t] # "idle"
  BY DEF Good, OpOK, CallOK, NoOp
<1>2. CASE pc[t] = "add_chunk"
  <2>1. op[t].node = Node(0, 0, 0)
    BY Zenon, <1>2 DEF Good, OpOK, NodeOK
  <2>2. op[t].node.p = 0 /\ op[t].node.n = 0
    BY <2>1 DEF Node
  <2>3. op[t].node.p .. op[t].node.p + op[t].node.n - 1 = {}
    BY <2>2
  <2> QED
    BY Zenon, <1>2, <2>3 DEF PagesOf, Busy
<1> QED
  BY Zenon, <1>1, <1>2 DEF Busy

\* The pages of two tiles with different first pages.
LEMMA PagesDisjoint ==
  ASSUME Waits, NEW T \in [Chunk -> SUBSET Page], NEW x, NEW y,
         x.c \in Chunk, y.c \in Chunk, Tile(T[x.c], x.p, x.n), Tile(T[y.c], y.p, y.n),
         First(x) # First(y)
  PROVE  PagesOf(x) \cap PagesOf(y) = {}
<1>1. CASE x.c # y.c
  BY Zenon, <1>1 DEF PagesOf
<1>2. CASE x.c = y.c
  <2>1. x.p # y.p /\ T[x.c] \in SUBSET Page /\ Pages \in Nat
    BY Zenon, <1>2 DEF First, Waits
  <2>2. (x.p .. x.p + x.n - 1) \cap (y.p .. y.p + y.n - 1) = {}
    BY Zenon, <1>2, <2>1, TilesDisjoint
  <2> QED
    BY Zenon, <2>2 DEF PagesOf
<1> QED
  BY Zenon, <1>1, <1>2

\* Different claims start on different pages.
LEMMA ClaimsApart ==
  ASSUME Waits, NEW T, TileInv(T)
  PROVE  NoOverlap
<1> USE DEF TileInv
<1>1. TileInv(T)
  BY Zenon
<1>2. \A x \in tree \cup owned : x.c \in Chunk /\ Tile(T[x.c], x.p, x.n)
  BY Zenon, <1>1, ClaimFacts
<1>3. \A t \in Thread : Busy(t) => op[t].node.c \in Chunk /\ Tile(T[op[t].node.c], op[t].node.p, op[t].node.n)
  BY Zenon, <1>1, NodeFacts
<1>4. \A x, y : /\ x.c \in Chunk /\ Tile(T[x.c], x.p, x.n)
                /\ y.c \in Chunk /\ Tile(T[y.c], y.p, y.n)
                /\ First(x) # First(y)
                => PagesOf(x) \cap PagesOf(y) = {}
  BY Zenon, PagesDisjoint
<1>5. \A t \in Thread : op[t].kind # "none" => Busy(t) \/ (~Busy(t) /\ PagesOf(op[t].node) = {})
  BY Zenon, <1>1, ClaimIsTile
<1>6. /\ \A x, y \in tree : x # y => PagesOf(x) \cap PagesOf(y) = {}
      /\ \A x, y \in owned : x # y => PagesOf(x) \cap PagesOf(y) = {}
      /\ \A x \in tree, o \in owned : PagesOf(x) \cap PagesOf(o) = {} /\ PagesOf(o) \cap PagesOf(x) = {}
  <2>1. \A x, y \in tree : x # y => First(x) # First(y)
    BY Zenon, <1>1, ClaimsUnique
  <2>2. \A x, y \in owned : x # y => First(x) # First(y)
    BY Zenon, <1>1, ClaimsUnique
  <2>3. \A x \in tree, o \in owned : First(x) # First(o)
    BY Zenon DEF OwnersApart
  <2> QED
    BY Zenon, <1>2, <1>4, <2>1, <2>2, <2>3
<1>7. /\ \A t \in Thread, x \in tree \cup owned : op[t].kind # "none" =>
            PagesOf(op[t].node) \cap PagesOf(x) = {} /\ PagesOf(x) \cap PagesOf(op[t].node) = {}
      /\ \A t, u \in Thread : op[t].kind # "none" /\ op[u].kind # "none" /\ t # u =>
            PagesOf(op[t].node) \cap PagesOf(op[u].node) = {}
  <2>1. ASSUME NEW t \in Thread, NEW x \in tree \cup owned, op[t].kind # "none"
        PROVE  PagesOf(op[t].node) \cap PagesOf(x) = {} /\ PagesOf(x) \cap PagesOf(op[t].node) = {}
    <3>1. CASE Busy(t)
      <4>1. First(op[t].node) # First(x)
        BY Zenon, <3>1 DEF OwnersApart
      <4>2. PagesOf(op[t].node) \cap PagesOf(x) = {}
        BY Zenon, <1>2, <1>3, <1>4, <3>1, <4>1
      <4> QED
        BY Zenon, <4>2
    <3>2. CASE PagesOf(op[t].node) = {}
      BY Zenon, <3>2
    <3> QED
      BY Zenon, <1>5, <2>1, <3>1, <3>2
  <2>2. ASSUME NEW t \in Thread, NEW u \in Thread, op[t].kind # "none", op[u].kind # "none", t # u
        PROVE  PagesOf(op[t].node) \cap PagesOf(op[u].node) = {}
    <3>1. CASE Busy(t) /\ Busy(u)
      <4>1. First(op[t].node) # First(op[u].node)
        BY Zenon, <2>2, <3>1 DEF OwnersApart
      <4> QED
        BY Zenon, <1>3, <1>4, <3>1, <4>1
    <3>2. CASE PagesOf(op[t].node) = {} \/ PagesOf(op[u].node) = {}
      BY Zenon, <3>2
    <3> QED
      BY Zenon, <1>5, <2>2, <3>1, <3>2
  <2> QED
    BY Zenon, <2>1, <2>2
<1> SUFFICES ASSUME NEW a \in Claims, NEW b \in Claims, a # b
             PROVE  PagesOf(a[2]) \cap PagesOf(b[2]) = {}
  BY Zenon DEF NoOverlap
<1>8. \A z \in Claims : \/ \E x \in tree : z = <<"tree", x>> /\ z[2] = x
                        \/ \E o \in owned : z = <<"app", o>> /\ z[2] = o
                        \/ \E t \in Thread : op[t].kind # "none" /\ z = <<t, op[t].node>> /\ z[2] = op[t].node
  BY DEF Claims
<1>9. CASE \E x \in tree : a = <<"tree", x>> /\ a[2] = x
  BY Zenon, <1>6, <1>7, <1>8, <1>9
<1>10. CASE \E o \in owned : a = <<"app", o>> /\ a[2] = o
  BY Zenon, <1>6, <1>7, <1>8, <1>10
<1>11. CASE \E t \in Thread : op[t].kind # "none" /\ a = <<t, op[t].node>> /\ a[2] = op[t].node
  BY Zenon, <1>6, <1>7, <1>8, <1>11
<1> QED
  BY Zenon, <1>8, <1>9, <1>10, <1>11

--------------------------------------------------------------------------------
(* The stores of a carving: a new chunk becomes one tile, and one tile two. *)

\* A new chunk is one tile, and it is the next one of the file.
LEMMA ActivateChunkHInv ==
  ASSUME Waits, NEW T, TileInv(T), NEW t \in Thread,
         ActivateChunk(t)
  PROVE  TileInv(T)'
<1> USE DEF TileInv
<1>1. PICK k \in Chunk : \A c \in Chunk : chunk[c] # "absent" <=> c <= k
  BY Zenon DEF Prefix
<1> DEFINE b == CHOOSE c \in Chunk : /\ chunk[c] = "absent"
                                     /\ \A d \in Chunk : chunk[d] = "absent" => c <= d
<1>2. /\ pc[t] = "add_chunk" /\ \E c \in Chunk : chunk[c] = "absent"
      /\ op[t].kind \in {"block", "run"} /\ op[t].n \in Page /\ (op[t].kind = "run" => op[t].n = 1)
      /\ mtx = t
  <2>1. pc[t] = "add_chunk" /\ CallOK(t) /\ NodeOK(T, t)
    BY Zenon DEF ActivateChunk, At, Good, OpOK
  <2>2. \E c \in Chunk : chunk[c] = "absent"
    BY Zenon, <2>1 DEF NodeOK
  <2> QED
    BY Zenon, <2>1, <2>2 DEF CallOK
<1>3. /\ k + 1 \in Chunk /\ chunk[k + 1] = "absent"
      /\ \A d \in Chunk : chunk[d] = "absent" => k + 1 <= d
  BY <1>1, <1>2 DEF Chunk, Waits
<1>4. b \in Chunk /\ chunk[b] = "absent" /\ \A d \in Chunk : chunk[d] = "absent" => b <= d
  BY Zenon, <1>3
<1>5. chunk' = [chunk EXCEPT ![b] = "raw"] /\ op' = [op EXCEPT ![t].node = Node(b, 1, Pages)]
  BY Zenon DEF ActivateChunk
<1> HIDE DEF b
<1>6. b = k + 1
  BY <1>3, <1>4 DEF Chunk
<1>7. /\ pc' = [pc EXCEPT ![t] = "chunk_header"]
      /\ UNCHANGED <<hdr, tree, owned, mtx, scan, crashes>>
  BY Zenon DEF ActivateChunk, Goto
<1>8. scan.at = "off"
  BY Zenon, <1>2, CallsAlone
<1>9. op'[t].node = Node(b, 1, Pages) /\ op'[t].kind = op[t].kind /\ op'[t].n = op[t].n /\ pc'[t] = "chunk_header"
  BY Zenon, <1>5, <1>7 DEF TypeInv, TypeOK, OpType
<1>17. \A d \in Chunk : chunk'[d] = IF d = b THEN "raw" ELSE chunk[d]
  BY Zenon, <1>4, <1>5 DEF TypeInv, TypeOK
<1>10. Prefix'
  <2>1. \A c \in Chunk : chunk'[c] # "absent" <=> c <= k + 1
    BY <1>1, <1>6, <1>17 DEF Chunk
  <2> QED
    BY Zenon, <1>3, <2>1 DEF Prefix
<1>11. TypeInv'
  <2>1. b \in 0 .. MaxChunks /\ 1 \in 0 .. Pages /\ Pages \in 0 .. Pages
    BY <1>4 DEF Waits, Chunk
  <2>2. op' \in [Thread -> OpType]
    BY Zenon, <1>5, <2>1 DEF TypeInv, OpType, Node
  <2> QED
    BY Zenon, <1>4, <1>5, <1>7, <2>2 DEF TypeInv, TypeOK, Label
<1>12. /\ \A u \in Thread : u # t => pc'[u] = pc[u] /\ op'[u] = op[u] /\ (Busy(u)' <=> Busy(u))
       /\ Busy(t)' /\ ~Busy(t)
  BY Zenon, <1>2, <1>5, <1>7 DEF Busy, TypeInv, TypeOK
<1>13. /\ \A x \in tree : x.c \in Chunk /\ chunk[x.c] # "absent" /\ x.c # b
       /\ \A x \in owned : x.c \in Chunk /\ chunk[x.c] # "absent" /\ x.c # b
  <2>1. \A x \in tree : x.c \in Chunk /\ chunk[x.c] # "absent"
    BY Zenon DEF TypeInv, TypeOK, Good, TreeOK, Is
  <2>2. ASSUME NEW o \in owned PROVE o.c \in Chunk /\ chunk[o.c] # "absent"
    <3>1. o.c \in Chunk /\ o.kind \in {"block", "run"} /\ o.active \in BOOLEAN
      BY Zenon DEF TypeInv, TypeOK
    <3>2. \E h : Is(T, o, h)
      BY Zenon, <3>1 DEF Good, OwnedOK
    <3> QED
      BY Zenon, <3>1, <3>2 DEF Is
  <2> QED
    BY Zenon, <1>4, <2>1, <2>2
<1>14. \A u \in Thread : Busy(u) => op[u].node.c # b
  BY Zenon, <1>4, NodeFacts
<1>15. OwnersApart'
  <2>1. \A x \in tree, o \in owned : First(x) # First(o)
    BY Zenon DEF OwnersApart
  <2>2. ASSUME NEW u \in Thread, Busy(u)'
        PROVE  \A x \in tree \cup owned : First(op'[u].node) # First(x)
    <3>1. CASE u = t
      BY <1>9, <1>13, <3>1 DEF First, Node
    <3>2. CASE u # t
      BY Zenon, <1>12, <2>2, <3>2 DEF OwnersApart
    <3> QED
      BY Zenon, <3>1, <3>2
  <2>3. ASSUME NEW u \in Thread, NEW v \in Thread, Busy(u)', Busy(v)', u # v
        PROVE  First(op'[u].node) # First(op'[v].node)
    <3>1. CASE u = t
      BY <1>9, <1>12, <1>14, <2>3, <3>1 DEF First, Node
    <3>2. CASE v = t
      BY <1>9, <1>12, <1>14, <2>3, <3>2 DEF First, Node
    <3>3. CASE u # t /\ v # t
      BY Zenon, <1>12, <2>3, <3>3 DEF OwnersApart
    <3> QED
      BY Zenon, <3>1, <3>2, <3>3
  <2> QED
    BY Zenon, <1>7, <2>1, <2>2, <2>3 DEF OwnersApart, First
<1>16. T[b] = {1} /\ hdr[b][1] = Zero /\ Tile(T[b], 1, Pages)
  BY <1>4 DEF Good, Tiled, Tile, Waits, Page
<1>18. Tiled(T)'
  BY Zenon, <1>7, <1>16, <1>17 DEF Good, Tiled
<1>19. TreeOK(T)'
  BY Zenon, <1>7, <1>13, <1>17 DEF Good, TreeOK, Is
<1>20. OwnedOK(T)'
  <2>1. \A o, h : o \in owned /\ Is(T, o, h) => Is(T, o, h)'
    BY Zenon, <1>7, <1>13, <1>17 DEF Is
  <2> QED
    BY Zenon, <1>7, <2>1 DEF Good, OwnedOK
<1>21. UsedAreOwned(T)'
  BY Zenon, <1>7 DEF Good, UsedAreOwned
<1>22. ASSUME NEW u \in Thread PROVE OpOK(T, u)'
  <2>1. CASE u = t
    <3>1. chunk'[b] # "absent" /\ b \in Chunk /\ 1 \in Page /\ Pages \in Page
      BY <1>4, <1>17 DEF Waits, Page
    <3>2. /\ op'[t].node \in [c : Chunk, p : Page, n : Page]
          /\ op'[t].node.c = b /\ op'[t].node.p = 1 /\ op'[t].node.n = Pages
      BY <1>9, <3>1 DEF Node
    <3>3. pc'[t] = "chunk_header" /\ mtx' = t
      BY Zenon, <1>2, <1>7, <1>9
    <3>4. /\ op'[t].kind \in {"block", "run"} /\ op'[t].n \in Page
          /\ op'[t].kind = "run" => op'[t].n = 1
      BY Zenon, <1>2, <1>7, <1>9
    <3>5. CallOK(t)'
      BY Zenon, <3>3, <3>4 DEF CallOK
    <3>6. NodeOK(T, t)'
      BY Zenon, <1>16, <3>1, <3>2, <3>3 DEF NodeOK, Busy
    <3>7. HeadersOK(t)'
      BY Zenon, <3>3 DEF HeadersOK
    <3> QED
      BY Zenon, <2>1, <3>5, <3>6, <3>7 DEF OpOK
  <2>2. CASE u # t
    <3>1. OpOK(T, u) /\ TypeInv
      BY Zenon DEF Good
    <3>2. pc[u] # "add_chunk"
      BY Zenon, <1>2, <2>2, <3>1 DEF OpOK, CallOK
    <3>3. Busy(u) => /\ op[u].node.c \in Chunk /\ chunk[op[u].node.c] # "absent"
                     /\ Tile(T[op[u].node.c], op[u].node.p, op[u].node.n)
      BY Zenon, NodeFacts
    <3> QED
      BY Zenon, <1>7, <1>12, <1>17, <2>2, <3>1, <3>2, <3>3, OpFrame
  <2> QED
    BY Zenon, <2>1, <2>2
<1>23. ScanOK(T)'
  BY Zenon, <1>7, <1>8 DEF Good, ScanOK
<1>24. NoTileLost(T)'
  <2> SUFFICES ASSUME NEW c \in Chunk, chunk'[c] # "absent", NEW p \in T[c]
               PROVE  Claimed(c, p)'
    BY Zenon DEF NoTileLost
  <2>1. CASE c = b
    BY <1>9, <1>12, <1>16, <2>1 DEF Claimed, First, Node
  <2>2. CASE c # b
    <3>1. Claimed(c, p)
      BY <1>8, <1>17, <2>2 DEF Good, NoTileLost, Ahead
    <3> QED
      BY Zenon, <1>7, <1>12, <3>1 DEF Claimed
  <2> QED
    BY Zenon, <2>1, <2>2
<1> QED
  BY Zenon, <1>10, <1>11, <1>15, <1>18, <1>19, <1>20, <1>21, <1>22, <1>23, <1>24 DEF Good

\* The header of a tile that a thread has all to itself is cleared or written as
\* that of a free block.
LEMMA OwnHeaderHInv ==
  ASSUME Waits, NEW T, TileInv(T), NEW t \in Thread,
         ChunkBlock(t) \/ ZeroHeader(t)
  PROVE  TileInv(T)'
<1> USE DEF TileInv
<1> DEFINE x == op[t].node
           h == IF pc[t] = "zero" THEN Zero ELSE FreeHeader(x.n)
<1>1. /\ pc[t] \in {"chunk_block", "zero"} /\ Busy(t)
      /\ pc' = [pc EXCEPT ![t] = IF pc[t] = "zero" THEN "set_run" ELSE "chunk_done"]
      /\ UNCHANGED <<chunk, tree, owned, mtx, op, scan, crashes>>
  BY Zenon DEF ChunkBlock, ZeroHeader, At, Goto, Busy
<1>2. /\ x.c \in Chunk /\ x.p \in Page /\ x.n \in Page /\ Tile(T[x.c], x.p, x.n)
      /\ scan.at = "off" /\ chunk[x.c] # "absent" /\ x.p \in T[x.c]
  BY Zenon, <1>1, NodeFacts
<1>3. /\ \A d \in Chunk, q \in Page : d # x.c \/ q # x.p => hdr'[d][q] = hdr[d][q]
      /\ hdr'[x.c][x.p] = h
      /\ hdr' \in [Chunk -> [Page -> Header]]
  <2>1. CASE pc[t] = "zero"
    <3>1. SetHeader(x.c, x.p, "DEFAULT", 0) /\ 0 \in 0 .. Pages
      BY <2>1 DEF ChunkBlock, ZeroHeader, At, Waits
    <3> QED
      BY <1>2, <2>1, <3>1, HeaderStore DEF Zero, TypeInv
  <2>2. CASE pc[t] = "chunk_block"
    <3>1. x.p = 1 /\ x.n = Pages
      BY Zenon, <2>2 DEF Good, OpOK, NodeOK
    <3>2. SetHeader(x.c, x.p, "FREE", x.n) /\ x.n \in 0 .. Pages
      BY <1>2, <2>2, <3>1 DEF ChunkBlock, ZeroHeader, At, Page
    <3> QED
      BY <1>2, <2>2, <3>2, HeaderStore DEF FreeHeader, TypeInv
  <2> QED
    BY Zenon, <1>1, <2>1, <2>2
<1>4. /\ \A y \in tree \cup owned : First(y) # <<x.c, x.p>>
      /\ \A u \in Thread : Busy(u) /\ u # t => First(op[u].node) # <<x.c, x.p>>
  BY Zenon, <1>1, NodeIsOwn
<1>5. TypeInv'
  <2>1. pc' \in [Thread -> Label]
    BY Zenon, <1>1 DEF TypeInv, TypeOK, Label
  <2> QED
    BY Zenon, <1>1, <1>3, <2>1 DEF TypeInv, TypeOK
<1>6. \A u \in Thread : (Busy(u)' <=> Busy(u)) /\ (u # t => pc'[u] = pc[u])
  BY Zenon, <1>1 DEF Busy, TypeInv, TypeOK
<1>7. OwnersApart'
  BY Zenon, <1>1, <1>6 DEF OwnersApart
<1>8. /\ \A y, g : Is(T, y, g) /\ y.c \in Chunk /\ First(y) # <<x.c, x.p>> => Is(T, y, g)'
      /\ \A u \in Thread :
           /\ pc'[u] = pc[u] /\ op'[u] = op[u] /\ (mtx' = mtx \/ mtx # u)
           /\ Busy(u) => First(op[u].node) # <<x.c, x.p>>
           => OpOK(T, u)'
      /\ Tiled(T)'
  <2>1. \/ hdr'[x.c][x.p] = Zero
        \/ hdr'[x.c][x.p].usage # "DEFAULT" /\ Tile(T[x.c], x.p, Width(hdr'[x.c][x.p]))
    BY <1>2, <1>3 DEF FreeHeader, Width
  <2> HIDE DEF h
  <2> QED
    BY Zenon, <1>1, <1>2, <1>3, <2>1, StoreFrame
<1>9. TreeOK(T)'
  BY Zenon, <1>1, <1>4, <1>8 DEF TypeInv, TypeOK, Good, TreeOK
<1>10. OwnedOK(T)'
  <2>1. \A o, g : o \in owned /\ Is(T, o, g) => Is(T, o, g)'
    BY Zenon, <1>4, <1>8 DEF TypeInv, TypeOK
  <2> QED
    BY Zenon, <1>1, <2>1 DEF Good, OwnedOK
<1>11. UsedAreOwned(T)'
  <2>1. hdr'[x.c][x.p].usage \notin {"BLOCK", "RUN"}
    BY <1>3 DEF Zero, FreeHeader
  <2>2. ASSUME NEW d \in Chunk, NEW q \in T[d], hdr'[d][q].usage \in {"BLOCK", "RUN"}
        PROVE  \E o \in owned : First(o) = <<d, q>>
    <3>1. hdr'[d][q] = hdr[d][q]
      BY Zenon, <1>3, <2>1, <2>2
    <3> QED
      BY Zenon, <2>2, <3>1 DEF Good, UsedAreOwned
  <2> QED
    BY Zenon, <1>1, <2>2 DEF UsedAreOwned
<1>12. ASSUME NEW u \in Thread PROVE OpOK(T, u)'
  <2>1. CASE u = t
    <3>1. /\ OpOK(T, t)
          /\ pc'[t] = IF pc[t] = "zero" THEN "set_run" ELSE "chunk_done"
      BY Zenon, <1>1 DEF TypeInv, TypeOK, Good
    <3>2. CASE pc[t] = "zero"
      <4>1. pc'[t] = "set_run" /\ hdr'[x.c][x.p] = Zero
        BY Zenon, <1>3, <3>1, <3>2
      <4> HIDE DEF h
      <4>2. CallOK(t)'
        BY Zenon, <1>1, <3>1, <3>2, <4>1 DEF OpOK, CallOK
      <4>3. NodeOK(T, t)'
        BY Zenon, <1>1, <3>1, <3>2, <4>1 DEF OpOK, NodeOK, Busy
      <4>4. HeadersOK(t)'
        BY Zenon, <1>1, <4>1 DEF HeadersOK
      <4> QED
        BY Zenon, <2>1, <4>2, <4>3, <4>4 DEF OpOK
    <3>3. CASE pc[t] = "chunk_block"
      <4>1. pc'[t] = "chunk_done" /\ hdr'[x.c][x.p] = FreeHeader(x.n)
        BY Zenon, <1>3, <3>1, <3>3
      <4> HIDE DEF h
      <4>2. CallOK(t)'
        BY Zenon, <1>1, <3>1, <3>3, <4>1 DEF OpOK, CallOK
      <4>3. NodeOK(T, t)'
        BY Zenon, <1>1, <3>1, <3>3, <4>1 DEF OpOK, NodeOK, Busy
      <4>4. HeadersOK(t)'
        BY Zenon, <1>1, <4>1 DEF HeadersOK
      <4> QED
        BY Zenon, <2>1, <4>2, <4>3, <4>4 DEF OpOK
    <3> QED
      BY Zenon, <1>1, <3>2, <3>3
  <2>2. CASE u # t
    BY Zenon, <1>1, <1>4, <1>6, <1>8, <2>2
  <2> QED
    BY Zenon, <2>1, <2>2
<1>13. ScanOK(T)'
  BY Zenon, <1>1, <1>2 DEF Good, ScanOK
<1>14. NoTileLost(T)'
  BY Zenon, <1>1, <1>6 DEF Good, NoTileLost, Claimed, Ahead
<1>15. Prefix'
  BY Zenon, <1>1 DEF Prefix
<1> QED
  BY Zenon, <1>5, <1>7, <1>8, <1>9, <1>10, <1>11, <1>12, <1>13, <1>14, <1>15 DEF Good

\* The state of a chunk says nothing about its tiles.
LEMMA ChunkStateHInv ==
  ASSUME Waits, NEW T, TileInv(T), NEW t \in Thread,
         ChunkHeader(t) \/ ChunkDone(t)
  PROVE  TileInv(T)'
<1> USE DEF TileInv
<1>1. /\ pc[t] \in {"chunk_header", "chunk_done"} /\ Busy(t)
      /\ pc' = [pc EXCEPT ![t] = IF pc[t] = "chunk_done" THEN "carve" ELSE "chunk_block"]
      /\ chunk' = [chunk EXCEPT ![op[t].node.c] = IF pc[t] = "chunk_done" THEN "initialized"
                                                  ELSE "initializing"]
      /\ UNCHANGED <<hdr, tree, owned, mtx, op, scan, crashes>>
  BY Zenon DEF ChunkHeader, ChunkDone, At, Goto, Busy
<1>2. op[t].node.c \in Chunk /\ chunk[op[t].node.c] # "absent" /\ scan.at = "off"
  BY Zenon, <1>1, NodeFacts
<1>3. SameTiles(T)
  BY Zenon, <1>1, <1>2 DEF SameTiles, TypeInv, TypeOK
<1>4. TypeInv'
  <2>1. pc' \in [Thread -> Label]
    BY Zenon, <1>1 DEF TypeInv, TypeOK, Label
  <2>2. chunk' \in [Chunk -> {"absent", "raw", "initializing", "initialized"}]
    BY Zenon, <1>1 DEF TypeInv, TypeOK
  <2> QED
    BY Zenon, <1>1, <2>1, <2>2 DEF TypeInv, TypeOK
<1>5. \A u \in Thread : (Busy(u)' <=> Busy(u)) /\ (u # t => pc'[u] = pc[u])
  BY Zenon, <1>1 DEF Busy, TypeInv, TypeOK
<1>6. OwnersApart'
  BY Zenon, <1>1, <1>5 DEF OwnersApart
<1>7. Tiled(T)' /\ TreeOK(T)' /\ OwnedOK(T)' /\ UsedAreOwned(T)' /\ Prefix'
  BY Zenon, <1>1, <1>3, TilesFrame DEF Good
<1>8. ASSUME NEW u \in Thread PROVE OpOK(T, u)'
  <2>1. CASE u = t
    <3>1. /\ OpOK(T, t)
          /\ pc'[t] = IF pc[t] = "chunk_done" THEN "carve" ELSE "chunk_block"
          /\ op[t].n \in Page => op[t].n <= Pages
      BY <1>1 DEF TypeInv, TypeOK, Good, Page, Waits
    <3>2. chunk'[op[t].node.c] # "absent"
      BY Zenon, <1>2, <1>3 DEF SameTiles
    <3>3. CASE pc[t] = "chunk_header"
      <4>1. pc'[t] = "chunk_block"
        BY Zenon, <3>1, <3>3
      <4>2. CallOK(t)'
        BY Zenon, <1>1, <3>1, <3>3, <4>1 DEF OpOK, CallOK
      <4>3. NodeOK(T, t)'
        BY Zenon, <1>1, <3>1, <3>2, <3>3, <4>1 DEF OpOK, NodeOK, Busy
      <4>4. HeadersOK(t)'
        BY Zenon, <4>1 DEF HeadersOK
      <4> QED
        BY Zenon, <2>1, <4>2, <4>3, <4>4 DEF OpOK
    <3>4. CASE pc[t] = "chunk_done"
      <4>1. pc'[t] = "carve"
        BY Zenon, <3>1, <3>4
      <4>2. CallOK(t)'
        BY Zenon, <1>1, <3>1, <3>4, <4>1 DEF OpOK, CallOK
      <4>3. op[t].n <= op[t].node.n
        BY Zenon, <3>1, <3>4 DEF OpOK, CallOK, NodeOK
      <4>4. NodeOK(T, t)'
        BY Zenon, <1>1, <3>1, <3>2, <3>4, <4>1, <4>3 DEF OpOK, NodeOK, Busy
      <4>5. HeadersOK(t)'
        BY Zenon, <1>1, <3>1, <3>4, <4>1 DEF OpOK, HeadersOK
      <4> QED
        BY Zenon, <2>1, <4>2, <4>4, <4>5 DEF OpOK
    <3> QED
      BY Zenon, <1>1, <3>3, <3>4
  <2>2. CASE u # t
    BY Zenon, <1>1, <1>3, <1>5, <2>2, OthersFrame DEF SameTiles
  <2> QED
    BY Zenon, <2>1, <2>2
<1>9. ScanOK(T)'
  BY Zenon, <1>1, <1>2 DEF Good, ScanOK
<1>10. NoTileLost(T)'
  BY <1>1, <1>3, <1>5 DEF Good, NoTileLost, Claimed, Ahead, SameTiles
<1> QED
  BY Zenon, <1>4, <1>6, <1>7, <1>8, <1>9, <1>10 DEF Good

\* The header of what is carved off is written on a page where no tile starts.
LEMMA CarveHInv ==
  ASSUME Waits, NEW T, TileInv(T), NEW t \in Thread, Carve(t)
  PROVE  TileInv(T)'
<1> USE DEF TileInv
<1> DEFINE x == op[t].node
           r == CarvedPage(t)
<1>1. /\ Busy(t) /\ pc[t] = "carve"
      /\ op[t].n \in Page /\ op[t].n < x.n /\ hdr[x.c][x.p] = FreeHeader(x.n) /\ mtx = t
      /\ op[t].kind \in {"block", "run"}
  <2>1. pc[t] = "carve" /\ op[t].n < x.n /\ OpOK(T, t)
    BY Zenon DEF Carve, At, Good
  <2> QED
    BY Zenon, <2>1 DEF OpOK, CallOK, HeadersOK, Busy
<1>2. /\ x.c \in Chunk /\ x.p \in Page /\ x.n \in Page /\ Tile(T[x.c], x.p, x.n)
      /\ scan.at = "off" /\ chunk[x.c] # "absent"
  BY Zenon, <1>1, NodeFacts
<1>3. r \in Page /\ r \notin T[x.c]
  <2>1. T[x.c] \in SUBSET Page /\ Pages \in Nat
    BY Zenon, <1>2 DEF Waits
  <2>2. x.p + x.n - op[t].n \in Page /\ x.p + x.n - op[t].n \notin T[x.c]
    BY Zenon, <1>1, <1>2, <2>1, TileSplit
  <2> QED
    BY Zenon, <2>2 DEF CarvedPage
<1>4. /\ \A d \in Chunk, q \in Page : d # x.c \/ q # r => hdr'[d][q] = hdr[d][q]
      /\ hdr'[x.c][r] = IF op[t].kind = "run" THEN RunHeader ELSE FreeHeader(op[t].n)
      /\ hdr' \in [Chunk -> [Page -> Header]]
  <2>1. CASE op[t].kind = "run"
    <3>1. SetHeader(x.c, r, "RUN", 0) /\ 0 \in 0 .. Pages
      BY <2>1 DEF Carve, Waits
    <3> QED
      BY <1>2, <1>3, <2>1, <3>1, HeaderStore DEF RunHeader, TypeInv
  <2>2. CASE op[t].kind # "run"
    <3>1. SetHeader(x.c, r, "FREE", op[t].n) /\ op[t].n \in 0 .. Pages
      BY <1>1, <2>2 DEF Carve, Waits, Page
    <3> QED
      BY <1>2, <1>3, <2>2, <3>1, HeaderStore DEF FreeHeader, TypeInv
  <2> QED
    BY Zenon, <2>1, <2>2
<1>5. /\ pc' = [pc EXCEPT ![t] = "shrink"]
      /\ UNCHANGED <<chunk, tree, owned, mtx, op, scan, crashes>>
  BY Zenon DEF Carve, Goto
<1>6. SameTiles(T)
  BY Zenon, <1>3, <1>4, <1>5 DEF SameTiles
<1>7. TypeInv'
  BY Zenon, <1>4, <1>5 DEF TypeInv, TypeOK, Label
<1>8. \A u \in Thread : Busy(u)' <=> Busy(u)
  BY Zenon, <1>1, <1>5 DEF Busy, TypeInv, TypeOK
<1>9. OwnersApart'
  BY Zenon, <1>5, <1>8 DEF OwnersApart
<1>10. /\ Tiled(T)' /\ TreeOK(T)' /\ OwnedOK(T)' /\ UsedAreOwned(T)' /\ Prefix'
  BY Zenon, <1>5, <1>6, TilesFrame DEF Good
<1>11. ASSUME NEW u \in Thread PROVE OpOK(T, u)'
  <2>1. CASE u = t
    <3>1. pc'[t] = "shrink" /\ op' = op /\ mtx' = mtx /\ chunk' = chunk /\ CarvedPage(t)' = r
      BY Zenon, <1>5 DEF TypeInv, TypeOK, CarvedPage
    <3>2. hdr'[x.c][x.p] = FreeHeader(x.n)
      BY Zenon, <1>1, <1>2, <1>3, <1>4 DEF Tile
    <3>3. OpOK(T, t)
      BY Zenon DEF Good
    <3>4. CallOK(t)'
      BY Zenon, <1>1, <3>1, <3>3 DEF OpOK, CallOK
    <3>5. NodeOK(T, t)'
      BY Zenon, <1>1, <3>1, <3>3 DEF OpOK, NodeOK, Busy
    <3>6. HeadersOK(t)'
      BY Zenon, <1>4, <3>1, <3>2 DEF HeadersOK
    <3> QED
      BY Zenon, <2>1, <3>4, <3>5, <3>6 DEF OpOK
  <2>2. CASE u # t
    <3>1. OpOK(T, u) /\ pc'[u] = pc[u] /\ op'[u] = op[u]
      BY Zenon, <1>5, <2>2 DEF TypeInv, TypeOK, Good
    <3>2. pc[u] # "shrink" /\ pc[u] # "add_chunk"
      BY Zenon, <1>1, <2>2, <3>1 DEF OpOK, CallOK
    <3>3. Busy(u) => /\ op[u].node.c \in Chunk /\ op[u].node.p \in T[op[u].node.c]
                     /\ chunk[op[u].node.c] # "absent"
                     /\ Tile(T[op[u].node.c], op[u].node.p, op[u].node.n)
      BY Zenon, NodeFacts
    <3> QED
      BY Zenon, <1>5, <1>6, <3>1, <3>2, <3>3, OpFrame DEF SameTiles
  <2> QED
    BY Zenon, <2>1, <2>2
<1>12. ScanOK(T)'
  BY Zenon, <1>2, <1>5 DEF ScanOK, Good
<1>13. NoTileLost(T)'
  BY Zenon, <1>5, <1>8 DEF NoTileLost, Claimed, Ahead, Good
<1> QED
  BY Zenon, <1>7, <1>9, <1>10, <1>11, <1>12, <1>13 DEF Good

\* The tile of the thread becomes two: a free block and what the call returns.
LEMMA ShrinkHInv ==
  ASSUME Waits, NEW T, TileInv(T), NEW t \in Thread, Shrink(t)
  PROVE  \E T2 : TileInv(T2)'
<1> USE DEF TileInv
<1>31. PICK x : x = op[t].node
  BY Zenon
<1>32. PICK m : m = op[t].n
  BY Zenon
<1>33. PICK r : r = CarvedPage(t)
  BY Zenon
<1>1. /\ Busy(t) /\ pc[t] = "shrink" /\ mtx = t
      /\ m \in Page /\ m < x.n /\ hdr[x.c][x.p] = FreeHeader(x.n)
      /\ op[t].kind \in {"block", "run"} /\ (op[t].kind = "run" => m = 1)
      /\ hdr[x.c][r] = IF op[t].kind = "run" THEN RunHeader ELSE FreeHeader(m)
  <2>1. pc[t] = "shrink" /\ OpOK(T, t)
    BY Zenon DEF Shrink, At, Good
  <2>2. Busy(t) /\ mtx = t /\ m \in Page /\ op[t].kind \in {"block", "run"} /\ (op[t].kind = "run" => m = 1)
    BY Zenon, <1>32, <2>1 DEF OpOK, CallOK, Busy
  <2>3. m < x.n
    BY Zenon, <1>31, <1>32, <2>1 DEF OpOK, NodeOK
  <2> QED
    BY Zenon, <1>31, <1>32, <1>33, <2>1, <2>2, <2>3 DEF OpOK, HeadersOK
<1>2. /\ x.c \in Chunk /\ x.p \in Page /\ x.n \in Page /\ Tile(T[x.c], x.p, x.n)
      /\ scan.at = "off" /\ chunk[x.c] # "absent" /\ x.p \in T[x.c]
  BY Zenon, <1>1, <1>31, NodeFacts
<1>21. PICK y : y = Node(x.c, x.p, x.n - m)
  BY Zenon
<1>22. PICK o : o = Object(t, x.c, r)
  BY Zenon
<1>3. /\ tree' = tree \cup {y} /\ owned' = owned \cup {o}
      /\ mtx' = NoThread /\ Return(t) /\ UNCHANGED <<chunk, scan, crashes>>
      /\ SetHeader(x.c, x.p, "FREE", x.n - m)
  <2>1. hdr[x.c][x.p].usage = "FREE"
    <3>1. FreeHeader(x.n).usage = "FREE"
      BY Zenon DEF FreeHeader
    <3> QED
      BY Zenon, <1>1, <3>1
  <2>2. /\ tree' = tree \cup {y} /\ owned' = owned \cup {o}
        /\ mtx' = NoThread /\ Return(t) /\ UNCHANGED <<chunk, scan, crashes>>
    BY Zenon, <1>21, <1>22, <1>31, <1>32, <1>33 DEF Shrink, Unlock
  <2>3. SetHeader(x.c, x.p, hdr[x.c][x.p].usage, x.n - m)
    BY Zenon, <1>31, <1>32 DEF Shrink
  <2> QED
    BY Zenon, <2>1, <2>2, <2>3
<1>4. PICK T2 \in [Chunk -> SUBSET Page] : T2 = [T EXCEPT ![x.c] = @ \cup {r}]
  BY Zenon, <1>1, <1>31, <1>33, CarvedIsInside
<1>5. /\ r \in Page /\ r \notin T[x.c] /\ x.n - m \in Page
      /\ T2[x.c] = T[x.c] \cup {r} /\ \A d \in Chunk : d # x.c => T2[d] = T[d]
      /\ Tile(T2[x.c], x.p, x.n - m) /\ Tile(T2[x.c], r, m)
      /\ \A d \in Chunk : \A q, k : Tile(T[d], q, k) /\ <<d, q>> # <<x.c, x.p>> => Tile(T2[d], q, k)
  <2>1. T[x.c] \in SUBSET Page /\ Pages \in Nat /\ r = x.p + x.n - m
    BY Zenon, <1>2, <1>31, <1>32, <1>33 DEF Waits, CarvedPage
  <2>2. T2[x.c] = T[x.c] \cup {r} /\ \A d \in Chunk : d # x.c => T2[d] = T[d]
    BY Zenon, <1>2, <1>4
  <2>3. /\ r \in Page /\ r \notin T[x.c]
        /\ Tile(T[x.c] \cup {r}, x.p, x.n - m) /\ Tile(T[x.c] \cup {r}, r, m)
        /\ \A q, k : Tile(T[x.c], q, k) /\ q # x.p => Tile(T[x.c] \cup {r}, q, k)
    <3>1. /\ x.p + x.n - m \in Page /\ x.p + x.n - m \notin T[x.c]
          /\ Tile(T[x.c] \cup {x.p + x.n - m}, x.p, x.n - m)
          /\ Tile(T[x.c] \cup {x.p + x.n - m}, x.p + x.n - m, m)
          /\ \A q, k : Tile(T[x.c], q, k) /\ q # x.p => Tile(T[x.c] \cup {x.p + x.n - m}, q, k)
      BY Zenon, <1>1, <1>2, <2>1, TileSplit
    <3> QED
      BY Zenon, <2>1, <3>1
  <2>4. x.n - m \in Page
    BY <1>1, <1>2, <2>1 DEF Page
  <2>5. ASSUME NEW d \in Chunk, NEW q, NEW k, Tile(T[d], q, k), <<d, q>> # <<x.c, x.p>>
        PROVE  Tile(T2[d], q, k)
    <3>1. CASE d = x.c
      <4>1. q # x.p /\ Tile(T[x.c], q, k) /\ T2[d] = T[x.c] \cup {r}
        BY Zenon, <2>2, <2>5, <3>1
      <4>2. Tile(T[x.c] \cup {r}, q, k)
        BY Zenon, <2>3, <4>1
      <4> QED
        BY Zenon, <4>1, <4>2
    <3>2. CASE d # x.c
      BY Zenon, <2>2, <2>5, <3>2
    <3> QED
      BY Zenon, <3>1, <3>2
  <2> QED
    BY Zenon, <2>2, <2>3, <2>4, <2>5
<1>6. /\ \A d \in Chunk, q \in Page : d # x.c \/ q # x.p => hdr'[d][q] = hdr[d][q]
      /\ hdr'[x.c][x.p] = FreeHeader(x.n - m)
      /\ hdr' \in [Chunk -> [Page -> Header]]
  <2>1. x.n - m \in 0 .. Pages
    BY <1>5 DEF Page
  <2> QED
    BY <1>2, <1>3, <2>1, HeaderStore DEF FreeHeader, TypeInv
<1>7. /\ pc'[t] = "idle" /\ op'[t] = NoOp /\ ~Busy(t)'
      /\ \A u \in Thread : u # t => pc'[u] = pc[u] /\ op'[u] = op[u] /\ (Busy(u)' <=> Busy(u))
      /\ pc' \in [Thread -> Label]
      /\ op' \in [Thread -> OpType]
  BY Zenon, <1>3, ReturnFacts DEF Waits
<1>8. /\ o.c = x.c /\ o.p = r /\ o.n = m /\ o.kind = op[t].kind
      /\ (o.active <=> op[t].kind = "run") /\ o.active \in BOOLEAN
      /\ o = [c |-> o.c, p |-> o.p, n |-> o.n, kind |-> o.kind, active |-> o.active]
      /\ y = [c |-> x.c, p |-> x.p, n |-> x.n - m]
      /\ y.c = x.c /\ y.p = x.p /\ y.n = x.n - m
  BY Zenon, <1>21, <1>22, <1>32 DEF Object, Node
<1>23. r \in Page /\ r \notin T[x.c] /\ x.n - m \in Page
  BY Zenon, <1>5
<1>24. T2[x.c] = T[x.c] \cup {r} /\ \A d \in Chunk : d # x.c => T2[d] = T[d]
  BY Zenon, <1>5
<1>25. \A d \in Chunk : \A q, k : Tile(T[d], q, k) /\ <<d, q>> # <<x.c, x.p>> => Tile(T2[d], q, k)
  BY Zenon, <1>5
<1>26. \A d \in Chunk, q \in Page : d # x.c \/ q # x.p => hdr'[d][q] = hdr[d][q]
  BY Zenon, <1>6
<1>27. hdr'[x.c][x.p] = FreeHeader(x.n - m)
  BY Zenon, <1>6
<1>28. tree' = tree \cup {y} /\ owned' = owned \cup {o} /\ chunk' = chunk
  BY Zenon, <1>3
<1>29. mtx = t
  BY Zenon, <1>1
<1>9. TypeInv'
  <2>1. y \in [c : Chunk, p : Page, n : Page]
    BY Zenon, <1>2, <1>8, <1>23
  <2>2. o \in [c : Chunk, p : Page, n : Page, kind : {"block", "run"}, active : BOOLEAN]
    BY Zenon, <1>1, <1>2, <1>8, <1>23
  <2> QED
    BY Zenon, <1>3, <1>6, <1>7, <2>1, <2>2 DEF TypeInv, TypeOK
<1>10. /\ \A z \in tree \cup owned : /\ First(z) # <<x.c, x.p>> /\ First(z) # <<x.c, r>>
                                     /\ z.c \in Chunk /\ z.p \in Page
       /\ \A u \in Thread : Busy(u) /\ u # t => /\ First(op[u].node) # <<x.c, x.p>>
                                                /\ First(op[u].node) # <<x.c, r>>
       /\ First(y) = <<x.c, x.p>> /\ First(o) = <<x.c, r>> /\ r # x.p
  <2>1. \A z \in tree \cup owned : z.p \in T[z.c] /\ z.c \in Chunk /\ z.p \in Page
    BY Zenon, ClaimFacts
  <2>2. \A u \in Thread : Busy(u) => op[u].node.p \in T[op[u].node.c]
    BY Zenon, NodeFacts
  <2>3. /\ \A z \in tree \cup owned : First(z) # <<x.c, x.p>>
        /\ \A u \in Thread : Busy(u) /\ u # t => First(op[u].node) # <<x.c, x.p>>
    BY Zenon, <1>1, <1>31, NodeIsOwn
  <2>4. \A z \in tree \cup owned : First(z) # <<x.c, r>>
    BY Zenon, <1>23, <2>1 DEF First
  <2>5. \A u \in Thread : Busy(u) /\ u # t => First(op[u].node) # <<x.c, r>>
    BY Zenon, <1>23, <2>2 DEF First
  <2>7. x.p \in T[x.c]
    BY Zenon, <1>2
  <2>6. First(y) = <<x.c, x.p>> /\ First(o) = <<x.c, r>> /\ r # x.p
    BY Zenon, <1>2, <1>8, <1>23, <2>7 DEF First
  <2> QED
    BY Zenon, <2>1, <2>3, <2>4, <2>5, <2>6
<1>11. OwnersApart'
  <2>1. \A z \in tree', w \in owned' : First(z) # First(w)
    BY <1>10, <1>28 DEF OwnersApart
  <2>2. \A u \in Thread : Busy(u)' => \A z \in tree' \cup owned' : First(op'[u].node) # First(z)
    BY <1>7, <1>10, <1>28 DEF OwnersApart
  <2>3. \A u, v \in Thread : Busy(u)' /\ Busy(v)' /\ u # v => First(op'[u].node) # First(op'[v].node)
    BY Zenon, <1>7 DEF OwnersApart
  <2> QED
    BY Zenon, <2>1, <2>2, <2>3 DEF OwnersApart, First
<1>12. \A z, h : Is(T, z, h) /\ z.c \in Chunk /\ z.p \in Page /\ First(z) # <<x.c, x.p>> => Is(T2, z, h)'
  BY Zenon, <1>25, <1>26, <1>28 DEF Is, First
<1>13. Tiled(T2)'
  <2> SUFFICES ASSUME NEW d \in Chunk
               PROVE  /\ 1 \in T2[d]
                      /\ \A q \in T2[d] :
                           \/ hdr'[d][q] = Zero
                           \/ hdr'[d][q].usage # "DEFAULT" /\ Tile(T2[d], q, Width(hdr'[d][q]))
                      /\ chunk'[d] = "absent" => T2[d] = {1} /\ hdr'[d][1] = Zero
    BY Zenon DEF Tiled
  <2>1. /\ 1 \in T[d]
        /\ \A q \in T[d] : \/ hdr[d][q] = Zero
                           \/ hdr[d][q].usage # "DEFAULT" /\ Tile(T[d], q, Width(hdr[d][q]))
        /\ chunk[d] = "absent" => T[d] = {1} /\ hdr[d][1] = Zero
    BY Zenon DEF Good, Tiled
  <2>2. 1 \in T2[d]
    BY Zenon, <1>24, <2>1
  <2>3. ASSUME NEW q \in T2[d]
        PROVE  \/ hdr'[d][q] = Zero
               \/ hdr'[d][q].usage # "DEFAULT" /\ Tile(T2[d], q, Width(hdr'[d][q]))
    <3>1. CASE d = x.c /\ q = x.p
      <4>1. hdr'[d][q].usage = "FREE" /\ Width(hdr'[d][q]) = x.n - m
        BY Zenon, <1>27, <3>1, HeaderWidths
      <4> QED
        BY Zenon, <1>5, <3>1, <4>1
    <3>2. CASE d = x.c /\ q = r
      <4>1. hdr'[d][q] = hdr[x.c][r]
        BY Zenon, <1>10, <1>23, <1>26, <3>2
      <4>2. hdr'[d][q].usage # "DEFAULT" /\ Width(hdr'[d][q]) = m
        <5>1. hdr'[d][q] = IF op[t].kind = "run" THEN RunHeader ELSE FreeHeader(m)
          BY Zenon, <1>1, <4>1
        <5>2. RunHeader.usage = "RUN" /\ FreeHeader(m).usage = "FREE" /\ FreeHeader(m).n = m
          BY Zenon DEF RunHeader, FreeHeader
        <5> QED
          BY Zenon, <1>1, <5>1, <5>2 DEF Width
      <4> QED
        BY Zenon, <1>5, <3>2, <4>2
    <3>3. CASE <<d, q>> # <<x.c, x.p>> /\ <<d, q>> # <<x.c, r>>
      <4>1. q \in T[d] /\ hdr'[d][q] = hdr[d][q]
        BY Zenon, <1>24, <1>26, <3>3
      <4> QED
        BY Zenon, <1>25, <2>1, <3>3, <4>1
    <3> QED
      BY Zenon, <3>1, <3>2, <3>3
  <2>4. chunk'[d] = "absent" => T2[d] = {1} /\ hdr'[d][1] = Zero
    BY Zenon, <1>2, <1>24, <1>26, <1>28, <2>1
  <2> QED
    BY Zenon, <2>2, <2>3, <2>4
<1>14. TreeOK(T2)'
  <2>1. \A z \in tree : Is(T2, z, FreeHeader(z.n))'
    BY Zenon, <1>10, <1>12 DEF Good, TreeOK
  <2>2. Is(T2, y, FreeHeader(y.n))'
    BY Zenon, <1>2, <1>5, <1>8, <1>27, <1>28 DEF Is
  <2> QED
    BY Zenon, <1>28, <2>1, <2>2 DEF TreeOK
<1>15. OwnedOK(T2)'
  <2>1. \A w, h : w \in owned /\ Is(T, w, h) => Is(T2, w, h)'
    BY Zenon, <1>10, <1>12
  <2>2. hdr'[x.c][r] = hdr[x.c][r]
    BY Zenon, <1>2, <1>10, <1>23, <1>26
  <2>3. /\ ~o.active => o.kind = "block" /\ Is(T2, o, FreeHeader(o.n))'
        /\ o.active /\ o.kind = "block" => Is(T2, o, [usage |-> "BLOCK", n |-> o.n])'
        /\ o.active /\ o.kind = "run" => o.n = 1 /\ Is(T2, o, RunHeader)'
    BY Zenon, <1>1, <1>2, <1>5, <1>8, <1>28, <2>2 DEF Is
  <2> QED
    BY Zenon, <1>28, <2>1, <2>3 DEF OwnedOK, Good
<1>16. UsedAreOwned(T2)'
  <2> SUFFICES ASSUME NEW d \in Chunk, NEW q \in T2[d], hdr'[d][q].usage \in {"BLOCK", "RUN"}
               PROVE  \E w \in owned' : First(w) = <<d, q>>
    BY Zenon DEF UsedAreOwned, First
  <2>1. <<d, q>> # <<x.c, x.p>>
    BY <1>27 DEF FreeHeader
  <2>2. CASE <<d, q>> = <<x.c, r>>
    BY Zenon, <1>10, <1>28, <2>2
  <2>3. CASE <<d, q>> # <<x.c, r>>
    <3>1. q \in T[d] /\ hdr'[d][q] = hdr[d][q]
      BY Zenon, <1>24, <1>26, <2>1, <2>3
    <3> QED
      BY Zenon, <1>28, <3>1 DEF Good, UsedAreOwned
  <2> QED
    BY Zenon, <2>2, <2>3
<1>17. ASSUME NEW u \in Thread PROVE OpOK(T2, u)'
  <2>1. CASE u = t
    BY Zenon, <1>7, <2>1, IdleThread
  <2>2. CASE u # t
    <3>1. OpOK(T, u) /\ TypeInv
      BY Zenon DEF Good
    <3>2. pc[u] # "shrink" /\ pc[u] # "add_chunk"
      BY Zenon, <1>29, <2>2, <3>1 DEF OpOK, CallOK
    <3>3. Busy(u) => /\ op[u].node.c \in Chunk /\ chunk[op[u].node.c] # "absent"
                     /\ Tile(T[op[u].node.c], op[u].node.p, op[u].node.n)
                     /\ op[u].node.p \in Page
      BY Zenon, NodeFacts
    <3>4. Busy(u) => /\ Tile(T2[op[u].node.c], op[u].node.p, op[u].node.n)
                     /\ hdr'[op[u].node.c][op[u].node.p] = hdr[op[u].node.c][op[u].node.p]
      BY Zenon, <1>10, <1>25, <1>26, <2>2, <3>3 DEF First
    <3>5. mtx # u
      BY Zenon, <1>29, <2>2
    <3> QED
      BY Zenon, <1>3, <1>7, <2>2, <3>1, <3>2, <3>3, <3>4, <3>5, OpFrame
  <2> QED
    BY Zenon, <2>1, <2>2
<1>18. ScanOK(T2)'
  BY Zenon, <1>2, <1>3 DEF Good, ScanOK
<1>19. NoTileLost(T2)'
  <2> SUFFICES ASSUME NEW d \in Chunk, chunk'[d] # "absent", NEW q \in T2[d]
               PROVE  Claimed(d, q)'
    BY Zenon DEF NoTileLost
  <2>1. CASE <<d, q>> = <<x.c, x.p>>
    BY Zenon, <1>10, <1>28, <2>1 DEF Claimed, First
  <2>2. CASE <<d, q>> = <<x.c, r>>
    BY Zenon, <1>10, <1>28, <2>2 DEF Claimed, First
  <2>3. CASE <<d, q>> # <<x.c, x.p>> /\ <<d, q>> # <<x.c, r>>
    <3>1. q \in T[d]
      BY Zenon, <1>24, <2>3
    <3>2. Claimed(d, q)
      BY Zenon, <1>2, <1>28, <3>1 DEF Good, NoTileLost, Ahead
    <3>3. CASE \E z \in tree \cup owned : First(z) = <<d, q>>
      BY Zenon, <1>28, <3>3 DEF Claimed
    <3>4. CASE \E u \in Thread : Busy(u) /\ First(op[u].node) = <<d, q>>
      <4>1. PICK u \in Thread : Busy(u) /\ First(op[u].node) = <<d, q>>
        BY Zenon, <3>4
      <4>2. u # t
        BY Zenon, <1>31, <2>3, <4>1 DEF First
      <4>3. Busy(u)' /\ op'[u] = op[u]
        BY Zenon, <1>7, <4>1, <4>2 DEF Busy
      <4>4. First(op'[u].node) = <<d, q>>
        BY Zenon, <4>1, <4>3
      <4> QED
        BY Zenon, <4>3, <4>4 DEF Claimed, First
    <3> QED
      BY Zenon, <3>2, <3>3, <3>4 DEF Claimed
  <2> QED
    BY Zenon, <2>1, <2>2, <2>3
<1>20. Prefix'
  BY Zenon, <1>3 DEF Prefix
<1> QED
  BY Zenon, <1>9, <1>11, <1>13, <1>14, <1>15, <1>16, <1>17, <1>18, <1>19, <1>20 DEF Good

\* A tile of the right size is handed out as it is, or kept to make a run of it.
LEMMA CarveWholeHInv ==
  ASSUME Waits, NEW T, TileInv(T), NEW t \in Thread, CarveWhole(t)
  PROVE  TileInv(T)'
<1> USE DEF TileInv
<1> DEFINE x == op[t].node
<1>1. /\ Busy(t) /\ pc[t] = "carve" /\ mtx = t /\ hdr[x.c][x.p] = FreeHeader(x.n)
      /\ op[t].kind \in {"block", "run"} /\ (op[t].kind = "run" => op[t].n = 1)
      /\ op[t].n \in Page /\ op[t].n <= x.n /\ x.n <= op[t].n
  <2>1. pc[t] = "carve" /\ op[t].n >= x.n /\ OpOK(T, t)
    BY Zenon DEF CarveWhole, At, Good
  <2>2. /\ Busy(t) /\ mtx = t /\ op[t].n \in Page
        /\ op[t].kind \in {"block", "run"} /\ (op[t].kind = "run" => op[t].n = 1)
    BY Zenon, <2>1 DEF OpOK, CallOK, Busy
  <2>3. op[t].n <= x.n /\ hdr[x.c][x.p] = FreeHeader(x.n)
    BY Zenon, <2>1 DEF OpOK, NodeOK, HeadersOK
  <2>4. x.n \in Page
    BY Zenon, <2>1, <2>2 DEF OpOK, NodeOK
  <2> QED
    BY Zenon, <2>1, <2>2, <2>3, <2>4 DEF Page, Waits
<1>2. /\ x.c \in Chunk /\ x.p \in Page /\ x.n \in Page /\ Tile(T[x.c], x.p, x.n)
      /\ scan.at = "off" /\ chunk[x.c] # "absent" /\ x.p \in T[x.c]
  BY Zenon, <1>1, NodeFacts
<1>3. x.n = op[t].n
  BY SMTT(30), <1>1, <1>2 DEF Page, Waits
<1>4. mtx' = NoThread /\ UNCHANGED <<chunk, hdr, tree, scan, crashes>>
  BY Zenon DEF CarveWhole, Unlock
<1>5. SameTiles(T)
  BY Zenon, <1>4 DEF SameTiles
<1>6. Tiled(T)' /\ TreeOK(T)' /\ Prefix'
  BY Zenon, <1>4, <1>5, TilesFrame DEF Good
<1>7. ScanOK(T)'
  BY Zenon, <1>2, <1>4 DEF Good, ScanOK
<1>8. CASE op[t].kind = "run"
  <2>1. pc' = [pc EXCEPT ![t] = "zero"] /\ op' = op /\ owned' = owned
    BY Zenon, <1>8 DEF CarveWhole, Goto
  <2>2. TypeInv'
    BY Zenon, <1>4, <2>1 DEF TypeInv, TypeOK, Label
  <2>3. \A u \in Thread : (Busy(u)' <=> Busy(u)) /\ (u # t => pc'[u] = pc[u])
    BY Zenon, <1>1, <2>1 DEF Busy, TypeInv, TypeOK
  <2>4. OwnersApart'
    BY Zenon, <1>4, <2>1, <2>3 DEF OwnersApart
  <2>5. OwnedOK(T)' /\ UsedAreOwned(T)'
    BY Zenon, <1>5, <2>1, TilesFrame DEF Good
  <2>6. ASSUME NEW u \in Thread PROVE OpOK(T, u)'
    <3>1. CASE u = t
      <4>1. pc'[t] = "zero" /\ OpOK(T, t)
        BY Zenon, <2>1 DEF TypeInv, TypeOK, Good
      <4>2. CallOK(t)'
        BY Zenon, <1>1, <1>8, <2>1, <4>1 DEF OpOK, CallOK
      <4>3. NodeOK(T, t)'
        BY Zenon, <1>1, <1>3, <1>4, <1>8, <2>1, <4>1 DEF OpOK, NodeOK, Busy
      <4>4. HeadersOK(t)'
        BY Zenon, <1>1, <1>4, <2>1, <4>1 DEF HeadersOK
      <4> QED
        BY Zenon, <3>1, <4>2, <4>3, <4>4 DEF OpOK
    <3>2. CASE u # t
      BY Zenon, <1>1, <1>4, <2>1, <2>3, <3>2, OthersFrame
    <3> QED
      BY Zenon, <3>1, <3>2
  <2>7. NoTileLost(T)'
    BY Zenon, <1>4, <2>1, <2>3 DEF Good, NoTileLost, Claimed, Ahead
  <2> QED
    BY Zenon, <1>6, <1>7, <2>2, <2>4, <2>5, <2>6, <2>7 DEF Good
<1>9. CASE op[t].kind = "block"
  <2>1. PICK o : o = Object(t, x.c, x.p)
    BY Zenon
  <2>2. Return(t) /\ owned' = owned \cup {o}
    BY Zenon, <1>9, <2>1 DEF CarveWhole
  <2>3. o = [c |-> x.c, p |-> x.p, n |-> x.n, kind |-> "block", active |-> FALSE]
    BY Zenon, <1>3, <1>9, <2>1 DEF Object
  <2>4. /\ pc'[t] = "idle" /\ op'[t] = NoOp /\ ~Busy(t)'
        /\ \A u \in Thread : u # t => pc'[u] = pc[u] /\ op'[u] = op[u] /\ (Busy(u)' <=> Busy(u))
        /\ pc' \in [Thread -> Label]
        /\ op' \in [Thread -> OpType]
    BY Zenon, <2>2, ReturnFacts DEF Waits
  <2>5. TypeInv'
    <3>1. o \in [c : Chunk, p : Page, n : Page, kind : {"block", "run"}, active : BOOLEAN]
      BY Zenon, <1>2, <2>3
    <3> QED
      BY Zenon, <1>4, <2>2, <2>4, <3>1 DEF TypeInv, TypeOK
  <2>6. /\ \A y \in tree \cup owned : First(y) # <<x.c, x.p>>
        /\ \A u \in Thread : Busy(u) /\ u # t => First(op[u].node) # <<x.c, x.p>>
        /\ First(o) = <<x.c, x.p>>
    BY Zenon, <1>1, <2>3, NodeIsOwn DEF First
  <2>7. OwnersApart'
    <3>1. \A z \in tree', w \in owned' : First(z) # First(w)
      BY Zenon, <1>1, <1>4, <2>2, <2>6 DEF OwnersApart
    <3>2. \A u \in Thread : Busy(u)' => \A z \in tree' \cup owned' : First(op'[u].node) # First(z)
      BY SMTT(30), <1>1, <1>4, <2>2, <2>4, <2>6 DEF OwnersApart
    <3>3. \A u, v \in Thread : Busy(u)' /\ Busy(v)' /\ u # v => First(op'[u].node) # First(op'[v].node)
      BY Zenon, <2>4 DEF OwnersApart
    <3> QED
      BY Zenon, <3>1, <3>2, <3>3 DEF OwnersApart, First
  <2>8. OwnedOK(T)'
    <3>1. \A w, h : w \in owned /\ Is(T, w, h) => Is(T, w, h)'
      BY Zenon, <1>4 DEF Is
    <3>2. Is(T, o, FreeHeader(o.n))'
      BY Zenon, <1>1, <1>2, <1>4, <2>3 DEF Is
    <3>3. /\ ~o.active => o.kind = "block" /\ Is(T, o, FreeHeader(o.n))'
          /\ o.active /\ o.kind = "block" => Is(T, o, [usage |-> "BLOCK", n |-> o.n])'
          /\ o.active /\ o.kind = "run" => o.n = 1 /\ Is(T, o, RunHeader)'
      BY Zenon, <2>3, <3>2
    <3> QED
      BY Zenon, <2>2, <3>1, <3>3 DEF OwnedOK, Good
  <2>9. UsedAreOwned(T)'
    BY Zenon, <1>4, <2>2 DEF Good, UsedAreOwned
  <2>10. ASSUME NEW u \in Thread PROVE OpOK(T, u)'
    <3>1. CASE u = t
      BY Zenon, <2>4, <3>1, IdleThread
    <3>2. CASE u # t
      BY Zenon, <1>1, <1>4, <2>4, <3>2, OthersFrame
    <3> QED
      BY Zenon, <3>1, <3>2
  <2>11. NoTileLost(T)'
    <3> SUFFICES ASSUME NEW d \in Chunk, chunk[d] # "absent", NEW q \in T[d]
                 PROVE  Claimed(d, q)'
      BY Zenon, <1>4 DEF NoTileLost
    <3>1. Claimed(d, q)
      BY Zenon, <1>2 DEF Good, NoTileLost, Ahead
    <3>2. CASE <<d, q>> = <<x.c, x.p>>
      BY Zenon, <2>2, <2>6, <3>2 DEF Claimed, First
    <3>3. CASE <<d, q>> # <<x.c, x.p>>
      <4>1. CASE \E z \in tree \cup owned : First(z) = <<d, q>>
        BY Zenon, <1>4, <2>2, <4>1 DEF Claimed
      <4>2. CASE \E u \in Thread : Busy(u) /\ First(op[u].node) = <<d, q>>
        BY Zenon, <2>4, <3>3, <4>2 DEF Claimed, First
      <4> QED
        BY Zenon, <3>1, <4>1, <4>2 DEF Claimed
    <3> QED
      BY Zenon, <3>2, <3>3
  <2> QED
    BY Zenon, <1>6, <1>7, <2>5, <2>7, <2>8, <2>9, <2>10, <2>11 DEF Good
<1> QED
  BY Zenon, <1>1, <1>8, <1>9

================================================================================
