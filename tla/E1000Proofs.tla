---------------------------- MODULE E1000Proofs -----------------------------
(***************************************************************************)
(* Proofs about paging, the heap and the start of the network driver, for  *)
(* any table size, memory, free frames, register addresses, ring sizes and *)
(* number of cards that fit the heap.                                      *)
(***************************************************************************)
EXTENDS E1000, WellFoundedInduction, TLAPS

-----------------------------------------------------------------------------
(* The inductive invariant                                                 *)

\* Memory m holds a directory and its tables as map_page() relies on them,
\* and the frames fr are free: the directory is seen at its own address
\* through the first table and its own last entry; every other entry is a
\* table of its own, in no free frame.
Paged(m, fr) ==
  /\ m \in [Frames -> [Index -> Int]]
  /\ fr \subseteq Frames \ {0, PdFrame, PtFrame}
  /\ m[PdFrame][0] = PtFrame /\ m[PdFrame][Last] = PdFrame
  /\ m[PtFrame] = [k \in Index |-> k]
  /\ \A d \in Index : m[PdFrame][d] = NotPresent \/ m[PdFrame][d] \in Frames \ fr
  /\ \A d, e \in Index : m[PdFrame][d] = m[PdFrame][e] /\ m[PdFrame][d] # NotPresent => d = e

\* One use is the other, or a ring and its first buffer.
OneUse(g, h) == g = h \/ RingAndFirst(g, h) \/ RingAndFirst(h, g)

\* Use g is on a page of the heap below heap_ptr, the page is still in the
\* frame told, and the frame is neither free nor a table.
ToldOf(g) ==
  /\ PageOf(g.addr) \in Page /\ g.frame \in Nat
  /\ PageOf(g.addr) >= Entries /\ PageOf(g.addr) < PageOf(heap_ptr)
  /\ Walk(mem, PageOf(g.addr)) = g.frame
  /\ g.frame # 0 => g.frame \notin free /\ g.frame \notin Tables /\ g.frame \in Frames

\* So is every use a card has been told of, frames other than 0 are told for
\* one page only, and a page for one use.
Told ==
  /\ \A g \in given : ToldOf(g)
  /\ \A g, h \in given : g.frame = h.frame /\ g.frame # 0 => PageOf(g.addr) = PageOf(h.addr)
  /\ \A g, h \in given : PageOf(g.addr) = PageOf(h.addr) => OneUse(g, h)

\* Descriptors of a card, and those of the card in hand in rings before the
\* one in hand.
CardDescs == RX_DESC_COUNT + TX_DESC_COUNT
Before == IF kind = "rx" THEN 0 ELSE RX_DESC_COUNT

\* The heap after so many buffers and so many descriptors: the buffers are
\* whole pages, so the descriptors are the offset in a page.
HeapAt(buffers, descs) == HEAP_START + buffers * PageUnits + descs * DescUnits

\* Where heap_ptr and the ring are when n cards before this one were set up.
HeapAfter(n) ==
  LET done == n * CardDescs
  IN  /\ pc = "scan" => heap_ptr = HeapAt(done, done)
      /\ pc = "mmio" => n < cards /\ heap_ptr = HeapAt(done, done)
      /\ pc = "ring" => n < cards /\ heap_ptr = HeapAt(done + Before, done + Before)
      /\ pc = "fill" => /\ n < cards /\ i <= Count
                        /\ heap_ptr = HeapAt(done + Before + i, done + Before + Count)
                        /\ ring = HeapAt(done + Before, done + Before)

\* The page of the ring in hand is the page of its first buffer, and of no
\* ring before.
FirstBuffer(g) ==
  /\ g.what = "buffer" /\ g.card = cards /\ g.kind = kind /\ g.slot = 0
  /\ PageOf(g.addr) = PageOf(ring)

RingTold ==
  pc = "fill" =>
    /\ i > 0 => \E g \in given : FirstBuffer(g)
    /\ \A g \in given : g.what = "ring" => PageOf(g.addr) < PageOf(ring)

\* The registers mapped so far.
RegistersSeen ==
  pc = "mmio" =>
    /\ bar # 0 /\ i <= MmioPages
    /\ \A k \in 0..(i - 1) : Walk(mem, bar + k) = bar + k

PagedNow == Paged(IF pc = "install" THEN Installed(mem) ELSE mem, free)

CardInv ==
  /\ E1000TypeOK /\ mem \in [Frames -> [Index -> Int]]
  /\ PagedNow
  /\ pc = "install" => heap_ptr = HEAP_START /\ given = {}
  /\ pc # "install" => Told
  /\ \E n \in 0..cards : HeapAfter(n)
  /\ RingTold /\ RegistersSeen
  /\ NoPageFault

-----------------------------------------------------------------------------
(* Arithmetic                                                              *)

\* Division and remainder of a multiple and a rest.
LEMMA DivRest ==
  ASSUME NEW p \in Nat \ {0}, NEW q \in Int, NEW r \in 0..(p - 1)
  PROVE  (q * p + r) \div p = q /\ (q * p + r) % p = r
OBVIOUS

\* A number is its quotient and its remainder.
LEMMA DivParts ==
  ASSUME NEW p \in Nat \ {0}, NEW v \in Nat
  PROVE  /\ v \div p \in Nat /\ v % p \in 0..(p - 1)
         /\ v = (v \div p) * p + (v % p)
OBVIOUS

\* Multiplication is monotone.
LEMMA MulMono ==
  ASSUME NEW a \in Nat, NEW b \in Nat, NEW p \in Nat, a <= b
  PROVE  a * p <= b * p
OBVIOUS

\* A common factor can be dropped from a comparison.
LEMMA MulStrict ==
  ASSUME NEW a \in Int, NEW b \in Int, NEW p \in Nat \ {0}, a * p < b * p
  PROVE  a < b
OBVIOUS

\* A sum times a factor.
LEMMA Distribute ==
  ASSUME NEW a \in Int, NEW b \in Int, NEW p \in Int
  PROVE  (a + b) * p = a * p + b * p /\ a * p \in Int
OBVIOUS

\* A product of naturals is one.
LEMMA MulNat ==
  ASSUME NEW a \in Nat, NEW p \in Nat
  PROVE  a * p \in Nat
OBVIOUS

\* Rounding up what is a multiple changes nothing.
LEMMA RoundUpMultiple ==
  ASSUME NEW a \in Nat, NEW d \in Nat \ {0}
  PROVE  RoundUp(a * d, d) = a * d
<1>1. d - 1 \in 0..(d - 1)
  OBVIOUS
<1>2. (a * d + (d - 1)) \div d = a
  BY <1>1, DivRest
<1>3. a * d + d - 1 = a * d + (d - 1)
  BY MulNat
<1> QED
  BY <1>2, <1>3 DEF RoundUp

-----------------------------------------------------------------------------
(* Pages, tables and the page walk                                         *)

\* The sizes the walk relies on.
LEMMA Sizes ==
  /\ Entries \in Nat \ {0} /\ Last \in Nat /\ Last >= 2 /\ Entries = Last + 1
  /\ 0 \in Index /\ Last \in Index /\ PdFrame \in Index /\ PtFrame \in Index
  /\ PdFrame \in Frames /\ PtFrame \in Frames /\ 0 \in Frames /\ PdFrame # PtFrame
  /\ Frames \subseteq Nat /\ NotPresent \notin Frames /\ NotPresent \in Int
  /\ \A v \in Page : v \in Nat
  /\ \A k \in Index : k \in Nat /\ k <= Last
BY PagingSizes DEF Last, Index, Page, NotPresent

\* The two indices of a page, and that they name it.
LEMMA PageParts ==
  ASSUME NEW v \in Page
  PROVE  /\ PdIndex(v) \in Index /\ PdIndex(v) < Last /\ PtIndex(v) \in Index
         /\ v = PdIndex(v) * Entries + PtIndex(v)
         /\ v >= Entries => PdIndex(v) # 0
         /\ v < Entries => PdIndex(v) = 0 /\ PtIndex(v) = v
<1> DEFINE d == PdIndex(v)
           k == PtIndex(v)
<1>1. Entries \in Nat \ {0} /\ v \in Nat /\ Last \in Nat /\ Entries = Last + 1
  BY Sizes
<1>2. d \in Nat /\ k \in 0..(Entries - 1) /\ v = d * Entries + k
  BY <1>1, DivParts DEF PdIndex, PtIndex
<1> HIDE DEF d, k
<1>3. v < Last * Entries
  <2>1. Last * Entries \in Nat
    BY <1>1, MulNat
  <2> QED
    BY <1>1, <2>1 DEF Page
<1>4. d < Last
  <2>1. d * Entries \in Nat /\ Last * Entries \in Nat
    BY <1>1, <1>2, MulNat
  <2>2. d * Entries < Last * Entries
    BY <1>2, <1>3, <2>1
  <2> QED
    BY <1>1, <1>2, <2>2, MulStrict
<1>5. k \in Index /\ d \in Index
  BY <1>1, <1>2, <1>4 DEF Index
<1>6. v >= Entries => d # 0
  <2> SUFFICES ASSUME d = 0 PROVE v < Entries
    BY <1>1
  <2>1. 0 * Entries = 0
    BY <1>1
  <2>2. v = k
    BY <1>2, <2>1
  <2> QED
    BY <1>1, <1>2, <2>2
<1>7. v < Entries => d = 0 /\ k = v
  <2> SUFFICES ASSUME v < Entries PROVE d = 0 /\ k = v
    OBVIOUS
  <2>1. v \in 0..(Entries - 1) /\ 0 * Entries + v = v
    BY <1>1
  <2>2. v \div Entries = 0 /\ v % Entries = v
    BY <1>1, <2>1, DivRest
  <2> QED
    BY <2>2 DEF d, k, PdIndex, PtIndex
<1> QED
  BY <1>2, <1>4, <1>5, <1>6, <1>7 DEF d, k

\* Page PdFrame is one of the first table.
LEMMA LowPageParts ==
  ASSUME NEW v \in Index
  PROVE  v \in Page /\ PdIndex(v) = 0 /\ PtIndex(v) = v
<1>1. Entries \in Nat \ {0} /\ v \in 0..(Entries - 1) /\ Last >= 2 /\ Last \in Nat
  BY Sizes DEF Index
<1>2. v \in Page
  <2>1. 1 * Entries <= Last * Entries
    BY <1>1, MulMono
  <2>2. Last * Entries \in Nat
    BY <1>1, MulNat
  <2> QED
    BY <1>1, <2>1, <2>2 DEF Page
<1> QED
  BY <1>1, <1>2, PageParts

\* The pages through which the tables are seen.
LEMMA RecursiveParts ==
  ASSUME NEW d \in Index
  PROVE  PdIndex(RecursivePage(d)) = Last /\ PtIndex(RecursivePage(d)) = d
BY Sizes, DivRest DEF RecursivePage, PdIndex, PtIndex, Index

\* A table is seen at its recursive page as long as the directory's last
\* entry is the directory.
LEMMA WalkRecursive ==
  ASSUME NEW m, NEW d \in Index, m[PdFrame][Last] = PdFrame
  PROVE  Walk(m, RecursivePage(d)) = m[PdFrame][d]
BY RecursiveParts, Sizes DEF Walk

\* page_directory is the directory.
LEMMA DirectoryFrame ==
  ASSUME NEW m, NEW fr, Paged(m, fr)
  PROVE  Directory(m) = PdFrame
<1>1. PdIndex(PdFrame) = 0 /\ PtIndex(PdFrame) = PdFrame
  BY Sizes, LowPageParts
<1>2. m[PdFrame][0] = PtFrame /\ m[PtFrame][PdFrame] = PdFrame
  BY Sizes DEF Paged
<1> QED
  BY <1>1, <1>2, Sizes DEF Directory, Walk

\* pmm_alloc_block() returns a free frame, or 0 when there is none.
LEMMA AllocResult ==
  ASSUME NEW fr, fr \subseteq Frames \ {0, PdFrame, PtFrame}
  PROVE  /\ pmm_alloc_block(fr) \in Nat /\ pmm_alloc_block(fr) \in Frames
         /\ pmm_alloc_block(fr) # 0 => pmm_alloc_block(fr) \in fr
         /\ Left(fr) \subseteq fr
         /\ pmm_alloc_block(fr) \notin Left(fr)
<1>1. CASE fr = {}
  BY <1>1, Sizes DEF pmm_alloc_block, Left
<1>2. CASE fr # {}
  <2>1. fr \subseteq Nat
    BY Sizes
  <2>2. IsWellFoundedOn(OpToRel(<, Nat), Nat)
    BY NatLessThanWellFounded
  <2>3. PICK x \in fr : \A y \in fr : ~(<<y, x>> \in OpToRel(<, Nat))
    BY <1>2, <2>1, <2>2, WFMin
  <2>4. \A y \in fr : x <= y
    <3>1. \A y \in fr : ~(y < x)
      BY <2>1, <2>3 DEF OpToRel
    <3> QED
      BY <2>1, <3>1
  <2>5. Min(fr) \in fr
    BY <2>4 DEF Min
  <2> QED
    BY <1>2, <2>1, <2>5 DEF pmm_alloc_block, Left
<1> QED
  BY <1>1, <1>2

\* Writing entry k of the table of directory entry d, in frame t, changes the
\* translation of the one page and keeps memory in order; t is the table that
\* was there, or a new one that was cleared.
LEMMA TableWritten ==
  ASSUME NEW m, NEW fr, Paged(m, fr), NEW n \in [Frames -> [Index -> Int]],
         NEW left, left \subseteq fr,
         NEW v \in Page, v >= Entries, NEW f \in Int,
         NEW t \in Frames \ {PdFrame, PtFrame}, t \notin left,
         m[PdFrame][PdIndex(v)] \in {t, NotPresent},
         \A e \in Index \ {PdIndex(v)} : m[PdFrame][e] # t,
         n[PdFrame] = [m[PdFrame] EXCEPT ![PdIndex(v)] = t],
         \A x \in Frames \ {PdFrame, t} : n[x] = m[x],
         n[t][PtIndex(v)] = f,
         \A k \in Index \ {PtIndex(v)} :
           n[t][k] = IF m[PdFrame][PdIndex(v)] = t THEN m[t][k] ELSE NotPresent
  PROVE  /\ Paged(n, left)
         /\ \A w \in Page : Walk(n, w) = IF w = v THEN f ELSE Walk(m, w)
<1> DEFINE d == PdIndex(v)
           pd == m[PdFrame]
<1>1. d \in Index /\ d # 0 /\ d # Last /\ PtIndex(v) \in Index
  BY PageParts, Sizes
<1>2. pd \in [Index -> Int]
  BY Sizes DEF Paged
<1>3. n[PdFrame][d] = t /\ \A e \in Index \ {d} : n[PdFrame][e] = pd[e]
  BY <1>1, <1>2
<1>4. /\ left \subseteq Frames \ {0, PdFrame, PtFrame}
      /\ \A e \in Index : pd[e] = NotPresent \/ pd[e] \in Frames \ fr
      /\ \A e, g \in Index : pd[e] = pd[g] /\ pd[e] # NotPresent => e = g
      /\ pd[0] = PtFrame /\ pd[Last] = PdFrame
  BY DEF Paged
<1> HIDE DEF d, pd
<1>5. Paged(n, left)
  <2>1. n[PdFrame][0] = PtFrame /\ n[PdFrame][Last] = PdFrame
    BY <1>1, <1>3, <1>4, Sizes
  <2>2. n[PtFrame] = [k \in Index |-> k]
    BY Sizes DEF Paged
  <2>3. \A e \in Index : n[PdFrame][e] = NotPresent \/ n[PdFrame][e] \in Frames \ left
    BY <1>3, <1>4
  <2>4. \A e, g \in Index :
          n[PdFrame][e] = n[PdFrame][g] /\ n[PdFrame][e] # NotPresent => e = g
    <3>1. \A e \in Index \ {d} : pd[e] # t
      BY DEF d, pd
    <3> QED
      BY <1>3, <1>4, <3>1
  <2> QED
    BY <1>4, <2>1, <2>2, <2>3, <2>4 DEF Paged
<1>6. ASSUME NEW w \in Page
      PROVE  Walk(n, w) = IF w = v THEN f ELSE Walk(m, w)
  <2>1. PdIndex(w) \in Index /\ PdIndex(w) # Last /\ PtIndex(w) \in Index
    BY PageParts, Sizes
  <2>2. CASE w = v
    BY <1>3, <2>2 DEF Walk, d
  <2>3. CASE w # v /\ PdIndex(w) = d
    <3>1. PtIndex(w) # PtIndex(v)
      BY <2>3, PageParts DEF d
    <3>2. Walk(n, w) = IF pd[d] = t THEN m[t][PtIndex(w)] ELSE NotPresent
      BY <1>3, <2>1, <2>3, <3>1 DEF Walk, d, pd
    <3>3. pd[d] \in {t, NotPresent}
      BY DEF d, pd
    <3>4. Walk(m, w) = IF pd[d] = t THEN m[t][PtIndex(w)] ELSE NotPresent
      BY <2>3, <3>3, Sizes DEF Walk, pd
    <3> QED
      BY <2>3, <3>2, <3>4
  <2>4. CASE PdIndex(w) # d
    <3> DEFINE u == pd[PdIndex(w)]
    <3>1. n[PdFrame][PdIndex(w)] = u
      BY <1>3, <2>1, <2>4
    <3>2. w # v
      BY <2>4 DEF d
    <3>3. u # PdFrame
      BY <1>4, <2>1, Sizes
    <3>4. u # t
      BY <2>1, <2>4 DEF d, pd
    <3>5. u \in Frames => n[u] = m[u]
      BY <3>3, <3>4
    <3> QED
      BY <3>1, <3>2, <3>5 DEF Walk, pd
  <2> QED
    BY <2>2, <2>3, <2>4
<1> QED
  BY <1>5, <1>6

\* What map_page() does when it does not panic: page v has frame f then, every
\* other page what it had, and tables are made of free frames only.
LEMMA MapResult ==
  ASSUME NEW m, NEW fr, Paged(m, fr), NEW v \in Page, v >= Entries, NEW f \in Int,
         ~MapPanics(m, fr, v)
  PROVE  /\ Paged(MapMem(m, fr, f, v), MapFree(m, fr, v))
         /\ \A w \in Page :
              Walk(MapMem(m, fr, f, v), w) = IF w = v THEN f ELSE Walk(m, w)
         /\ MapFree(m, fr, v) \subseteq fr
         /\ \A e \in Index : \/ MapMem(m, fr, f, v)[PdFrame][e] = m[PdFrame][e]
                             \/ MapMem(m, fr, f, v)[PdFrame][e] \in fr
<1> DEFINE d == PdIndex(v)
           k == PtIndex(v)
           n == MapMem(m, fr, f, v)
           left == MapFree(m, fr, v)
<1>1. d \in Index /\ d # 0 /\ d # Last /\ k \in Index
  BY PageParts, Sizes
<1>2. Directory(m) = PdFrame
  BY DirectoryFrame
<1>3. /\ m \in [Frames -> [Index -> Int]] /\ m[PdFrame] \in [Index -> Int]
      /\ fr \subseteq Frames \ {0, PdFrame, PtFrame}
      /\ m[PdFrame][0] = PtFrame /\ m[PdFrame][Last] = PdFrame
      /\ \A e \in Index : m[PdFrame][e] = NotPresent \/ m[PdFrame][e] \in Frames \ fr
      /\ \A e, g \in Index :
           m[PdFrame][e] = m[PdFrame][g] /\ m[PdFrame][e] # NotPresent => e = g
  BY Sizes DEF Paged
<1>4. CASE HasTable(m, v)
  <2> DEFINE t == m[PdFrame][d]
  <2>1. t # NotPresent
    BY <1>2, <1>4 DEF HasTable
  <2>2. t \in Frames \ fr /\ t # PdFrame /\ t # PtFrame
    BY <1>1, <1>3, <2>1, Sizes
  <2>3. Walk(m, RecursivePage(d)) = t
    BY <1>1, <1>3, WalkRecursive
  <2>4. n = [m EXCEPT ![t][k] = f] /\ left = fr
    BY <1>4, <2>3 DEF MapMem, MapFree
  <2>5. \A e \in Index \ {d} : m[PdFrame][e] # t
    BY <1>1, <1>3, <2>1
  <2> HIDE DEF d, k, n, left, t
  <2>6. /\ n \in [Frames -> [Index -> Int]]
        /\ \A x \in Frames \ {t} : n[x] = m[x]
        /\ n[t][k] = f /\ \A j \in Index \ {k} : n[t][j] = m[t][j]
    BY <1>1, <1>3, <2>2, <2>4
  <2>7. n[PdFrame] = m[PdFrame]
    BY <2>2, <2>6, Sizes
  <2>8. m[PdFrame] = [m[PdFrame] EXCEPT ![d] = t]
    BY <1>1, <1>3 DEF t
  <2>9. n[PdFrame] = [m[PdFrame] EXCEPT ![d] = t]
    BY <2>7, <2>8
  <2>10. t = m[PdFrame][d]
    BY DEF t
  <2>11. /\ Paged(n, left)
         /\ \A w \in Page : Walk(n, w) = IF w = v THEN f ELSE Walk(m, w)
    <3>1. left \subseteq fr /\ t \in Frames \ {PdFrame, PtFrame} /\ t \notin left
      BY <2>2, <2>4
    <3>2. m[PdFrame][PdIndex(v)] \in {t, NotPresent}
      BY <2>10 DEF d
    <3>3. \A e \in Index \ {PdIndex(v)} : m[PdFrame][e] # t
      BY <2>5 DEF d
    <3>4. n[PdFrame] = [m[PdFrame] EXCEPT ![PdIndex(v)] = t]
      BY <2>9 DEF d
    <3>5. \A x \in Frames \ {PdFrame, t} : n[x] = m[x]
      BY <2>6
    <3>6. n[t][PtIndex(v)] = f
      BY <2>6 DEF k
    <3>7. \A j \in Index \ {PtIndex(v)} :
            n[t][j] = IF m[PdFrame][PdIndex(v)] = t THEN m[t][j] ELSE NotPresent
      BY <2>6, <2>10 DEF d, k
    <3> QED
      BY <2>6, <3>1, <3>2, <3>3, <3>4, <3>5, <3>6, <3>7, TableWritten
  <2> QED
    BY <2>4, <2>7, <2>11 DEF n, left
<1>5. CASE ~HasTable(m, v)
  <2> DEFINE t == pmm_alloc_block(fr)
             m1 == [m EXCEPT ![PdFrame][d] = t]
             m2 == [m1 EXCEPT ![t] = EmptyTable]
  <2>1. m[PdFrame][d] = NotPresent
    BY <1>2, <1>5 DEF HasTable
  <2>2. t \in fr /\ t \in Frames /\ t # PdFrame /\ t # PtFrame /\ t \in Int
    <3>1. t # 0
      BY <1>5 DEF MapPanics
    <3>2. t \in fr
      BY <1>3, <3>1, AllocResult
    <3> HIDE DEF t
    <3> QED
      BY <1>3, <3>2, Sizes
  <2>3. left = fr \ {t}
    BY <1>5 DEF MapFree, Left
  <2>4. EmptyTable \in [Index -> Int] /\ \A j \in Index : EmptyTable[j] = NotPresent
    BY Sizes DEF EmptyTable
  <2> HIDE DEF d, k, n, left, t, EmptyTable
  <2>5. /\ m1 \in [Frames -> [Index -> Int]]
        /\ m1[PdFrame] = [m[PdFrame] EXCEPT ![d] = t]
        /\ \A x \in Frames \ {PdFrame} : m1[x] = m[x]
    BY <1>1, <1>3, <2>2, Sizes
  <2>6. m1[PdFrame][d] = t /\ m1[PdFrame][Last] = PdFrame
    BY <1>1, <1>3, <2>5, Sizes
  <2> HIDE DEF m1
  <2>7. Walk(m1, RecursivePage(d)) = t
    BY <1>1, <2>6, WalkRecursive
  <2>8. NewTable(m, d, t) = m2
    BY <1>2, <2>7 DEF NewTable, m1
  <2>9. /\ m2 \in [Frames -> [Index -> Int]]
        /\ m2[PdFrame] = [m[PdFrame] EXCEPT ![d] = t]
        /\ m2[t] = EmptyTable
        /\ \A x \in Frames \ {PdFrame, t} : m2[x] = m[x]
    BY <2>2, <2>4, <2>5, Sizes
  <2>10. m2[PdFrame][d] = t /\ m2[PdFrame][Last] = PdFrame
    BY <1>1, <1>3, <2>9, Sizes
  <2> HIDE DEF m2
  <2>11. Walk(m2, RecursivePage(d)) = t
    BY <1>1, <2>10, WalkRecursive
  <2>12. n = [m2 EXCEPT ![t][k] = f]
    BY <1>5, <2>8, <2>11 DEF n, d, k, t, MapMem
  <2>13. /\ n \in [Frames -> [Index -> Int]]
         /\ \A x \in Frames \ {t} : n[x] = m2[x]
         /\ n[t][k] = f /\ \A j \in Index \ {k} : n[t][j] = NotPresent
    BY <1>1, <2>2, <2>4, <2>9, <2>12
  <2>14. n[PdFrame] = [m[PdFrame] EXCEPT ![d] = t]
    BY <2>2, <2>9, <2>13, Sizes
  <2>15. /\ Paged(n, left)
         /\ \A w \in Page : Walk(n, w) = IF w = v THEN f ELSE Walk(m, w)
    <3>1. left \subseteq fr /\ t \in Frames \ {PdFrame, PtFrame} /\ t \notin left
      BY <2>2, <2>3
    <3>2. m[PdFrame][PdIndex(v)] \in {t, NotPresent}
      BY <2>1 DEF d
    <3>3. \A e \in Index \ {PdIndex(v)} : m[PdFrame][e] # t
      BY <1>3, <2>2, Sizes
    <3>4. n[PdFrame] = [m[PdFrame] EXCEPT ![PdIndex(v)] = t]
      BY <2>14 DEF d
    <3>5. \A x \in Frames \ {PdFrame, t} : n[x] = m[x]
      BY <2>9, <2>13
    <3>6. n[t][PtIndex(v)] = f
      BY <2>13 DEF k
    <3>7. m[PdFrame][PdIndex(v)] # t
      BY <2>1, <2>2, Sizes DEF d
    <3>8. \A j \in Index \ {PtIndex(v)} :
            n[t][j] = IF m[PdFrame][PdIndex(v)] = t THEN m[t][j] ELSE NotPresent
      BY <2>13, <3>7 DEF k
    <3>9. n \in [Frames -> [Index -> Int]]
      BY <2>13
    <3> QED
      BY <3>1, <3>2, <3>3, <3>4, <3>5, <3>6, <3>8, <3>9, TableWritten, SMTT(100)
  <2>16. \A e \in Index : n[PdFrame][e] = m[PdFrame][e] \/ n[PdFrame][e] \in fr
    BY <1>1, <1>3, <2>2, <2>14
  <2> QED
    BY <2>3, <2>15, <2>16 DEF n, left
<1> QED
  BY <1>4, <1>5

\* get_phys_addr() gives the frame the processor uses.
LEMMA GetPhysResult ==
  ASSUME Paged(mem, free), NEW v \in Page, Walk(mem, v) # NotPresent
  PROVE  get_phys_addr(v) = Walk(mem, v)
<1> DEFINE d == PdIndex(v)
<1>1. d \in Index
  BY PageParts
<1>2. mem[PdFrame][d] \in Frames /\ Walk(mem, v) = mem[mem[PdFrame][d]][PtIndex(v)]
  BY DEF Walk
<1>3. Directory(mem) = PdFrame
  BY DirectoryFrame
<1>4. Walk(mem, RecursivePage(d)) = mem[PdFrame][d]
  BY <1>1, WalkRecursive DEF Paged
<1>5. HasTable(mem, v)
  BY <1>2, <1>3, Sizes DEF HasTable
<1> QED
  BY <1>2, <1>4, <1>5 DEF get_phys_addr

\* The directory and the first table as paging_install() leaves them.
LEMMA InstalledResult ==
  ASSUME NEW m \in [Frames -> [Index -> Int]], NEW fr \in FreeSets
  PROVE  /\ Paged(Installed(m), fr)
         /\ \A v \in Page : Walk(Installed(m), v) = IF v \in Index THEN v ELSE NotPresent
<1> DEFINE n == Installed(m)
<1>1. /\ n \in [Frames -> [Index -> Int]]
      /\ n[PtFrame] = [k \in Index |-> k]
      /\ n[PdFrame] = [EmptyTable EXCEPT ![0] = PtFrame, ![Last] = PdFrame]
  <2> DEFINE pt == [k \in Index |-> k]
             pd == [EmptyTable EXCEPT ![0] = PtFrame, ![Last] = PdFrame]
  <2>1. pt \in [Index -> Int]
    BY Sizes
  <2>2. pd \in [Index -> Int]
    <3>1. EmptyTable \in [Index -> Int]
      BY Sizes DEF EmptyTable
    <3>2. PtFrame \in Int /\ PdFrame \in Int
      BY Sizes
    <3> QED
      BY <3>1, <3>2
  <2>3. n = [m EXCEPT ![PtFrame] = pt, ![PdFrame] = pd]
    BY DEF Installed
  <2> HIDE DEF pt, pd, n
  <2>4. /\ n \in [Frames -> [Index -> Int]] /\ n[PtFrame] = pt /\ n[PdFrame] = pd
    BY <2>1, <2>2, <2>3, Sizes
  <2> QED
    BY <2>4 DEF pt, pd
<1>2. /\ n[PdFrame][0] = PtFrame /\ n[PdFrame][Last] = PdFrame
      /\ \A d \in Index \ {0, Last} : n[PdFrame][d] = NotPresent
  BY <1>1, Sizes DEF EmptyTable
<1>3. fr \subseteq Frames \ {0, PdFrame, PtFrame}
  BY PagingFree
<1> HIDE DEF n
<1>4. Paged(n, fr)
  BY <1>1, <1>2, <1>3, Sizes DEF Paged
<1>5. ASSUME NEW v \in Page
      PROVE  Walk(n, v) = IF v \in Index THEN v ELSE NotPresent
  <2>1. CASE v \in Index
    BY <1>1, <1>2, <2>1, LowPageParts, Sizes DEF Walk
  <2>2. CASE v \notin Index
    <3>1. v >= Entries
      BY <2>2, Sizes DEF Index
    <3>2. PdIndex(v) \in Index \ {0, Last}
      BY <3>1, PageParts, Sizes
    <3> QED
      BY <1>2, <2>2, <3>2, Sizes DEF Walk
  <2> QED
    BY <2>1, <2>2
<1> QED
  BY <1>4, <1>5 DEF n

-----------------------------------------------------------------------------
(* The heap                                                                *)

\* The descriptors, and so the buffers, of all cards.
AllDescs == MaxCards * CardDescs

\* What the constants say about them.
LEMMA HeapSizes ==
  /\ CardDescs \in Nat \ {0} /\ AllDescs \in Nat /\ MaxCards \in Nat
  /\ PageUnits \in Nat \ {0} /\ DescUnits \in Nat \ {0}
  /\ HEAP_START = Entries * PageUnits /\ HEAP_START \in Nat /\ HEAP_END \in Nat
  /\ HEAP_END <= 2 * HEAP_START
  /\ AllDescs * (DescUnits + PageUnits) <= HEAP_END - HEAP_START
  /\ AllDescs * DescUnits < PageUnits
<1>1. CardDescs \in Nat \ {0} /\ MaxCards \in Nat
  BY E1000Sizes DEF CardDescs
<1>2. AllDescs \in Nat
  BY <1>1, MulNat DEF AllDescs
<1>3. /\ PageUnits \in Nat \ {0} /\ DescUnits \in Nat \ {0} /\ Entries \in Nat
      /\ HEAP_START = Entries * PageUnits /\ HEAP_END \in HEAP_START..(2 * HEAP_START)
  BY PagingSizes, E1000Sizes
<1>4. HEAP_START \in Nat
  BY <1>3, MulNat
<1>5. /\ AllDescs * (DescUnits + PageUnits) <= HEAP_END - HEAP_START
      /\ AllDescs * DescUnits < PageUnits
  BY CardsAssumption DEF AllDescs, CardDescs
<1> QED
  BY <1>1, <1>2, <1>3, <1>4, <1>5

\* One more buffer is a page more, one more descriptor its size.
LEMMA HeapGrows ==
  ASSUME NEW b \in Nat, NEW r \in Nat, NEW c \in Nat
  PROVE  /\ HeapAt(b, r) \in Nat
         /\ HeapAt(b + 1, r) = HeapAt(b, r) + PageUnits
         /\ HeapAt(b, r + c) = HeapAt(b, r) + c * DescUnits
<1>1. PageUnits \in Nat /\ DescUnits \in Nat /\ HEAP_START \in Nat
  BY HeapSizes
<1>2. b * PageUnits \in Nat /\ r * DescUnits \in Nat /\ c * DescUnits \in Nat
  BY <1>1, MulNat
<1>3. (b + 1) * PageUnits = b * PageUnits + 1 * PageUnits
  BY <1>1, Distribute
<1>4. (r + c) * DescUnits = r * DescUnits + c * DescUnits
  BY <1>1, Distribute
<1> QED
  BY <1>1, <1>2, <1>3, <1>4 DEF HeapAt

\* As long as buffers and descriptors are those of the cards, heap_ptr stays
\* on the heap and in the page behind the last buffer, aligned for a ring.
LEMMA HeapPlace ==
  ASSUME NEW b \in 0..AllDescs, NEW r \in 0..AllDescs
  PROVE  /\ HeapAt(b, r) \in HEAP_START..HEAP_END
         /\ PageOf(HeapAt(b, r)) = Entries + b
         /\ Entries + b <= 2 * Entries
         /\ RoundUp(HeapAt(b, r), DescUnits) = HeapAt(b, r)
<1> DEFINE S == b * PageUnits
           R == r * DescUnits
           AR == AllDescs * DescUnits
           AS1 == AllDescs * PageUnits
<1>1. /\ AllDescs \in Nat /\ PageUnits \in Nat \ {0} /\ DescUnits \in Nat \ {0}
      /\ Entries \in Nat \ {0} /\ b \in Nat /\ r \in Nat
      /\ HEAP_START \in Nat /\ HEAP_END \in Nat /\ HEAP_START = Entries * PageUnits
  BY HeapSizes, Sizes
<1>2. S \in Nat /\ R \in Nat /\ AR \in Nat /\ AS1 \in Nat
  BY <1>1, MulNat
<1>3. S <= AS1 /\ R <= AR
  BY <1>1, MulMono
<1>4. AllDescs * (DescUnits + PageUnits) = AR + AS1
  BY <1>1
<1>5. AR + AS1 <= HEAP_END - HEAP_START /\ AR < PageUnits
  BY <1>4, HeapSizes
<1>6. HeapAt(b, r) = HEAP_START + S + R
  BY DEF HeapAt
<1> HIDE DEF S, R, AR, AS1
<1>7. HeapAt(b, r) \in HEAP_START..HEAP_END
  BY <1>1, <1>2, <1>3, <1>5, <1>6
<1>8. PageOf(HeapAt(b, r)) = Entries + b
  <2>1. (Entries + b) * PageUnits = Entries * PageUnits + S
    BY <1>1, Distribute DEF S
  <2>2. HeapAt(b, r) = (Entries + b) * PageUnits + R
    BY <1>1, <1>6, <2>1
  <2>3. R \in 0..(PageUnits - 1)
    BY <1>1, <1>2, <1>3, <1>5
  <2>4. Entries + b \in Int
    BY <1>1
  <2> QED
    BY <1>1, <2>2, <2>3, <2>4, DivRest DEF PageOf
<1>9. Entries + b <= 2 * Entries
  <2> SUFFICES ASSUME ~(Entries + b <= 2 * Entries) PROVE FALSE
    OBVIOUS
  <2>1. Entries + 1 <= b
    BY <1>1
  <2>2. (Entries + 1) * PageUnits <= S
    BY <1>1, <2>1, MulMono DEF S
  <2>3. (Entries + 1) * PageUnits = HEAP_START + PageUnits
    BY <1>1, Distribute
  <2>4. S <= HEAP_START
    BY <1>1, <1>2, <1>3, <1>5, HeapSizes
  <2> QED
    BY <1>1, <1>2, <2>2, <2>3, <2>4
<1>10. RoundUp(HeapAt(b, r), DescUnits) = HeapAt(b, r)
  <2> DEFINE q == PageUnits \div DescUnits
             E == Entries + b
  <2>1. PageUnits % DescUnits = 0
    BY E1000Sizes
  <2>2. q \in Nat /\ PageUnits = q * DescUnits
    BY <1>1, <2>1, DivParts
  <2>3. (Entries + b) * PageUnits = Entries * PageUnits + S
    BY <1>1, Distribute DEF S
  <2>4. E \in Nat
    BY <1>1
  <2> HIDE DEF q, E
  <2>5. HeapAt(b, r) = E * PageUnits + R
    BY <1>1, <1>6, <2>3 DEF E
  <2>6. E * PageUnits = (E * q) * DescUnits /\ E * q \in Nat
    <3>1. E * (q * DescUnits) = (E * q) * DescUnits
      BY <1>1, <2>2, <2>4
    <3>2. E * q \in Nat
      BY <2>2, <2>4, MulNat
    <3> QED
      BY <2>2, <3>1, <3>2
  <2> DEFINE z == E * q
  <2>7. z \in Nat /\ HeapAt(b, r) = z * DescUnits + r * DescUnits
    BY <2>5, <2>6 DEF R
  <2> HIDE DEF z
  <2>8. HeapAt(b, r) = (z + r) * DescUnits
    BY <1>1, <2>7, Distribute
  <2>9. z + r \in Nat
    BY <1>1, <2>7
  <2> QED
    BY <1>1, <2>8, <2>9, RoundUpMultiple
<1> QED
  BY <1>7, <1>8, <1>9, <1>10

\* A buffer that is still to come has a page of the heap.
LEMMA HeapRoom ==
  ASSUME NEW b \in 0..AllDescs, b < AllDescs, NEW r \in 0..AllDescs
  PROVE  /\ HeapAt(b, r) + PageUnits <= HEAP_END
         /\ Entries + b \in Page /\ Entries + b < 2 * Entries
         /\ HeapAt(b, r) \in HEAP_START..(HEAP_END - 1)
<1>1. AllDescs \in Nat /\ PageUnits \in Nat \ {0} /\ HEAP_END \in Nat /\ HEAP_START \in Nat
      /\ b \in Nat /\ r \in Nat /\ Entries \in Nat \ {0} /\ Last \in Nat /\ Last >= 2
  BY HeapSizes, Sizes
<1>2. b + 1 \in 0..AllDescs
  BY <1>1
<1>3. HeapAt(b + 1, r) <= HEAP_END /\ Entries + (b + 1) <= 2 * Entries
  BY <1>2, HeapPlace
<1>4. HeapAt(b + 1, r) = HeapAt(b, r) + PageUnits /\ HeapAt(b, r) \in Nat
  BY <1>1, HeapGrows
<1>5. HeapAt(b, r) >= HEAP_START
  BY HeapPlace
<1>6. Entries + b < 2 * Entries
  BY <1>1, <1>3
<1>7. 2 * Entries <= Last * Entries /\ Last * Entries \in Nat
  BY <1>1, MulMono, MulNat
<1>8. Entries + b \in Page
  BY <1>1, <1>6, <1>7 DEF Page
<1> QED
  BY <1>1, <1>3, <1>4, <1>5, <1>6, <1>8

\* The descriptors of n cards and some of the next are among those of all.
LEMMA CardFits ==
  ASSUME NEW n \in Nat, NEW a \in 0..CardDescs,
         n < MaxCards \/ (n <= MaxCards /\ a = 0)
  PROVE  n * CardDescs + a \in 0..AllDescs /\ n * CardDescs \in Nat
<1>1. CardDescs \in Nat \ {0} /\ MaxCards \in Nat /\ a \in Nat
  BY HeapSizes
<1>2. n * CardDescs \in Nat /\ MaxCards * CardDescs \in Nat
  BY <1>1, MulNat
<1>3. CASE n < MaxCards
  <2>1. (n + 1) * CardDescs <= MaxCards * CardDescs
    BY <1>1, <1>3, MulMono
  <2>2. (n + 1) * CardDescs = n * CardDescs + 1 * CardDescs
    BY <1>1, Distribute
  <2> QED
    BY <1>1, <1>2, <2>1, <2>2 DEF AllDescs
<1>4. CASE n <= MaxCards /\ a = 0
  BY <1>1, <1>2, <1>4, MulMono DEF AllDescs
<1> QED
  BY <1>3, <1>4

-----------------------------------------------------------------------------
(* The steps                                                               *)

\* The numbers of the ring in hand: the first of its descriptors, counted
\* over all cards, and the last one behind it.
LEMMA RingPlace ==
  ASSUME E1000TypeOK, NEW n \in Nat, n < cards
  PROVE  /\ Count \in Nat \ {0} /\ Before \in Nat /\ Before + Count <= CardDescs
         /\ n * CardDescs \in Nat
         /\ n * CardDescs + Before \in 0..AllDescs
         /\ n * CardDescs + Before + Count \in 0..AllDescs
<1>1. n < MaxCards
  BY HeapSizes DEF E1000TypeOK
<1>2. Count \in Nat \ {0} /\ Before \in Nat /\ Before + Count <= CardDescs
  BY E1000Sizes DEF E1000TypeOK, Count, Before, CardDescs
<1>3. Before \in 0..CardDescs /\ Before + Count \in 0..CardDescs
  BY <1>2, HeapSizes
<1>4. n * CardDescs + Before \in 0..AllDescs /\ n * CardDescs \in Nat
  BY <1>1, <1>3, CardFits
<1>5. n * CardDescs + (Before + Count) \in 0..AllDescs
  BY <1>1, <1>3, CardFits
<1>6. n * CardDescs + (Before + Count) = n * CardDescs + Before + Count
  BY <1>2, <1>4
<1> QED
  BY <1>2, <1>4, <1>5, <1>6

\* What cards were told stays true when their pages keep their frames and
\* tables are only made of free frames.
LEMMA ToldKept ==
  ASSUME Told, given' = given,
         PageOf(heap_ptr) \in Int, PageOf(heap_ptr') \in Int,
         PageOf(heap_ptr) <= PageOf(heap_ptr'),
         \A g \in given : Walk(mem', PageOf(g.addr)) = Walk(mem, PageOf(g.addr)),
         free' \subseteq free,
         \A e \in Index : mem'[PdFrame][e] = mem[PdFrame][e] \/ mem'[PdFrame][e] \in free
  PROVE  Told'
<1>1. Tables' \subseteq Tables \cup free
  BY DEF Tables
<1>2. ASSUME NEW g \in given
      PROVE  ToldOf(g)'
  <2>1. ToldOf(g)
    BY DEF Told
  <2>2. PageOf(g.addr) \in Nat
    BY <2>1, Sizes DEF ToldOf
  <2> QED
    BY <1>1, <2>1, <2>2 DEF ToldOf
<1> QED
  BY <1>2 DEF Told, OneUse

\* The same when a buffer u on page v, in a frame f that was free, is added.
LEMMA ToldGrows ==
  ASSUME Told, NEW v \in Page, NEW f \in Nat, NEW left, NEW u,
         u.frame = f, PageOf(u.addr) = v,
         given' = given \cup {u},
         v >= Entries, PageOf(heap_ptr) = v, PageOf(heap_ptr') = v + 1,
         \A w \in Page : Walk(mem', w) = IF w = v THEN f ELSE Walk(mem, w),
         free \subseteq Frames, left \subseteq free, free' \subseteq left,
         f # 0 => f \in free, f \notin left,
         f # 0 => f \notin Tables,
         \A e \in Index : mem'[PdFrame][e] = mem[PdFrame][e] \/ mem'[PdFrame][e] \in left
  PROVE  Told'
<1>1. Tables' \subseteq Tables \cup left
  BY DEF Tables
<1>2. v \in Nat /\ Entries \in Nat
  BY Sizes
<1>3. ASSUME NEW g \in given
      PROVE  /\ ToldOf(g)' /\ PageOf(g.addr) # v
             /\ g.frame # 0 => g.frame \notin free
  <2>1. ToldOf(g)
    BY DEF Told
  <2>2. PageOf(g.addr) \in Nat /\ PageOf(g.addr) \in Page /\ PageOf(g.addr) < v
    BY <2>1, Sizes DEF ToldOf
  <2>3. PageOf(g.addr) < PageOf(heap_ptr') /\ PageOf(g.addr) # v
    BY <1>2, <2>2
  <2>4. Walk(mem', PageOf(g.addr)) = g.frame
    BY <2>1, <2>2, <2>3 DEF ToldOf
  <2> QED
    BY <1>1, <2>1, <2>3, <2>4 DEF ToldOf
<1>4. ToldOf(u)'
  BY <1>1, <1>2 DEF ToldOf
<1>5. \A g \in given' : ToldOf(g)'
  BY <1>3, <1>4
<1>6. ASSUME NEW g \in given', NEW h \in given', g.frame = h.frame, g.frame # 0
      PROVE  PageOf(g.addr) = PageOf(h.addr)
  <2>1. CASE g \in given /\ h \in given
    BY <1>6, <2>1 DEF Told
  <2>2. CASE g = u /\ h = u
    BY <2>2
  <2>3. CASE g \in given /\ h = u
    BY <1>3, <1>6, <2>3
  <2>4. CASE g = u /\ h \in given
    BY <1>3, <1>6, <2>4
  <2> QED
    BY <2>1, <2>2, <2>3, <2>4
<1>7. ASSUME NEW g \in given', NEW h \in given', PageOf(g.addr) = PageOf(h.addr)
      PROVE  OneUse(g, h)
  <2>1. CASE g \in given /\ h \in given
    BY <1>7, <2>1 DEF Told
  <2>2. CASE g = u /\ h = u
    BY <2>2 DEF OneUse
  <2>3. CASE (g \in given /\ h = u) \/ (g = u /\ h \in given)
    BY <1>3, <1>7, <2>3
  <2> QED
    BY <2>1, <2>2, <2>3
<1> QED
  BY <1>5, <1>6, <1>7 DEF Told, OneUse

\* The same when a ring u is added, told to be in the frame of its page, the
\* page of its first buffer b and of no ring told before.
LEMMA ToldOfRing ==
  ASSUME Told, NEW u, NEW b \in given,
         given' = given \cup {u},
         UNCHANGED <<mem, free, heap_ptr>>,
         PageOf(u.addr) = PageOf(b.addr), u.frame = b.frame, RingAndFirst(u, b),
         \A g \in given : g.what = "ring" => PageOf(g.addr) # PageOf(u.addr)
  PROVE  Told'
<1>1. \A g \in given : ToldOf(g)'
  BY DEF Told, ToldOf, Tables
<1>2. ToldOf(u)'
  BY <1>1 DEF ToldOf
<1>3. \A g, h \in given' : g.frame = h.frame /\ g.frame # 0 => PageOf(g.addr) = PageOf(h.addr)
  BY DEF Told
<1>4. ASSUME NEW g \in given, PageOf(g.addr) = PageOf(u.addr)
      PROVE  g = b
  <2>1. OneUse(g, b)
    BY <1>4 DEF Told
  <2>2. g.what # "ring" /\ b.what # "ring"
    BY <1>4 DEF RingAndFirst
  <2> QED
    BY <2>1, <2>2 DEF OneUse, RingAndFirst
<1>5. \A g, h \in given' : PageOf(g.addr) = PageOf(h.addr) => OneUse(g, h)
  <2> SUFFICES ASSUME NEW g \in given', NEW h \in given', PageOf(g.addr) = PageOf(h.addr)
               PROVE  OneUse(g, h)
    OBVIOUS
  <2>1. CASE g \in given /\ h \in given
    BY <2>1 DEF Told
  <2>2. CASE g = u /\ h = u
    BY <2>2 DEF OneUse
  <2>3. CASE g \in given /\ h = u
    BY <1>4, <2>3 DEF OneUse
  <2>4. CASE g = u /\ h \in given
    BY <1>4, <2>4 DEF OneUse
  <2> QED
    BY <2>1, <2>2, <2>3, <2>4
<1> QED
  BY <1>1, <1>2, <1>3, <1>5 DEF Told, OneUse

\* paging_install() makes the tables map_page() relies on.
LEMMA paging_installInv ==
  ASSUME CardInv, paging_install
  PROVE  CardInv'
<1>1. /\ pc = "install" /\ pc' = "scan" /\ mem' = Installed(mem)
      /\ UNCHANGED <<free, heap_ptr, cards, bar, i, kind, ring, given>>
  BY DEF paging_install
<1>2. Paged(mem', free') /\ mem' \in [Frames -> [Index -> Int]]
  BY <1>1 DEF CardInv, PagedNow, Paged
<1>3. E1000TypeOK'
  BY <1>1, <1>2 DEF CardInv, E1000TypeOK, PagingTypeOK
<1>4. Told'
  BY <1>1 DEF CardInv, Told
<1>5. HeapAt(0, 0) = HEAP_START /\ 0 * CardDescs = 0
  BY HeapSizes DEF HeapAt
<1>6. HeapAfter(0)' /\ 0 \in 0..cards'
  BY <1>1, <1>5, HeapSizes DEF CardInv, HeapAfter, E1000TypeOK
<1>7. \E n \in 0..cards' : HeapAfter(n)'
  BY <1>6
<1> QED
  BY <1>1, <1>2, <1>3, <1>4, <1>7 DEF CardInv, PagedNow, RingTold, RegistersSeen, NoPageFault

\* The scan finds another card.
LEMMA pci_scan_allInv ==
  ASSUME CardInv, pci_scan_all
  PROVE  CardInv'
<1>1. /\ pc = "scan" /\ cards < MaxCards /\ cards' = cards + 1 /\ bar' \in Bars
      /\ pc' = (IF bar' = 0 THEN "scan" ELSE "mmio") /\ i' = 0
      /\ UNCHANGED <<mem, free, heap_ptr, kind, ring, given>>
  BY DEF pci_scan_all, pagingvars
<1>2. E1000TypeOK'
  BY <1>1, HeapSizes DEF CardInv, E1000TypeOK, PagingTypeOK
<1>3. PagedNow' /\ mem' \in [Frames -> [Index -> Int]]
  BY <1>1 DEF CardInv, PagedNow
<1>4. Told'
  BY <1>1 DEF CardInv, Told, ToldOf, OneUse, Tables
<1>5. \E n \in 0..cards' : HeapAfter(n)'
  <2>1. PICK n \in 0..cards : HeapAfter(n)
    BY DEF CardInv
  <2>2. cards \in Nat /\ n \in 0..cards' /\ n < cards'
    BY <1>1, HeapSizes DEF CardInv, E1000TypeOK
  <2>3. HeapAfter(n)'
    BY <1>1, <2>1, <2>2 DEF HeapAfter
  <2> QED
    BY <2>2, <2>3
<1>6. RegistersSeen'
  BY <1>1, E1000Sizes DEF RegistersSeen
<1> QED
  BY <1>1, <1>2, <1>3, <1>4, <1>5, <1>6 DEF CardInv, RingTold, NoPageFault

\* Mapping a page of registers: it is none of the heap's, so what the cards
\* were told stays true.
LEMMA MapRegistersInv ==
  ASSUME CardInv, MapRegisters
  PROVE  CardInv'
<1> DEFINE v == bar + i
<1>1. /\ pc = "mmio" /\ i < MmioPages
      /\ UNCHANGED <<heap_ptr, cards, bar, kind, ring, given>>
  BY DEF MapRegisters
<1>2. /\ E1000TypeOK /\ Paged(mem, free) /\ Told /\ RegistersSeen
      /\ mem \in [Frames -> [Index -> Int]]
  BY <1>1 DEF CardInv, PagedNow
<1>3. PICK n \in 0..cards : HeapAfter(n)
  BY DEF CardInv
<1>4. /\ bar \in Nat /\ bar >= 2 * Entries /\ bar + MmioPages - 1 \in Page
      /\ i \in Nat /\ MmioPages \in Nat /\ cards \in Nat /\ n \in Nat
  BY <1>1, <1>2, E1000Sizes DEF RegistersSeen, E1000TypeOK
<1>5. v \in Page /\ v >= 2 * Entries /\ v \in Nat
  BY <1>1, <1>4, Sizes DEF Page
<1>6. CASE MapPanics(mem, free, v) /\ pc' = "panic" /\ UNCHANGED <<mem, free, i>>
  <2>1. E1000TypeOK' /\ PagedNow'
    BY <1>1, <1>2, <1>6 DEF E1000TypeOK, PagingTypeOK, PagedNow
  <2>2. Told'
    BY <1>1, <1>2, <1>6 DEF Told, ToldOf, OneUse, Tables
  <2>3. HeapAfter(n)' /\ n \in 0..cards'
    BY <1>1, <1>3, <1>6 DEF HeapAfter
  <2>4. \E k \in 0..cards' : HeapAfter(k)'
    BY <2>3
  <2> QED
    BY <1>2, <1>6, <2>1, <2>2, <2>4 DEF CardInv, RingTold, RegistersSeen, NoPageFault
<1>7. CASE /\ ~MapPanics(mem, free, v)
           /\ mem' = MapMem(mem, free, v, v) /\ free' = MapFree(mem, free, v)
           /\ i' = i + 1 /\ UNCHANGED pc
  <2>1. v >= Entries /\ v \in Int
    BY <1>5, Sizes
  <2>2. /\ Paged(mem', free')
        /\ \A w \in Page : Walk(mem', w) = IF w = v THEN v ELSE Walk(mem, w)
        /\ free' \subseteq free
        /\ \A e \in Index : mem'[PdFrame][e] = mem[PdFrame][e] \/ mem'[PdFrame][e] \in free
    BY <1>2, <1>5, <1>7, <2>1, MapResult
  <2> HIDE DEF v
  <2>3. E1000TypeOK' /\ PagedNow' /\ mem' \in [Frames -> [Index -> Int]]
    <3>1. mem' \in [Frames -> [Index -> Int]] /\ free' \subseteq Frames
      BY <2>2 DEF Paged
    <3>2. i' \in Nat
      BY <1>4, <1>7
    <3> QED
      BY <1>1, <1>2, <1>7, <2>2, <3>1, <3>2 DEF E1000TypeOK, PagingTypeOK, PagedNow
  <2>4. PageOf(heap_ptr) \in Int /\ PageOf(heap_ptr) <= 2 * Entries
    <3>1. heap_ptr = HeapAt(n * CardDescs, n * CardDescs) /\ n < cards
      BY <1>1, <1>3 DEF HeapAfter
    <3>2. n * CardDescs \in 0..AllDescs
      <4>1. n < MaxCards /\ 0 \in 0..CardDescs
        BY <1>2, <1>4, <3>1, HeapSizes DEF E1000TypeOK
      <4>2. n * CardDescs + 0 \in 0..AllDescs /\ n * CardDescs \in Nat
        BY <1>4, <4>1, CardFits
      <4> QED
        BY <4>2
    <3>3. PageOf(heap_ptr) = Entries + n * CardDescs /\ Entries + n * CardDescs <= 2 * Entries
      BY <3>1, <3>2, HeapPlace
    <3> QED
      BY <3>2, <3>3, Sizes, HeapSizes
  <2>5. \A g \in given : Walk(mem', PageOf(g.addr)) = Walk(mem, PageOf(g.addr))
    <3> TAKE g \in given
    <3>1. PageOf(g.addr) \in Page /\ PageOf(g.addr) \in Nat /\ PageOf(g.addr) < PageOf(heap_ptr)
      BY <1>2, Sizes DEF Told, ToldOf
    <3>2. PageOf(g.addr) # v
      BY <1>5, <2>4, <3>1, Sizes
    <3> QED
      BY <2>2, <3>1, <3>2
  <2>6. Told'
    BY <1>1, <1>2, <2>2, <2>4, <2>5, ToldKept
  <2>7. HeapAfter(n)' /\ n \in 0..cards'
    BY <1>1, <1>3, <1>7 DEF HeapAfter, Before
  <2>8. \E k \in 0..cards' : HeapAfter(k)'
    BY <2>7
  <2>9. RegistersSeen'
    <3>1. bar' # 0 /\ i' <= MmioPages
      BY <1>1, <1>2, <1>4, <1>7 DEF RegistersSeen
    <3>2. ASSUME NEW k \in 0..(i' - 1)
          PROVE  Walk(mem', bar' + k) = bar' + k
      <4>1. CASE k = i
        BY <1>1, <1>5, <2>2, <4>1 DEF v
      <4>2. CASE k \in 0..(i - 1)
        <5>1. bar + k \in Page /\ bar + k # v
          BY <1>1, <1>4, <4>2, Sizes DEF Page, v
        <5>2. Walk(mem, bar + k) = bar + k
          BY <1>1, <1>2, <4>2 DEF RegistersSeen
        <5> QED
          BY <1>1, <2>2, <5>1, <5>2
      <4> QED
        BY <1>4, <1>7, <4>1, <4>2
    <3> QED
      BY <3>1, <3>2 DEF RegistersSeen
  <2> QED
    BY <1>1, <1>7, <2>3, <2>6, <2>8, <2>9 DEF CardInv, RingTold, NoPageFault
<1> QED
  BY <1>6, <1>7 DEF MapRegisters

\* The registers are mapped when the status is read.
LEMMA ReadStatusInv ==
  ASSUME CardInv, ReadStatus
  PROVE  CardInv'
<1>1. /\ pc = "mmio" /\ i >= MmioPages
      /\ pc' = (IF Walk(mem, bar) = NotPresent THEN "fault" ELSE "ring") /\ kind' = "rx"
      /\ UNCHANGED <<mem, free, heap_ptr, cards, bar, i, ring, given>>
  BY DEF ReadStatus, pagingvars
<1>2. Walk(mem, bar) # NotPresent
  <2>1. bar \in Nat /\ i \in Nat /\ MmioPages \in Nat \ {0}
    BY E1000Sizes DEF CardInv, E1000TypeOK
  <2>2. 0 \in 0..(i - 1) /\ bar + 0 = bar
    BY <1>1, <2>1
  <2>3. Walk(mem, bar) = bar
    BY <1>1, <2>2 DEF CardInv, RegistersSeen
  <2> QED
    BY <2>1, <2>3 DEF NotPresent
<1>3. pc' = "ring"
  BY <1>1, <1>2
<1>4. E1000TypeOK' /\ PagedNow' /\ mem' \in [Frames -> [Index -> Int]]
  BY <1>1, <1>3 DEF CardInv, E1000TypeOK, PagingTypeOK, PagedNow
<1>5. Told'
  BY <1>1 DEF CardInv, Told, ToldOf, OneUse, Tables
<1>6. \E n \in 0..cards' : HeapAfter(n)'
  <2>1. PICK n \in 0..cards : HeapAfter(n)
    BY DEF CardInv
  <2>2. n < cards /\ heap_ptr = HeapAt(n * CardDescs, n * CardDescs) /\ n \in Nat
    BY <1>1, <2>1 DEF HeapAfter
  <2>3. n * CardDescs \in Nat
    BY <2>2, HeapSizes, MulNat
  <2>4. Before' = 0 /\ n * CardDescs + 0 = n * CardDescs
    BY <1>1, <2>3 DEF Before
  <2>5. HeapAfter(n)'
    BY <1>1, <1>3, <2>2, <2>4 DEF HeapAfter
  <2> QED
    BY <1>1, <2>5
<1> QED
  BY <1>1, <1>3, <1>4, <1>5, <1>6 DEF CardInv, RingTold, RegistersSeen, NoPageFault

\* A ring is taken from where the heap ends: heap_ptr is aligned already, and
\* the page it is in does not end before the ring does.
LEMMA RingSetupInv ==
  ASSUME CardInv, RingSetup
  PROVE  CardInv'
<1> DEFINE r == alloc_aligned(heap_ptr, Count * DescUnits, DescUnits)
<1>1. /\ pc = "ring" /\ pc' = "fill" /\ ring' = r.addr /\ heap_ptr' = r.ptr /\ i' = 0
      /\ UNCHANGED <<mem, free, cards, bar, kind, given>>
  BY DEF RingSetup
<1>2. /\ E1000TypeOK /\ Paged(mem, free) /\ Told /\ mem \in [Frames -> [Index -> Int]]
  BY <1>1 DEF CardInv, PagedNow
<1>3. PICK n \in 0..cards : HeapAfter(n)
  BY DEF CardInv
<1> DEFINE a == n * CardDescs + Before
<1>4. n \in Nat /\ n < cards /\ heap_ptr = HeapAt(a, a)
  BY <1>1, <1>3 DEF HeapAfter
<1>5. /\ Count \in Nat \ {0} /\ a \in 0..AllDescs /\ a + Count \in 0..AllDescs
      /\ a \in Nat /\ a < AllDescs /\ AllDescs \in Nat
  <2>1. Count \in Nat \ {0} /\ a \in 0..AllDescs /\ a + Count \in 0..AllDescs
    BY <1>2, <1>4, RingPlace
  <2> QED
    BY <2>1, HeapSizes
<1> HIDE DEF a
<1>6. RoundUp(heap_ptr, DescUnits) = heap_ptr
  BY <1>4, <1>5, HeapPlace
<1>7. heap_ptr + Count * DescUnits = HeapAt(a, a + Count)
  BY <1>4, <1>5, HeapGrows
<1>8. HeapAt(a, a + Count) \in HEAP_START..HEAP_END
  BY <1>5, HeapPlace
<1>9. ~(heap_ptr + Count * DescUnits > HEAP_END)
  BY <1>7, <1>8, HeapSizes
<1>10. r.addr = heap_ptr /\ r.ptr = HeapAt(a, a + Count)
  BY <1>6, <1>7, <1>9 DEF alloc_aligned
<1> HIDE DEF r
<1>11. ring' \in HEAP_START..(HEAP_END - 1)
  BY <1>1, <1>4, <1>5, <1>10, HeapRoom
<1>12. E1000TypeOK' /\ PagedNow' /\ mem' \in [Frames -> [Index -> Int]]
  BY <1>1, <1>2, <1>8, <1>10, <1>11 DEF E1000TypeOK, PagingTypeOK, PagedNow
<1>13. Told'
  <2>1. PageOf(heap_ptr) = Entries + a /\ PageOf(heap_ptr') = Entries + a
    BY <1>1, <1>4, <1>5, <1>10, HeapPlace
  <2>2. Entries + a \in Int
    BY <1>5, Sizes
  <2> QED
    BY <1>1, <1>2, <2>1, <2>2, ToldKept
<1>14. \E k \in 0..cards' : HeapAfter(k)'
  <2>1. Count' = Count /\ Before' = Before
    BY <1>1 DEF Count, Before
  <2>2. i' <= Count' /\ a + i' = a
    BY <1>1, <1>5, <2>1
  <2>3. HeapAfter(n)'
    BY <1>1, <1>4, <1>10, <2>1, <2>2 DEF HeapAfter, a
  <2> QED
    BY <1>1, <2>3
<1>15. RingTold'
  <2>1. PageOf(heap_ptr) = Entries + a /\ PageOf(ring') = Entries + a
    BY <1>1, <1>4, <1>5, <1>10, HeapPlace
  <2>2. \A g \in given : PageOf(g.addr) < PageOf(ring')
    BY <1>2, <2>1 DEF Told, ToldOf
  <2>3. ~(i' > 0)
    BY <1>1
  <2> QED
    BY <1>1, <2>2, <2>3 DEF RingTold
<1> QED
  BY <1>1, <1>12, <1>13, <1>14, <1>15 DEF CardInv, RegistersSeen, NoPageFault

\* A descriptor gets its frame and its buffer: the buffer is on the next page
\* of the heap, and the descriptor on the page of the ring's first buffer.
LEMMA FillSlotInv ==
  ASSUME CardInv, FillSlot
  PROVE  CardInv'
<1> DEFINE f == pmm_alloc_block(free)
           left == Left(free)
           buffer == kmalloc(heap_ptr, PageUnits)
           v == PageOf(buffer.addr)
           u == Use("buffer", i, buffer.addr, f)
<1>1. /\ pc = "fill" /\ i < Count /\ heap_ptr' = buffer.ptr
      /\ UNCHANGED <<cards, bar, kind, ring>>
  BY DEF FillSlot
<1>2. /\ E1000TypeOK /\ Paged(mem, free) /\ Told /\ RingTold
      /\ mem \in [Frames -> [Index -> Int]]
  BY <1>1 DEF CardInv, PagedNow
<1>3. PICK n \in 0..cards : HeapAfter(n)
  BY DEF CardInv
<1> DEFINE a == n * CardDescs + Before
           b == a + i
           r == a + Count
<1>4. /\ n \in Nat /\ n < cards /\ heap_ptr = HeapAt(b, r) /\ ring = HeapAt(a, a)
  BY <1>1, <1>3 DEF HeapAfter
<1>5. /\ Count \in Nat \ {0} /\ a \in 0..AllDescs /\ r \in 0..AllDescs /\ AllDescs \in Nat
      /\ i \in Nat /\ a \in Nat /\ b \in Nat
  <2>1. Count \in Nat \ {0} /\ a \in 0..AllDescs /\ r \in 0..AllDescs
    BY <1>2, <1>4, RingPlace
  <2>2. AllDescs \in Nat /\ i \in Nat
    BY <1>2, HeapSizes DEF E1000TypeOK
  <2> QED
    BY <2>1, <2>2
<1>6. b < AllDescs /\ b \in 0..AllDescs /\ b + 1 \in 0..AllDescs /\ a + i \in 0..AllDescs
  BY <1>1, <1>5
<1> HIDE DEF a
<1>7. heap_ptr + PageUnits = HeapAt(b + 1, r)
  BY <1>4, <1>5, HeapGrows
<1>8. ~(heap_ptr + PageUnits > HEAP_END) /\ heap_ptr \in Nat
  <2>1. heap_ptr + PageUnits <= HEAP_END /\ heap_ptr \in HEAP_START..(HEAP_END - 1)
    BY <1>4, <1>5, <1>6, HeapRoom
  <2> QED
    BY <2>1, HeapSizes
<1>9. buffer.addr = heap_ptr /\ buffer.ptr = heap_ptr + PageUnits
  BY <1>8 DEF kmalloc
<1>10. v = Entries + b /\ PageOf(heap_ptr) = v
  BY <1>4, <1>5, <1>6, <1>9, HeapPlace
<1>11. heap_ptr' = HeapAt(b + 1, r) /\ heap_ptr' \in HEAP_START..HEAP_END
       /\ PageOf(heap_ptr') = Entries + (b + 1)
  BY <1>1, <1>5, <1>6, <1>7, <1>9, HeapPlace
<1>12. v \in Page /\ v >= Entries /\ v \in Nat /\ Entries + (b + 1) = v + 1
  <2>1. v \in Page
    BY <1>5, <1>6, <1>10, HeapRoom
  <2>2. Entries \in Nat /\ b \in Nat
    BY <1>5, Sizes
  <2> HIDE DEF v, b
  <2> QED
    BY <1>10, <2>1, <2>2
<1>13. /\ free \subseteq Frames \ {0, PdFrame, PtFrame} /\ f \in Nat
       /\ f # 0 => f \in free
       /\ left \subseteq free /\ f \notin left
  BY <1>2, AllocResult DEF Paged
<1>14. Paged(mem, left)
  BY <1>2, <1>13 DEF Paged
<1>15. f # 0 => f \notin Tables
  BY <1>2, <1>13 DEF Paged, Tables
<1>u. /\ u.what = "buffer" /\ u.card = cards /\ u.kind = kind /\ u.slot = i
      /\ PageOf(u.addr) = v /\ u.frame = f
  BY DEF Use
<1> HIDE DEF f, left, buffer, v, u, b, r
<1>16. CASE /\ MapPanics(mem, left, v)
            /\ pc' = "panic" /\ free' = left /\ UNCHANGED <<mem, i, given>>
  <2>1. E1000TypeOK' /\ PagedNow' /\ mem' \in [Frames -> [Index -> Int]]
    BY <1>1, <1>2, <1>11, <1>13, <1>14, <1>16 DEF E1000TypeOK, PagingTypeOK, PagedNow
  <2>2. Told'
    <3>1. PageOf(heap_ptr) \in Int /\ PageOf(heap_ptr') \in Int
          /\ PageOf(heap_ptr) <= PageOf(heap_ptr')
      BY <1>10, <1>11, <1>12
    <3> QED
      BY <1>2, <1>13, <1>16, <3>1, ToldKept
  <2>3. HeapAfter(n)' /\ n \in 0..cards'
    BY <1>1, <1>16 DEF HeapAfter
  <2>4. \E k \in 0..cards' : HeapAfter(k)'
    BY <2>3
  <2> QED
    BY <1>16, <2>1, <2>2, <2>4 DEF CardInv, RingTold, RegistersSeen, NoPageFault
<1>17. CASE /\ ~MapPanics(mem, left, v)
            /\ mem' = MapMem(mem, left, f, v)
            /\ free' = MapFree(mem, left, v)
            /\ pc' = IF Walk(mem', DescPage) = NotPresent THEN "fault" ELSE "fill"
            /\ i' = i + 1
            /\ given' = given \cup {u}
  <2>1. f \in Int
    BY <1>13
  <2>2. /\ Paged(mem', free')
        /\ \A w \in Page : Walk(mem', w) = IF w = v THEN f ELSE Walk(mem, w)
        /\ free' \subseteq left
        /\ \A e \in Index : mem'[PdFrame][e] = mem[PdFrame][e] \/ mem'[PdFrame][e] \in left
    BY <1>12, <1>14, <1>17, <2>1, MapResult
  <2>3. Told'
    <3>1. free \subseteq Frames
      BY <1>13
    <3>2. PageOf(heap_ptr') = v + 1
      BY <1>11, <1>12
    <3> QED
      BY <1>2, <1>10, <1>12, <1>13, <1>15, <1>u, <1>17, <2>2, <3>1, <3>2, ToldGrows
  <2>4. PageOf(ring) = Entries + a /\ DescPage = Entries + a
    <3>1. PageOf(ring) = Entries + a
      BY <1>4, <1>5, HeapPlace
    <3>2. ring + i * DescUnits = HeapAt(a, a + i)
      BY <1>4, <1>5, HeapGrows
    <3>3. PageOf(HeapAt(a, a + i)) = Entries + a
      BY <1>5, <1>6, HeapPlace
    <3> QED
      BY <3>1, <3>2, <3>3 DEF DescPage
  <2>5. \E g \in given' : FirstBuffer(g)
    <3>1. CASE i = 0
      <4>1. v = PageOf(ring)
        BY <1>5, <1>10, <2>4, <3>1 DEF b
      <4> QED
        BY <1>u, <1>17, <3>1, <4>1 DEF FirstBuffer
    <3>2. CASE i # 0
      <4>1. i > 0
        BY <1>5, <3>2
      <4>2. PICK g \in given : FirstBuffer(g)
        BY <1>1, <1>2, <4>1 DEF RingTold
      <4> QED
        BY <1>17, <4>2
    <3> QED
      BY <3>1, <3>2
  <2>6. Walk(mem', DescPage) # NotPresent
    <3>1. PICK g \in given' : FirstBuffer(g)
      BY <2>5
    <3>2. PageOf(g.addr) = PageOf(ring)
      BY <3>1 DEF FirstBuffer
    <3>3. Walk(mem', PageOf(g.addr)) = g.frame /\ g.frame \in Nat
      BY <2>3, <3>1 DEF Told, ToldOf
    <3> QED
      BY <2>4, <3>2, <3>3 DEF NotPresent
  <2>7. pc' = "fill"
    BY <1>17, <2>6
  <2>8. E1000TypeOK' /\ PagedNow' /\ mem' \in [Frames -> [Index -> Int]]
    <3>1. mem' \in [Frames -> [Index -> Int]] /\ free' \subseteq Frames
      BY <2>2 DEF Paged
    <3>2. i' \in Nat
      BY <1>5, <1>17
    <3>3. ring' \in HEAP_START..(HEAP_END - 1)
      BY <1>1, <1>2 DEF E1000TypeOK
    <3> QED
      BY <1>1, <1>2, <1>11, <2>2, <2>7, <3>1, <3>2, <3>3
         DEF E1000TypeOK, PagingTypeOK, PagedNow
  <2>9. \E k \in 0..cards' : HeapAfter(k)'
    <3>1. Count' = Count /\ Before' = Before
      BY <1>1 DEF Count, Before
    <3>2. i' <= Count' /\ b + 1 = a + i'
      BY <1>1, <1>5, <1>17, <3>1 DEF b
    <3>3. HeapAfter(n)'
      BY <1>1, <1>4, <1>11, <2>7, <3>1, <3>2 DEF HeapAfter, a, r
    <3> QED
      BY <1>1, <3>3
  <2>10. RingTold'
    <3>1. \E g \in given' : FirstBuffer(g)'
      BY <1>1, <2>5 DEF FirstBuffer
    <3>2. \A g \in given' : g.what = "ring" => PageOf(g.addr) < PageOf(ring)
      BY <1>1, <1>2, <1>u, <1>17 DEF RingTold
    <3> QED
      BY <1>1, <3>1, <3>2 DEF RingTold
  <2> QED
    BY <2>3, <2>7, <2>8, <2>9, <2>10 DEF CardInv, RegistersSeen, NoPageFault
<1> QED
  BY <1>16, <1>17 DEF FillSlot, f, left, buffer, v, u

\* The card is told of the ring: its page is that of the ring's first buffer,
\* of which the card knows already.
LEMMA EnableRingInv ==
  ASSUME CardInv, EnableRing
  PROVE  CardInv'
<1> DEFINE u == Use("ring", 0, ring, get_phys_addr(PageOf(ring)))
<1>1. /\ pc = "fill" /\ i >= Count
      /\ \/ kind = "rx" /\ kind' = "tx" /\ pc' = "ring"
         \/ kind = "tx" /\ pc' = "scan" /\ UNCHANGED kind
      /\ given' = given \cup {u}
      /\ UNCHANGED <<mem, free, heap_ptr, cards, bar, i, ring>>
  BY DEF EnableRing, pagingvars
<1>2. /\ E1000TypeOK /\ Paged(mem, free) /\ Told /\ RingTold
      /\ mem \in [Frames -> [Index -> Int]]
  BY <1>1 DEF CardInv, PagedNow
<1>3. PICK n \in 0..cards : HeapAfter(n)
  BY DEF CardInv
<1> DEFINE done == n * CardDescs
<1>4. /\ n \in Nat /\ n < cards /\ i <= Count /\ cards \in Nat
      /\ heap_ptr = HeapAt(done + Before + i, done + Before + Count)
  BY <1>1, <1>2, <1>3, HeapSizes DEF HeapAfter, E1000TypeOK
<1>5. Count \in Nat \ {0} /\ i \in Nat /\ Before \in Nat /\ done \in Nat
  BY <1>2, <1>4, RingPlace DEF E1000TypeOK
<1>6. i = Count /\ i > 0
  BY <1>1, <1>4, <1>5
<1>7. PICK b \in given : FirstBuffer(b)
  BY <1>1, <1>2, <1>6 DEF RingTold
<1>8. E1000TypeOK' /\ PagedNow' /\ mem' \in [Frames -> [Index -> Int]]
  BY <1>1, <1>2 DEF E1000TypeOK, PagingTypeOK, PagedNow
<1>9. Told'
  <2>1. PageOf(b.addr) = PageOf(ring) /\ ToldOf(b)
    BY <1>2, <1>7 DEF FirstBuffer, Told
  <2>2. Walk(mem, PageOf(ring)) = b.frame /\ PageOf(ring) \in Page /\ b.frame \in Nat
    BY <2>1 DEF ToldOf
  <2>3. get_phys_addr(PageOf(ring)) = b.frame
    BY <1>2, <2>2, GetPhysResult DEF NotPresent
  <2>4. u.what = "ring" /\ u.card = cards /\ u.kind = kind /\ u.addr = ring /\ u.frame = b.frame
    BY <2>3 DEF Use
  <2> HIDE DEF u
  <2>5. RingAndFirst(u, b)
    BY <1>7, <2>4 DEF RingAndFirst, FirstBuffer
  <2>6. \A g \in given : g.what = "ring" => PageOf(g.addr) # PageOf(u.addr)
    <3>1. PageOf(ring) \in Nat
      BY <2>2, Sizes
    <3>2. \A g \in given : PageOf(g.addr) \in Nat
      BY <1>2, Sizes DEF Told, ToldOf
    <3> QED
      BY <1>1, <1>2, <2>4, <3>1, <3>2 DEF RingTold
  <2>7. PageOf(u.addr) = PageOf(b.addr)
    BY <2>1, <2>4
  <2> QED
    BY <1>1, <1>2, <1>7, <2>4, <2>5, <2>6, <2>7, ToldOfRing
<1>10. \E k \in 0..cards' : HeapAfter(k)'
  <2>1. CASE kind = "rx" /\ kind' = "tx" /\ pc' = "ring"
    <3>1. Before = 0 /\ Count = RX_DESC_COUNT /\ Before' = RX_DESC_COUNT
      BY <2>1 DEF Before, Count
    <3>2. done + Before + Count = done + Before'
      BY <1>5, <3>1
    <3>3. HeapAfter(n)'
      BY <1>1, <1>4, <1>6, <2>1, <3>2 DEF HeapAfter
    <3> QED
      BY <1>1, <3>3
  <2>2. CASE kind = "tx" /\ pc' = "scan"
    <3>1. Before = RX_DESC_COUNT /\ Count = TX_DESC_COUNT
      BY <2>2 DEF Before, Count
    <3>2. CardDescs \in Nat /\ CardDescs = Before + Count
      BY <3>1, HeapSizes DEF CardDescs
    <3>3. (n + 1) * CardDescs = done + 1 * CardDescs
      BY <1>4, <3>2, Distribute
    <3>4. done + Before + Count = (n + 1) * CardDescs
      BY <1>5, <3>2, <3>3
    <3>5. HeapAfter(n + 1)'
      BY <1>1, <1>4, <1>6, <2>2, <3>4 DEF HeapAfter
    <3>6. n + 1 \in 0..cards'
      BY <1>1, <1>4
    <3> QED
      BY <3>5, <3>6
  <2> QED
    BY <1>1, <2>1, <2>2
<1> QED
  BY <1>1, <1>7, <1>8, <1>9, <1>10 DEF CardInv, RingTold, RegistersSeen, NoPageFault

-----------------------------------------------------------------------------
(* The theorems                                                            *)

\* The invariant holds in every reachable state.
THEOREM CardInvariance == E1000Spec => []CardInv
<1>1. E1000Init => CardInv
  <2> SUFFICES ASSUME E1000Init PROVE CardInv
    OBVIOUS
  <2>1. /\ mem = [x \in Frames |-> [k \in Index |-> StaleFrame]] /\ free \in FreeSets
        /\ heap_ptr = HEAP_START
        /\ pc = "install" /\ cards = 0 /\ bar = 0 /\ i = 0
        /\ kind = "rx" /\ ring = 0 /\ given = {}
    BY DEF E1000Init, PagingInit
  <2>2. StaleFrame \in Int
    BY PagingSizes
  <2>3. mem \in [Frames -> [Index -> Int]]
    BY <2>1, <2>2
  <2>4. PagedNow
    BY <2>1, <2>3, InstalledResult DEF PagedNow
  <2>5. free \subseteq Frames
    BY <2>1, PagingFree
  <2>6. heap_ptr \in HEAP_START..HEAP_END /\ cards \in 0..MaxCards
    BY <2>1, PagingSizes, HeapSizes
  <2>7. E1000TypeOK
    BY <2>1, <2>3, <2>5, <2>6 DEF E1000TypeOK, PagingTypeOK
  <2>8. HeapAfter(0) /\ 0 \in 0..cards
    BY <2>1 DEF HeapAfter
  <2> QED
    BY <2>1, <2>3, <2>4, <2>7, <2>8 DEF CardInv, RingTold, RegistersSeen, NoPageFault
<1>2. CardInv /\ [E1000Next]_e1000vars => CardInv'
  <2> SUFFICES ASSUME CardInv, [E1000Next]_e1000vars PROVE CardInv'
    OBVIOUS
  <2>1. CASE UNCHANGED e1000vars
    <3>1. UNCHANGED <<mem, free, heap_ptr, pc, cards, bar, i, kind, ring, given>>
      BY <2>1 DEF e1000vars, pagingvars, cardvars
    <3>2. E1000TypeOK' /\ PagedNow' /\ mem' \in [Frames -> [Index -> Int]]
      BY <3>1 DEF CardInv, E1000TypeOK, PagingTypeOK, PagedNow
    <3>3. pc' # "install" => Told'
      BY <3>1 DEF CardInv, Told, ToldOf, OneUse, Tables
    <3>4. \E n \in 0..cards' : HeapAfter(n)'
      BY <3>1 DEF CardInv, HeapAfter, Before, Count
    <3>5. RingTold' /\ RegistersSeen'
      BY <3>1 DEF CardInv, RingTold, FirstBuffer, RegistersSeen
    <3> QED
      BY <3>1, <3>2, <3>3, <3>4, <3>5 DEF CardInv, NoPageFault
  <2>2. CASE E1000Next
    BY <2>2, paging_installInv, pci_scan_allInv, MapRegistersInv, ReadStatusInv,
       RingSetupInv, FillSlotInv, EnableRingInv DEF E1000Next
  <2> QED
    BY <2>1, <2>2
<1> QED
  BY <1>1, <1>2, PTL DEF E1000Spec

\* heap_ptr stays inside the heap and every ring is on it, although nobody
\* checks what the allocator returns.
THEOREM CardTypeCorrect == E1000Spec => []E1000TypeOK
<1>1. CardInv => E1000TypeOK
  BY DEF CardInv
<1> QED
  BY <1>1, CardInvariance, PTL

\* No descriptor and no register is accessed before its page is mapped.
THEOREM FaultFree == E1000Spec => []NoPageFault
<1>1. CardInv => NoPageFault
  BY DEF CardInv
<1> QED
  BY <1>1, CardInvariance, PTL

\* No frame other than 0, the answer of an exhausted PMM, is a table twice, a
\* table and told to a card, told for two buffers or two rings, told for a
\* ring and a buffer other than the ring's first, or in use and free.
THEOREM FramesCorrect == E1000Spec => []OneUsePerFrame
<1>1. CardInv => OneUsePerFrame
  <2> SUFFICES ASSUME CardInv, pc # "install" PROVE OneUsePerFrame
    BY DEF OneUsePerFrame
  <2>1. Paged(mem, free) /\ Told
    BY DEF CardInv, PagedNow
  <2>2. \A d, e \in Index :
          mem[PdFrame][d] = mem[PdFrame][e] /\ mem[PdFrame][d] # NotPresent => d = e
    BY <2>1 DEF Paged
  <2>3. Tables \cap free = {}
    BY <2>1 DEF Paged, Tables
  <2>4. BufferFrames \cap free = {} /\ Tables \cap BufferFrames = {}
    BY <2>1 DEF Told, ToldOf, BufferFrames
  <2>5. \A g, h \in given : g.frame = h.frame /\ g.frame # 0 => OneUse(g, h)
    BY <2>1 DEF Told
  <2> QED
    BY <2>2, <2>3, <2>4, <2>5 DEF OneUsePerFrame, OneUse
<1> QED
  BY <1>1, CardInvariance, PTL

\* The page a ring or a buffer starts on stays in the frame a card was told.
THEOREM CardsCorrect == E1000Spec => []CardsStayInformed
<1>1. CardInv => CardsStayInformed
  BY DEF CardInv, CardsStayInformed, Told, ToldOf
<1> QED
  BY <1>1, CardInvariance, PTL

-----------------------------------------------------------------------------
(* The refinement of AddressSpace                                          *)

\* A step that maps page v to frame f is the abstract Map.
LEMMA SpaceMapped ==
  ASSUME NEW v \in Page, NEW f, f # NotPresent, pc # "install", pc' # "install",
         \A w \in Page : Walk(mem', w) = IF w = v THEN f ELSE Walk(mem, w)
  PROVE  AS!ASNext
<1>1. SpaceSeen = [w \in Page |-> Walk(mem, w)] /\ SpaceSeen' = [w \in Page |-> Walk(mem', w)]
  BY DEF SpaceSeen
<1>2. SpaceSeen'[v] = f
  BY <1>1
<1>3. SpaceSeen' = [SpaceSeen EXCEPT ![v] = f]
  BY <1>1
<1> QED
  BY <1>2, <1>3 DEF AS!ASNext, AS!Map

\* Every step of the driver's start maps at most one page.
LEMMA SpaceStep ==
  ASSUME CardInv, [E1000Next]_e1000vars
  PROVE  [AS!ASNext]_SpaceSeen
<1>1. CASE UNCHANGED <<mem, pc>>
  BY <1>1 DEF SpaceSeen
<1>2. CASE paging_install
  BY <1>2 DEF paging_install, SpaceSeen
<1>3. ASSUME UNCHANGED mem, pc # "install", pc' # "install"
      PROVE  UNCHANGED SpaceSeen
  BY <1>3 DEF SpaceSeen
<1>4. CASE pci_scan_all \/ ReadStatus \/ RingSetup \/ EnableRing
  BY <1>3, <1>4 DEF pci_scan_all, ReadStatus, RingSetup, EnableRing, pagingvars
<1>5. CASE MapRegisters
  <2> DEFINE v == bar + i
  <2>1. pc = "mmio" /\ i < MmioPages
    BY <1>5 DEF MapRegisters
  <2>2. E1000TypeOK /\ Paged(mem, free) /\ RegistersSeen
    BY <2>1 DEF CardInv, PagedNow
  <2>3. /\ bar \in Nat /\ bar >= 2 * Entries /\ bar + MmioPages - 1 \in Page
        /\ i \in Nat /\ MmioPages \in Nat
    BY <2>1, <2>2, E1000Sizes DEF RegistersSeen, E1000TypeOK
  <2>4. v \in Page /\ v >= Entries /\ v \in Int /\ v # NotPresent
    BY <2>1, <2>3, Sizes DEF Page, NotPresent
  <2>5. CASE UNCHANGED mem /\ pc' = "panic"
    BY <1>3, <2>1, <2>5
  <2>6. CASE /\ ~MapPanics(mem, free, v) /\ mem' = MapMem(mem, free, v, v) /\ UNCHANGED pc
    <3>1. \A w \in Page : Walk(mem', w) = IF w = v THEN v ELSE Walk(mem, w)
      BY <2>2, <2>4, <2>6, MapResult
    <3> HIDE DEF v
    <3> QED
      BY <2>1, <2>4, <2>6, <3>1, SpaceMapped
  <2> QED
    BY <1>5, <2>5, <2>6 DEF MapRegisters
<1>6. CASE FillSlot
  <2> DEFINE f == pmm_alloc_block(free)
             v == PageOf(kmalloc(heap_ptr, PageUnits).addr)
  <2>1. pc = "fill" /\ i < Count
    BY <1>6 DEF FillSlot
  <2>2. E1000TypeOK /\ Paged(mem, free)
    BY <2>1 DEF CardInv, PagedNow
  <2>3. v \in Page /\ v >= Entries
    <3>1. PICK n \in 0..cards : HeapAfter(n)
      BY DEF CardInv
    <3> DEFINE a == n * CardDescs + Before
    <3>2. n \in Nat /\ n < cards /\ heap_ptr = HeapAt(a + i, a + Count)
      BY <2>1, <3>1 DEF HeapAfter
    <3>3. a \in 0..AllDescs /\ a + Count \in 0..AllDescs /\ Count \in Nat /\ AllDescs \in Nat
      BY <2>2, <3>2, RingPlace, HeapSizes
    <3> HIDE DEF a
    <3>4. i \in Nat /\ a + i \in 0..AllDescs /\ a + i < AllDescs /\ a + i \in Nat
      BY <2>1, <2>2, <3>3 DEF E1000TypeOK
    <3>5. heap_ptr + PageUnits <= HEAP_END /\ Entries + (a + i) \in Page
          /\ heap_ptr \in HEAP_START..(HEAP_END - 1)
      BY <3>2, <3>3, <3>4, HeapRoom
    <3>6. PageOf(heap_ptr) = Entries + (a + i)
      BY <3>2, <3>3, <3>4, HeapPlace
    <3>7. ~(heap_ptr + PageUnits > HEAP_END)
      BY <3>5, HeapSizes
    <3>8. v = PageOf(heap_ptr)
      BY <3>7 DEF kmalloc
    <3> QED
      BY <3>4, <3>5, <3>6, <3>8, Sizes
  <2>4. f \in Nat /\ Left(free) \subseteq free
    BY <2>2, AllocResult DEF Paged
  <2>5. Paged(mem, Left(free)) /\ f \in Int /\ f # NotPresent
    BY <2>2, <2>4 DEF Paged, NotPresent
  <2> HIDE DEF f, v
  <2>6. CASE UNCHANGED mem /\ pc' = "panic"
    BY <1>3, <2>1, <2>6
  <2>7. CASE /\ ~MapPanics(mem, Left(free), v) /\ mem' = MapMem(mem, Left(free), f, v)
             /\ pc' \in {"fault", "fill"}
    <3>1. \A w \in Page : Walk(mem', w) = IF w = v THEN f ELSE Walk(mem, w)
      BY <2>3, <2>5, <2>7, MapResult
    <3> QED
      BY <2>1, <2>3, <2>5, <2>7, <3>1, SpaceMapped
  <2> QED
    BY <1>6, <2>6, <2>7 DEF FillSlot, f, v
<1>7. CASE UNCHANGED e1000vars
  BY <1>1, <1>7 DEF e1000vars, pagingvars, cardvars
<1> QED
  BY <1>2, <1>4, <1>5, <1>6, <1>7 DEF E1000Next

\* paging.c implements AddressSpace: map_page() changes the translation of
\* the page it is about and of no other, also when it makes a new table from
\* a frame full of old data.
THEOREM AddressSpaceCorrect == E1000Spec => ImplementsAddressSpace
<1>1. E1000Init => AS!ASInit
  <2> SUFFICES ASSUME E1000Init PROVE AS!ASInit
    OBVIOUS
  <2>1. mem = [x \in Frames |-> [k \in Index |-> StaleFrame]] /\ free \in FreeSets
        /\ pc = "install"
    BY DEF E1000Init, PagingInit
  <2>2. StaleFrame \in Int
    BY PagingSizes
  <2>3. mem \in [Frames -> [Index -> Int]]
    BY <2>1, <2>2
  <2>4. \A v \in Page : Walk(Installed(mem), v) = IF v \in Index THEN v ELSE NotPresent
    BY <2>1, <2>3, InstalledResult
  <2> QED
    BY <2>1, <2>4 DEF AS!ASInit, SpaceSeen
<1>2. CardInv /\ [E1000Next]_e1000vars => [AS!ASNext]_SpaceSeen
  BY SpaceStep
<1> QED
  BY <1>1, <1>2, CardInvariance, PTL DEF E1000Spec, ImplementsAddressSpace, AS!ASSpec
=============================================================================
