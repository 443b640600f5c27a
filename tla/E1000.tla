-------------------------------- MODULE E1000 -------------------------------
(***************************************************************************)
(* The start of the network driver, pci_scan_all() and e1000_init() in     *)
(* network/, over paging and the heap: for every Ethernet card found, map  *)
(* its registers, take a descriptor ring from the heap, and give each      *)
(* descriptor a frame and a buffer; first to receive, then to send.        *)
(*                                                                         *)
(* The rings are at heap addresses that nothing maps beforehand: a ring    *)
(* becomes accessible when the first buffer behind it is mapped.           *)
(***************************************************************************)
EXTENDS Paging

CONSTANTS
  Bars,         \* BAR 0 of a card: the first page of its registers, 0 for I/O
  MmioPages,    \* pages mapped for the registers: 16
  RX_DESC_COUNT, TX_DESC_COUNT,
  DescUnits,    \* the size of a descriptor
  MaxCards      \* bound: Ethernet cards on the bus

ASSUME E1000Sizes ==
  /\ MmioPages \in Nat \ {0}
  /\ Bars \subseteq Nat
  /\ \A bar \in Bars : bar = 0 \/ (bar >= 2 * Entries /\ bar + MmioPages - 1 \in Page)
  /\ RX_DESC_COUNT \in Nat \ {0} /\ TX_DESC_COUNT \in Nat \ {0}
  /\ DescUnits \in Nat \ {0} /\ PageUnits % DescUnits = 0
  /\ MaxCards \in Nat

(***************************************************************************)
(* The heap has room for all cards, and a page for the rings of all cards  *)
(* and more, so that no ring reaches the end of its page.  In the kernel,  *)
(* with 640 bytes of rings and 160 KB of buffers for a card, the first is  *)
(* so for 25 cards and the second for six: the receive ring of a seventh   *)
(* would lie across two pages, and its first buffer maps the second only.  *)
(***************************************************************************)
ASSUME CardsAssumption ==
  LET descs == MaxCards * (RX_DESC_COUNT + TX_DESC_COUNT)
  IN  /\ descs * (DescUnits + PageUnits) <= HEAP_END - HEAP_START
      /\ descs * DescUnits < PageUnits

VARIABLES
  pc,     \* "install", "scan", "mmio", "ring", "fill", "panic", "fault"
  cards,  \* how many the scan has found
  bar,    \* the first page of the card's registers
  i,      \* of the loop
  kind,   \* the ring in hand: "rx" or "tx"
  ring,   \* rx_ring or tx_ring
  given   \* history: what cards were told of, see Use

cardvars == <<pc, cards, bar, i, kind, ring, given>>
e1000vars == <<pagingvars, cardvars>>

\* A use of a frame that a card is told of: the buffer of a slot, or the ring
\* itself, which counts as slot 0; its virtual address, and the frame told.
\* For a buffer the card is told where the frame starts, for a ring where in
\* the frame it is, get_phys_addr() adding addr % PageUnits.
Use(what, slot, addr, frame) ==
  [what |-> what, card |-> cards, kind |-> kind, slot |-> slot, addr |-> addr, frame |-> frame]

\* Fault: the send ring set up like the receive ring.
CountCopied == RX_DESC_COUNT

Count == IF kind = "rx" THEN RX_DESC_COUNT ELSE TX_DESC_COUNT

E1000Init ==
  /\ PagingInit
  /\ pc = "install" /\ cards = 0 /\ bar = 0 /\ i = 0
  /\ kind = "rx" /\ ring = 0 /\ given = {}

paging_install ==
  /\ pc = "install" /\ pc' = "scan"
  /\ mem' = Installed(mem)
  /\ UNCHANGED <<free, heap_ptr, cards, bar, i, kind, ring, given>>

\* The scan comes to a card; with an I/O BAR e1000_init() returns at once.
pci_scan_all ==
  /\ pc = "scan" /\ cards < MaxCards
  /\ cards' = cards + 1
  /\ bar' \in Bars
  /\ pc' = IF bar' = 0 THEN "scan" ELSE "mmio"
  /\ i' = 0
  /\ UNCHANGED <<pagingvars, kind, ring, given>>

\* One iteration of the loop that maps the registers where they are.
MapRegisters ==
  /\ pc = "mmio" /\ i < MmioPages
  /\ \/ /\ MapPanics(mem, free, bar + i)
        /\ pc' = "panic"
        /\ UNCHANGED <<mem, free, i>>
     \/ /\ ~MapPanics(mem, free, bar + i)
        /\ mem' = MapMem(mem, free, bar + i, bar + i)
        /\ free' = MapFree(mem, free, bar + i)
        /\ i' = i + 1
        /\ UNCHANGED pc
  /\ UNCHANGED <<heap_ptr, cards, bar, kind, ring, given>>

\* The status register is read through the new mapping.
ReadStatus ==
  /\ pc = "mmio" /\ i >= MmioPages
  /\ pc' = IF Walk(mem, bar) = NotPresent THEN "fault" ELSE "ring"
  /\ kind' = "rx"
  /\ UNCHANGED <<pagingvars, cards, bar, i, ring, given>>

RingSetup ==
  LET r == alloc_aligned(heap_ptr, Count * DescUnits, DescUnits)
  IN  /\ pc = "ring" /\ pc' = "fill"
      /\ ring' = r.addr /\ heap_ptr' = r.ptr
      /\ i' = 0
      /\ UNCHANGED <<mem, free, cards, bar, kind, given>>

DescPage == PageOf(ring + i * DescUnits)

\* Fault: the descriptor is written before its buffer is mapped.
FillSlotEarly ==
  /\ pc = "fill" /\ i < Count
  /\ pc' = IF Walk(mem, DescPage) = NotPresent THEN "fault" ELSE "fill"
  /\ UNCHANGED <<pagingvars, cards, bar, i, kind, ring, given>>

\* Fault: half a page of heap for a buffer of a page.
FillSlotHalf ==
  LET phys_addr == pmm_alloc_block(free)
      buffer == kmalloc(heap_ptr, PageUnits \div 2)
      v == PageOf(buffer.addr)
      left == Left(free)
  IN  /\ pc = "fill" /\ i < Count
      /\ ~MapPanics(mem, left, v)
      /\ heap_ptr' = buffer.ptr
      /\ mem' = MapMem(mem, left, phys_addr, v)
      /\ free' = MapFree(mem, left, v)
      /\ i' = i + 1
      /\ given' = given \cup {Use("buffer", i, buffer.addr, phys_addr)}
      /\ UNCHANGED <<pc, cards, bar, kind, ring>>

\* One iteration of the loop over a ring's descriptors: frame, buffer,
\* mapping, and the descriptor through the mapping of its page.  Neither
\* pmm_alloc_block() nor kmalloc() is checked for failure.
FillSlot ==
  LET phys_addr == pmm_alloc_block(free)
      buffer == kmalloc(heap_ptr, PageUnits)
      v == PageOf(buffer.addr)
      left == Left(free)
  IN  /\ pc = "fill" /\ i < Count
      /\ heap_ptr' = buffer.ptr
      /\ \/ /\ MapPanics(mem, left, v)
            /\ pc' = "panic" /\ free' = left
            /\ UNCHANGED <<mem, i, given>>
         \/ /\ ~MapPanics(mem, left, v)
            /\ mem' = MapMem(mem, left, phys_addr, v)
            /\ free' = MapFree(mem, left, v)
            /\ pc' = IF Walk(mem', DescPage) = NotPresent THEN "fault" ELSE "fill"
            /\ i' = i + 1
            /\ given' = given \cup {Use("buffer", i, buffer.addr, phys_addr)}
      /\ UNCHANGED <<cards, bar, kind, ring>>

\* The ring is handed to the card; the send ring follows the receive ring.
EnableRing ==
  /\ pc = "fill" /\ i >= Count
  /\ \/ kind = "rx" /\ kind' = "tx" /\ pc' = "ring"
     \/ kind = "tx" /\ pc' = "scan" /\ UNCHANGED kind
  /\ given' = given \cup {Use("ring", 0, ring, get_phys_addr(PageOf(ring)))}
  /\ UNCHANGED <<pagingvars, cards, bar, i, ring>>

E1000Next ==
  \/ paging_install \/ pci_scan_all
  \/ MapRegisters \/ ReadStatus \/ RingSetup \/ FillSlot \/ EnableRing

E1000Spec == E1000Init /\ [][E1000Next]_e1000vars

-----------------------------------------------------------------------------
(* Properties                                                              *)

\* The variables keep their types; heap_ptr stays inside the heap, and every
\* ring is on it, although nobody looks at what alloc_aligned() returns.
E1000TypeOK ==
  /\ PagingTypeOK
  /\ pc \in {"install", "scan", "mmio", "ring", "fill", "panic", "fault"}
  /\ cards \in 0..MaxCards /\ bar \in Bars \cup {0}
  /\ kind \in {"rx", "tx"} /\ i \in Nat
  /\ pc = "fill" => ring \in HEAP_START..(HEAP_END - 1)

\* Every descriptor and register is accessed through a page that is mapped
\* by then: the ring's by its first buffer's mapping, the registers' by the
\* loop before.  page_fault_handler() is never entered.
NoPageFault == pc # "fault"

Tables == {mem[PdFrame][d] : d \in Index} \ {NotPresent}
BufferFrames == {g.frame : g \in given} \ {0}

\* g is a ring and h its first buffer.
RingAndFirst(g, h) ==
  /\ g.what = "ring" /\ h.what = "buffer" /\ h.slot = 0
  /\ g.card = h.card /\ g.kind = h.kind

\* No frame but frame 0 serves two purposes, a ring and its first buffer
\* excepted: each table has one directory entry, no frame is a table and
\* told to a card, none is told for two buffers or two rings, and the PMM
\* has none of them left to hand out.
\*
\* Both exceptions are what the code does.  Frame 0 is the null pointer of a
\* pmm_alloc_block() that has no frame left, which nobody checks: every
\* further buffer of every card is told to be there.  And a ring is on the
\* page of its first buffer, by which alone it is mapped: the card is told of
\* one frame for both, and the first packet received goes into the frame of
\* the receive ring.
OneUsePerFrame ==
  pc # "install" =>
    /\ \A d, e \in Index :
         mem[PdFrame][d] = mem[PdFrame][e] /\ mem[PdFrame][d] # NotPresent => d = e
    /\ Tables \cap BufferFrames = {}
    /\ (Tables \cup BufferFrames) \cap free = {}
    /\ \A g, h \in given :
         g.frame = h.frame /\ g.frame # 0 => g = h \/ RingAndFirst(g, h) \/ RingAndFirst(h, g)

\* The frame a card was told stays the frame: the page on which a ring or a
\* buffer starts is still mapped to it, whatever was mapped since for the
\* next buffers and the next cards.  This is about frames: where in its page
\* a buffer starts is not in what the card is told, so what the card puts at
\* the frame's start is addr % PageUnits in front of the buffer.
CardsStayInformed == \A g \in given : Walk(mem, PageOf(g.addr)) = g.frame

\* paging.c implements AddressSpace: a call of map_page() changes the
\* translation of the one page it is about, also when it has to make a
\* table from a frame full of old data.
SpaceSeen == [v \in Page |-> Walk(IF pc = "install" THEN Installed(mem) ELSE mem, v)]
AS == INSTANCE AddressSpace
        WITH LowPage <- Index, Unmapped <- NotPresent, space <- SpaceSeen
ImplementsAddressSpace == AS!ASSpec
=============================================================================
