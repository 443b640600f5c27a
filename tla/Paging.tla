------------------------------- MODULE Paging -------------------------------
(***************************************************************************)
(* Virtual memory, memory/paging.c, and the heap behind it, memory/heap.c. *)
(*                                                                         *)
(* mem is physical memory as the processor's page walk reads it: each      *)
(* frame a table of entries, an entry the number of a frame or NotPresent. *)
(* The directory is the frame PdFrame.  Its last entry is its own frame,   *)
(* so that the table of directory entry d is seen at page                  *)
(* RecursivePage(d).  The code reaches directory and tables by virtual     *)
(* addresses only, and so does the model: every access is a Walk.          *)
(*                                                                         *)
(* All mappings the kernel makes are present and writable, so an entry is  *)
(* its frame.  Pages are numbers; addresses of the heap are counted in     *)
(* units, PageUnits to a page.                                             *)
(***************************************************************************)
EXTENDS Integers, FiniteSetsExt

CONSTANTS
  Entries,     \* entries of a directory or a table: 1024
  Frames,      \* the frames of RAM
  PdFrame,     \* page_directory, 0x90000
  PtFrame,     \* first_page_table, 0x91000
  FreeSets,    \* the sets of frames the PMM may have free
  StaleFrame,  \* what unused RAM reads as when taken for an entry
  PageUnits,
  HEAP_START, HEAP_END

ASSUME PagingSizes ==
  /\ Entries \in Nat /\ Entries >= 3
  /\ Frames \subseteq Nat /\ 0 \in Frames
  /\ PdFrame \in Frames /\ PtFrame \in Frames /\ PdFrame # PtFrame
  /\ PdFrame < Entries /\ PtFrame < Entries
  /\ StaleFrame \in Frames
  /\ PageUnits \in Nat \ {0}
  /\ HEAP_START = Entries * PageUnits /\ HEAP_END \in HEAP_START..(2 * HEAP_START)

\* The directory and the first table lie below _kernel_end, where pmm_init()
\* leaves no frame free; block 0 never is.
ASSUME PagingFree ==
  \A free \in FreeSets : free \subseteq Frames \ {0, PdFrame, PtFrame}

VARIABLES
  mem,
  free,      \* the PMM's free frames, see Pmm
  heap_ptr

pagingvars == <<mem, free, heap_ptr>>

NotPresent == -1
Index == 0..(Entries - 1)
Last == Entries - 1
Page == 0..(Last * Entries - 1)

\* virt_addr >> 22 and (virt_addr >> 12) & 0x3FF
PdIndex(v) == v \div Entries
PtIndex(v) == v % Entries

\* 0xFFC00000 | (pd_idx << 12)
RecursivePage(d) == Last * Entries + d

EmptyTable == [i \in Index |-> NotPresent]

\* The processor's translation of page v.
Walk(m, v) ==
  LET table == m[PdFrame][PdIndex(v)]
  IN  IF table \in Frames THEN m[table][PtIndex(v)] ELSE NotPresent

\* The frame the code reads and writes when it uses page_directory.
Directory(m) == Walk(m, PdFrame)

PagingInit ==
  /\ mem = [f \in Frames |-> [i \in Index |-> StaleFrame]]
  /\ free \in FreeSets
  /\ heap_ptr = HEAP_START

\* paging_install(), before paging is on: the two frames by their addresses.
Installed(m) ==
  [m EXCEPT ![PtFrame] = [i \in Index |-> i],
            ![PdFrame] = [EmptyTable EXCEPT ![0] = PtFrame, ![Last] = PdFrame]]

\* pmm_alloc_block(): the lowest free frame, or 0; and what is free then.
pmm_alloc_block(fr) == IF fr = {} THEN 0 ELSE Min(fr)

\* Fault: the frame is found and not marked.
LeftFound(fr) == fr

Left(fr) == fr \ {pmm_alloc_block(fr)}

\* Fault: the new table is not cleared.
NewTableUncleared(m, d, table) == [m EXCEPT ![Directory(m)][d] = table]

\* map_page()'s first part: a table for directory entry d in frame table,
\* cleared through the recursive mapping.
NewTable(m, d, table) ==
  LET m1 == [m EXCEPT ![Directory(m)][d] = table]
  IN  [m1 EXCEPT ![Walk(m1, RecursivePage(d))] = EmptyTable]

HasTable(m, v) == m[Directory(m)][PdIndex(v)] # NotPresent

\* No frame is left for the table map_page() needs: it prints and loops.
MapPanics(m, fr, v) == ~HasTable(m, v) /\ pmm_alloc_block(fr) = 0

\* map_page(): what memory and the free frames are afterwards.
MapMem(m, fr, f, v) ==
  LET m1 == IF HasTable(m, v) THEN m
            ELSE NewTable(m, PdIndex(v), pmm_alloc_block(fr))
  IN  [m1 EXCEPT ![Walk(m1, RecursivePage(PdIndex(v)))][PtIndex(v)] = f]

MapFree(m, fr, v) == IF HasTable(m, v) THEN fr ELSE Left(fr)

\* get_phys_addr(), frame by frame.
get_phys_addr(v) ==
  IF HasTable(mem, v) /\ mem[Walk(mem, RecursivePage(PdIndex(v)))][PtIndex(v)] # NotPresent
  THEN mem[Walk(mem, RecursivePage(PdIndex(v)))][PtIndex(v)]
  ELSE 0

-----------------------------------------------------------------------------
(* The heap: 0 when there is no room, and the heap_ptr afterwards          *)

PageOf(addr) == addr \div PageUnits

kmalloc(ptr, size) ==
  IF ptr + size > HEAP_END THEN [addr |-> 0, ptr |-> ptr]
  ELSE [addr |-> ptr, ptr |-> ptr + size]

RoundUp(n, alignment) == ((n + alignment - 1) \div alignment) * alignment

alloc_aligned(ptr, size, alignment) ==
  LET addr == RoundUp(ptr, alignment)
  IN  IF addr + size > HEAP_END THEN [addr |-> 0, ptr |-> ptr]
      ELSE [addr |-> addr, ptr |-> addr + size]

-----------------------------------------------------------------------------
\* The types of memory, the PMM's frames and the heap pointer, which stays
\* between the heap's two ends.
PagingTypeOK ==
  /\ DOMAIN mem = Frames /\ \A f \in Frames : DOMAIN mem[f] = Index
  /\ free \subseteq Frames
  /\ heap_ptr \in HEAP_START..HEAP_END
=============================================================================
