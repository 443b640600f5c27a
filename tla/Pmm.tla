--------------------------------- MODULE Pmm --------------------------------
(***************************************************************************)
(* The physical memory manager of memory/pmm.c: a bitmap with one bit per  *)
(* block, placed right behind the kernel image, and a count of used        *)
(* blocks.  pmm_init() is modelled loop iteration by loop iteration, from  *)
(* the E820 map the bootloader left; then its callers allocate and free.   *)
(*                                                                         *)
(* bitmap is the set of the bits that are 1.  Sizes and addresses are in   *)
(* bytes; the constants scale the 4096 bytes of a block, the 8 bits of a   *)
(* byte, the 32 bits of a word and the 2^32 values of a uint32_t down.     *)
(***************************************************************************)
EXTENDS Integers, Sequences, FiniteSetsExt

CONSTANTS
  BlockSize,      \* BLOCK_SIZE
  BlocksPerByte,  \* BLOCKS_PER_BYTE
  WordBits,       \* bits per word of pmm_bitmap
  UintLimit,      \* a uint32_t is below this
  KernelEnd,      \* the address &_kernel_end
  MemoryMaps      \* the E820 maps: sequences of [base, len, type]

\* E820 region type 1 is usable RAM.
Usable(m) == {i \in 1..Len(m) : m[i].type = 1}

RegionEnd(m, i) == m[i].base + m[i].len

total_mem(m) == Max({0} \cup {RegionEnd(m, i) : i \in Usable(m)})

\* The blocks the loop over region i clears, one every BLOCK_SIZE bytes.
RegionBlocks(m, i) ==
  {(m[i].base + BlockSize * k) \div BlockSize :
     k \in 0..((m[i].len + BlockSize - 1) \div BlockSize - 1)}

\* The blocks set_block() is called for, from the code's own arithmetic.
bitmap_size(total) == total \div BlocksPerByte
KernelAndBitmapBlocks(total) == (KernelEnd + bitmap_size(total)) \div BlockSize

(***************************************************************************)
(* What pmm_init() relies on and E820 maps of real machines have: RAM      *)
(* below 4 GB that ends on a block boundary, usable regions that start on  *)
(* a block boundary and share no block, a kernel inside RAM, the only      *)
(* block that is usable in part among those reserved for the kernel (the   *)
(* one in front of the EBDA; the kernel starts at 1 MB), and a top region  *)
(* that covers the bits memset() misses.                                   *)
(***************************************************************************)
WellFormed(m) ==
  LET total == total_mem(m) \div BlockSize
  IN  /\ total_mem(m) % BlockSize = 0
      /\ KernelAndBitmapBlocks(total) \in 1..total
      /\ \A i \in Usable(m) :
           /\ m[i].len > 0 /\ m[i].base % BlockSize = 0
           /\ RegionEnd(m, i) < UintLimit
           /\ m[i].len % BlockSize # 0
                => RegionEnd(m, i) <= BlockSize * KernelAndBitmapBlocks(total)
           /\ \A j \in Usable(m) \ {i} : RegionBlocks(m, i) \cap RegionBlocks(m, j) = {}
      /\ \A b \in (BlocksPerByte * bitmap_size(total)) .. (total - 1) :
           \E i \in Usable(m) : b \in RegionBlocks(m, i)

ASSUME PmmSizes ==
  /\ BlockSize \in Nat \ {0} /\ BlocksPerByte \in Nat \ {0}
  /\ WordBits \in Nat \ {0} /\ WordBits % BlocksPerByte = 0
  /\ UintLimit \in Nat \ {0} /\ KernelEnd \in Nat

ASSUME PmmMaps ==
  /\ MemoryMaps \subseteq Seq([base : Nat, len : Nat, type : Nat])
  /\ \A m \in MemoryMaps : WellFormed(m)

VARIABLES
  mmap,          \* the map at 0x1000
  phase,         \* where pmm_init() is: "measure", "free", "reserve", "ready"
  region,        \* i of the loop over the regions
  offset,        \* j of the loop over a region's blocks
  next,          \* i of the loop that reserves
  total_blocks,
  used_blocks,
  bitmap,
  ret,           \* the pointer pmm_alloc_block() returned last, 0 for none
  held           \* the pointers handed out and not given back

loops == <<region, offset, next>>
pmmvars == <<mmap, phase, loops, total_blocks, used_blocks, bitmap, ret, held>>

Block == 0..(total_blocks - 1)

\* pmm_bitmap[] as far as its words hold a bit of some block.
BitmapBits(total) == 0..(WordBits * ((total + WordBits - 1) \div WordBits) - 1)

\* find_first_free() looks at whole words only.
ScannedBits == 0..(WordBits * (total_blocks \div WordBits) - 1)

find_first_free ==
  LET free == ScannedBits \ bitmap
  IN  IF free = {} THEN -1 ELSE Min(free)

Uint(n) == n % UintLimit

-----------------------------------------------------------------------------
PmmInit ==
  /\ mmap \in MemoryMaps
  /\ phase = "measure"
  /\ region = 1 /\ offset = 0 /\ next = 0
  /\ total_blocks = 0 /\ used_blocks = 0 /\ bitmap = {}
  /\ ret = 0 /\ held = {}

\* Up to the memset(), which leaves the last total_blocks % 8 bits as RAM
\* happens to hold them.
Measure ==
  LET total == total_mem(mmap) \div BlockSize
      set == 0..(BlocksPerByte * bitmap_size(total) - 1)
  IN  /\ phase = "measure"
      /\ phase' = "free"
      /\ total_blocks' = total
      /\ used_blocks' = total
      /\ \E garbage \in SUBSET (BitmapBits(total) \ set) : bitmap' = set \cup garbage
      /\ UNCHANGED <<mmap, loops, ret, held>>

\* Fault: reserved regions are freed too.
FreeStepAnyType ==
  /\ phase = "free" /\ region <= Len(mmap)
  /\ IF offset < mmap[region].len
     THEN /\ bitmap' = bitmap \ {(mmap[region].base + offset) \div BlockSize}
          /\ used_blocks' = Uint(used_blocks - 1)
          /\ offset' = offset + BlockSize
          /\ UNCHANGED region
     ELSE region' = region + 1 /\ offset' = 0 /\ UNCHANGED <<bitmap, used_blocks>>
  /\ UNCHANGED <<mmap, phase, next, total_blocks, ret, held>>

\* One iteration of the loop over the regions, or of the one inside it.
FreeStep ==
  /\ phase = "free" /\ region <= Len(mmap)
  /\ IF mmap[region].type = 1 /\ offset < mmap[region].len
     THEN /\ bitmap' = bitmap \ {(mmap[region].base + offset) \div BlockSize}
          /\ used_blocks' = Uint(used_blocks - 1)
          /\ offset' = offset + BlockSize
          /\ UNCHANGED region
     ELSE region' = region + 1 /\ offset' = 0 /\ UNCHANGED <<bitmap, used_blocks>>
  /\ UNCHANGED <<mmap, phase, next, total_blocks, ret, held>>

FreeDone ==
  /\ phase = "free" /\ region > Len(mmap)
  /\ phase' = "reserve"
  /\ UNCHANGED <<mmap, loops, total_blocks, used_blocks, bitmap, ret, held>>

\* Fault: a block that was not free is counted again.
ReserveStepUntested ==
  /\ phase = "reserve" /\ next < KernelAndBitmapBlocks(total_blocks)
  /\ bitmap' = bitmap \cup {next}
  /\ used_blocks' = Uint(used_blocks + 1)
  /\ next' = next + 1
  /\ UNCHANGED <<mmap, phase, region, offset, total_blocks, ret, held>>

ReserveStep ==
  /\ phase = "reserve" /\ next < KernelAndBitmapBlocks(total_blocks)
  /\ \/ next \in bitmap /\ UNCHANGED <<bitmap, used_blocks>>
     \/ /\ next \notin bitmap
        /\ bitmap' = bitmap \cup {next}
        /\ used_blocks' = Uint(used_blocks + 1)
  /\ next' = next + 1
  /\ UNCHANGED <<mmap, phase, region, offset, total_blocks, ret, held>>

ReserveDone ==
  /\ phase = "reserve" /\ next >= KernelAndBitmapBlocks(total_blocks)
  /\ phase' = "ready"
  /\ UNCHANGED <<mmap, loops, total_blocks, used_blocks, bitmap, ret, held>>

\* Fault: the block's bit is not set.
AllocWithoutSet ==
  /\ phase = "ready"
  /\ used_blocks < total_blocks /\ find_first_free # -1
  /\ used_blocks' = Uint(used_blocks + 1)
  /\ ret' = Uint(find_first_free * BlockSize)
  /\ held' = held \cup {ret'}
  /\ UNCHANGED <<mmap, phase, loops, total_blocks, bitmap>>

pmm_alloc_block ==
  /\ phase = "ready"
  /\ \/ /\ used_blocks >= total_blocks \/ find_first_free = -1
        /\ ret' = 0
        /\ UNCHANGED <<used_blocks, bitmap, held>>
     \/ /\ used_blocks < total_blocks /\ find_first_free # -1
        /\ bitmap' = bitmap \cup {find_first_free}
        /\ used_blocks' = Uint(used_blocks + 1)
        /\ ret' = Uint(find_first_free * BlockSize)
        /\ held' = held \cup {ret'}
  /\ UNCHANGED <<mmap, phase, loops, total_blocks>>

\* A caller gives back a pointer it holds.
pmm_free_block(block) ==
  LET frame == block \div BlockSize
  IN  /\ phase = "ready" /\ block \in held
      /\ \/ frame \notin bitmap /\ UNCHANGED <<used_blocks, bitmap>>
         \/ /\ frame \in bitmap
            /\ bitmap' = bitmap \ {frame}
            /\ used_blocks' = Uint(used_blocks - 1)
      /\ held' = held \ {block}
      /\ UNCHANGED <<mmap, phase, loops, total_blocks, ret>>

PmmNext ==
  \/ Measure \/ FreeStep \/ FreeDone \/ ReserveStep \/ ReserveDone
  \/ pmm_alloc_block
  \/ \E block \in held : pmm_free_block(block)

PmmSpec == PmmInit /\ [][PmmNext]_pmmvars

-----------------------------------------------------------------------------
(* Properties                                                              *)

HeldFrames == {block \div BlockSize : block \in held}

\* The blocks below the end of the bitmap, which has one bit per block and
\* starts where the kernel ends: those that `kernel and bitmap' lie in.
BitmapEnd == KernelEnd + (total_blocks + BlocksPerByte - 1) \div BlocksPerByte
OccupiedBlocks == {b \in Block : BlockSize * b < BitmapEnd}

UnusableBlocks == {b \in Block : \A i \in Usable(mmap) : b \notin RegionBlocks(mmap, i)}

ReservedBlocks == OccupiedBlocks \cup UnusableBlocks

(***************************************************************************)
(* The block pmm_init() leaves out.  It says "Mark kernel and bitmap as    *)
(* used" and rounds the number of blocks down, so the block in which the   *)
(* bitmap ends is free afterwards, unless it ends with the block, and is   *)
(* the first to be handed out.  Bits stored there are kept as they are     *)
(* here: nothing is said of a machine whose caller writes to that block.   *)
(***************************************************************************)
LeftOut ==
  {b \in OccupiedBlocks \ UnusableBlocks :
     BlockSize * (b + 1) > KernelEnd + bitmap_size(total_blocks)}

\* used_blocks, kept by increments and decrements over three loops and two
\* calls, is the number of bits set, so pmm_get_used_memory() and
\* pmm_get_free_memory() tell the truth and never underflow.
Accounting == phase = "ready" => used_blocks = Cardinality(Block \cap bitmap)

\* No bit behind the bitmap is written, and after pmm_init() a block's bit is
\* set exactly when it is held by a caller, holds a byte of kernel or bitmap,
\* or has no RAM behind it, and no block is held and one of the others.  One
\* block is excepted, LeftOut, in which the bitmap ends: it is held or free
\* like usable RAM.  So nothing is handed out twice, and what is given back is
\* free again.  Not that it is found again: find_first_free() does not look at
\* the bits of an incomplete last word.
BitmapIsExact ==
  /\ bitmap \subseteq BitmapBits(total_blocks)
  /\ phase = "ready" =>
       /\ Block \cap bitmap = (ReservedBlocks \ LeftOut) \cup HeldFrames
       /\ (ReservedBlocks \ LeftOut) \cap HeldFrames = {}

\* Every byte of a block a caller holds is usable RAM, and the pointer is not
\* the one that means failure.
HeldIsUsableRam ==
  \A block \in held :
    /\ block # 0
    /\ \E i \in Usable(mmap) :
         mmap[i].base <= block /\ block + BlockSize <= RegionEnd(mmap, i)
=============================================================================
