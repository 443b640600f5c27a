---------------------------- MODULE KernelProofs ----------------------------
(***************************************************************************)
(* Proofs about the parts of the kernel below the shell: Interrupts, for   *)
(* every set of devices, and Pmm, for any block size, word size, kernel    *)
(* size and set of well-formed memory maps.  From the first interrupt on,  *)
(* each one is dispatched to the routine of its line; and no block is      *)
(* handed out twice, nor one without memory behind it.                     *)
(***************************************************************************)
EXTENDS Interrupts, Pmm, FiniteSetTheorems, SequenceTheorems, WellFoundedInduction, TLAPS

-----------------------------------------------------------------------------
(* Interrupts: the inductive invariant                                     *)

\* The steps of kernel_main() that come after a step.
BehindRemap ==
  {"irq_install", "timer_install", "keyboard_install", "sti", "run", "halted"}
BehindGates == BehindRemap \ {"irq_install"}
BehindTimer == BehindGates \ {"timer_install"}
BehindKeyboard == BehindTimer \ {"keyboard_install"}

\* What each step of the boot sequence has left behind.
BootOrder ==
  /\ pc \in BehindRemap \cup {"idt_install", "isr_install", "pic_remap"}
  /\ pc \in BehindRemap => base = [master |-> 32, slave |-> 40]
  /\ pc \in BehindGates => 32..47 \subseteq idt
  /\ pc \in BehindTimer => 0 \in routines
  /\ pc \in BehindKeyboard => 1 \in routines

\* Interrupts are enabled exactly between the sti and an exception, while none
\* is being served.
FlagFollows ==
  /\ enabled \in BOOLEAN
  /\ serving \in {"none", "handler", "eoi", "iret"}
  /\ enabled <=> pc = "run" /\ serving = "none"
  /\ serving # "none" => pc = "run"

\* The interrupt being served is the line that was delivered.
RightLine == serving # "none" => acked \in Line /\ int_no = 32 + acked

\* What the controllers hold in service: until the end of interrupt the line
\* delivered, with the cascade if it is the slave's, or less if it was
\* spurious; nothing otherwise.
InServiceFollows ==
  /\ serving \in {"none", "iret"} => in_service = {}
  /\ serving \in {"handler", "eoi"} =>
       \/ in_service = {acked, AtMaster(acked)}
       \/ acked = 7 /\ in_service = {}
       \/ acked = 15 /\ in_service = {Cascade}

IntInv ==
  /\ irr \subseteq Line
  /\ BootOrder
  /\ FlagFollows
  /\ RightLine
  /\ InServiceFollows

-----------------------------------------------------------------------------
(* Lemmas                                                                  *)

\* The stages of the boot that lie behind each installation.
LEMMA Stages ==
  /\ BehindRemap = {"irq_install", "timer_install", "keyboard_install", "sti", "run", "halted"}
  /\ BehindGates = {"timer_install", "keyboard_install", "sti", "run", "halted"}
  /\ BehindTimer = {"keyboard_install", "sti", "run", "halted"}
  /\ BehindKeyboard = {"sti", "run", "halted"}
BY DEF BehindRemap, BehindGates, BehindTimer, BehindKeyboard

\* Whatever line is delivered, its gate is there and leads to its routine.
LEMMA DeliverResult ==
  ASSUME IntInv, NEW line \in Line, Deliver(line)
  PROVE  /\ pc = "run" /\ pc' = "run" /\ serving = "none" /\ in_service = {}
         /\ serving' = "handler" /\ int_no' = 32 + line /\ acked' = line
         /\ enabled' = FALSE
         /\ UNCHANGED <<idt, routines, base>>
<1>1. pc = "run" /\ serving = "none" /\ in_service = {}
  BY DEF IntInv, FlagFollows, InServiceFollows, Deliver
<1>2. base.slave = 40 /\ base.master = 32 /\ 32..47 \subseteq idt
  BY <1>1, Stages DEF IntInv, BootOrder
<1> DEFINE vector == IF line \in Slave THEN base.slave + line - 8 ELSE base.master + line
<1>3. vector = 32 + line /\ vector \in 32..47
  BY <1>2 DEF Line, Slave
<1>4. vector \in idt /\ vector >= 32
  BY <1>2, <1>3
<1> QED
  BY <1>1, <1>3, <1>4 DEF Deliver

\* pic_send_eoi() leaves nothing in service, spurious or not.
LEMMA EoiResult ==
  ASSUME IntInv, serving = "eoi", pic_send_eoi(int_no - 32)
  PROVE  in_service' = {}
<1>1. acked \in 0..15 /\ int_no - 32 = acked
  BY DEF IntInv, RightLine, Line
<1>2. in_service' = in_service \ (Ended(Line \ Slave) \cup IF acked >= 8 THEN Ended(Slave) ELSE {})
  BY <1>1 DEF pic_send_eoi
<1>3. CASE in_service = {acked, AtMaster(acked)} /\ acked >= 8
  <2>1. in_service = {acked, 2} /\ acked \in 8..15
    BY <1>1, <1>3 DEF AtMaster, Slave, Cascade
  <2>0. /\ 2 \in Line /\ 2 \notin Slave
        /\ acked \in Slave /\ acked \notin Line \ Slave
    BY <2>1 DEF Line, Slave
  <2>2. in_service \cap (Line \ Slave) = {2} /\ in_service \cap Slave = {acked}
    BY <2>1, <2>0, Zenon
  <2>3. 2 \in Ended(Line \ Slave) /\ acked \in Ended(Slave)
    BY <2>1, <2>2 DEF Ended
  <2> QED
    BY <1>2, <1>3, <2>1, <2>3
<1>4. CASE in_service = {acked, AtMaster(acked)} /\ ~(acked >= 8)
  <2>1. in_service = {acked} /\ acked \in 0..7
    BY <1>1, <1>4 DEF AtMaster, Slave
  <2>2. acked \in Ended(Line \ Slave)
    BY <2>1 DEF Ended, Line, Slave
  <2> QED
    BY <1>2, <2>1, <2>2
<1>5. CASE in_service = {}
  BY <1>2, <1>5
<1>6. CASE in_service = {Cascade}
  <2>1. Cascade \in Ended(Line \ Slave)
    BY <1>6 DEF Ended, Line, Slave, Cascade
  <2> QED
    BY <1>2, <1>6, <2>1
<1> QED
  BY <1>3, <1>4, <1>5, <1>6 DEF IntInv, InServiceFollows

-----------------------------------------------------------------------------
(* Each step keeps the invariant                                           *)

\* The BIOS leaves no gate and no handler of the kernel's.
LEMMA IntInitInv == IntInit => IntInv
BY Stages DEF IntInit, IntInv, BootOrder, FlagFollows, RightLine, InServiceFollows, Line

\* The next call of kernel_main() keeps the invariant.
LEMMA kernel_mainInv ==
  ASSUME IntInv, kernel_main
  PROVE  IntInv'
<1> USE Stages DEF Boot, pic
<1>0. pc # "run" /\ pc # "halted" /\ UNCHANGED <<serving, int_no, acked>>
  BY DEF kernel_main, idt_install, isr_install, pic_remap, irq_install, timer_install,
         keyboard_install, InstallHandler, Sti
<1>1. serving = "none" /\ enabled = FALSE /\ in_service = {}
  BY <1>0 DEF IntInv, FlagFollows, InServiceFollows
<1>2. irr' \subseteq Line /\ in_service' = {}
  BY <1>1 DEF IntInv, kernel_main, idt_install, isr_install, pic_remap, irq_install,
       timer_install, keyboard_install, InstallHandler, Sti
<1>3. FlagFollows'
  BY <1>0, <1>1 DEF FlagFollows, kernel_main, idt_install, isr_install, pic_remap,
       irq_install, timer_install, keyboard_install, InstallHandler, Sti
<1>4. RightLine' /\ InServiceFollows'
  BY <1>0, <1>1, <1>2 DEF RightLine, InServiceFollows
<1>5. BootOrder'
  <2>1. CASE idt_install \/ isr_install
    BY <2>1 DEF IntInv, BootOrder, idt_install, isr_install
  <2>2. CASE pic_remap(32, 40)
    BY <2>2 DEF IntInv, BootOrder, pic_remap
  <2>3. CASE irq_install
    BY <2>3 DEF IntInv, BootOrder, irq_install
  <2>4. CASE timer_install \/ keyboard_install
    BY <2>4 DEF IntInv, BootOrder, timer_install, keyboard_install, InstallHandler
  <2>5. CASE Sti
    BY <2>5 DEF IntInv, BootOrder, Sti
  <2> QED
    BY <2>1, <2>2, <2>3, <2>4, <2>5 DEF kernel_main
<1> QED
  BY <1>2, <1>3, <1>4, <1>5 DEF IntInv

\* Delivered with the lines in service that the controllers say.
LEMMA DeliveredInv ==
  ASSUME IntInv, NEW line \in Line, Deliver(line), irr' \subseteq Line,
         \/ in_service' = {line, AtMaster(line)}
         \/ line = 7 /\ in_service' = {}
         \/ line = 15 /\ in_service' = {Cascade}
  PROVE  IntInv'
<1>1. /\ pc = "run" /\ pc' = "run" /\ serving' = "handler"
      /\ int_no' = 32 + line /\ acked' = line /\ enabled' = FALSE
      /\ UNCHANGED <<idt, routines, base>>
  BY DeliverResult
<1>2. BootOrder'
  BY <1>1 DEF IntInv, BootOrder
<1>3. FlagFollows' /\ RightLine'
  BY <1>1 DEF FlagFollows, RightLine
<1>4. AtMaster(acked)' = AtMaster(line)
  BY <1>1 DEF AtMaster
<1>5. InServiceFollows'
  BY <1>1, <1>4 DEF InServiceFollows
<1> QED
  BY <1>2, <1>3, <1>5 DEF IntInv

\* So does the processor's acknowledgement, which starts the stub, ...
LEMMA AcknowledgeInv ==
  ASSUME IntInv, Acknowledge
  PROVE  IntInv'
<1>1. PICK line \in irr \ mask :
        /\ Deliver(line) /\ irr' = irr \ {line}
        /\ in_service' = in_service \cup {line, AtMaster(line)}
  BY DEF Acknowledge
<1>2. line \in Line /\ irr' \subseteq Line
  BY <1>1 DEF IntInv
<1>3. in_service = {}
  BY <1>1, <1>2, DeliverResult
<1> QED
  BY <1>1, <1>2, <1>3, DeliveredInv

\* ... that of a request that has gone away, ...
LEMMA SpuriousInv ==
  ASSUME IntInv, Spurious
  PROVE  IntInv'
<1>1. irr' \subseteq Line /\ 7 \in Line /\ 15 \in Line
  BY DEF IntInv, Spurious, Line
<1>2. CASE Deliver(7) /\ UNCHANGED in_service
  BY <1>1, <1>2, DeliverResult, DeliveredInv
<1>3. CASE Deliver(15) /\ in_service' = in_service \cup {Cascade}
  BY <1>1, <1>3, DeliverResult, DeliveredInv
<1> QED
  BY <1>2, <1>3 DEF Spurious

\* ... the handler with its end of interrupt and return, ...
LEMMA ServeInv ==
  ASSUME IntInv, RunHandler \/ SendEoi \/ Iret
  PROVE  IntInv'
<1> USE DEF Serve
<1>0. UNCHANGED <<pc, idt, routines, base, irr>> /\ serving # "none"
  BY DEF RunHandler, SendEoi, Iret
<1>1. irr' \subseteq Line /\ BootOrder'
  BY <1>0 DEF IntInv, BootOrder
<1>2. CASE RunHandler
  <2>1. FlagFollows' /\ RightLine'
    BY <1>0, <1>2 DEF IntInv, FlagFollows, RightLine, RunHandler
  <2>2. InServiceFollows'
    BY <1>2 DEF IntInv, InServiceFollows, RunHandler, AtMaster
  <2> QED
    BY <1>1, <2>1, <2>2 DEF IntInv
<1>3. CASE SendEoi
  <2>1. FlagFollows' /\ RightLine'
    BY <1>0, <1>3 DEF IntInv, FlagFollows, RightLine, SendEoi
  <2>2. in_service' = {} /\ serving' = "iret"
    BY <1>3, EoiResult DEF SendEoi
  <2> QED
    BY <1>1, <2>1, <2>2 DEF IntInv, InServiceFollows
<1>4. CASE Iret
  <2>1. FlagFollows' /\ RightLine'
    BY <1>0, <1>4 DEF IntInv, FlagFollows, RightLine, Iret
  <2>2. in_service' = {} /\ serving' = "none"
    BY <1>4 DEF IntInv, InServiceFollows, Iret
  <2> QED
    BY <1>1, <2>1, <2>2 DEF IntInv, InServiceFollows
<1> QED
  BY <1>2, <1>3, <1>4

\* ... an exception, ...
LEMMA isr_handlerInv ==
  ASSUME IntInv, isr_handler
  PROVE  IntInv'
<1>1. /\ pc = "run" /\ pc' = "halted" /\ serving = "none" /\ enabled' = FALSE
      /\ UNCHANGED <<idt, routines, base, irr, in_service, serving, int_no, acked>>
  BY DEF isr_handler, pic
<1>2. BootOrder'
  BY <1>1, Stages DEF IntInv, BootOrder
<1>3. FlagFollows' /\ RightLine' /\ InServiceFollows'
  BY <1>1 DEF IntInv, FlagFollows, RightLine, InServiceFollows
<1> QED
  BY <1>1, <1>2, <1>3 DEF IntInv

\* ... a device that raises its line, ...
LEMMA RaiseInv ==
  ASSUME IntInv, NEW line \in Devices, Raise(line)
  PROVE  IntInv'
<1>1. irr' \subseteq Line
  BY DevicesAssumption DEF IntInv, Raise
<1>2. BootOrder' /\ FlagFollows' /\ RightLine'
  BY DEF IntInv, BootOrder, FlagFollows, RightLine, Raise
<1>3. InServiceFollows'
  BY DEF IntInv, InServiceFollows, Raise, AtMaster
<1> QED
  BY <1>1, <1>2, <1>3 DEF IntInv

\* ... and a step that changes nothing.
LEMMA IntStutterInv ==
  ASSUME IntInv, UNCHANGED intvars
  PROVE  IntInv'
<1>1. UNCHANGED <<pc, enabled, idt, routines, base, irr, in_service, serving, int_no, acked>>
  BY DEF intvars, pic
<1> QED
  BY <1>1 DEF IntInv, BootOrder, FlagFollows, RightLine, InServiceFollows, AtMaster

-----------------------------------------------------------------------------
(* The theorems                                                            *)

\* The invariant holds of every behaviour of boot, devices and controllers.
THEOREM IntInvariance == IntSpec => []IntInv
<1>1. IntInv /\ [IntNext]_intvars => IntInv'
  <2> SUFFICES ASSUME IntInv, [IntNext]_intvars PROVE IntInv'
    OBVIOUS
  <2>1. CASE kernel_main
    BY <2>1, kernel_mainInv
  <2>2. CASE Acknowledge
    BY <2>2, AcknowledgeInv
  <2>3. CASE RunHandler \/ SendEoi \/ Iret
    BY <2>3, ServeInv
  <2>4. CASE Spurious
    BY <2>4, SpuriousInv
  <2>5. CASE isr_handler
    BY <2>5, isr_handlerInv
  <2>6. ASSUME NEW line \in Devices, Raise(line) PROVE IntInv'
    BY <2>6, RaiseInv
  <2>7. CASE UNCHANGED intvars
    BY <2>7, IntStutterInv
  <2> QED
    BY <2>1, <2>2, <2>3, <2>4, <2>5, <2>6, <2>7 DEF IntNext, Cpu, Loop
<1> QED
  BY <1>1, IntInitInv, PTL DEF IntSpec

\* Whatever devices raise, and whenever: no interrupt meets a missing gate, each
\* runs the routine of its line, and irq_install_handler() came first.
THEOREM DispatchCorrect == IntSpec => []DispatchIsRight
<1>1. IntInv => DispatchIsRight
  <2> SUFFICES ASSUME IntInv PROVE DispatchIsRight
    OBVIOUS
  <2>1. pc # "lost"
    BY Stages DEF IntInv, BootOrder
  <2>2. ASSUME serving # "none" PROVE int_no - 32 = acked /\ {0, 1} \subseteq routines
    <3>1. pc = "run" /\ acked \in 0..15 /\ int_no = 32 + acked
      BY <2>2 DEF IntInv, FlagFollows, RightLine, Line
    <3> QED
      BY <3>1, Stages DEF IntInv, BootOrder
  <2> QED
    BY <2>1, <2>2 DEF DispatchIsRight
<1> QED
  BY <1>1, IntInvariance, PTL

\* pic_send_eoi() acknowledges every interrupt where it has to, spurious ones
\* included, before the stub enables interrupts again.
THEOREM AcknowledgementCorrect == IntSpec => []AllAcknowledged
<1>1. IntInv => AllAcknowledged
  BY DEF IntInv, FlagFollows, InServiceFollows, AllAcknowledged
<1> QED
  BY <1>1, IntInvariance, PTL

-----------------------------------------------------------------------------
(* Pmm: the inductive invariant                                            *)

Phases == {"measure", "free", "reserve", "ready"}

\* The first block of region i, and the number of blocks its loop clears.
Start(m, i) == m[i].base \div BlockSize
Count(m, i) == (m[i].len + BlockSize - 1) \div BlockSize

\* How many blocks of region i have been cleared already.
Visited(i) ==
  IF i < region THEN Count(mmap, i) ELSE IF i = region THEN offset \div BlockSize ELSE 0

Freed ==
  {b \in Block : \E i \in Usable(mmap) : b \in Start(mmap, i) .. (Start(mmap, i) + Visited(i) - 1)}

\* The blocks with RAM behind them.
Ram(m) == UNION {RegionBlocks(m, i) : i \in Usable(m)}

\* While the regions are freed, the bits visited are clear, those memset()
\* reached and no region has visited are set, and used_blocks counts every
\* block not visited: the bits memset() missed count as used, set or not.
Freeing ==
  /\ region \in 1..(Len(mmap) + 1)
  /\ offset \in Nat /\ offset = BlockSize * (offset \div BlockSize)
  /\ offset > 0 => region \in Usable(mmap) /\ offset \div BlockSize <= Count(mmap, region)
  /\ next = 0
  /\ bitmap \cap Freed = {}
  /\ \A b \in 0..(BlocksPerByte * bitmap_size(total_blocks) - 1) : b \in bitmap \/ b \in Freed
  /\ used_blocks = Cardinality(Block \ Freed)

\* While blocks are reserved, the bits set are those of the blocks passed and
\* of those without RAM, and used_blocks counts them.
Reserving ==
  /\ next \in 0..KernelAndBitmapBlocks(total_blocks)
  /\ Block \cap bitmap = {b \in Block : b < next \/ b \notin Ram(mmap)}
  /\ used_blocks = Cardinality(Block \cap bitmap)

\* The blocks that pmm_init() has marked.
Marked == {b \in Block : b < KernelAndBitmapBlocks(total_blocks) \/ b \notin Ram(mmap)}

\* Afterwards the bits set are those of the blocks marked and of the blocks
\* held, and a pointer held is the address of a block.
Serving ==
  /\ Accounting
  /\ Block \cap bitmap = Marked \cup HeldFrames /\ Marked \cap HeldFrames = {}
  /\ \A block \in held : \E f \in Block : block = BlockSize * f

PmmInv ==
  /\ mmap \in MemoryMaps /\ phase \in Phases
  /\ phase = "measure" => /\ region = 1 /\ offset = 0 /\ next = 0
                          /\ total_blocks = 0 /\ bitmap = {}
  /\ phase # "measure" => total_blocks = total_mem(mmap) \div BlockSize
  /\ phase # "ready" => held = {}
  /\ phase = "free" => Freeing
  /\ phase = "reserve" => Reserving
  /\ phase = "ready" => Serving
  /\ bitmap \subseteq BitmapBits(total_blocks)

-----------------------------------------------------------------------------
(* Division                                                                *)

\* Division with remainder.
LEMMA Quotient ==
  ASSUME NEW d \in Nat \ {0}, NEW n \in Nat
  PROVE  /\ n \div d \in Nat /\ n % d \in 0..(d - 1)
         /\ n = d * (n \div d) + (n % d) /\ n \div d <= n
OBVIOUS

\* Division without one.
LEMMA ExactQuotient ==
  ASSUME NEW d \in Nat \ {0}, NEW n \in Nat, n % d = 0
  PROVE  n \div d \in Nat /\ n = d * (n \div d)
OBVIOUS

\* A multiple divided by its factor.
LEMMA QuotientOfMultiple ==
  ASSUME NEW d \in Nat \ {0}, NEW k \in Int
  PROVE  (d * k) \div d = k
OBVIOUS

\* k is below n / d, or below it rounded up, as k * d compares with n.
LEMMA BelowQuotient ==
  ASSUME NEW d \in Nat \ {0}, NEW n \in Nat, NEW k \in Int
  PROVE  /\ (k < n \div d) <=> (d * (k + 1) <= n)
         /\ (k < (n + d - 1) \div d) <=> (d * k < n)
OBVIOUS

\* A common factor neither changes an order nor joins two numbers.
LEMMA Multiples ==
  ASSUME NEW d \in Nat \ {0}, NEW a \in Int, NEW b \in Int
  PROVE  /\ (a < b) <=> (d * a < d * b)
         /\ (a = b) <=> (d * a = d * b)
         /\ d * (a + b) = d * a + d * b
         /\ d * (a + 1) = d * a + d
OBVIOUS

\* There are n numbers below n.
LEMMA NumbersBelow ==
  ASSUME NEW n \in Nat
  PROVE  IsFiniteSet(0..(n - 1)) /\ Cardinality(0..(n - 1)) = n
<1>1. 0 \in Int /\ n - 1 \in Int
  OBVIOUS
<1>2. /\ IsFiniteSet(0..(n - 1))
      /\ Cardinality(0..(n - 1)) = IF 0 > n - 1 THEN 0 ELSE n - 1 - 0 + 1
  BY <1>1, FS_Interval, Zenon
<1> QED
  BY <1>2

\* A number below a limit is its own uint32_t.
LEMMA UintResult ==
  ASSUME NEW n \in Nat, n < UintLimit
  PROVE  Uint(n) = n
BY PmmSizes DEF Uint

\* Rounded down to whole bytes or words the blocks stay below their number;
\* rounded up to whole words they cover it.
LEMMA WholeWords ==
  ASSUME NEW n \in Nat
  PROVE  /\ BlocksPerByte * bitmap_size(n) \in 0..n
         /\ WordBits * (n \div WordBits) \in 0..n
         /\ WordBits * ((n + WordBits - 1) \div WordBits) \in Nat
         /\ n <= WordBits * ((n + WordBits - 1) \div WordBits)
<1>1. /\ BlocksPerByte * bitmap_size(n) \in 0..n
      /\ WordBits * (n \div WordBits) \in 0..n
  BY PmmSizes, Quotient DEF bitmap_size
<1>2. WordBits * ((n + WordBits - 1) \div WordBits) \in Nat
  BY PmmSizes
<1> DEFINE q == (n + WordBits - 1) \div WordBits
<1>3. q \in Int /\ ~(q < q)
  BY PmmSizes
<1>4. ~(WordBits * q < n)
  BY <1>3, PmmSizes, BelowQuotient
<1> QED
  BY <1>1, <1>2, <1>4

-----------------------------------------------------------------------------
(* The memory map                                                          *)

\* The fields of an entry are natural numbers.
LEMMA EntryResult ==
  ASSUME NEW m \in MemoryMaps
  PROVE  /\ Len(m) \in Nat
         /\ \A i \in 1..Len(m) : m[i].base \in Nat /\ m[i].len \in Nat
         /\ \A i \in Usable(m) : i \in 1..Len(m) /\ m[i].base \in Nat /\ m[i].len \in Nat
<1> DEFINE Entry == [base : Nat, len : Nat, type : Nat]
<1>1. m \in Seq(Entry)
  BY PmmMaps
<1>2. \A i \in 1..Len(m) : m[i] \in Entry
  <2> HIDE DEF Entry
  <2> QED
    BY <1>1, ElementOfSeq
<1>3. Len(m) \in Nat
  <2> HIDE DEF Entry
  <2> QED
    BY <1>1, LenProperties
<1> QED
  BY <1>2, <1>3 DEF Usable

\* total_mem() is a natural number that no usable region ends behind.
LEMMA TotalResult ==
  ASSUME NEW m \in MemoryMaps
  PROVE  /\ total_mem(m) \in Nat /\ total_mem(m) < UintLimit
         /\ \A i \in Usable(m) : RegionEnd(m, i) <= total_mem(m)
<1> DEFINE S == {0} \cup {RegionEnd(m, i) : i \in Usable(m)}
           U == {n \in Nat : \A x \in S : x <= n}
<1>1. WellFormed(m)
  BY PmmMaps
<1>2. \A i \in Usable(m) : RegionEnd(m, i) \in Nat /\ RegionEnd(m, i) < UintLimit
  BY <1>1, EntryResult DEF WellFormed, RegionEnd
<1>3. S \subseteq Nat /\ \A x \in S : x < UintLimit
  BY <1>2, PmmSizes
<1>4. UintLimit - 1 \in U
  BY <1>3, PmmSizes
<1>5. PICK u \in U : \A y \in U : u <= y
  <2>1. IsWellFoundedOn(OpToRel(<, Nat), Nat)
    BY NatLessThanWellFounded
  <2>2. PICK u \in U : \A y \in U : ~(<<y, u>> \in OpToRel(<, Nat))
    BY <1>4, <2>1, WFMin
  <2>3. \A y \in U : ~(y < u)
    BY <2>2 DEF OpToRel
  <2> QED
    BY <2>3
<1>6. u \in S
  <2>1. CASE u = 0
    BY <2>1
  <2>2. CASE u # 0
    <3>1. u - 1 \in Nat /\ u - 1 \notin U
      BY <1>5, <2>2
    <3>2. PICK x \in S : ~(x <= u - 1)
      BY <3>1
    <3> QED
      BY <1>3, <1>5, <3>2
  <2> QED
    BY <2>1, <2>2
<1>7. Max(S) \in S /\ \A y \in S : Max(S) >= y
  <2>1. \E x \in S : \A y \in S : x >= y
    BY <1>3, <1>5, <1>6
  <2> QED
    BY <2>1 DEF Max
<1>8. total_mem(m) = Max(S)
  BY DEF total_mem
<1> QED
  BY <1>2, <1>3, <1>7, <1>8

\* A region's blocks are an interval of blocks of the machine.
LEMMA RegionResult ==
  ASSUME NEW m \in MemoryMaps, NEW i \in Usable(m)
  PROVE  /\ i \in 1..Len(m) /\ m[i].base \in Nat /\ m[i].len \in Nat
         /\ Start(m, i) \in Nat /\ Count(m, i) \in Nat
         /\ m[i].base = BlockSize * Start(m, i)
         /\ RegionBlocks(m, i) = Start(m, i) .. (Start(m, i) + Count(m, i) - 1)
         /\ RegionBlocks(m, i) \subseteq 0..(total_mem(m) \div BlockSize - 1)
<1>1. WellFormed(m)
  BY PmmMaps
<1>2. i \in 1..Len(m) /\ m[i].base \in Nat /\ m[i].len \in Nat
  BY EntryResult
<1>3. Start(m, i) \in Nat /\ Count(m, i) \in Nat
  <2>1. m[i].len + BlockSize - 1 \in Nat
    BY <1>2, PmmSizes
  <2> QED
    BY <1>2, <2>1, PmmSizes, Quotient DEF Start, Count
<1>4. m[i].base = BlockSize * Start(m, i)
  <2>1. m[i].base % BlockSize = 0
    BY <1>1 DEF WellFormed
  <2> QED
    BY <1>2, <2>1, PmmSizes, ExactQuotient DEF Start
<1>5. \A k \in Int : (m[i].base + BlockSize * k) \div BlockSize = Start(m, i) + k
  <2> SUFFICES ASSUME NEW k \in Int
               PROVE  (m[i].base + BlockSize * k) \div BlockSize = Start(m, i) + k
    OBVIOUS
  <2>1. m[i].base + BlockSize * k = BlockSize * (Start(m, i) + k)
    BY <1>3, <1>4, PmmSizes, Multiples
  <2> QED
    BY <1>3, <2>1, PmmSizes, QuotientOfMultiple
<1>6. RegionBlocks(m, i) = Start(m, i) .. (Start(m, i) + Count(m, i) - 1)
  <2>1. RegionBlocks(m, i) = {Start(m, i) + k : k \in 0..(Count(m, i) - 1)}
    BY <1>3, <1>5 DEF RegionBlocks, Count
  <2>2. ASSUME NEW b \in Start(m, i) .. (Start(m, i) + Count(m, i) - 1)
        PROVE  b \in {Start(m, i) + k : k \in 0..(Count(m, i) - 1)}
    <3>1. b - Start(m, i) \in 0..(Count(m, i) - 1) /\ b = Start(m, i) + (b - Start(m, i))
      BY <1>3, <2>2
    <3> QED
      BY <3>1
  <2>3. ASSUME NEW k \in 0..(Count(m, i) - 1)
        PROVE  Start(m, i) + k \in Start(m, i) .. (Start(m, i) + Count(m, i) - 1)
    BY <1>3
  <2> QED
    BY <2>1, <2>2, <2>3
<1>7. ASSUME NEW b \in RegionBlocks(m, i)
      PROVE  b \in 0..(total_mem(m) \div BlockSize - 1)
  <2> DEFINE k == b - Start(m, i)
  <2>1. b \in Nat /\ k \in Nat /\ k < Count(m, i) /\ b = Start(m, i) + k
    BY <1>3, <1>6, <1>7
  <2>2. BlockSize * k < m[i].len
    BY <1>2, <2>1, PmmSizes, BelowQuotient DEF Count
  <2>3. BlockSize * b = m[i].base + BlockSize * k
    BY <1>3, <1>4, <2>1, PmmSizes, Multiples
  <2>4. BlockSize * b < total_mem(m) /\ total_mem(m) \in Nat
    BY <1>2, <2>1, <2>2, <2>3, TotalResult, PmmSizes DEF RegionEnd
  <2> DEFINE q == total_mem(m) \div BlockSize
  <2>5. q \in Nat /\ total_mem(m) = BlockSize * q
    <3>1. total_mem(m) % BlockSize = 0
      BY <1>1 DEF WellFormed
    <3> QED
      BY <2>4, <3>1, PmmSizes, ExactQuotient
  <2> HIDE DEF q
  <2>6. b < q
    BY <2>1, <2>4, <2>5, PmmSizes, Multiples
  <2>7. b \in 0..(q - 1)
    BY <2>1, <2>5, <2>6
  <2> QED
    BY <2>7 DEF q
<1> QED
  BY <1>2, <1>3, <1>4, <1>6, <1>7

\* The loop over a region visits block k as long as its offset is inside.
LEMMA CountResult ==
  ASSUME NEW m \in MemoryMaps, NEW i \in Usable(m), NEW k \in Int
  PROVE  k < Count(m, i) <=> BlockSize * k < m[i].len
BY RegionResult, PmmSizes, BelowQuotient DEF Count

\* After Measure the blocks are numbered below total_blocks, all of them have
\* a bit, and those reserved for the kernel are among them.
LEMMA BlockResult ==
  ASSUME mmap \in MemoryMaps, total_blocks = total_mem(mmap) \div BlockSize
  PROVE  /\ total_blocks \in Nat /\ total_blocks < UintLimit
         /\ total_mem(mmap) = BlockSize * total_blocks
         /\ KernelAndBitmapBlocks(total_blocks) \in 1..total_blocks
         /\ IsFiniteSet(Block) /\ Cardinality(Block) = total_blocks
         /\ Block \subseteq BitmapBits(total_blocks)
         /\ \A i \in Usable(mmap) : RegionBlocks(mmap, i) \subseteq Block
<1>1. WellFormed(mmap) /\ total_mem(mmap) \in Nat /\ total_mem(mmap) < UintLimit
  BY PmmMaps, TotalResult
<1>2. total_mem(mmap) % BlockSize = 0 /\ KernelAndBitmapBlocks(total_blocks) \in 1..total_blocks
  BY <1>1 DEF WellFormed
<1>3. /\ total_blocks \in Nat /\ total_blocks < UintLimit
      /\ total_mem(mmap) = BlockSize * total_blocks
  <2>1. total_blocks \in Nat /\ total_mem(mmap) = BlockSize * total_blocks
    BY <1>1, <1>2, PmmSizes, ExactQuotient
  <2>2. total_blocks <= total_mem(mmap)
    BY <1>1, PmmSizes, Quotient
  <2> QED
    BY <1>1, <2>1, <2>2, PmmSizes
<1>4. IsFiniteSet(Block) /\ Cardinality(Block) = total_blocks
  BY <1>3, NumbersBelow DEF Block
<1>5. Block \subseteq BitmapBits(total_blocks)
  <2> DEFINE top == WordBits * ((total_blocks + WordBits - 1) \div WordBits)
  <2>1. top \in Nat /\ total_blocks <= top
    BY <1>3, WholeWords
  <2> HIDE DEF top
  <2>2. 0..(total_blocks - 1) \subseteq 0..(top - 1)
    BY <1>3, <2>1
  <2> QED
    BY <2>2 DEF Block, BitmapBits, top
<1>6. \A i \in Usable(mmap) : RegionBlocks(mmap, i) \subseteq Block
  BY RegionResult DEF Block
<1> QED
  BY <1>2, <1>3, <1>4, <1>5, <1>6

-----------------------------------------------------------------------------
(* Each step keeps the invariant                                           *)

\* Before pmm_init() nothing is held.
LEMMA PmmInitInv == PmmInit => PmmInv
BY DEF PmmInit, PmmInv, Phases

\* The first loop and memset() keep the invariant.
LEMMA MeasureInv ==
  ASSUME PmmInv, Measure
  PROVE  PmmInv'
<1> DEFINE total == total_mem(mmap) \div BlockSize
           set == 0..(BlocksPerByte * bitmap_size(total) - 1)
<1>1. /\ phase = "measure" /\ phase' = "free" /\ mmap \in MemoryMaps /\ mmap' = mmap
      /\ total_blocks' = total /\ used_blocks' = total
      /\ region' = 1 /\ offset' = 0 /\ next' = 0 /\ held' = {}
  BY DEF PmmInv, Measure, loops
<1>2. PICK garbage \in SUBSET (BitmapBits(total) \ set) : bitmap' = set \cup garbage
  BY DEF Measure
<1>3. /\ total \in Nat
      /\ IsFiniteSet(Block') /\ Cardinality(Block') = total
      /\ Block' \subseteq BitmapBits(total)
  <2>1. total \in Nat
    BY <1>1, TotalResult, PmmSizes, Quotient
  <2>2. IsFiniteSet(Block') /\ Cardinality(Block') = total
    BY <1>1, <2>1, NumbersBelow DEF Block
  <2> DEFINE top == WordBits * ((total + WordBits - 1) \div WordBits)
  <2>3. top \in Nat /\ total <= top
    BY <2>1, WholeWords
  <2> HIDE DEF top, total
  <2>4. 0..(total - 1) \subseteq 0..(top - 1)
    BY <2>1, <2>3
  <2>5. Block' = 0..(total - 1)
    BY <1>1 DEF Block
  <2> QED
    BY <2>1, <2>2, <2>4, <2>5 DEF BitmapBits, top
<1>4. set \subseteq Block'
  <2>1. BlocksPerByte * bitmap_size(total) \in 0..total
    BY <1>3, WholeWords
  <2> HIDE DEF total
  <2>2. Block' = 0..(total - 1)
    BY <1>1 DEF Block, total
  <2> QED
    BY <1>3, <2>1, <2>2
<1>5. Freed' = {}
  <2>1. ASSUME NEW i \in Usable(mmap)
        PROVE  Start(mmap, i) .. (Start(mmap, i) + (Visited(i))' - 1) = {}
    <3>1. i \in 1..Len(mmap) /\ Start(mmap, i) \in Nat
      BY <1>1, RegionResult
    <3>2. (Visited(i))' = 0
      BY <1>1, <3>1, PmmSizes, EntryResult DEF Visited
    <3> QED
      BY <3>1, <3>2
  <2> QED
    BY <1>1, <2>1 DEF Freed
<1>6. Freeing'
  <2>1. region' \in 1..(Len(mmap') + 1) /\ offset' = BlockSize * (offset' \div BlockSize)
    BY <1>1, EntryResult, PmmSizes
  <2>2. \A b \in set : b \in bitmap'
    BY <1>2
  <2>3. used_blocks' = Cardinality(Block' \ Freed')
    <3>1. Block' \ Freed' = Block'
      BY <1>5
    <3> QED
      BY <1>1, <1>3, <3>1
  <2> QED
    BY <1>1, <1>5, <2>1, <2>2, <2>3 DEF Freeing
<1>7. bitmap' \subseteq BitmapBits(total)
  BY <1>2, <1>3, <1>4
<1> QED
  BY <1>1, <1>6, <1>7 DEF PmmInv, Phases

\* No region has visited more blocks than it has, so every block freed is RAM.
LEMMA VisitedResult ==
  ASSUME mmap \in MemoryMaps, Freeing, NEW i \in Usable(mmap)
  PROVE  /\ Visited(i) \in 0..Count(mmap, i)
         /\ Start(mmap, i) .. (Start(mmap, i) + Visited(i) - 1) \subseteq RegionBlocks(mmap, i)
<1>1. Start(mmap, i) \in Nat /\ Count(mmap, i) \in Nat /\ i \in 1..Len(mmap)
  BY RegionResult
<1>2. offset \div BlockSize \in Nat
  BY PmmSizes, Quotient DEF Freeing
<1>3. i = region => offset \div BlockSize <= Count(mmap, i)
  <2>1. CASE offset > 0
    BY <2>1 DEF Freeing
  <2>2. CASE offset = 0
    BY <1>1, <2>2, PmmSizes
  <2> QED
    BY <2>1, <2>2 DEF Freeing
<1>4. Visited(i) \in 0..Count(mmap, i)
  BY <1>1, <1>2, <1>3 DEF Visited
<1> QED
  BY <1>1, <1>4, RegionResult

\* Two regions share no block.
LEMMA RegionsApart ==
  ASSUME NEW m \in MemoryMaps, NEW i \in Usable(m), NEW j \in Usable(m), i # j
  PROVE  RegionBlocks(m, i) \cap RegionBlocks(m, j) = {}
BY PmmMaps DEF WellFormed

\* One iteration of the loop that frees a usable region.
LEMMA FreeStepInv ==
  ASSUME PmmInv, FreeStep
  PROVE  PmmInv'
<1> DEFINE k == offset \div BlockSize
<1>1. /\ phase = "free" /\ phase' = "free" /\ mmap \in MemoryMaps /\ mmap' = mmap
      /\ total_blocks = total_mem(mmap) \div BlockSize /\ total_blocks' = total_blocks
      /\ region <= Len(mmap) /\ next = 0 /\ next' = 0 /\ held = {} /\ held' = {}
      /\ Freeing
  BY DEF PmmInv, FreeStep, Freeing
<1>2. /\ region \in 1..Len(mmap) /\ Len(mmap) \in Nat
      /\ offset \in Nat /\ k \in Nat /\ offset = BlockSize * k
  <2>1. region \in 1..Len(mmap) /\ Len(mmap) \in Nat
    BY <1>1, EntryResult DEF Freeing
  <2>2. offset \in Nat /\ offset = BlockSize * k
    BY <1>1 DEF Freeing
  <2>3. k \in Nat
    BY <2>2, PmmSizes, Quotient
  <2> QED
    BY <2>1, <2>2, <2>3
<1> HIDE DEF k
<1>3. Block' = Block /\ (mmap[region].type = 1 <=> region \in Usable(mmap))
  BY <1>1, <1>2 DEF Block, Usable
<1>4. CASE mmap[region].type = 1 /\ offset < mmap[region].len
  <2> DEFINE b == (mmap[region].base + offset) \div BlockSize
  <2>1. /\ bitmap' = bitmap \ {b} /\ used_blocks' = Uint(used_blocks - 1)
        /\ offset' = offset + BlockSize /\ region' = region
    BY <1>4 DEF FreeStep
  <2>2. /\ region \in Usable(mmap) /\ mmap[region].len \in Nat
        /\ Start(mmap, region) \in Nat /\ Count(mmap, region) \in Nat
        /\ mmap[region].base = BlockSize * Start(mmap, region)
        /\ RegionBlocks(mmap, region)
             = Start(mmap, region) .. (Start(mmap, region) + Count(mmap, region) - 1)
    BY <1>1, <1>3, <1>4, RegionResult
  <2>3. b = Start(mmap, region) + k
    <3>1. mmap[region].base + offset = BlockSize * (Start(mmap, region) + k)
      BY <1>2, <2>2, PmmSizes, Multiples
    <3>2. Start(mmap, region) + k \in Int
      BY <1>2, <2>2
    <3> QED
      BY <3>1, <3>2, PmmSizes, QuotientOfMultiple
  <2>4. k < Count(mmap, region)
    BY <1>1, <1>2, <1>4, <2>2, CountResult
  <2>5. b \in RegionBlocks(mmap, region) /\ b \in Block
    BY <1>1, <1>2, <2>2, <2>3, <2>4, BlockResult
  <2>6. offset' \div BlockSize = k + 1 /\ offset' = BlockSize * (k + 1) /\ offset' \in Nat
    <3>1. offset' = BlockSize * (k + 1)
      BY <1>2, <2>1, PmmSizes, Multiples
    <3>2. k + 1 \in Int
      BY <1>2
    <3> QED
      BY <1>2, <2>1, <3>1, <3>2, PmmSizes, QuotientOfMultiple
  <2> HIDE DEF b
  <2>7. ASSUME NEW i \in Usable(mmap)
        PROVE  (Visited(i))' = IF i = region THEN k + 1 ELSE Visited(i)
    BY <1>1, <2>1, <2>6, RegionResult DEF Visited
  <2>8. Visited(region) = k
    BY <1>2 DEF Visited, k
  <2>9. b \notin Freed
    <3>1. ASSUME NEW i \in Usable(mmap), b \in Start(mmap, i) .. (Start(mmap, i) + Visited(i) - 1)
          PROVE  FALSE
      <4>1. CASE i = region
        BY <1>2, <2>2, <2>3, <2>8, <3>1, <4>1
      <4>2. CASE i # region
        BY <1>1, <2>2, <2>5, <3>1, <4>2, VisitedResult, RegionsApart
      <4> QED
        BY <4>1, <4>2
    <3> QED
      BY <3>1 DEF Freed
  <2>10. Freed' = Freed \cup {b}
    <3>1. ASSUME NEW i \in Usable(mmap), i # region
          PROVE  Start(mmap, i) .. (Start(mmap, i) + (Visited(i))' - 1)
                   = Start(mmap, i) .. (Start(mmap, i) + Visited(i) - 1)
      BY <2>7, <3>1
    <3>2. Start(mmap, region) .. (Start(mmap, region) + (k + 1) - 1)
            = (Start(mmap, region) .. (Start(mmap, region) + k - 1)) \cup {b}
      BY <1>2, <2>2, <2>3, SMTT(30)
    <3>3. Freed' = {c \in Block : \E i \in Usable(mmap) :
                      c \in Start(mmap, i) .. (Start(mmap, i) + (Visited(i))' - 1)}
      BY <1>1, <1>3 DEF Freed
    <3>4. ASSUME NEW c \in Block
          PROVE  c \in Freed' <=> c \in Freed \/ c = b
      <4>1. ASSUME NEW i \in Usable(mmap)
            PROVE  c \in Start(mmap, i) .. (Start(mmap, i) + (Visited(i))' - 1)
                     <=> \/ c \in Start(mmap, i) .. (Start(mmap, i) + Visited(i) - 1)
                         \/ i = region /\ c = b
        <5>1. CASE i # region
          BY <3>1, <5>1
        <5>2. CASE i = region
          <6>1. (Visited(i))' = k + 1 /\ Visited(i) = k
            BY <2>7, <2>8, <5>2
          <6> QED
            BY <3>2, <5>2, <6>1
        <5> QED
          BY <5>1, <5>2
      <4> QED
        BY <2>2, <3>3, <4>1, Zenon DEF Freed
    <3>5. Freed' \subseteq Block /\ Freed \subseteq Block
      BY <3>3 DEF Freed
    <3> QED
      BY <2>5, <3>4, <3>5
  <2>11. used_blocks' = Cardinality(Block \ Freed')
    <3>1. IsFiniteSet(Block) /\ Cardinality(Block) = total_blocks /\ total_blocks < UintLimit
          /\ total_blocks \in Nat
      BY <1>1, BlockResult
    <3>2. IsFiniteSet(Block \ Freed) /\ Cardinality(Block \ Freed) <= total_blocks
      BY <3>1, FS_Subset
    <3>3. /\ IsFiniteSet((Block \ Freed) \ {b})
          /\ Cardinality((Block \ Freed) \ {b}) = Cardinality(Block \ Freed) - 1
      BY <2>5, <2>9, <3>2, FS_RemoveElement
    <3>4. (Block \ Freed) \ {b} = Block \ Freed'
      BY <2>10
    <3>5. Cardinality(Block \ Freed) \in Nat /\ Cardinality(Block \ Freed') \in Nat
      BY <3>2, <3>3, <3>4, FS_CardinalityType
    <3>6. used_blocks = Cardinality(Block \ Freed)
      BY <1>1 DEF Freeing
    <3>7. used_blocks - 1 = Cardinality(Block \ Freed')
      BY <3>3, <3>4, <3>6
    <3>8. used_blocks - 1 \in Nat /\ used_blocks - 1 < UintLimit
      BY <3>1, <3>2, <3>5, <3>6, <3>7, PmmSizes
    <3> QED
      BY <2>1, <3>7, <3>8, UintResult
  <2>12. Freeing'
    <3>1. /\ region' \in 1..(Len(mmap') + 1) /\ region' \in Usable(mmap')
          /\ offset' \in Nat /\ offset' = BlockSize * (offset' \div BlockSize)
          /\ offset' \div BlockSize <= Count(mmap', region')
      BY <1>1, <1>2, <2>1, <2>2, <2>4, <2>6
    <3>2. bitmap' \cap Freed' = {}
      BY <1>1, <2>1, <2>10 DEF Freeing
    <3>3. \A c \in 0..(BlocksPerByte * bitmap_size(total_blocks') - 1) : c \in bitmap' \/ c \in Freed'
      BY <1>1, <2>1, <2>10 DEF Freeing
    <3> QED
      BY <1>1, <1>3, <2>11, <3>1, <3>2, <3>3 DEF Freeing
  <2>13. bitmap' \subseteq BitmapBits(total_blocks')
    BY <1>1, <2>1 DEF PmmInv
  <2> QED
    BY <1>1, <2>12, <2>13 DEF PmmInv, Phases
<1>5. CASE ~(mmap[region].type = 1 /\ offset < mmap[region].len)
  <2>1. region' = region + 1 /\ offset' = 0 /\ bitmap' = bitmap /\ used_blocks' = used_blocks
    BY <1>5 DEF FreeStep
  <2>2. ASSUME region \in Usable(mmap)
        PROVE  k = Count(mmap, region)
    <3>1. mmap[region].len \in Nat /\ mmap[region].len > 0 /\ Count(mmap, region) \in Nat
      BY <1>1, <2>2, RegionResult, PmmMaps DEF WellFormed
    <3>2. ~(offset < mmap[region].len) /\ offset > 0
      BY <1>2, <1>3, <1>5, <2>2, <3>1
    <3>3. ~(k < Count(mmap, region))
      BY <1>1, <1>2, <2>2, <3>2, CountResult
    <3>4. k <= Count(mmap, region)
      BY <1>1, <3>2 DEF Freeing, k
    <3> QED
      BY <1>2, <3>1, <3>3, <3>4
  <2>3. ASSUME NEW i \in Usable(mmap)
        PROVE  (Visited(i))' = Visited(i)
    <3>1. i \in 1..Len(mmap)
      BY <1>1, RegionResult
    <3>2. 0 \div BlockSize = 0
      BY PmmSizes
    <3>3. CASE i = region
      BY <1>1, <1>2, <2>1, <2>2, <3>3 DEF Visited, k
    <3>4. CASE i < region
      BY <1>1, <1>2, <2>1, <3>1, <3>4 DEF Visited
    <3>5. CASE i > region
      BY <1>1, <1>2, <2>1, <3>1, <3>2, <3>5 DEF Visited
    <3> QED
      BY <1>2, <3>1, <3>3, <3>4, <3>5
  <2>4. Freed' = Freed
    BY <1>1, <1>3, <2>3 DEF Freed
  <2>5. Freeing'
    <3>1. region' \in 1..(Len(mmap') + 1) /\ offset' = BlockSize * (offset' \div BlockSize)
      BY <1>1, <1>2, <2>1, PmmSizes
    <3> QED
      BY <1>1, <1>3, <2>1, <2>4, <3>1 DEF Freeing
  <2> QED
    BY <1>1, <2>1, <2>5 DEF PmmInv, Phases
<1> QED
  BY <1>4, <1>5

\* That loop ends.
LEMMA FreeDoneInv ==
  ASSUME PmmInv, FreeDone
  PROVE  PmmInv'
<1>1. /\ phase = "free" /\ phase' = "reserve" /\ mmap \in MemoryMaps /\ mmap' = mmap
      /\ total_blocks = total_mem(mmap) \div BlockSize /\ total_blocks' = total_blocks
      /\ region > Len(mmap) /\ next = 0 /\ next' = 0 /\ held = {} /\ held' = {}
      /\ bitmap' = bitmap /\ used_blocks' = used_blocks
      /\ Freeing /\ bitmap \subseteq BitmapBits(total_blocks)
  BY DEF PmmInv, FreeDone, Freeing, loops
<1>2. Freed = Block \cap Ram(mmap)
  <2>1. ASSUME NEW i \in Usable(mmap)
        PROVE  Start(mmap, i) .. (Start(mmap, i) + Visited(i) - 1) = RegionBlocks(mmap, i)
    <3>1. i \in 1..Len(mmap) /\ Len(mmap) \in Nat /\ region \in Int
      BY <1>1, EntryResult DEF Freeing
    <3>2. Visited(i) = Count(mmap, i)
      BY <1>1, <3>1 DEF Visited
    <3> QED
      BY <1>1, <3>2, RegionResult
  <2> QED
    BY <2>1 DEF Freed, Ram
<1>3. Block \cap bitmap = Block \ Freed
  <2>1. ASSUME NEW b \in Block, b \notin Freed
        PROVE  b \in bitmap
    <3> DEFINE top == BlocksPerByte * bitmap_size(total_blocks)
    <3>1. top \in 0..total_blocks /\ total_blocks \in Nat
      BY <1>1, BlockResult, WholeWords
    <3>2. \A c \in top..(total_blocks - 1) : \E i \in Usable(mmap) : c \in RegionBlocks(mmap, i)
      BY <1>1, PmmMaps DEF WellFormed
    <3>3. b \notin top..(total_blocks - 1)
      BY <1>2, <2>1, <3>2 DEF Ram
    <3> HIDE DEF top
    <3>4. b \in 0..(top - 1)
      BY <3>1, <3>3 DEF Block
    <3> QED
      BY <1>1, <2>1, <3>4 DEF Freeing, top
  <2> QED
    BY <1>1, <2>1 DEF Freeing
<1>4. Reserving'
  <2>1. Block' = Block /\ 0 \in 0..KernelAndBitmapBlocks(total_blocks)
    BY <1>1, BlockResult DEF Block
  <2>2. Block \cap bitmap = {b \in Block : b < 0 \/ b \notin Ram(mmap)}
    <3>1. \A b \in Block : ~(b < 0)
      BY <1>1, BlockResult DEF Block
    <3> QED
      BY <1>2, <1>3, <3>1
  <2>3. used_blocks = Cardinality(Block \cap bitmap)
    BY <1>1, <1>3 DEF Freeing
  <2> QED
    BY <1>1, <2>1, <2>2, <2>3 DEF Reserving
<1> QED
  BY <1>1, <1>4 DEF PmmInv, Phases

\* Setting the bit of a free block adds one to the number of bits set, which
\* stays a uint32_t; clearing one takes one away.
LEMMA SetBit ==
  ASSUME mmap \in MemoryMaps, total_blocks = total_mem(mmap) \div BlockSize,
         NEW b \in Block, b \notin bitmap, used_blocks = Cardinality(Block \cap bitmap)
  PROVE  Uint(used_blocks + 1) = Cardinality(Block \cap (bitmap \cup {b}))
<1>1. IsFiniteSet(Block) /\ Cardinality(Block) = total_blocks
      /\ total_blocks < UintLimit /\ total_blocks \in Nat
  BY BlockResult
<1>2. IsFiniteSet(Block \cap bitmap)
  BY <1>1, FS_Subset
<1>3. Block \cap (bitmap \cup {b}) = (Block \cap bitmap) \cup {b}
  OBVIOUS
<1>4. Cardinality((Block \cap bitmap) \cup {b}) = Cardinality(Block \cap bitmap) + 1
  BY <1>2, FS_AddElement
<1>5. Cardinality(Block \cap (bitmap \cup {b})) <= total_blocks
  BY <1>1, FS_Subset
<1>6. Cardinality(Block \cap bitmap) \in Nat
  BY <1>2, FS_CardinalityType
<1>7. used_blocks + 1 \in Nat /\ used_blocks + 1 < UintLimit
  BY <1>1, <1>3, <1>4, <1>5, <1>6, PmmSizes
<1> QED
  BY <1>3, <1>4, <1>7, UintResult

\* Clearing a set bit takes one off the count, which does not wrap.
LEMMA ClearBit ==
  ASSUME mmap \in MemoryMaps, total_blocks = total_mem(mmap) \div BlockSize,
         NEW b \in Block, b \in bitmap, used_blocks = Cardinality(Block \cap bitmap)
  PROVE  Uint(used_blocks - 1) = Cardinality(Block \cap (bitmap \ {b}))
<1>1. IsFiniteSet(Block) /\ Cardinality(Block) = total_blocks
      /\ total_blocks < UintLimit /\ total_blocks \in Nat
  BY BlockResult
<1>2. IsFiniteSet(Block \cap bitmap) /\ Cardinality(Block \cap bitmap) <= total_blocks
  BY <1>1, FS_Subset
<1>3. Block \cap (bitmap \ {b}) = (Block \cap bitmap) \ {b}
  OBVIOUS
<1>4. /\ IsFiniteSet((Block \cap bitmap) \ {b})
      /\ Cardinality((Block \cap bitmap) \ {b}) = Cardinality(Block \cap bitmap) - 1
  BY <1>2, FS_RemoveElement
<1>5. Cardinality((Block \cap bitmap) \ {b}) \in Nat /\ Cardinality(Block \cap bitmap) \in Nat
  BY <1>2, <1>4, FS_CardinalityType
<1>6. used_blocks - 1 \in Nat /\ used_blocks - 1 < UintLimit
  BY <1>1, <1>2, <1>4, <1>5, PmmSizes
<1> QED
  BY <1>3, <1>4, <1>6, UintResult

\* One iteration of the loop that reserves kernel and bitmap.
LEMMA ReserveStepInv ==
  ASSUME PmmInv, ReserveStep
  PROVE  PmmInv'
<1>1. /\ phase = "reserve" /\ phase' = "reserve" /\ mmap \in MemoryMaps /\ mmap' = mmap
      /\ total_blocks = total_mem(mmap) \div BlockSize /\ total_blocks' = total_blocks
      /\ next < KernelAndBitmapBlocks(total_blocks) /\ next' = next + 1
      /\ held = {} /\ held' = {}
      /\ Reserving /\ bitmap \subseteq BitmapBits(total_blocks)
  BY DEF PmmInv, ReserveStep
<1>2. /\ KernelAndBitmapBlocks(total_blocks) \in 1..total_blocks /\ total_blocks \in Nat
      /\ next \in Nat /\ next \in Block /\ next \in BitmapBits(total_blocks) /\ Block' = Block
      /\ next + 1 \in 0..KernelAndBitmapBlocks(total_blocks)
  <2>1. KernelAndBitmapBlocks(total_blocks) \in 1..total_blocks /\ total_blocks \in Nat
    BY <1>1, BlockResult
  <2>2. next \in Nat /\ next \in Block /\ next + 1 \in 0..KernelAndBitmapBlocks(total_blocks)
    BY <1>1, <2>1 DEF Reserving, Block
  <2> QED
    BY <1>1, <2>1, <2>2, BlockResult DEF Block
<1>3. \A b \in Block : b < next + 1 <=> b < next \/ b = next
  BY <1>2 DEF Block
<1>4. Block \cap bitmap = {b \in Block : b < next \/ b \notin Ram(mmap)}
  BY <1>1 DEF Reserving
<1>5. CASE next \in bitmap
  <2>1. bitmap' = bitmap /\ used_blocks' = used_blocks
    BY <1>5 DEF ReserveStep
  <2>2. Block \cap bitmap = {b \in Block : b < next + 1 \/ b \notin Ram(mmap)}
    BY <1>2, <1>3, <1>4, <1>5
  <2>3. Reserving'
    BY <1>1, <1>2, <2>1, <2>2 DEF Reserving
  <2> QED
    BY <1>1, <2>1, <2>3 DEF PmmInv, Phases
<1>6. CASE next \notin bitmap
  <2>1. bitmap' = bitmap \cup {next} /\ used_blocks' = Uint(used_blocks + 1)
    BY <1>6 DEF ReserveStep
  <2>2. Block \cap bitmap' = {b \in Block : b < next + 1 \/ b \notin Ram(mmap)}
    BY <1>2, <1>3, <1>4, <2>1
  <2>3. used_blocks' = Cardinality(Block \cap bitmap')
    BY <1>1, <1>2, <1>6, <2>1, SetBit DEF Reserving
  <2>4. Reserving'
    BY <1>1, <1>2, <2>2, <2>3 DEF Reserving
  <2> QED
    BY <1>1, <1>2, <2>1, <2>4 DEF PmmInv, Phases
<1> QED
  BY <1>5, <1>6

\* pmm_init() ends.
LEMMA ReserveDoneInv ==
  ASSUME PmmInv, ReserveDone
  PROVE  PmmInv'
<1>1. /\ phase = "reserve" /\ phase' = "ready" /\ mmap \in MemoryMaps /\ mmap' = mmap
      /\ total_blocks = total_mem(mmap) \div BlockSize /\ total_blocks' = total_blocks
      /\ next >= KernelAndBitmapBlocks(total_blocks)
      /\ bitmap' = bitmap /\ used_blocks' = used_blocks /\ held = {} /\ held' = {}
      /\ Reserving /\ bitmap \subseteq BitmapBits(total_blocks)
  BY DEF PmmInv, ReserveDone
<1>2. next = KernelAndBitmapBlocks(total_blocks)
  <2>1. KernelAndBitmapBlocks(total_blocks) \in 1..total_blocks /\ total_blocks \in Nat
    BY <1>1, BlockResult
  <2> QED
    BY <1>1, <2>1 DEF Reserving
<1>3. Block \cap bitmap = Marked
  BY <1>1, <1>2 DEF Reserving, Marked
<1>4. Block' = Block /\ Marked' = Marked /\ HeldFrames' = {}
  BY <1>1 DEF Block, Marked, HeldFrames
<1>5. Serving'
  BY <1>1, <1>3, <1>4 DEF Serving, Accounting, Reserving
<1> QED
  BY <1>1, <1>5 DEF PmmInv, Phases

\* A set of naturals that is not empty contains its minimum.
LEMMA MinResult ==
  ASSUME NEW S \in SUBSET Nat, S # {}
  PROVE  Min(S) \in S
<1>1. IsWellFoundedOn(OpToRel(<, Nat), Nat)
  BY NatLessThanWellFounded
<1>2. PICK x \in S : \A y \in S : ~(<<y, x>> \in OpToRel(<, Nat))
  BY <1>1, WFMin
<1>3. \A y \in S : ~(y < x)
  BY <1>2 DEF OpToRel
<1>4. \E z \in S : \A y \in S : z <= y
  BY <1>3
<1> QED
  BY <1>4 DEF Min

\* find_first_free() returns a block whose bit is clear, whose address is a
\* uint32_t, or -1.
LEMMA FirstFreeResult ==
  ASSUME mmap \in MemoryMaps, total_blocks = total_mem(mmap) \div BlockSize,
         find_first_free # -1
  PROVE  /\ find_first_free \in Block /\ find_first_free \notin bitmap
         /\ Uint(find_first_free * BlockSize) = BlockSize * find_first_free
<1>1. total_blocks \in Nat /\ total_mem(mmap) = BlockSize * total_blocks
  BY BlockResult
<1>2. ScannedBits \subseteq Block /\ ScannedBits \subseteq Nat
  <2> DEFINE top == WordBits * (total_blocks \div WordBits)
  <2>1. top \in 0..total_blocks
    BY <1>1, WholeWords
  <2> HIDE DEF top
  <2>2. 0..(top - 1) \subseteq 0..(total_blocks - 1) /\ 0..(top - 1) \subseteq Nat
    BY <1>1, <2>1
  <2> QED
    BY <2>2 DEF ScannedBits, Block, top
<1>3. find_first_free \in ScannedBits \ bitmap
  <2>1. ScannedBits \ bitmap # {} /\ find_first_free = Min(ScannedBits \ bitmap)
    BY DEF find_first_free
  <2> QED
    BY <1>2, <2>1, MinResult
<1> DEFINE f == find_first_free
<1>4. f \in Block /\ f \notin bitmap
  BY <1>2, <1>3
<1> HIDE DEF f
<1>5. f \in Nat /\ f < total_blocks
  BY <1>1, <1>4 DEF Block
<1>6. f * BlockSize = BlockSize * f /\ BlockSize * f \in Nat
  BY <1>5, PmmSizes
<1>7. BlockSize * f < BlockSize * total_blocks
  BY <1>1, <1>5, PmmSizes, Multiples
<1>8. BlockSize * f < UintLimit
  BY <1>1, <1>6, <1>7, TotalResult, PmmSizes
<1> QED
  BY <1>4, <1>6, <1>8, UintResult DEF f

\* pmm_alloc_block() keeps the invariant, whether it finds a block or not.
LEMMA pmm_alloc_blockInv ==
  ASSUME PmmInv, pmm_alloc_block
  PROVE  PmmInv'
<1>1. /\ phase = "ready" /\ phase' = "ready" /\ mmap \in MemoryMaps /\ mmap' = mmap
      /\ total_blocks = total_mem(mmap) \div BlockSize /\ total_blocks' = total_blocks
      /\ Serving /\ bitmap \subseteq BitmapBits(total_blocks)
  BY DEF PmmInv, pmm_alloc_block
<1>2. Block' = Block /\ Marked' = Marked
  BY <1>1 DEF Block, Marked
<1>3. CASE UNCHANGED <<used_blocks, bitmap, held>>
  <2>1. HeldFrames' = HeldFrames
    BY <1>3 DEF HeldFrames
  <2>2. Serving'
    BY <1>1, <1>2, <1>3, <2>1 DEF Serving, Accounting
  <2> QED
    BY <1>1, <1>3, <2>2 DEF PmmInv, Phases
<1>4. CASE /\ find_first_free # -1
           /\ bitmap' = bitmap \cup {find_first_free}
           /\ used_blocks' = Uint(used_blocks + 1)
           /\ ret' = Uint(find_first_free * BlockSize)
           /\ held' = held \cup {ret'}
  <2> DEFINE f == find_first_free
  <2>1. f \in Block /\ f \notin bitmap /\ ret' = BlockSize * f
    BY <1>1, <1>4, FirstFreeResult
  <2>2. /\ bitmap' = bitmap \cup {f} /\ used_blocks' = Uint(used_blocks + 1)
        /\ held' = held \cup {BlockSize * f}
    BY <1>4, <2>1
  <2> HIDE DEF f
  <2>3. (BlockSize * f) \div BlockSize = f
    <3>1. f \in Int
      BY <1>1, <2>1, BlockResult DEF Block
    <3> QED
      BY <3>1, PmmSizes, QuotientOfMultiple
  <2>4. HeldFrames' = HeldFrames \cup {f}
    BY <2>2, <2>3 DEF HeldFrames
  <2>5. /\ Block \cap bitmap = Marked \cup HeldFrames
        /\ Marked \cap HeldFrames = {}
    BY <1>1 DEF Serving
  <2>6. /\ Block \cap bitmap' = Marked \cup (HeldFrames \cup {f})
        /\ Marked \cap (HeldFrames \cup {f}) = {}
    BY <2>1, <2>2, <2>5
  <2>7. used_blocks' = Cardinality(Block \cap bitmap')
    BY <1>1, <2>1, <2>2, SetBit DEF Serving, Accounting
  <2>8. bitmap' \subseteq BitmapBits(total_blocks')
    BY <1>1, <2>1, <2>2, BlockResult
  <2>9. \A block \in held' : \E g \in Block' : block = BlockSize * g
    BY <1>1, <1>2, <2>1, <2>2 DEF Serving
  <2>10. Serving'
    BY <1>1, <1>2, <2>4, <2>6, <2>7, <2>8, <2>9 DEF Serving, Accounting
  <2> QED
    BY <1>1, <2>8, <2>10 DEF PmmInv, Phases
<1> QED
  BY <1>3, <1>4 DEF pmm_alloc_block

\* pmm_free_block() keeps it for a block that is held.
LEMMA pmm_free_blockInv ==
  ASSUME PmmInv, NEW block \in held, pmm_free_block(block)
  PROVE  PmmInv'
<1>1. /\ phase = "ready" /\ phase' = "ready" /\ mmap \in MemoryMaps /\ mmap' = mmap
      /\ total_blocks = total_mem(mmap) \div BlockSize /\ total_blocks' = total_blocks
      /\ held' = held \ {block}
      /\ Serving /\ bitmap \subseteq BitmapBits(total_blocks)
  BY DEF PmmInv, pmm_free_block
<1>2. Block' = Block /\ Marked' = Marked
  BY <1>1 DEF Block, Marked
<1>3. Block \subseteq Int
  BY <1>1, BlockResult DEF Block
<1>4. PICK f \in Block : block = BlockSize * f
  BY <1>1 DEF Serving
<1>5. \A g \in Block : (BlockSize * g) \div BlockSize = g /\ (BlockSize * g = block <=> g = f)
  BY <1>3, <1>4, PmmSizes, QuotientOfMultiple, Multiples
<1>6. block \div BlockSize = f /\ f \in HeldFrames
  BY <1>4, <1>5 DEF HeldFrames
<1>7. /\ Block \cap bitmap = Marked \cup HeldFrames
      /\ Marked \cap HeldFrames = {}
  BY <1>1 DEF Serving
<1>8. f \in bitmap
  BY <1>4, <1>6, <1>7
<1>9. bitmap' = bitmap \ {f} /\ used_blocks' = Uint(used_blocks - 1)
  BY <1>6, <1>8 DEF pmm_free_block
<1>10. HeldFrames' = HeldFrames \ {f}
  <2>1. ASSUME NEW c \in held
        PROVE  c \div BlockSize = f <=> c = block
    BY <1>1, <1>4, <1>5, <2>1 DEF Serving
  <2> QED
    BY <1>1, <2>1 DEF HeldFrames
<1>11. /\ Block \cap bitmap' = Marked \cup (HeldFrames \ {f})
       /\ Marked \cap (HeldFrames \ {f}) = {}
  BY <1>6, <1>7, <1>9
<1>12. used_blocks' = Cardinality(Block \cap bitmap')
  BY <1>1, <1>8, <1>9, ClearBit DEF Serving, Accounting
<1>13. bitmap' \subseteq BitmapBits(total_blocks')
  BY <1>1, <1>9
<1>14. Serving'
  BY <1>1, <1>2, <1>10, <1>11, <1>12, <1>13 DEF Serving, Accounting
<1> QED
  BY <1>1, <1>13, <1>14 DEF PmmInv, Phases

-----------------------------------------------------------------------------
(* The theorems                                                            *)

\* Every step keeps the invariant.
LEMMA PmmStepInv == PmmInv /\ [PmmNext]_pmmvars => PmmInv'
<1> SUFFICES ASSUME PmmInv, [PmmNext]_pmmvars
             PROVE  PmmInv'
  OBVIOUS
<1>1. CASE UNCHANGED pmmvars
  BY <1>1 DEF pmmvars, loops, PmmInv, Freeing, Reserving, Serving, Freed, Visited, Block,
              Accounting, Marked, HeldFrames
<1>2. CASE PmmNext
  <2>1. CASE Measure
    BY <2>1, MeasureInv
  <2>2. CASE FreeStep
    BY <2>2, FreeStepInv
  <2>3. CASE FreeDone
    BY <2>3, FreeDoneInv
  <2>4. CASE ReserveStep
    BY <2>4, ReserveStepInv
  <2>5. CASE ReserveDone
    BY <2>5, ReserveDoneInv
  <2>6. CASE pmm_alloc_block
    BY <2>6, pmm_alloc_blockInv
  <2>7. CASE \E block \in held : pmm_free_block(block)
    BY <2>7, pmm_free_blockInv
  <2> QED
    BY <1>2, <2>1, <2>2, <2>3, <2>4, <2>5, <2>6, <2>7 DEF PmmNext
<1> QED
  BY <1>1, <1>2

\* Through all of pmm_init() and every sequence of pmm_alloc_block() and
\* pmm_free_block(), the invariant holds.
THEOREM PmmInvariance == PmmSpec => []PmmInv
<1>1. PmmInit => PmmInv
  BY PmmInitInv
<1>2. PmmInv /\ [PmmNext]_pmmvars => PmmInv'
  BY PmmStepInv
<1> QED
  BY <1>1, <1>2, PTL DEF PmmSpec

\* used_blocks is always the number of bits set once pmm_init() is done: the
\* uint32_t never wraps, whatever is allocated and freed.
THEOREM AccountingCorrect == PmmSpec => []Accounting
<1>1. PmmInv => Accounting
  BY DEF PmmInv, Phases, Serving, Accounting
<1> QED
  BY <1>1, PmmInvariance, PTL

\* The number of blocks pmm_init() computes marks each block with a byte of
\* kernel or bitmap, the one in which the bitmap ends excepted.
LEMMA MarkedResult ==
  ASSUME mmap \in MemoryMaps, total_blocks = total_mem(mmap) \div BlockSize
  PROVE  Marked = ReservedBlocks \ LeftOut
<1> DEFINE whole == bitmap_size(total_blocks)
           all == (total_blocks + BlocksPerByte - 1) \div BlocksPerByte
           kernel == KernelAndBitmapBlocks(total_blocks)
<1>1. total_blocks \in Nat /\ BlocksPerByte \in Nat \ {0} /\ BlockSize \in Nat \ {0}
      /\ KernelEnd \in Nat
  BY BlockResult, PmmSizes
<1>2. whole \in Nat /\ all \in Nat /\ whole <= all /\ all <= whole + 1
  BY <1>1 DEF bitmap_size
<1>3. kernel \in Nat /\ kernel = (KernelEnd + whole) \div BlockSize
  BY <1>1, <1>2 DEF KernelAndBitmapBlocks
<1>4. BitmapEnd = KernelEnd + all
  BY DEF BitmapEnd
<1> HIDE DEF whole, all, kernel
<1>5. ASSUME NEW b \in Block
      PROVE  /\ b < kernel <=> ~(BlockSize * (b + 1) > KernelEnd + whole)
             /\ b < kernel => BlockSize * b < BitmapEnd
  <2>1. PICK n \in Nat, x \in Int, y \in Int :
          n = KernelEnd + whole /\ x = BlockSize * b /\ y = BlockSize * (b + 1)
    BY <1>1, <1>2 DEF Block
  <2>2. y = x + BlockSize
    BY <1>1, <2>1, Multiples DEF Block
  <2>3. b < kernel <=> y <= n
    BY <1>1, <1>3, <2>1, BelowQuotient DEF Block
  <2> QED
    BY <1>1, <1>2, <1>4, <2>1, <2>2, <2>3
<1>6. UnusableBlocks = {b \in Block : b \notin Ram(mmap)}
  BY DEF UnusableBlocks, Ram
<1>7. /\ Marked = {b \in Block : b < kernel} \cup UnusableBlocks
      /\ LeftOut = {b \in OccupiedBlocks \ UnusableBlocks : BlockSize * (b + 1) > KernelEnd + whole}
  BY <1>6 DEF Marked, LeftOut, kernel, whole
<1> QED
  BY <1>5, <1>7 DEF ReservedBlocks, OccupiedBlocks

\* set_block() and clear_block() stay inside the bitmap, and after pmm_init()
\* a block's bit is set exactly when it is held or reserved, never both, where
\* every block with a byte of kernel or bitmap counts as reserved but the one
\* block in which the bitmap ends.
THEOREM BitmapCorrect == PmmSpec => []BitmapIsExact
<1>1. PmmInv => BitmapIsExact
  BY MarkedResult DEF PmmInv, Phases, Serving, BitmapIsExact
<1> QED
  BY <1>1, PmmInvariance, PTL

\* pmm_alloc_block() hands out whole blocks of usable RAM only.
THEOREM HandsOutUsableRam == PmmSpec => []HeldIsUsableRam
<1>1. PmmInv => HeldIsUsableRam
  <2> SUFFICES ASSUME PmmInv, NEW block \in held
               PROVE  /\ block # 0
                      /\ \E i \in Usable(mmap) :
                           /\ mmap[i].base <= block
                           /\ block + BlockSize <= RegionEnd(mmap, i)
    BY DEF HeldIsUsableRam
  <2> DEFINE kernel == KernelAndBitmapBlocks(total_blocks)
  <2>1. /\ mmap \in MemoryMaps /\ total_blocks = total_mem(mmap) \div BlockSize
        /\ phase = "ready" /\ Serving
    BY DEF PmmInv, Phases
  <2>2. PICK f \in Block : block = BlockSize * f
    BY <2>1 DEF Serving
  <2>3. kernel \in 1..total_blocks /\ total_blocks \in Nat /\ f \in Nat
    BY <2>1, BlockResult DEF Block
  <2>4. f \in HeldFrames
    <3>1. block \div BlockSize = f
      BY <2>2, <2>3, PmmSizes, QuotientOfMultiple
    <3> QED
      BY <3>1 DEF HeldFrames
  <2>5. f \notin Marked
    BY <2>1, <2>4 DEF Serving
  <2>6. PICK i \in Usable(mmap) : ~(f < kernel) /\ f \in RegionBlocks(mmap, i)
    BY <2>2, <2>5 DEF Marked, Ram
  <2> HIDE DEF kernel
  <2>7. block # 0
    BY <2>2, <2>3, <2>6, PmmSizes
  <2> DEFINE s == Start(mmap, i)
             n == mmap[i].len
             k == f - s
  <2>8. /\ s \in Nat /\ n \in Nat /\ mmap[i].base = BlockSize * s
        /\ k \in Nat /\ f = s + k /\ k < Count(mmap, i)
    <3>1. f \in s .. (s + Count(mmap, i) - 1) /\ s \in Nat /\ Count(mmap, i) \in Nat
      BY <2>1, <2>6, RegionResult
    <3> QED
      BY <2>1, <2>3, <3>1, RegionResult
  <2>9. BlockSize * k < n
    BY <2>1, <2>8, CountResult
  <2> HIDE DEF s, n, k
  <2>10. block = mmap[i].base + BlockSize * k
    BY <2>2, <2>8, PmmSizes, Multiples
  <2>11. n % BlockSize = 0
    <3>1. SUFFICES ASSUME n % BlockSize # 0 PROVE FALSE
      OBVIOUS
    <3>2. mmap[i].base + n <= BlockSize * kernel
      BY <2>1, <3>1, PmmMaps DEF WellFormed, RegionEnd, n, kernel
    <3>3. BlockSize * kernel <= BlockSize * f
      BY <2>3, <2>6, PmmSizes, Multiples
    <3> QED
      BY <2>2, <2>3, <2>8, <2>9, <2>10, <3>2, <3>3, PmmSizes
  <2>12. BlockSize * k + BlockSize <= n
    <3> DEFINE q == n \div BlockSize
    <3>1. q \in Nat /\ n = BlockSize * q
      BY <2>8, <2>11, PmmSizes, ExactQuotient
    <3> HIDE DEF q
    <3>2. k + 1 <= q
      BY <2>8, <2>9, <3>1, PmmSizes, Multiples
    <3>3. BlockSize * (k + 1) <= BlockSize * q /\ BlockSize * (k + 1) = BlockSize * k + BlockSize
      BY <2>8, <3>1, <3>2, PmmSizes, Multiples
    <3> QED
      BY <3>1, <3>3
  <2>13. mmap[i].base <= block /\ block + BlockSize <= mmap[i].base + n
    BY <2>8, <2>10, <2>12, PmmSizes
  <2> QED
    BY <2>7, <2>13 DEF RegionEnd, n
<1> QED
  BY <1>1, PmmInvariance, PTL
=============================================================================
