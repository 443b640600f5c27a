-------------------------------- MODULE Ata ---------------------------------
(***************************************************************************)
(* The ATA driver, drivers/ata/ata.c, and the drive it polls.  Only        *)
(* ata_init() has a caller yet; reading and writing a sector are what the  *)
(* driver offers.                                                          *)
(*                                                                         *)
(* The drive is external: it works while BSY is set, at its own pace, and  *)
(* takes no command meanwhile.  Where nothing is attached, the status port *)
(* floats: every bit reads 1.  Two things are assumed of the drive that    *)
(* ata.c relies on and not every drive grants.                             *)
(*  - It shows BSY by the first status read after a command or the last    *)
(*    word.  It has 400 ns for that; ata_delay() would wait for it, and    *)
(*    only ata_init() calls it.                                            *)
(*  - It never shows ERR together with DRQ.  If it did, the driver would   *)
(*    return in front of the transfer the drive is waiting for.            *)
(***************************************************************************)
EXTENDS Integers

CONSTANTS
  Radix,      \* an address register holds a number below this, 256
  HeadRadix,  \* so do the address bits of the drive/head register, 16
  Words,      \* words in a sector, 256
  Lbas,       \* the sectors asked for, uint32_t
  Data,       \* what a word of a buffer may be
  Buffers     \* the contents written

Capacity == Radix * Radix * Radix * HeadRadix
Index == 0..(Words - 1)

ASSUME AtaSizes ==
  /\ Radix \in Nat \ {0} /\ HeadRadix \in Nat \ {0} /\ Words \in Nat \ {0}
  /\ Lbas \subseteq Nat /\ Buffers \subseteq [Index -> Data]

VARIABLES
  kind,    \* what is attached: "none", "disk", or "packet", which is never DRDY
  drive,   \* status bits, what it does, address registers, sector in transfer
  medium,  \* the sectors
  pc,      \* the driver's next step
  call,    \* its arguments and locals; then: what follows the poll
  failed   \* history: the drive could not store the sector of this call

atavars == <<kind, drive, medium, pc, call, failed>>

Bits == {"BSY", "DRDY", "DF", "DRQ", "ERR"}
Blank == [w \in Index |-> "blank"]
Empty == [w \in Index |-> "unread"]

\* inb(ATA_STATUS_CMD_PORT)
ata_status == IF kind = "none" THEN Bits ELSE drive.status

\* Fault: two registers get each other's digit.
SwappedAddress(lba) ==
  [low |-> lba % Radix, mid |-> (lba \div (Radix * Radix)) % Radix,
   high |-> (lba \div Radix) % Radix, head |-> 0]

\* How a sector number is spread over the registers.
SplitAddress(lba) ==
  [low |-> lba % Radix, mid |-> (lba \div Radix) % Radix,
   high |-> (lba \div (Radix * Radix)) % Radix,
   head |-> (lba \div (Radix * Radix * Radix)) % HeadRadix]

Address(regs) == regs.low + Radix * (regs.mid + Radix * (regs.high + Radix * regs.head))

AtaInit ==
  /\ kind \in {"none", "disk", "packet"}
  /\ drive = [status |-> {"BSY"}, doing |-> "start", regs |-> SplitAddress(0),
              fifo |-> Blank, count |-> 0]
  /\ medium = [s \in 0..(Capacity - 1) |-> Blank]
  /\ pc = "idle"
  /\ call = [op |-> "init", lba |-> 0, buffer |-> Empty, i |-> 0, seen |-> {},
             then |-> "start", result |-> 0]
  /\ failed = FALSE

-----------------------------------------------------------------------------
(* The drive                                                               *)

\* outb(ATA_STATUS_CMD_PORT, c) to drive d.
Commanded(d, c) ==
  IF kind = "none" \/ "BSY" \in d.status THEN d
  ELSE [d EXCEPT !.status = {"BSY"}, !.doing = c]

\* What the drive has done when it clears BSY: start up, fetch a sector, ask
\* for one, store it, or flush; or it has failed to.
Idle(bits) ==
  [drive EXCEPT !.status = bits \cup IF kind = "disk" THEN {"DRDY"} ELSE {}, !.doing = "nothing"]

DriveStep ==
  /\ "BSY" \in drive.status /\ kind # "none"
  /\ \/ drive' \in {Idle({"ERR"}), Idle({"DF"})} /\ failed' = (failed \/ drive.doing = "store")
        /\ UNCHANGED medium
     \/ /\ drive.doing \in {"start", "flush", "store"} /\ drive' = Idle({})
        /\ medium' = IF drive.doing = "store"
                     THEN [medium EXCEPT ![Address(drive.regs)] = drive.fifo] ELSE medium
        /\ UNCHANGED failed
     \/ /\ drive.doing \in {"read", "write"}
        /\ drive' = [drive EXCEPT !.status = {"DRDY", "DRQ"}, !.count = 0,
             !.fifo = IF drive.doing = "read" THEN medium[Address(drive.regs)] ELSE @]
        /\ UNCHANGED <<medium, failed>>
  /\ UNCHANGED <<kind, pc, call>>

\* A word has passed the data port; after the last the drive goes on by itself.
Passed ==
  IF drive.count + 1 < Words THEN [drive EXCEPT !.count = @ + 1]
  ELSE IF drive.doing = "read" THEN Idle({})
  ELSE [drive EXCEPT !.count = @ + 1, !.status = {"BSY"}, !.doing = "store"]

-----------------------------------------------------------------------------
(* The driver                                                              *)

\* Steps of the driver that leave the drive as it is.
Step(from, to) == pc = from /\ pc' = to /\ UNCHANGED <<kind, drive, medium, failed>>
Return(from, r) == Step(from, "idle") /\ call' = [call EXCEPT !.result = r]

\* ata_poll(): the loop, and the second read of the status, which it returns.
PollLoop ==
  Step("poll", IF "BSY" \in ata_status THEN "poll" ELSE "polled") /\ UNCHANGED call

PollResult == Step("polled", call.then) /\ call' = [call EXCEPT !.seen = ata_status]

\* ata_init() up to the delay.
ata_init ==
  /\ pc = "idle" /\ pc' = "probe"
  /\ call' = [call EXCEPT !.op = "init", !.then = "start"]
  /\ drive' = [drive EXCEPT !.regs.head = 0]
  /\ UNCHANGED <<kind, medium, failed>>

\* Fault: a floating bus is taken for a drive.
FoundAlways == TRUE

Found == ata_status # Bits

Probe ==
  \/ ~Found /\ Return("probe", 0)
  \/ Found /\ Step("probe", "poll") /\ UNCHANGED call

Started == Return("start", 0)

\* ata_read_sector() and ata_write_sector() up to the first poll.
Begin(op, lba, buffer) ==
  /\ pc = "idle" /\ pc' = "poll" /\ failed' = FALSE
  /\ call' = [call EXCEPT !.op = op, !.lba = lba, !.buffer = buffer, !.then = "ready"]
  /\ UNCHANGED <<kind, drive, medium>>

ata_read_sector(lba) == Begin("read", lba, Empty)
ata_write_sector(lba, buffer) == Begin("write", lba, buffer)

\* The registers and the command are written, or the drive is not ready.
Issue ==
  \/ "DRDY" \notin call.seen /\ Return("ready", -1)
  \/ /\ "DRDY" \in call.seen
     /\ pc = "ready" /\ pc' = "poll"
     /\ drive' = Commanded([drive EXCEPT !.regs = SplitAddress(call.lba)], call.op)
     /\ call' = [call EXCEPT !.then = "data"]
     /\ UNCHANGED <<kind, medium, failed>>

DataReady(seen) == "ERR" \notin seen /\ "DRQ" \in seen

Check ==
  \/ ~DataReady(call.seen) /\ Return("data", -1)
  \/ DataReady(call.seen) /\ Step("data", "transfer") /\ call' = [call EXCEPT !.i = 0]

\* Fault: the loop ends one word early.
WordsButOne == Words - 1

LoopEnd == Words

\* inw() or outw() of word i.  Without DRQ a read yields anything, and a
\* written word goes nowhere.
Transfer ==
  LET ready == "DRQ" \in drive.status
      word == call.buffer[call.i]
  IN  /\ pc = "transfer" /\ call.i < LoopEnd
      /\ call' = [call EXCEPT !.i = @ + 1, !.buffer[call.i] =
                    IF call.op = "write" THEN @ ELSE IF ready THEN drive.fifo[drive.count] ELSE "noise"]
      /\ drive' = IF ~ready THEN drive ELSE IF call.op = "read" THEN Passed
                  ELSE [Passed EXCEPT !.fifo[drive.count] = word]
      /\ UNCHANGED <<kind, medium, pc, failed>>

ReadDone == call.op = "read" /\ call.i = LoopEnd /\ Return("transfer", 0)

\* Fault: a write does not wait for the drive.
FlushAndReturn ==
  /\ pc = "transfer" /\ call.op = "write" /\ call.i = LoopEnd
  /\ pc' = "idle"
  /\ drive' = Commanded(drive, "flush")
  /\ call' = [call EXCEPT !.result = 0]
  /\ UNCHANGED <<kind, medium, failed>>

\* The drive is told to flush its cache, which it may be too busy to hear.
Flush ==
  /\ pc = "transfer" /\ call.op = "write" /\ call.i = LoopEnd
  /\ pc' = "poll"
  /\ drive' = Commanded(drive, "flush")
  /\ call' = [call EXCEPT !.then = "flushed"]
  /\ UNCHANGED <<kind, medium, failed>>

\* The status that the last poll returns is not looked at.
Flushed == Return("flushed", 0)

Driver ==
  \/ PollLoop \/ PollResult \/ Probe \/ Started
  \/ Issue \/ Check \/ Transfer \/ ReadDone \/ Flush \/ Flushed

AtaNext ==
  \/ Driver \/ DriveStep \/ ata_init
  \/ \E lba \in Lbas : ata_read_sector(lba) \/ \E b \in Buffers : ata_write_sector(lba, b)

(***************************************************************************)
(* Fairness.  The processor goes on, and a drive that is there answers:    *)
(* the driver has no other protection, since ata_poll() sets no limit.     *)
(***************************************************************************)
AtaSpec == AtaInit /\ [][AtaNext]_atavars /\ WF_atavars(Driver) /\ WF_atavars(DriveStep)

-----------------------------------------------------------------------------
(* Properties                                                              *)

Returned(op, r) == pc = "idle" /\ call.op = op /\ call.result = r

\* No call, successful or not, leaves the drive in the middle of a transfer,
\* where it would take the words of the next one for its own.
NotLeftHalfway == pc = "idle" => "DRQ" \notin drive.status

\* A read that reports success has filled the buffer with the sector asked
\* for, whatever calls failed before it, and one that reports failure has left
\* the buffer alone.  A write that reports success has put the buffer on the
\* medium by the time it returns, unless the drive flagged an error behind the
\* last word.  Nothing is said of success for a sector number from Capacity
\* on, which names no sector: see OnlyTheSectorAskedFor.
SuccessIsTrue ==
  /\ Returned("read", 0) /\ call.lba < Capacity => call.buffer = medium[call.lba]
  /\ Returned("read", -1) => call.buffer = Empty
  /\ Returned("write", 0) /\ call.lba < Capacity => medium[call.lba] = call.buffer \/ failed

\* The medium changes only while a write is under way, and if the registers
\* can hold the sector number, only in the sector asked for: no command of an
\* earlier call takes effect late.  A number from Capacity (2^28) on loses its
\* upper bits: the write overwrites the sector that the rest of the number
\* names, which nobody asked for, and reports success; but no further one.
OnlyTheSectorAskedFor ==
  [][medium' # medium =>
       /\ call.op = "write" /\ pc # "idle"
       /\ call.lba < Capacity =>
            \A s \in DOMAIN medium \ {call.lba} : medium'[s] = medium[s]
       /\ call.lba >= Capacity =>
            \A s \in DOMAIN medium \ {call.lba % Capacity} : medium'[s] = medium[s]]_atavars

\* Every call returns if a drive is there, and ata_init() in any case.
CallsReturn == (pc # "idle" /\ (kind # "none" \/ call.op = "init")) ~> pc = "idle"
=============================================================================
