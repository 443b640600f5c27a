------------------------------ MODULE AtaProofs -----------------------------
(***************************************************************************)
(* Proofs about Ata, for any sector size, register sizes, set of sectors   *)
(* asked for and set of buffers, and any drive that keeps to the protocol. *)
(***************************************************************************)
EXTENDS Ata, TLAPS

-----------------------------------------------------------------------------
(* The inductive invariant                                                 *)

Sector == [Index -> Data \cup {"blank", "unread"}]
Regs == [low : Nat, mid : Nat, high : Nat, head : Nat]
Doings == {"start", "nothing", "read", "write", "store", "flush"}
Polls == {"start", "ready", "data", "flushed"}

DriveState ==
  [status : SUBSET Bits, doing : Doings, regs : Regs, fifo : Sector, count : Nat]
CallState ==
  [op : {"init", "read", "write"}, lba : Nat, buffer : Sector, i : Nat,
   seen : SUBSET Bits, then : Polls, result : {0, -1}]

AtaTypeOK ==
  /\ kind \in {"none", "disk", "packet"}
  /\ drive \in DriveState
  /\ medium \in [0..(Capacity - 1) -> Sector]
  /\ pc \in Polls \cup {"idle", "probe", "poll", "polled", "transfer"}
  /\ call \in CallState
  /\ failed \in BOOLEAN

\* The sector that the drive finds under the address registers of this call.
Target == call.lba % Capacity

\* What the drive may be at: starting up, at rest, working on this call's
\* command, moving words, storing the sector, flushing its cache.
Starting == drive.status = {"BSY"} /\ drive.doing = "start"
Resting == "BSY" \notin drive.status /\ "DRQ" \notin drive.status /\ drive.doing = "nothing"
Working == drive.status = {"BSY"} /\ drive.doing = call.op
Moving == drive.status = {"DRDY", "DRQ"} /\ drive.doing = call.op
Storing == drive.status = {"BSY"} /\ drive.doing = "store"
Flushing == drive.status = {"BSY"} /\ drive.doing = "flush"

Quiet == Starting \/ Resting

\* The drive has this call's address.
Addressed == call.op \in {"read", "write"} /\ drive.regs = SplitAddress(call.lba)

\* It is about to move the first word, which for a read is the sector's.
AtFirstWord ==
  Moving /\ drive.count = 0 /\ (call.op = "read" => drive.fifo = medium[Target])

\* Word i is next, and those before it are where they belong.
AtWord ==
  /\ Moving /\ drive.count = call.i
  /\ call.op = "read" =>
       /\ drive.fifo = medium[Target]
       /\ \A w \in Index : w < call.i => call.buffer[w] = medium[Target][w]
  /\ call.op = "write" => \A w \in Index : w < call.i => drive.fifo[w] = call.buffer[w]

\* The sector is on the medium, or the drive has failed to put it there.
Stored == medium[Target] = call.buffer \/ failed

\* The drive has the buffer, or is done with it.
Placed == (Storing /\ drive.fifo = call.buffer) \/ ((Flushing \/ Resting) /\ Stored)

\* What the drive is at follows from where the driver is.
InStep ==
  /\ kind = "none" => pc \in {"idle", "probe", "poll"} /\ (pc = "poll" => call.then \in {"start", "ready"})
  /\ pc = "polled" => "BSY" \notin drive.status
  /\ pc \in {"idle", "probe", "start"} => Quiet
  /\ pc \in {"probe", "start"} => call.op = "init" /\ call.then = "start"
  /\ pc \in {"poll", "polled"} =>
       /\ call.then = "start" => Quiet /\ call.op = "init"
       /\ call.then = "ready" => Quiet /\ call.op \in {"read", "write"}
       /\ call.then = "data" => Addressed /\ (Working \/ AtFirstWord \/ Resting)
       /\ call.then = "flushed" => Addressed /\ call.op = "write" /\ Placed
  /\ pc = "ready" => Resting /\ call.op \in {"read", "write"}
  /\ pc = "data" => Addressed /\ (AtFirstWord \/ Resting) /\ call.seen = drive.status
  /\ pc = "transfer" =>
       /\ Addressed /\ call.i \in 0..Words
       /\ call.i < Words => AtWord
       /\ call.i = Words /\ call.op = "read" => Resting /\ call.buffer = medium[Target]
       /\ call.i = Words /\ call.op = "write" =>
            Placed
  /\ pc = "flushed" => Resting /\ Stored /\ call.op = "write"

\* A read has not touched the buffer before the first word.
Untouched == call.op = "read" /\ pc \notin {"idle", "transfer"} => call.buffer = Empty

\* What the last call reported is true.
Reported ==
  pc = "idle" =>
    /\ call.op = "read" /\ call.result = 0 => call.buffer = medium[Target]
    /\ call.op = "read" /\ call.result = -1 => call.buffer = Empty
    /\ call.op = "write" /\ call.result = 0 => Stored

AtaInv == AtaTypeOK /\ InStep /\ Untouched /\ Reported

-----------------------------------------------------------------------------
(* Addresses                                                               *)

\* A remainder by a product, digit by digit.
LEMMA RemainderByProduct ==
  ASSUME NEW a \in Nat \ {0}, NEW b \in Nat \ {0}, NEW n \in Nat
  PROVE  n % (a * b) = (n % a) + a * ((n \div a) % b)
<1> DEFINE q == n \div a
           r == n % a
           s == q \div b
           t == q % b
<1>1. q \in Nat /\ r \in 0..(a - 1) /\ n = a * q + r
  OBVIOUS
<1> HIDE DEF q, r
<1>2. s \in Nat /\ t \in 0..(b - 1) /\ q = b * s + t
  BY <1>1
<1> HIDE DEF s, t
<1> DEFINE p == a * b
           x == a * t + r
<1>3. p \in Nat \ {0} /\ x \in Nat /\ n = p * s + x
  <2>1. a * (b * s + t) = (a * b) * s + a * t
    BY <1>2
  <2> QED
    BY <1>1, <1>2, <2>1
<1>4. x < p
  <2>1. a * t <= a * (b - 1) /\ a * (b - 1) = a * b - a
    BY <1>2
  <2> QED
    BY <1>1, <1>2, <2>1
<1> HIDE DEF p, x
<1>5. ASSUME NEW d \in Nat \ {0}, NEW k \in Nat, NEW y \in Nat, y < d
      PROVE  (d * k + y) % d = y
  BY <1>5
<1>6. n % p = x
  BY <1>2, <1>3, <1>4, <1>5
<1> QED
  BY <1>6 DEF p, x, q, r, t

\* The registers hold the digits of the sector number: together they address
\* it, modulo the capacity they can express.
LEMMA AddressResult ==
  ASSUME NEW lba \in Nat
  PROVE  /\ SplitAddress(lba) \in Regs
         /\ Address(SplitAddress(lba)) = lba % Capacity
         /\ lba % Capacity \in 0..(Capacity - 1)
         /\ Capacity \in Nat \ {0}
<1> DEFINE R2 == Radix * Radix
           R3 == Radix * Radix * Radix
           d0 == lba % Radix
           d1 == (lba \div Radix) % Radix
           d2 == (lba \div R2) % Radix
           d3 == (lba \div R3) % HeadRadix
<1>1. Radix \in Nat \ {0} /\ HeadRadix \in Nat \ {0} /\ R2 \in Nat \ {0} /\ R3 \in Nat \ {0}
  BY AtaSizes
<1>2. Capacity \in Nat \ {0} /\ Capacity = R3 * HeadRadix
  BY <1>1 DEF Capacity
<1>3. d0 \in Nat /\ d1 \in Nat /\ d2 \in Nat /\ d3 \in Nat
  <2>1. \A n \in Nat, d \in Nat \ {0} : n \div d \in Nat /\ n % d \in Nat
    OBVIOUS
  <2> QED
    BY <1>1, <2>1
<1>4. SplitAddress(lba) = [low |-> d0, mid |-> d1, high |-> d2, head |-> d3]
  BY DEF SplitAddress
<1>5. lba % Capacity = (lba % R3) + R3 * d3
  BY <1>1, <1>2, RemainderByProduct
<1>6. lba % R3 = (lba % R2) + R2 * d2
  BY <1>1, RemainderByProduct
<1>7. lba % R2 = d0 + Radix * d1
  BY <1>1, RemainderByProduct
<1>8. Address(SplitAddress(lba)) = d0 + Radix * (d1 + Radix * (d2 + Radix * d3))
  BY <1>4 DEF Address
<1>9. lba % Capacity \in 0..(Capacity - 1)
  BY <1>2
<1> HIDE DEF d0, d1, d2, d3
<1>10. lba % Capacity = d0 + Radix * d1 + R2 * d2 + R3 * d3
  BY <1>5, <1>6, <1>7
<1>11. Radix * (d1 + Radix * (d2 + Radix * d3)) = Radix * d1 + R2 * d2 + R3 * d3
  BY <1>1, <1>3
<1>12. SplitAddress(lba) \in Regs
  BY <1>3, <1>4 DEF Regs
<1> QED
  BY <1>1, <1>2, <1>3, <1>8, <1>9, <1>10, <1>11, <1>12

-----------------------------------------------------------------------------
(* Each step keeps the invariant                                           *)

\* The buffers of the driver and of its callers are sectors, and two sectors with the same
\* words are the same.
LEMMA SectorFacts ==
  /\ Blank \in Sector /\ Empty \in Sector /\ \A b \in Buffers : b \in Sector
  /\ \A f \in Sector, g \in Sector : (\A w \in Index : f[w] = g[w]) => f = g
BY AtaSizes DEF Blank, Empty, Sector

\* The drive rests and no call is under way.
LEMMA AtaInitInv == AtaInit => AtaInv
<1> SUFFICES ASSUME AtaInit PROVE AtaInv
  OBVIOUS
<1>1. AtaTypeOK
  BY SectorFacts, AddressResult DEF AtaInit, AtaTypeOK, DriveState, CallState, Bits, Doings, Polls
<1>2. InStep
  BY DEF AtaInit, InStep, Quiet, Starting
<1> QED
  BY <1>1, <1>2 DEF AtaInit, AtaInv, Untouched, Reported

\* A caller enters ata_read_sector() or ata_write_sector().
LEMMA BeginInv ==
  ASSUME AtaInv, NEW op \in {"read", "write"}, NEW lba \in Nat, NEW buffer \in Sector,
         op = "read" => buffer = Empty, Begin(op, lba, buffer)
  PROVE  AtaInv'
<1>1. /\ pc = "idle" /\ pc' = "poll" /\ failed' = FALSE /\ UNCHANGED <<kind, drive, medium>>
      /\ call' = [call EXCEPT !.op = op, !.lba = lba, !.buffer = buffer, !.then = "ready"]
  BY DEF Begin
<1>2. AtaTypeOK'
  BY <1>1 DEF AtaInv, AtaTypeOK, DriveState, CallState, Polls
<1>3. call'.op = op /\ call'.buffer = buffer /\ call'.then = "ready"
  BY <1>1 DEF AtaInv, AtaTypeOK, DriveState, CallState
<1>4. Quiet'
  BY <1>1 DEF AtaInv, InStep, Quiet, Starting, Resting
<1>5. InStep'
  BY <1>1, <1>3, <1>4 DEF InStep
<1> QED
  BY <1>1, <1>2, <1>3, <1>5 DEF AtaInv, Untouched, Reported

\* kernel_main() enters ata_init().
LEMMA ata_initInv ==
  ASSUME AtaInv, ata_init
  PROVE  AtaInv'
<1>1. /\ pc = "idle" /\ pc' = "probe" /\ UNCHANGED <<kind, medium, failed>>
      /\ call' = [call EXCEPT !.op = "init", !.then = "start"]
      /\ drive' = [drive EXCEPT !.regs.head = 0]
  BY DEF ata_init
<1>2. AtaTypeOK'
  BY <1>1 DEF AtaInv, AtaTypeOK, DriveState, CallState, Polls, Regs
<1>3. call'.op = "init" /\ call'.then = "start" /\ drive'.status = drive.status
      /\ drive'.doing = drive.doing
  BY <1>1 DEF AtaInv, AtaTypeOK, DriveState, CallState
<1>4. Quiet'
  BY <1>1, <1>3 DEF AtaInv, InStep, Quiet, Starting, Resting
<1>5. InStep'
  BY <1>1, <1>3, <1>4 DEF InStep
<1> QED
  BY <1>1, <1>2, <1>3, <1>5 DEF AtaInv, Untouched, Reported

\* Steps that only move the driver on, with the drive and the arguments as
\* they are.
LEMMA PollLoopInv ==
  ASSUME AtaInv, PollLoop
  PROVE  AtaInv'
<1>1. /\ pc = "poll" /\ pc' = IF "BSY" \in ata_status THEN "poll" ELSE "polled"
      /\ UNCHANGED <<kind, drive, medium, failed, call>>
  BY DEF PollLoop, Step
<1>2. AtaTypeOK'
  BY <1>1 DEF AtaInv, AtaTypeOK, DriveState, CallState
<1>3. InStep'
  <2>1. pc' = "polled" => kind # "none" /\ "BSY" \notin drive.status
    BY <1>1 DEF ata_status, Bits
  <2> QED
    BY <1>1, <2>1 DEF AtaInv, InStep, Quiet, Starting, Resting, Addressed, Working, Moving,
       AtFirstWord, Placed, Storing, Flushing, Stored, Target
<1> QED
  BY <1>1, <1>2, <1>3 DEF AtaInv, Untouched, Reported

\* ata_poll() returns the status it saw last.
LEMMA PollResultInv ==
  ASSUME AtaInv, PollResult
  PROVE  AtaInv'
<1>1. /\ pc = "polled" /\ pc' = call.then /\ UNCHANGED <<kind, drive, medium, failed>>
      /\ call' = [call EXCEPT !.seen = ata_status]
  BY DEF PollResult, Step
<1>2. AtaTypeOK /\ InStep /\ kind # "none" /\ "BSY" \notin drive.status
  BY <1>1 DEF AtaInv, InStep
<1>3. AtaTypeOK'
  BY <1>1, <1>2 DEF AtaTypeOK, DriveState, CallState, ata_status, Bits
<1>4. /\ call'.op = call.op /\ call'.lba = call.lba /\ call'.buffer = call.buffer
      /\ call'.i = call.i /\ call'.then = call.then /\ call'.seen = drive.status
  BY <1>1, <1>2 DEF AtaTypeOK, DriveState, CallState, ata_status
<1>5. call.then \in Polls
  BY <1>2 DEF AtaTypeOK, DriveState, CallState
<1>6. InStep'
  <2>1. CASE call.then = "start"
    BY <1>1, <1>2, <1>4, <2>1 DEF InStep, Quiet, Starting, Resting
  <2>2. CASE call.then = "ready"
    BY <1>1, <1>2, <1>4, <2>2 DEF InStep, Quiet, Starting, Resting
  <2>3. CASE call.then = "data"
    BY <1>1, <1>2, <1>4, <2>3 DEF InStep, Resting, Addressed, Working, AtFirstWord, Moving, Target
  <2>4. CASE call.then = "flushed"
    BY <1>1, <1>2, <1>4, <2>4 DEF InStep, Resting, Placed, Storing, Flushing, Stored, Target
  <2> QED
    BY <1>5, <2>1, <2>2, <2>3, <2>4 DEF Polls
<1> QED
  BY <1>1, <1>2, <1>3, <1>4, <1>5, <1>6 DEF AtaInv, Polls, Untouched, Reported

\* Returns: what is reported is true, and the drive is quiet.
LEMMA ReturnInv ==
  ASSUME AtaInv, NEW from, NEW r \in {0, -1}, Return(from, r), Quiet,
         call.op = "read" /\ r = 0 => call.buffer = medium[Target],
         call.op = "read" /\ r = -1 => call.buffer = Empty,
         call.op = "write" /\ r = 0 => Stored
  PROVE  AtaInv'
<1>1. /\ pc' = "idle" /\ UNCHANGED <<kind, drive, medium, failed>>
      /\ call' = [call EXCEPT !.result = r]
  BY DEF Return, Step
<1>2. AtaTypeOK'
  BY <1>1 DEF AtaInv, AtaTypeOK, DriveState, CallState
<1>3. /\ call'.op = call.op /\ call'.lba = call.lba /\ call'.buffer = call.buffer
      /\ call'.result = r
  BY <1>1 DEF AtaInv, AtaTypeOK, DriveState, CallState
<1>4. Quiet'
  BY <1>1 DEF Quiet, Starting, Resting
<1>5. InStep'
  BY <1>1, <1>4 DEF InStep
<1>6. Reported'
  BY <1>1, <1>3 DEF Reported, Stored, Target
<1> QED
  BY <1>1, <1>2, <1>5, <1>6 DEF AtaInv, Untouched

\* ata_init() looks at the answer to IDENTIFY.
LEMMA ProbeInv ==
  ASSUME AtaInv, Probe
  PROVE  AtaInv'
<1>1. AtaTypeOK /\ InStep /\ pc = "probe" /\ Quiet /\ call.op = "init" /\ call.then = "start"
  BY DEF AtaInv, InStep, Probe, Return, Step
<1>2. CASE Return("probe", 0)
  BY <1>1, <1>2, ReturnInv
<1>3. CASE Step("probe", "poll") /\ UNCHANGED call
  <2>1. AtaTypeOK'
    BY <1>1, <1>3 DEF AtaTypeOK, DriveState, CallState, Step
  <2>2. InStep'
    BY <1>1, <1>3 DEF InStep, Step, Quiet, Starting, Resting
  <2> QED
    BY <1>1, <1>3, <2>1, <2>2 DEF AtaInv, Step, Untouched, Reported
<1> QED
  BY <1>2, <1>3 DEF Probe

\* ata_init() returns.
LEMMA StartedInv ==
  ASSUME AtaInv, Started
  PROVE  AtaInv'
<1>1. Quiet /\ call.op = "init"
  BY DEF AtaInv, InStep, Started, Return, Step
<1> QED
  BY <1>1, ReturnInv DEF Started

\* The registers are written, the command last.
LEMMA IssueInv ==
  ASSUME AtaInv, Issue
  PROVE  AtaInv'
<1>1. /\ AtaTypeOK /\ InStep /\ Untouched /\ pc = "ready" /\ Resting /\ kind # "none"
      /\ call.op \in {"read", "write"}
  BY DEF AtaInv, InStep, Issue, Return, Step
<1>2. CASE Return("ready", -1)
  BY <1>1, <1>2, ReturnInv DEF Quiet, Untouched
<1>3. CASE /\ pc' = "poll"
           /\ drive' = Commanded([drive EXCEPT !.regs = SplitAddress(call.lba)], call.op)
           /\ call' = [call EXCEPT !.then = "data"]
           /\ UNCHANGED <<kind, medium, failed>>
  <2>1. drive' = [[drive EXCEPT !.regs = SplitAddress(call.lba)]
                    EXCEPT !.status = {"BSY"}, !.doing = call.op]
    BY <1>1, <1>3 DEF AtaTypeOK, DriveState, CallState, Commanded, Resting
  <2>2. /\ drive' \in DriveState
        /\ drive'.status = {"BSY"} /\ drive'.doing = call.op
        /\ drive'.regs = SplitAddress(call.lba)
    <3>1. SplitAddress(call.lba) \in Regs
      BY <1>1, AddressResult DEF AtaTypeOK, DriveState, CallState
    <3> QED
      BY <1>1, <2>1, <3>1 DEF AtaTypeOK, DriveState, CallState, Doings, Bits
  <2>3. /\ call'.op = call.op /\ call'.lba = call.lba /\ call'.buffer = call.buffer
        /\ call'.then = "data"
    BY <1>1, <1>3 DEF AtaTypeOK, DriveState, CallState
  <2>4. AtaTypeOK'
    BY <1>1, <1>3, <2>2 DEF AtaTypeOK, DriveState, CallState, Polls
  <2>5. InStep'
    BY <1>1, <1>3, <2>2, <2>3 DEF InStep, Addressed, Working
  <2> QED
    BY <1>1, <1>3, <2>3, <2>4, <2>5 DEF AtaInv, Untouched, Reported
<1> QED
  BY <1>2, <1>3 DEF Issue

\* The status after the command is looked at: an error returns early.
LEMMA CheckInv ==
  ASSUME AtaInv, Check
  PROVE  AtaInv'
<1>1. /\ AtaTypeOK /\ InStep /\ Untouched /\ pc = "data" /\ kind # "none"
      /\ Addressed /\ (AtFirstWord \/ Resting) /\ call.seen = drive.status
  BY DEF AtaInv, InStep, Check, Return, Step
<1>2. CASE ~DataReady(call.seen) /\ Return("data", -1)
  <2>1. Quiet
    BY <1>1, <1>2 DEF DataReady, AtFirstWord, Moving, Quiet
  <2> QED
    BY <1>1, <1>2, <2>1, ReturnInv DEF Untouched
<1>3. CASE DataReady(call.seen) /\ Step("data", "transfer") /\ call' = [call EXCEPT !.i = 0]
  <2>1. AtFirstWord
    BY <1>1, <1>3 DEF DataReady, Resting
  <2>2. AtaTypeOK'
    BY <1>1, <1>3 DEF AtaTypeOK, DriveState, CallState, Step
  <2>3. /\ call'.op = call.op /\ call'.lba = call.lba /\ call'.buffer = call.buffer
        /\ call'.i = 0 /\ pc' = "transfer" /\ UNCHANGED <<kind, drive, medium, failed>>
    BY <1>1, <1>3 DEF AtaTypeOK, DriveState, CallState, Step
  <2>4. AtWord' /\ Addressed'
    BY <1>1, <2>1, <2>3 DEF AtWord, AtFirstWord, Moving, Target, Addressed, Index
  <2>5. InStep'
    BY <1>1, <2>3, <2>4, AtaSizes DEF InStep
  <2> QED
    BY <2>2, <2>3, <2>5 DEF AtaInv, Untouched, Reported
<1> QED
  BY <1>2, <1>3 DEF Check

\* Idle leaves the drive at rest with its registers and buffer.
LEMMA IdleResult ==
  ASSUME AtaTypeOK, NEW bits \in {{}, {"ERR"}, {"DF"}}, drive' = Idle(bits)
  PROVE  /\ drive' \in DriveState
         /\ drive'.regs = drive.regs /\ drive'.fifo = drive.fifo
         /\ Resting'
<1>1. \E st \in SUBSET Bits : /\ "BSY" \notin st /\ "DRQ" \notin st
                              /\ drive' = [drive EXCEPT !.status = st, !.doing = "nothing"]
  BY DEF Idle, Bits
<1> QED
  BY <1>1 DEF AtaTypeOK, DriveState, CallState, Doings, Resting

\* One word goes through the data port.
LEMMA TransferInv ==
  ASSUME AtaInv, Transfer
  PROVE  AtaInv'
<1>1. /\ AtaTypeOK /\ InStep /\ pc = "transfer" /\ pc' = "transfer" /\ kind # "none"
      /\ Addressed /\ call.i \in 0..Words /\ call.i < Words /\ AtWord
      /\ UNCHANGED <<kind, medium, failed>>
  BY DEF AtaInv, InStep, Transfer, LoopEnd
<1>2. /\ "DRQ" \in drive.status /\ drive.count = call.i /\ call.i \in Nat /\ call.i \in Index
      /\ drive.doing = call.op /\ call.buffer \in Sector /\ drive.fifo \in Sector
      /\ Words \in Nat
  BY <1>1, AtaSizes DEF AtWord, Moving, AtaTypeOK, DriveState, CallState, Index
<1>2a. call \in CallState /\ drive \in DriveState /\ call.i + 1 \in Nat
  BY <1>1, <1>2 DEF AtaTypeOK
<1>3. medium[Target] \in Sector
  BY <1>1, AddressResult DEF AtaTypeOK, DriveState, CallState, Target
<1>4. CASE call.op = "read"
  <2>1. /\ drive' = Passed
        /\ call' = [call EXCEPT !.i = @ + 1, !.buffer[call.i] = drive.fifo[drive.count]]
    BY <1>2, <1>4 DEF Transfer
  <2>2. drive.fifo = medium[Target]
    BY <1>1, <1>4 DEF AtWord
  <2>3. /\ call'.op = "read" /\ call'.lba = call.lba /\ call'.i = call.i + 1
        /\ call'.buffer = [call.buffer EXCEPT ![call.i] = medium[Target][call.i]]
        /\ call'.then = call.then /\ Target' = Target
    BY <1>1, <1>2, <1>4, <2>1, <2>2 DEF AtaTypeOK, DriveState, CallState, Target
  <2>4. call'.buffer \in Sector /\ \A w \in Index : w < call'.i => call'.buffer[w] = medium[Target][w]
    <3>1. medium[Target][call.i] \in Data \cup {"blank", "unread"}
      BY <1>2, <1>3 DEF Sector
    <3>2. call'.buffer \in Sector
      BY <1>2, <2>3, <3>1 DEF Sector
    <3>3. ASSUME NEW w \in Index, w < call'.i
          PROVE  call'.buffer[w] = medium[Target][w]
      <4>1. CASE w = call.i
        BY <1>2, <2>3, <4>1 DEF Sector
      <4>2. CASE w # call.i
        <5>1. w < call.i
          BY <1>2, <2>3, <3>3, <4>2 DEF Index
        <5>2. call.buffer[w] = medium[Target][w]
          BY <1>1, <1>4, <5>1 DEF AtWord
        <5> QED
          BY <1>2, <2>3, <4>2, <5>2 DEF Sector
      <4> QED
        BY <4>1, <4>2
    <3> QED
      BY <3>2, <3>3
  <2>5. AtaTypeOK' <=> drive' \in DriveState
    <3>1. call' \in CallState
      <4>1. call' = [call EXCEPT !.i = call.i + 1, !.buffer = call'.buffer]
        BY <1>1, <2>1 DEF AtaTypeOK, DriveState, CallState
      <4> QED
        <5>1. [call EXCEPT !.i = call.i + 1, !.buffer = call'.buffer] \in CallState
          BY <1>2a, <2>4 DEF CallState
        <5> QED
          BY <4>1, <5>1, Zenon
    <3> QED
      BY <1>1, <3>1 DEF AtaTypeOK, DriveState, CallState
  <2>6. CASE drive.count + 1 < Words
    <3>1. drive' = [drive EXCEPT !.count = @ + 1]
      BY <2>1, <2>6 DEF Passed
    <3>2. /\ drive' \in DriveState
          /\ drive'.status = drive.status /\ drive'.doing = drive.doing
          /\ drive'.regs = drive.regs /\ drive'.fifo = drive.fifo /\ drive'.count = call.i + 1
      BY <1>1, <1>2, <3>1 DEF AtaTypeOK, DriveState, CallState
    <3>3. AtWord' /\ Addressed'
      BY <1>1, <1>4, <2>2, <2>3, <2>4, <3>2 DEF AtWord, Moving, Addressed
    <3>4. InStep'
      BY <1>1, <1>2, <2>3, <2>6, <3>3 DEF InStep
    <3> QED
      BY <1>1, <2>5, <3>2, <3>4 DEF AtaInv, Untouched, Reported
  <2>7. CASE ~(drive.count + 1 < Words)
    <3>1. drive' = Idle({}) /\ call.i + 1 = Words
      BY <1>1, <1>2, <1>4, <2>1, <2>7 DEF Passed
    <3>2. /\ drive' \in DriveState
          /\ drive'.regs = drive.regs /\ Resting'
      BY <1>1, <3>1, IdleResult
    <3>3. call'.buffer = medium[Target]
      <4>1. \A w \in Index : w < call'.i
        BY <1>2, <2>3, <3>1 DEF Index
      <4> QED
        BY <1>3, <2>4, <4>1, SectorFacts
    <3>4. Addressed'
      BY <1>1, <2>3, <3>2 DEF Addressed
    <3>5. InStep'
      BY <1>1, <1>2, <2>3, <3>1, <3>2, <3>3, <3>4 DEF InStep
    <3> QED
      BY <1>1, <2>5, <3>2, <3>5 DEF AtaInv, Untouched, Reported
  <2> QED
    BY <2>6, <2>7
<1>5. CASE call.op = "write"
  <2>1. /\ drive' = [Passed EXCEPT !.fifo[drive.count] = call.buffer[call.i]]
        /\ call' = [call EXCEPT !.i = @ + 1, !.buffer[call.i] = @]
    BY <1>2, <1>5 DEF Transfer
  <2>2. /\ call'.op = "write" /\ call'.lba = call.lba /\ call'.i = call.i + 1
        /\ call'.buffer = call.buffer /\ Target' = Target
        /\ call' \in CallState
    <3>1. [call.buffer EXCEPT ![call.i] = @] = call.buffer
      BY <1>2 DEF Sector
    <3>2. call' = [call EXCEPT !.i = call.i + 1, !.buffer = call.buffer]
      BY <1>1, <2>1, <3>1 DEF AtaTypeOK, DriveState, CallState
    <3> QED
      <4>1. /\ call' \in CallState /\ call'.i = call.i + 1 /\ call'.buffer = call.buffer
            /\ call'.op = call.op /\ call'.lba = call.lba
        <5> DEFINE d == [call EXCEPT !.i = call.i + 1, !.buffer = call.buffer]
        <5>1. /\ d \in CallState /\ d.i = call.i + 1 /\ d.buffer = call.buffer
              /\ d.op = call.op /\ d.lba = call.lba
          BY <1>2, <1>2a DEF CallState
        <5>2. call' = d
          BY <3>2
        <5> HIDE DEF d
        <5> QED
          BY <5>1, <5>2
      <4> QED
        BY <1>5, <4>1 DEF Target
  <2> DEFINE f == [drive.fifo EXCEPT ![call.i] = call.buffer[call.i]]
  <2>3. f \in Sector /\ \A w \in Index : w < call'.i => f[w] = call.buffer[w]
    <3>1. f \in Sector
      BY <1>2 DEF Sector
    <3>2. ASSUME NEW w \in Index, w < call'.i
          PROVE  f[w] = call.buffer[w]
      <4>1. CASE w = call.i
        BY <1>2, <4>1 DEF Sector
      <4>2. CASE w # call.i
        <5>1. w < call.i
          BY <1>2, <2>2, <3>2, <4>2 DEF Index
        <5>2. drive.fifo[w] = call.buffer[w]
          BY <1>1, <1>5, <5>1 DEF AtWord
        <5> QED
          BY <1>2, <4>2, <5>2 DEF Sector
      <4> QED
        BY <4>1, <4>2
    <3> QED
      BY <3>1, <3>2
  <2>4. CASE drive.count + 1 < Words
    <3>1. drive' = [[drive EXCEPT !.count = @ + 1] EXCEPT !.fifo[drive.count] = call.buffer[call.i]]
      BY <2>1, <2>4 DEF Passed
    <3>2. drive' = [drive EXCEPT !.count = call.i + 1, !.fifo = f]
      BY <1>1, <1>2, <3>1 DEF AtaTypeOK, DriveState, CallState
    <3> HIDE DEF f
    <3>3. /\ drive' \in DriveState
          /\ drive'.status = drive.status /\ drive'.doing = drive.doing
          /\ drive'.regs = drive.regs /\ drive'.fifo = f /\ drive'.count = call.i + 1
      <4> DEFINE d == [drive EXCEPT !.count = call.i + 1, !.fifo = f]
      <4>1. /\ d \in DriveState /\ d.count = call.i + 1 /\ d.fifo = f
            /\ d.status = drive.status /\ d.doing = drive.doing /\ d.regs = drive.regs
        BY <1>2a, <2>3 DEF DriveState
      <4>2. drive' = d
        BY <3>2
      <4> HIDE DEF d
      <4> QED
        BY <4>1, <4>2
    <3>4. AtWord' /\ Addressed'
      BY <1>1, <1>5, <2>2, <2>3, <3>3 DEF AtWord, Moving, Addressed
    <3>5. InStep'
      BY <1>1, <1>2, <2>2, <2>4, <3>4 DEF InStep
    <3> QED
      BY <1>1, <2>2, <3>3, <3>5 DEF AtaInv, AtaTypeOK, DriveState, CallState, Untouched, Reported
  <2>5. CASE ~(drive.count + 1 < Words)
    <3>1. drive' = [[drive EXCEPT !.count = @ + 1, !.status = {"BSY"}, !.doing = "store"]
                      EXCEPT !.fifo[drive.count] = call.buffer[call.i]]
      BY <1>2, <1>5, <2>1, <2>5 DEF Passed
    <3>2. drive' = [drive EXCEPT !.count = call.i + 1, !.status = {"BSY"}, !.doing = "store",
                                 !.fifo = f]
      BY <1>1, <1>2, <3>1 DEF AtaTypeOK, DriveState, CallState
    <3>3. f = call.buffer /\ call.i + 1 = Words
      <4>1. call.i + 1 = Words
        BY <1>1, <1>2, <2>5
      <4>2. \A w \in Index : w < call'.i
        BY <1>2, <2>2, <4>1 DEF Index
      <4> QED
        BY <1>2, <2>3, <4>1, <4>2, SectorFacts, ZenonT(60)
    <3> HIDE DEF f
    <3>4. /\ drive' \in DriveState
          /\ drive'.status = {"BSY"} /\ drive'.doing = "store"
          /\ drive'.regs = drive.regs /\ drive'.fifo = call.buffer
      BY <1>1, <1>2, <2>3, <3>2, <3>3 DEF AtaTypeOK, DriveState, CallState, Doings, Bits
    <3>5. Placed' /\ Addressed'
      BY <1>1, <2>2, <3>4 DEF Placed, Storing, Addressed
    <3>6. InStep'
      BY <1>1, <1>2, <2>2, <3>3, <3>5 DEF InStep
    <3> QED
      BY <1>1, <2>2, <3>4, <3>6 DEF AtaInv, AtaTypeOK, DriveState, CallState, Untouched, Reported
  <2> QED
    BY <2>4, <2>5
<1> QED
  BY <1>1, <1>4, <1>5 DEF Addressed

\* ata_read_sector() has read the last word.
LEMMA ReadDoneInv ==
  ASSUME AtaInv, ReadDone
  PROVE  AtaInv'
<1>1. Quiet /\ call.op = "read" /\ call.buffer = medium[Target]
  BY DEF AtaInv, InStep, ReadDone, Return, Step, LoopEnd, Quiet
<1> QED
  BY <1>1, ReturnInv DEF ReadDone

\* ata_write_sector() has written the last word and sends the flush.
LEMMA FlushInv ==
  ASSUME AtaInv, Flush
  PROVE  AtaInv'
<1>1. /\ AtaTypeOK /\ pc' = "poll" /\ kind # "none" /\ Addressed /\ call.op = "write" /\ Placed
      /\ drive' = Commanded(drive, "flush") /\ call' = [call EXCEPT !.then = "flushed"]
      /\ UNCHANGED <<kind, medium, failed>>
  BY DEF AtaInv, InStep, Flush, LoopEnd
<1>2. /\ call'.op = call.op /\ call'.lba = call.lba /\ call'.buffer = call.buffer
      /\ call'.then = "flushed" /\ call' \in CallState
  BY <1>1 DEF AtaTypeOK, CallState, Polls
<1>3. drive' \in DriveState /\ drive'.regs = drive.regs
  BY <1>1 DEF AtaTypeOK, DriveState, Commanded, Doings, Bits
<1>4. Placed'
  <2>1. CASE "BSY" \in drive.status
    BY <1>1, <1>2, <2>1 DEF Commanded, Placed, Storing, Flushing, Resting, Stored, Target
  <2>2. CASE "BSY" \notin drive.status
    <3>1. Stored
      BY <1>1, <2>2 DEF Placed, Storing
    <3>2. drive'.status = {"BSY"} /\ drive'.doing = "flush"
      BY <1>1, <2>2 DEF Commanded, AtaTypeOK, DriveState
    <3> QED
      BY <1>1, <1>2, <3>1, <3>2 DEF Placed, Flushing, Stored, Target
  <2> QED
    BY <2>1, <2>2
<1>5. Addressed'
  BY <1>1, <1>2, <1>3 DEF Addressed
<1>6. InStep'
  BY <1>1, <1>2, <1>4, <1>5 DEF InStep
<1> QED
  BY <1>1, <1>2, <1>3, <1>6 DEF AtaInv, AtaTypeOK, Polls, Untouched, Reported

\* ata_write_sector() has polled the flush.
LEMMA FlushedInv ==
  ASSUME AtaInv, Flushed
  PROVE  AtaInv'
<1>1. Quiet /\ Stored /\ call.op = "write"
  BY DEF AtaInv, InStep, Flushed, Return, Step, Quiet
<1> QED
  BY <1>1, ReturnInv DEF Flushed

\* Where the driver may be while the drive is busy, and with what.
LEMMA BusyDrive ==
  ASSUME AtaInv, "BSY" \in drive.status
  PROVE  \/ /\ Starting /\ pc \in {"idle", "probe", "start", "poll"}
            /\ pc = "poll" => call.then \in {"start", "ready"}
         \/ Working /\ Addressed /\ pc = "poll" /\ call.then = "data"
         \/ /\ (Storing /\ drive.fifo = call.buffer) \/ (Flushing /\ Stored)
            /\ Addressed /\ call.op = "write"
            /\ (pc = "transfer" /\ call.i = Words) \/ (pc = "poll" /\ call.then = "flushed")
<1>1. AtaTypeOK /\ InStep
  BY DEF AtaInv
<1>2. CASE pc \in {"idle", "probe", "start"}
  BY <1>1, <1>2 DEF InStep, Quiet, Resting
<1>3. CASE pc = "poll"
  <2>1. call.then \in Polls
    BY <1>1 DEF AtaTypeOK, CallState
  <2>2. CASE call.then \in {"start", "ready"}
    BY <1>1, <1>3, <2>2 DEF InStep, Quiet, Resting
  <2>3. CASE call.then = "data"
    BY <1>1, <1>3, <2>3 DEF InStep, AtFirstWord, Moving, Resting
  <2>4. CASE call.then = "flushed"
    BY <1>1, <1>3, <2>4 DEF InStep, Placed, Resting
  <2> QED
    BY <2>1, <2>2, <2>3, <2>4 DEF Polls
<1>4. CASE pc = "transfer"
  <2>1. Addressed /\ call.i \in 0..Words /\ Words \in Nat
    BY <1>1, <1>4, AtaSizes DEF InStep
  <2>2. ~(call.i < Words)
    BY <1>1, <1>4 DEF InStep, AtWord, Moving
  <2>3. call.i = Words
    BY <2>1, <2>2
  <2>4. call.op = "write" /\ Placed
    BY <1>1, <1>4, <2>1, <2>3 DEF InStep, Addressed, Resting
  <2> QED
    BY <1>4, <2>1, <2>3, <2>4 DEF Placed, Resting
<1>5. CASE pc \in {"polled", "ready", "data", "flushed"}
  BY <1>1, <1>5 DEF InStep, AtFirstWord, Moving, Resting
<1> QED
  BY <1>1, <1>2, <1>3, <1>4, <1>5 DEF AtaTypeOK, Polls

\* The drive ends what it is busy with.
LEMMA DriveStepInv ==
  ASSUME AtaInv, DriveStep
  PROVE  AtaInv'
<1>1. /\ AtaTypeOK /\ Untouched /\ Reported /\ kind # "none" /\ "BSY" \in drive.status
      /\ UNCHANGED <<kind, pc, call>> /\ Target' = Target
  BY DEF AtaInv, DriveStep, Target
<1>2. Target \in 0..(Capacity - 1) /\ call.buffer \in Sector /\ drive.fifo \in Sector
  BY <1>1, AddressResult DEF AtaTypeOK, CallState, DriveState, Target
<1>3. CASE /\ Starting /\ pc \in {"idle", "probe", "start", "poll"}
           /\ pc = "poll" => call.then \in {"start", "ready"}
  <2>1. drive' \in DriveState /\ Resting' /\ medium' = medium /\ failed' = failed
    BY <1>1, <1>3, IdleResult DEF DriveStep, Starting, AtaTypeOK
  <2>2. InStep'
    BY <1>1, <1>3, <2>1 DEF AtaInv, InStep, Quiet
  <2>3. Reported'
    BY <1>1, <2>1 DEF Reported, Stored
  <2> QED
    BY <1>1, <2>1, <2>2, <2>3 DEF AtaInv, AtaTypeOK, Untouched
<1>4. CASE Working /\ Addressed /\ pc = "poll" /\ call.then = "data"
  <2>1. drive.doing \in {"read", "write"} /\ call.lba \in Nat
    BY <1>1, <1>4 DEF Working, Addressed, AtaTypeOK, CallState
  <2>2. medium' = medium /\ failed' = failed
    BY <1>1, <2>1 DEF DriveStep, AtaTypeOK
  <2>3. CASE drive' \in {Idle({"ERR"}), Idle({"DF"})}
    <3>1. drive' \in DriveState /\ drive'.regs = drive.regs /\ Resting'
      BY <1>1, <2>3, IdleResult
    <3>2. InStep'
      BY <1>1, <1>4, <3>1 DEF InStep, Addressed
    <3> QED
      BY <1>1, <1>4, <2>2, <3>1, <3>2 DEF AtaInv, AtaTypeOK, Untouched, Reported
  <2>4. CASE drive' = [drive EXCEPT !.status = {"DRDY", "DRQ"}, !.count = 0,
                         !.fifo = IF drive.doing = "read" THEN medium[Address(drive.regs)] ELSE @]
    <3> DEFINE f == IF drive.doing = "read" THEN medium[Target] ELSE drive.fifo
    <3>1. f \in Sector
      BY <1>1, <1>2 DEF AtaTypeOK
    <3>2. Address(drive.regs) = Target
      BY <1>4, <2>1, AddressResult DEF Addressed, Target
    <3>3. drive' = [drive EXCEPT !.status = {"DRDY", "DRQ"}, !.count = 0, !.fifo = f]
      BY <2>4, <3>2
    <3>4. drive \in DriveState
      BY <1>1 DEF AtaTypeOK
    <3> HIDE DEF f
    <3>5. drive' \in DriveState
      BY <3>1, <3>3, <3>4 DEF DriveState, Bits
    <3>6. /\ drive'.status = {"DRDY", "DRQ"} /\ drive'.count = 0 /\ drive'.fifo = f
          /\ drive'.doing = drive.doing /\ drive'.regs = drive.regs
      BY <3>3, <3>4 DEF DriveState
    <3>7. AtFirstWord' /\ Addressed'
      BY <1>1, <1>4, <2>2, <3>6 DEF AtFirstWord, Moving, Working, Addressed, f
    <3>8. InStep'
      BY <1>1, <1>4, <3>7 DEF InStep
    <3> QED
      BY <1>1, <1>4, <2>2, <3>5, <3>8 DEF AtaInv, AtaTypeOK, Untouched, Reported
  <2> QED
    BY <2>1, <2>3, <2>4 DEF DriveStep
<1>5. CASE /\ (Storing /\ drive.fifo = call.buffer) \/ (Flushing /\ Stored)
           /\ Addressed /\ call.op = "write"
           /\ (pc = "transfer" /\ call.i = Words) \/ (pc = "poll" /\ call.then = "flushed")
  <2>1. drive' \in DriveState /\ drive'.regs = drive.regs /\ Resting'
    BY <1>1, <1>5, IdleResult DEF DriveStep, Storing, Flushing
  <2>2. medium' \in [0..(Capacity - 1) -> Sector] /\ failed' \in BOOLEAN /\ Stored'
    <3>1. drive.doing \in {"store", "flush"}
      BY <1>5 DEF Storing, Flushing
    <3>2. CASE medium' = medium /\ failed' = (failed \/ drive.doing = "store")
      BY <1>1, <1>5, <3>1, <3>2 DEF AtaTypeOK, Stored, Storing, Flushing
    <3>3. CASE drive.doing = "flush" /\ medium' = medium /\ failed' = failed
      BY <1>1, <1>5, <3>3 DEF AtaTypeOK, Stored, Storing, Flushing
    <3>4. CASE /\ drive.doing = "store" /\ failed' = failed
               /\ medium' = [medium EXCEPT ![Address(drive.regs)] = drive.fifo]
      <4>1. Address(drive.regs) = Target
        BY <1>1, <1>5, AddressResult DEF Addressed, Target, AtaTypeOK, CallState
      <4>2. drive.fifo = call.buffer
        BY <1>5, <3>4 DEF Flushing
      <4>3. medium' = [medium EXCEPT ![Target] = call.buffer]
        BY <3>4, <4>1, <4>2
      <4> QED
        BY <1>1, <1>2, <3>4, <4>3 DEF AtaTypeOK, Stored
    <3> QED
      BY <3>1, <3>2, <3>3, <3>4 DEF DriveStep
  <2>3. Placed' /\ Addressed'
    BY <1>1, <1>5, <2>1, <2>2 DEF Placed, Addressed
  <2>4. InStep'
    BY <1>1, <1>5, <2>3, AtaSizes DEF InStep
  <2> QED
    BY <1>1, <1>5, <2>1, <2>2, <2>4 DEF AtaInv, AtaTypeOK, Untouched, Reported
<1> QED
  BY <1>1, <1>3, <1>4, <1>5, BusyDrive

-----------------------------------------------------------------------------
(* The theorems                                                            *)

\* Every step of driver and drive keeps the invariant.
LEMMA AtaStepInv == AtaInv /\ [AtaNext]_atavars => AtaInv'
<1> SUFFICES ASSUME AtaInv, [AtaNext]_atavars
             PROVE  AtaInv'
  OBVIOUS
<1>1. CASE UNCHANGED atavars
  BY <1>1 DEF atavars, AtaInv, AtaTypeOK, InStep, Untouched, Reported, Quiet, Starting, Resting,
     Addressed, Working, Moving, AtFirstWord, AtWord, Placed, Storing, Flushing, Stored, Target
<1>2. CASE AtaNext
  <2>1. CASE DriveStep
    BY <2>1, DriveStepInv
  <2>2. CASE ata_init
    BY <2>2, ata_initInv
  <2>3. CASE \E lba \in Lbas : ata_read_sector(lba)
    BY <2>3, BeginInv, SectorFacts, AtaSizes DEF ata_read_sector
  <2>4. CASE \E lba \in Lbas : \E b \in Buffers : ata_write_sector(lba, b)
    BY <2>4, BeginInv, SectorFacts, AtaSizes DEF ata_write_sector
  <2>5. CASE Driver
    <3>1. CASE PollLoop
      BY <3>1, PollLoopInv
    <3>2. CASE PollResult
      BY <3>2, PollResultInv
    <3>3. CASE Probe
      BY <3>3, ProbeInv
    <3>4. CASE Started
      BY <3>4, StartedInv
    <3>5. CASE Issue
      BY <3>5, IssueInv
    <3>6. CASE Check
      BY <3>6, CheckInv
    <3>7. CASE Transfer
      BY <3>7, TransferInv
    <3>8. CASE ReadDone
      BY <3>8, ReadDoneInv
    <3>9. CASE Flush
      BY <3>9, FlushInv
    <3>10. CASE Flushed
      BY <3>10, FlushedInv
    <3> QED
      BY <2>5, <3>1, <3>2, <3>3, <3>4, <3>5, <3>6, <3>7, <3>8, <3>9, <3>10 DEF Driver
  <2> QED
    BY <1>2, <2>1, <2>2, <2>3, <2>4, <2>5 DEF AtaNext
<1> QED
  BY <1>1, <1>2

\* The invariant holds in every behaviour of the driver and its drive.
THEOREM AtaInvariance == AtaSpec => []AtaInv
<1>1. AtaInit => AtaInv
  BY AtaInitInv
<1>2. AtaInv /\ [AtaNext]_atavars => AtaInv'
  BY AtaStepInv
<1> QED
  BY <1>1, <1>2, PTL DEF AtaSpec

\* No call of ata_read_sector() or ata_write_sector() returns in the middle
\* of a transfer.
THEOREM NeverLeftHalfway == AtaSpec => []NotLeftHalfway
<1>1. AtaInv => NotLeftHalfway
  BY DEF AtaInv, InStep, NotLeftHalfway, Quiet, Starting, Resting
<1> QED
  BY <1>1, AtaInvariance, PTL

\* What ata_read_sector() and ata_write_sector() report is true, for every
\* sector size and every sector number the registers can express.
THEOREM SuccessCorrect == AtaSpec => []SuccessIsTrue
<1>1. AtaInv => SuccessIsTrue
  <2> SUFFICES ASSUME AtaInv PROVE SuccessIsTrue
    OBVIOUS
  <2>1. call.lba < Capacity => Target = call.lba
    <3>1. call.lba \in Nat /\ Capacity \in Nat \ {0}
      BY AddressResult DEF AtaInv, AtaTypeOK, CallState
    <3> QED
      BY <3>1 DEF Target
  <2> QED
    BY <2>1 DEF AtaInv, Reported, Stored, SuccessIsTrue, Returned
<1> QED
  BY <1>1, AtaInvariance, PTL

\* Only a write under way changes the medium, and only in the sector that the
\* caller of ata_write_sector() asked for; if the registers cannot hold its
\* number, only in the one they hold instead.
THEOREM OnlyItsSector == AtaSpec => OnlyTheSectorAskedFor
<1> DEFINE Kept(t) == \A s \in DOMAIN medium \ {t} : medium'[s] = medium[s]
           A == medium' # medium =>
                  /\ call.op = "write" /\ pc # "idle"
                  /\ call.lba < Capacity => Kept(call.lba)
                  /\ call.lba >= Capacity => Kept(call.lba % Capacity)
<1>1. AtaInv /\ [AtaNext]_atavars => [A]_atavars
  <2> SUFFICES ASSUME AtaInv, AtaNext, medium' # medium
               PROVE  /\ call.op = "write" /\ pc # "idle"
                      /\ call.lba < Capacity => Kept(call.lba)
                      /\ call.lba >= Capacity => Kept(call.lba % Capacity)
    BY DEF atavars
  <2>1. DriveStep
    BY DEF AtaNext, Driver, PollLoop, PollResult, Probe, Started, Issue, Check, Transfer, ReadDone,
       Flush, Flushed, Return, Step, ata_init, ata_read_sector, ata_write_sector, Begin
  <2>2. /\ "BSY" \in drive.status /\ drive.doing = "store"
        /\ medium' = [medium EXCEPT ![Address(drive.regs)] = drive.fifo]
    BY <2>1 DEF DriveStep
  <2>3. Addressed /\ call.op = "write" /\ pc # "idle"
    BY <2>2, BusyDrive DEF Starting, Working, Addressed
  <2>4. call.lba \in Nat /\ Capacity \in Nat \ {0} /\ Address(drive.regs) = call.lba % Capacity
    BY <2>3, AddressResult DEF AtaInv, AtaTypeOK, CallState, Addressed
  <2>5. Kept(call.lba % Capacity)
    BY <2>2, <2>4
  <2>6. call.lba < Capacity => call.lba % Capacity = call.lba
    BY <2>4
  <2> QED
    BY <2>3, <2>5, <2>6
<1> QED
  BY <1>1, AtaInvariance, PTL DEF AtaSpec, OnlyTheSectorAskedFor
=============================================================================
