-------------------------------- MODULE MCPmm -------------------------------
(***************************************************************************)
(* Pmm for TLC: blocks of 4 bytes, 2 bits to a byte and 4 to a word.  The  *)
(* maps have the shape of a PC's: low memory whose last block is usable in *)
(* part, a hole, and RAM behind it; with and without a second hole, and    *)
(* with sizes that do and do not fill the last word of the bitmap.         *)
(***************************************************************************)
EXTENDS Pmm, TLC

Ram(b, l) == [base |-> b, len |-> l, type |-> 1]
Hole(b, l) == [base |-> b, len |-> l, type |-> 2]

\* 12 blocks: 0..1 (block 1 in part), hole 2, RAM 3..11.
PcMap == << Ram(0, 6), Hole(6, 6), Ram(12, 36) >>
\* 13 blocks, one more than three words; the regions out of order.
OddMap == << Ram(12, 40), Hole(6, 6), Ram(0, 6) >>
\* 12 blocks, with a hole at 5..6.
HoleMap == << Ram(0, 6), Hole(6, 6), Ram(12, 8), Hole(20, 8), Ram(28, 20) >>

AllMaps == { PcMap, OddMap, HoleMap }
=============================================================================
