------------------------------- MODULE MCE1000 ------------------------------
(***************************************************************************)
(* E1000 for TLC: tables of 8 entries, 16 frames of RAM of which the first *)
(* 8 are identity-mapped, and a heap with room for exactly two cards.  The *)
(* PMM has many frames, few, or frames outside the identity map only;      *)
(* cards share a table for their registers or do not.                      *)
(***************************************************************************)
EXTENDS E1000

Ram == 0..15
PmmStates ==
  { 3..15, 8..15, {3, 5, 7, 9, 11, 13, 15}, {4, 5, 6, 12}, {6, 10}, {7} }
CardBars == {0, 16, 22, 24, 40}
=============================================================================
