-------------------------------- MODULE MCAta -------------------------------
(***************************************************************************)
(* Ata for TLC: 16 sectors of two words; sector 18 does not exist.         *)
(***************************************************************************)
EXTENDS Ata

TwoBuffers == { [w \in Index |-> IF w = 0 THEN "a" ELSE x] : x \in {"b", "c"} }
=============================================================================
