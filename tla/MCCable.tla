------------------------------- MODULE MCCable ------------------------------
(***************************************************************************)
(* Cable for TLC: three rows of three bytes.                               *)
(***************************************************************************)
EXTENDS Cable

CharA == 97
CharB == 98
Letters == {CharA, CharB}
WrittenTexts == { <<CharA, CharB, CharA>> }
ShortName == <<CharB>>
=============================================================================
