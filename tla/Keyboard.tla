------------------------------ MODULE Keyboard ------------------------------
(***************************************************************************)
(* The keyboard driver, drivers/keyboard_driver.c: the interrupt side,     *)
(* which keeps one scancode per IRQ1 as last_scancode and decodes it into  *)
(* the single character last_char, and the user and controller that feed   *)
(* it.  The readers run in the shell's and the editor's loop: see Shell.   *)
(*                                                                         *)
(* A scancode is a record: what the key is and which press of it, counted  *)
(* from 1, made it.  The second is not in the hardware; it lets properties *)
(* tell two presses of one key apart.                                      *)
(***************************************************************************)
EXTENDS Integers, Sequences

CONSTANTS
  CharKeys,    \* keys with a character in kbd_us[] other than \n and \b
  MaxPresses,  \* bound: how many scancodes are sent
  WireSize     \* bound: scancodes the controller holds

ASSUME KeyboardSizes == MaxPresses \in Nat /\ WireSize \in Nat \ {0}

\* The keys without a character, and "none", are named apart.
ASSUME CharKeysAssumption ==
  CharKeys \cap {"none", "enter", "backspace", "up", "down", "unmapped",
                "ctrl", "ctrl_release", "release"} = {}

\* Keys that last_char can show, and the scancodes that it cannot: a key
\* without a character, Ctrl, and the release codes.
PrintedKeys == CharKeys \cup {"enter", "backspace"}
ShownKeys == PrintedKeys \cup {"up", "down"}
Keys == ShownKeys \cup {"unmapped", "ctrl", "ctrl_release", "release"}

VARIABLES
  wire,          \* scancodes in the keyboard controller, IRQ1 raised if any
  presses,       \* how many were sent
  last_char,     \* NoChar or the scancode whose character it is
  last_scancode, \* NoChar or the scancode
  ctrl_pressed

kbdvars == <<wire, presses, last_char, last_scancode, ctrl_pressed>>

NoChar == [key |-> "none", press |-> 0]
Scancode == [key : Keys, press : 1..MaxPresses]

KeyboardInit ==
  /\ wire = <<>> /\ presses = 0
  /\ last_char = NoChar /\ last_scancode = NoChar /\ ctrl_pressed = FALSE

\* The user presses or releases a key.
Press(k) ==
  /\ presses < MaxPresses /\ Len(wire) < WireSize
  /\ presses' = presses + 1
  /\ wire' = Append(wire, [key |-> k, press |-> presses'])
  /\ UNCHANGED <<last_char, last_scancode, ctrl_pressed>>

\* What keyboard_handler() makes of a scancode.
Decoded(sc) ==
  IF sc.key \in {"ctrl", "ctrl_release", "release"} THEN last_char
  ELSE IF sc.key \in {"up", "down"} THEN sc
  ELSE IF ctrl_pressed \/ sc.key = "unmapped" THEN NoChar
  ELSE sc

CtrlAfter(sc) == sc.key = "ctrl" \/ (ctrl_pressed /\ sc.key # "ctrl_release")

\* IRQ1: the controller's byte is read and decoded; atomic for the code it
\* interrupts, since the gate clears IF.
keyboard_handler ==
  /\ wire # <<>>
  /\ wire' = Tail(wire)
  /\ last_scancode' = Head(wire)
  /\ last_char' = Decoded(Head(wire))
  /\ ctrl_pressed' = CtrlAfter(Head(wire))
  /\ UNCHANGED presses

KeyboardTypeOK ==
  /\ wire \in Seq(Scancode) /\ Len(wire) <= WireSize
  /\ presses \in 0..MaxPresses
  /\ {last_char, last_scancode} \subseteq Scancode \cup {NoChar}
  /\ ctrl_pressed \in BOOLEAN
=============================================================================
