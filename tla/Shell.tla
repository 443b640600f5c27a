------------------------------- MODULE Shell --------------------------------
(***************************************************************************)
(* The shell's loop, start_shell() in shell/shell.c, with the interrupts   *)
(* that run between its steps: it polls keyboard_get_char(), halts in      *)
(* cpu_idle() when there is no character, and edits command_buffer until   *)
(* Enter runs the command.                                                 *)
(*                                                                         *)
(* keyboard_get_char() reads last_char twice and then stores 0; each       *)
(* access is a step of its own, since IRQ1 may come between any two.       *)
(* So is each access of keyboard_get_scancode(), the reader of the editor  *)
(* (app/utils/cable.c), which runs as long as the command that started it. *)
(* What other commands do is not modelled here (see Commands and Bdfs):    *)
(* running one is a step that leaves the driver alone.                     *)
(***************************************************************************)
EXTENDS Keyboard

CONSTANTS
  MaxCommandLength,  \* MAX_COMMAND_LENGTH
  UintLimit,         \* the tick counters are uint32_t, below this
  QuitKey            \* the key that ends the editor when Ctrl is down, q

ASSUME ShellSizes ==
  MaxCommandLength \in Nat \ {0} /\ UintLimit \in Nat \ {0} /\ QuitKey \in CharKeys

VARIABLES
  pc,              \* the next step of the loop
  c,               \* the character in hand
  command_buffer,
  command_len,
  total_ticks,     \* cpu.c; timer.c counts timer_ticks alike
  idle_ticks,
  line,            \* history: the line as the user edited it
  ran,             \* the command run last
  taken,           \* history: the press of the last character handled
  edited           \* history: that of the last scancode the editor handled

ticks == <<total_ticks, idle_ticks>>
edit == <<command_buffer, command_len, line, ran>>
shellvars == <<kbdvars, pc, c, edit, ticks, taken, edited>>

Nul == "nul"

\* kbd_us[] has no key with the character 0: that entry means "no character".
ASSUME NulAssumption == Nul \notin CharKeys

Slot == 0..(MaxCommandLength - 1)
EmptyBuffer == [i \in Slot |-> Nul]

\* The C string at the start of command_buffer.
CString(buffer) ==
  LET stop == CHOOSE i \in Slot : buffer[i] = Nul /\ \A j \in 0..(i - 1) : buffer[j] # Nul
  IN  [i \in 1..stop |-> buffer[i - 1]]

ShellInit ==
  /\ KeyboardInit
  /\ pc = "check" /\ c = NoChar
  /\ command_buffer = EmptyBuffer /\ command_len = 0
  /\ total_ticks = 0 /\ idle_ticks = 0
  /\ line = <<>> /\ ran = <<>> /\ taken = 0 /\ edited = 0

-----------------------------------------------------------------------------
(* keyboard_get_char()                                                     *)

Check ==
  /\ pc = "check"
  /\ pc' = IF last_char # NoChar THEN "load" ELSE "idle"
  /\ UNCHANGED <<kbdvars, c, edit, ticks, taken, edited>>

Load ==
  /\ pc = "load"
  /\ pc' = "clear"
  /\ c' = last_char
  /\ UNCHANGED <<kbdvars, edit, ticks, taken, edited>>

Clear ==
  /\ pc = "clear"
  /\ pc' = "use"
  /\ last_char' = NoChar
  /\ UNCHANGED <<wire, presses, last_scancode, ctrl_pressed, c, edit, ticks, taken, edited>>

-----------------------------------------------------------------------------
(* cpu_idle()                                                              *)

\* sti; hlt.
Halt ==
  /\ \/ pc = "idle"
     \/ pc = "use" /\ c = NoChar
  /\ pc' = "halted"
  /\ UNCHANGED <<kbdvars, c, edit, ticks, taken, edited>>

Count ==
  /\ pc = "woken"
  /\ pc' = "check"
  /\ idle_ticks' = (idle_ticks + 1) % UintLimit
  /\ UNCHANGED <<kbdvars, c, edit, total_ticks, taken, edited>>

-----------------------------------------------------------------------------
(* What start_shell() does with a character                                *)

Handle(key) ==
  /\ pc = "use" /\ c.key = key
  /\ taken' = c.press
  /\ UNCHANGED <<kbdvars, c, ticks, edited>>

Use(key) == Handle(key) /\ pc' = "check"

\* scroll_up() and scroll_down(): the screen only.
Scroll == \E key \in {"up", "down"} : Use(key) /\ UNCHANGED edit

Backspace ==
  /\ Use("backspace")
  /\ command_len' = IF command_len > 0 THEN command_len - 1 ELSE 0
  /\ line' = IF line = <<>> THEN <<>> ELSE SubSeq(line, 1, Len(line) - 1)
  /\ UNCHANGED <<command_buffer, ran>>

\* Fault: the last byte of the buffer is used for a character.
InsertUnbounded ==
  \E key \in CharKeys :
    /\ Use(key)
    /\ \/ /\ command_len < MaxCommandLength
          /\ command_buffer' = [command_buffer EXCEPT ![command_len] = key]
          /\ command_len' = command_len + 1
          /\ line' = Append(line, key)
       \/ command_len >= MaxCommandLength /\ UNCHANGED <<command_buffer, command_len, line>>
    /\ UNCHANGED ran

Insert ==
  \E key \in CharKeys :
    /\ Use(key)
    /\ \/ /\ command_len < MaxCommandLength - 1
          /\ command_buffer' = [command_buffer EXCEPT ![command_len] = key]
          /\ command_len' = command_len + 1
          /\ line' = Append(line, key)
       \/ command_len >= MaxCommandLength - 1 /\ UNCHANGED <<command_buffer, command_len, line>>
    /\ UNCHANGED ran

\* Fault: the string is not terminated where the line ends.
EnterUnterminated ==
  /\ Handle("enter") /\ pc' \in {"check", "wait"}
  /\ ran' = CString(command_buffer)
  /\ command_len' = 0
  /\ command_buffer' = EmptyBuffer
  /\ line' = <<>>

\* The line is terminated, run, and the buffer cleared; any line but the
\* empty one may start the editor.
Enter ==
  /\ Handle("enter")
  /\ pc' = "check" \/ (line # <<>> /\ pc' = "wait")
  /\ ran' = CString([command_buffer EXCEPT ![command_len] = Nul])
  /\ command_len' = 0
  /\ command_buffer' = EmptyBuffer
  /\ line' = <<>>

-----------------------------------------------------------------------------
(* keyboard_get_scancode() and what the editor does with the scancode      *)

Editing == {"wait", "scan", "unscan", "key"}

Wait ==
  /\ pc = "wait" /\ last_scancode # NoChar
  /\ pc' = "scan"
  /\ UNCHANGED <<kbdvars, c, edit, ticks, taken, edited>>

Scan ==
  /\ pc = "scan" /\ pc' = "unscan"
  /\ c' = last_scancode
  /\ UNCHANGED <<kbdvars, edit, ticks, taken, edited>>

\* Fault: the scancode is left in place.
UnscanNot ==
  /\ pc = "unscan" /\ pc' = "key"
  /\ UNCHANGED <<kbdvars, c, edit, ticks, taken, edited>>

Unscan ==
  /\ pc = "unscan" /\ pc' = "key"
  /\ last_scancode' = NoChar
  /\ UNCHANGED <<wire, presses, last_char, ctrl_pressed, c, edit, ticks, taken, edited>>

\* editor_process_keypress() as far as the keyboard is concerned; ctrl_pressed
\* is read only now.  What the keys do to the text is in Cable.
Key ==
  /\ pc = "key"
  /\ pc' = IF c.key = QuitKey /\ ctrl_pressed THEN "check" ELSE "wait"
  /\ edited' = c.press
  /\ UNCHANGED <<kbdvars, c, edit, ticks, taken>>

Main ==
  \/ Check \/ Load \/ Clear \/ Halt \/ Count \/ Scroll \/ Backspace \/ Insert \/ Enter
  \/ Wait \/ Scan \/ Unscan \/ Key

-----------------------------------------------------------------------------
(* Interrupts; any of them ends a hlt                                      *)

Wake == pc' = IF pc = "halted" THEN "woken" ELSE pc

\* Fault: a timer interrupt does not end the hlt.
TimerIrqMasked ==
  /\ total_ticks' = (total_ticks + 1) % UintLimit
  /\ UNCHANGED <<kbdvars, pc, c, edit, idle_ticks, taken, edited>>

\* IRQ0, 100 times a second: timer_handler() and cpu_tick().
TimerIrq ==
  /\ Wake
  /\ total_ticks' = (total_ticks + 1) % UintLimit
  /\ UNCHANGED <<kbdvars, c, edit, idle_ticks, taken, edited>>

KeyboardIrq ==
  /\ keyboard_handler
  /\ Wake
  /\ UNCHANGED <<c, edit, ticks, taken, edited>>

\* An unmasked line without a handler: irq_handler() only acknowledges it.
OtherIrq ==
  /\ pc = "halted" /\ Wake
  /\ UNCHANGED <<kbdvars, c, edit, ticks, taken, edited>>

User == (\E k \in Keys : Press(k)) /\ UNCHANGED <<pc, c, edit, ticks, taken, edited>>

ShellNext == Main \/ TimerIrq \/ KeyboardIrq \/ OtherIrq \/ User

(***************************************************************************)
(* Fairness.  The processor goes on executing the loop; the timer chip     *)
(* raises IRQ0 periodically; the controller keeps IRQ1 raised as long as   *)
(* it holds a scancode.  Interrupts are enabled throughout the loop.  The  *)
(* user owes nothing, nor does any other device.                           *)
(***************************************************************************)
Fairness == WF_shellvars(Main) /\ WF_shellvars(TimerIrq) /\ WF_shellvars(KeyboardIrq)

ShellSpec == ShellInit /\ [][ShellNext]_shellvars /\ Fairness

-----------------------------------------------------------------------------
(* Properties                                                              *)

ShellTypeOK ==
  /\ KeyboardTypeOK
  /\ pc \in {"check", "load", "clear", "use", "idle", "halted", "woken"} \cup Editing
  /\ c \in Scancode \cup {NoChar}
  /\ command_buffer \in [Slot -> CharKeys \cup {Nul}]
  /\ command_len \in Slot
  /\ total_ticks \in 0..(UintLimit - 1) /\ idle_ticks \in 0..(UintLimit - 1)
  /\ line \in Seq(CharKeys) /\ ran \in Seq(CharKeys)
  /\ taken \in 0..MaxPresses /\ edited \in 0..MaxPresses

\* The command that Enter runs is the line as edited: characters that
\* backspaces left behind in command_buffer, or an earlier longer command,
\* never show.
RunsTheEditedLine ==
  [][pc = "use" /\ c.key = "enter" /\ pc' # "use" => ran' = line]_shellvars

\* Neither reader handles a key press twice or out of order, wherever the
\* interrupts hit it; and although every key goes through both last_char and
\* last_scancode, the shell gets to see of the editor's keys at most the one
\* that ended it, and the editor of the shell's at most the Enter that started
\* it.
TakenInOrder ==
  [][/\ pc = "use" /\ pc' # "use" /\ c # NoChar => taken' > taken /\ taken' >= edited
     /\ pc = "key" /\ pc' # "key" => edited' > edited /\ edited' >= taken]_shellvars

\* A key never stays unread for ever by the loop that runs: although IRQ1 may
\* come between the shell's check and its hlt, when it no longer ends the hlt,
\* the next interrupt does.
PendingIsTaken ==
  /\ (pc \notin Editing /\ last_char # NoChar) ~> (last_char = NoChar \/ pc \in Editing)
  /\ (pc \in Editing /\ last_scancode # NoChar) ~> (last_scancode = NoChar \/ pc \notin Editing)

-----------------------------------------------------------------------------
(* What comments and documentation say, and the code does not keep         *)

\* "Store the character for keyboard_get_char()": when the user stops after a
\* key, its character gets to the shell.
LastKeyArrives ==
  \A n \in 1..MaxPresses :
    (last_char # NoChar /\ last_char.press = n /\ presses = n) ~>
      (taken = n \/ presses > n \/ pc \in Editing)
=============================================================================
