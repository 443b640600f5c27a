---------------------------- MODULE ShellProofs -----------------------------
(***************************************************************************)
(* Proofs about the shell's loop with the keyboard driver, for any keys,   *)
(* any number of presses and any buffer size, wherever the interrupts hit  *)
(* the readers; and about the console it prints to, for a screen and a     *)
(* buffer of any size and any amount of text: nothing is stored outside    *)
(* it, the buffer and the screen show what paper would, and what is        *)
(* printed is seen.                                                        *)
(***************************************************************************)
EXTENDS Shell, Console, SequenceTheorems, WellFoundedInduction, TLAPS

-----------------------------------------------------------------------------
(* Shell: the inductive invariant                                          *)

\* How many scancodes keyboard_handler() has read: the presses up to this one
\* have left the controller, and the wire holds the ones behind it in order.
Seen == presses - Len(wire)

WireInOrder ==
  /\ Len(wire) <= presses
  /\ \A k \in 1..Len(wire) : wire[k].press = Seen + k

\* Nothing comes from a scancode still on the wire.
OnlyThePast ==
  /\ last_char.press <= Seen /\ c.press <= Seen
  /\ taken <= Seen /\ edited <= Seen

\* last_scancode is always the newest scancode, and so is last_char unless the
\* newest one has left it alone.
Newest ==
  last_scancode # NoChar =>
    /\ last_scancode.press = Seen
    /\ last_scancode.key \in ShownKeys /\ last_char # NoChar => last_char.press = Seen

\* What the shell has not read yet, or has in hand, is newer than what it
\* handled, and not older than what the editor did before it ended.
ShellInOrder ==
  /\ last_char # NoChar =>
       /\ last_char.press > taken
       /\ pc \notin Editing => last_char.press >= edited
       /\ pc = "use" => last_char.press > c.press
  /\ pc \in {"clear", "use"} /\ c # NoChar => c.press > taken /\ c.press >= edited

\* The same for the editor; the key that ends it is not older than the
\* character it leaves to the shell.
EditorInOrder ==
  /\ last_scancode # NoChar => Seen > edited /\ (pc = "key" => Seen > c.press)
  /\ pc = "scan" => last_scancode # NoChar
  /\ pc \in {"unscan", "key"} =>
       /\ c.press > edited /\ c.press >= taken
       /\ c.key = QuitKey /\ last_char # NoChar => last_char.press >= c.press

\* command_buffer starts with the line as edited.
BufferHoldsLine ==
  /\ Len(line) = command_len
  /\ \A k \in 1..Len(line) : line[k] = command_buffer[k - 1]

OrderInv == WireInOrder /\ OnlyThePast /\ Newest /\ ShellInOrder /\ EditorInOrder

ShellInv == ShellTypeOK /\ OrderInv /\ BufferHoldsLine

-----------------------------------------------------------------------------
(* Lemmas about the operators                                              *)

\* A scancode is not NoChar, and counts its press from 1.
LEMMA CodeFacts ==
  /\ NoChar.press = 0 /\ NoChar.key = "none"
  /\ \A s \in Scancode \cup {NoChar} :
       /\ s.press \in Nat /\ s.press <= MaxPresses
       /\ s # NoChar => s \in Scancode /\ s.press > 0
  /\ \A s \in Scancode : s.key \in Keys /\ s.press \in 1..MaxPresses /\ s # NoChar
BY KeyboardSizes DEF NoChar, Scancode

\* A string with the line in front and a 0 behind it is the line, whatever
\* bytes follow.
LEMMA CStringOfLine ==
  ASSUME NEW buffer \in [Slot -> CharKeys \cup {Nul}], NEW l \in Seq(CharKeys),
         NEW len \in Slot, Len(l) = len,
         \A k \in 1..Len(l) : l[k] = buffer[k - 1]
  PROVE  CString([buffer EXCEPT ![len] = Nul]) = l
<1> DEFINE b == [buffer EXCEPT ![len] = Nul]
           Stop(i) == b[i] = Nul /\ \A j \in 0..(i - 1) : b[j] # Nul
           stop == CHOOSE i \in Slot : Stop(i)
<1>1. len \in Nat /\ len <= MaxCommandLength - 1
  BY ShellSizes DEF Slot
<1>2. /\ b[len] = Nul
      /\ \A j \in Slot : j # len => b[j] = buffer[j]
  OBVIOUS
<1>3. \A k \in 1..len : l[k] \in CharKeys
  BY ElementOfSeq
<1>4. \A j \in 0..(len - 1) : b[j] = l[j + 1] /\ b[j] # Nul
  <2> TAKE j \in 0..(len - 1)
  <2>1. j \in Slot /\ j # len /\ j + 1 \in 1..len
    BY <1>1, ShellSizes DEF Slot
  <2>2. l[j + 1] = buffer[(j + 1) - 1] /\ (j + 1) - 1 = j
    BY <2>1
  <2>3. b[j] = l[j + 1]
    BY <1>2, <2>1, <2>2
  <2> HIDE DEF b
  <2> QED
    BY <1>3, <2>1, <2>3, NulAssumption
<1> HIDE DEF b
<1>5. Stop(len)
  BY <1>2, <1>4
<1>6. \A i \in Slot : Stop(i) => i = len
  <2> SUFFICES ASSUME NEW i \in Slot, Stop(i) PROVE i = len
    OBVIOUS
  <2>1. i \in Nat
    BY ShellSizes DEF Slot
  <2>2. ~(i < len)
    <3> SUFFICES ASSUME i < len PROVE FALSE
      OBVIOUS
    <3>1. i \in 0..(len - 1)
      BY <1>1, <2>1
    <3> QED
      BY <1>4, <3>1
  <2>3. ~(len < i)
    BY <1>1, <1>2, <2>1
  <2> QED
    BY <1>1, <2>1, <2>2, <2>3
<1> HIDE DEF Stop
<1>7. stop = len
  BY <1>5, <1>6
<1>8. CString(b) = [i \in 1..stop |-> b[i - 1]]
  BY DEF CString, Stop
<1>9. \A i \in 1..len : b[i - 1] = l[i]
  <2> TAKE i \in 1..len
  <2>1. i - 1 \in 0..(len - 1) /\ (i - 1) + 1 = i
    BY <1>1
  <2> QED
    BY <1>4, <2>1
<1> HIDE DEF stop
<1>10. [i \in 1..len |-> b[i - 1]] = [i \in 1..len |-> l[i]]
  BY <1>9
<1>11. l = [i \in 1..len |-> l[i]]
  BY LenProperties
<1> QED
  BY <1>7, <1>8, <1>10, <1>11 DEF b

\* What keyboard_handler() takes from the controller is the next press.
LEMMA NextScancode ==
  ASSUME ShellTypeOK, WireInOrder, keyboard_handler
  PROVE  /\ Head(wire) \in Scancode
         /\ Head(wire).press = Seen + 1
         /\ wire' \in Seq(Scancode) /\ Len(wire') = Len(wire) - 1
         /\ presses' = presses /\ Seen' = Seen + 1
         /\ WireInOrder'
<1> HIDE DEF Scancode
<1>1. /\ wire \in Seq(Scancode) /\ wire # <<>>
      /\ wire' = Tail(wire) /\ presses' = presses
      /\ presses \in Nat
  BY KeyboardSizes DEF ShellTypeOK, KeyboardTypeOK, keyboard_handler
<1>2. Len(wire) \in Nat /\ Len(wire) > 0
  BY <1>1, EmptySeq, LenProperties
<1>3. /\ wire' \in Seq(Scancode) /\ Len(wire') = Len(wire) - 1
      /\ \A k \in 1..Len(wire') : wire'[k] = wire[k + 1]
      /\ Head(wire) = wire[1]
  BY <1>1, <1>2, HeadTailProperties
<1>4. wire[1] \in Scancode
  BY <1>1, <1>2, ElementOfSeq
<1>5. Seen \in Int /\ Seen' = Seen + 1
  BY <1>1, <1>2, <1>3 DEF Seen
<1>6. wire[1].press = Seen + 1
  BY <1>2 DEF WireInOrder
<1>7. \A k \in 1..Len(wire') : wire'[k].press = Seen' + k
  <2> TAKE k \in 1..Len(wire')
  <2>1. k + 1 \in 1..Len(wire)
    BY <1>2, <1>3
  <2>2. wire'[k].press = Seen + (k + 1)
    BY <1>3, <2>1 DEF WireInOrder
  <2> QED
    BY <1>5, <2>2
<1>8. Len(wire') <= presses'
  BY <1>1, <1>2, <1>3 DEF WireInOrder
<1> QED
  BY <1>1, <1>3, <1>4, <1>5, <1>6, <1>7, <1>8 DEF WireInOrder

\* A press goes to the end of the wire.
LEMMA PressOnWire ==
  ASSUME ShellTypeOK, WireInOrder, NEW k \in Keys, Press(k)
  PROVE  /\ wire' \in Seq(Scancode) /\ Len(wire') = Len(wire) + 1
         /\ Len(wire') <= WireSize
         /\ presses' \in 0..MaxPresses /\ Seen' = Seen
         /\ WireInOrder'
<1> DEFINE s == [key |-> k, press |-> presses']
<1>1. /\ wire \in Seq(Scancode) /\ presses \in Nat
      /\ presses < MaxPresses /\ presses' = presses + 1
      /\ wire' = Append(wire, s) /\ Len(wire) < WireSize
  BY KeyboardSizes DEF ShellTypeOK, KeyboardTypeOK, Press
<1>2. s \in Scancode /\ s.press = presses + 1 /\ presses' \in 0..MaxPresses
  BY <1>1, KeyboardSizes DEF Scancode
<1> HIDE DEF Scancode, s
<1>3. Len(wire) \in Nat
  BY <1>1, LenProperties
<1>4. /\ wire' \in Seq(Scancode) /\ Len(wire') = Len(wire) + 1
      /\ \A i \in 1..Len(wire) : wire'[i] = wire[i]
      /\ wire'[Len(wire) + 1] = s
  BY <1>1, <1>2, AppendProperties
<1>5. Seen \in Int /\ Seen' = Seen
  BY <1>1, <1>3, <1>4 DEF Seen
<1>6. \A i \in 1..Len(wire') : wire'[i].press = Seen' + i
  <2> TAKE i \in 1..Len(wire')
  <2>1. CASE i \in 1..Len(wire)
    BY <1>4, <1>5, <2>1 DEF WireInOrder
  <2>2. CASE i = Len(wire) + 1
    BY <1>1, <1>2, <1>3, <1>4, <1>5, <2>2 DEF Seen
  <2> QED
    BY <1>3, <1>4, <2>1, <2>2
<1>7. Len(wire') <= presses' /\ Len(wire') <= WireSize
  BY <1>1, <1>3, <1>4, KeyboardSizes DEF WireInOrder
<1> QED
  BY <1>2, <1>4, <1>5, <1>6, <1>7 DEF WireInOrder

-----------------------------------------------------------------------------
(* The line and the buffer                                                 *)

\* The tick counters wrap inside their type.
LEMMA TickType ==
  ASSUME NEW n \in 0..(UintLimit - 1)
  PROVE  (n + 1) % UintLimit \in 0..(UintLimit - 1)
BY ShellSizes

\* The types of what start_shell() edits.
EditType ==
  /\ command_buffer \in [Slot -> CharKeys \cup {Nul}]
  /\ command_len \in Slot
  /\ line \in Seq(CharKeys) /\ ran \in Seq(CharKeys)

\* Enter runs the line: the terminating 0 stands where the line ends.
LEMMA EnterRunsLine ==
  ASSUME EditType, BufferHoldsLine, Enter
  PROVE  ran' = line
<1>1. CString([command_buffer EXCEPT ![command_len] = Nul]) = line
  BY CStringOfLine DEF EditType, BufferHoldsLine
<1> QED
  BY <1>1 DEF Enter

\* Backspace takes the last character off the line, and off the buffer by
\* shortening it.
LEMMA BackspaceEdit ==
  ASSUME EditType, BufferHoldsLine, Backspace
  PROVE  EditType' /\ BufferHoldsLine'
<1>1. /\ line \in Seq(CharKeys) /\ Len(line) = command_len /\ command_len \in Nat
      /\ command_len <= MaxCommandLength - 1
      /\ UNCHANGED <<command_buffer, ran>>
  BY ShellSizes DEF EditType, BufferHoldsLine, Backspace, Slot
<1>2. CASE line = <<>>
  <2>1. command_len = 0
    BY <1>1, <1>2, EmptySeq
  <2>2. UNCHANGED <<command_buffer, command_len, line, ran>>
    BY <1>1, <1>2, <2>1 DEF Backspace
  <2> QED
    BY <2>2 DEF EditType, BufferHoldsLine
<1>3. CASE line # <<>>
  <2>1. command_len > 0
    BY <1>1, <1>3, EmptySeq
  <2>2. line' = SubSeq(line, 1, command_len - 1) /\ command_len' = command_len - 1
    BY <1>1, <1>3, <2>1 DEF Backspace
  <2>3. \A k \in 1..(command_len - 1) : line[k] \in CharKeys
    <3> TAKE k \in 1..(command_len - 1)
    <3>1. k \in 1..Len(line)
      BY <1>1
    <3> QED
      BY <1>1, <3>1, ElementOfSeq
  <2>4. /\ line' \in Seq(CharKeys) /\ Len(line') = command_len - 1
        /\ \A k \in 1..(command_len - 1) : line'[k] = line[k]
    <3> DEFINE n == command_len - 1
    <3>1. n \in Int /\ 1 \in Int
      BY <1>1
    <3> HIDE DEF n
    <3>2. /\ SubSeq(line, 1, n) \in Seq(CharKeys)
          /\ Len(SubSeq(line, 1, n)) = IF 1 <= n THEN n - 1 + 1 ELSE 0
          /\ \A i \in 1..(n - 1 + 1) : SubSeq(line, 1, n)[i] = line[1 + i - 1]
      BY <2>3, <3>1, SubSeqProperties DEF n
    <3>3. n - 1 + 1 = n /\ \A i \in 1..n : 1 + i - 1 = i
      BY <3>1
    <3>4. n >= 0
      BY <1>1, <2>1 DEF n
    <3> QED
      BY <2>2, <3>1, <3>2, <3>3, <3>4 DEF n
  <2>5. command_len' \in Slot
    BY <1>1, <2>1, <2>2, ShellSizes DEF Slot
  <2>6. \A k \in 1..Len(line') : line'[k] = command_buffer'[k - 1]
    <3> TAKE k \in 1..Len(line')
    <3>1. k \in 1..(command_len - 1) /\ k \in 1..Len(line)
      BY <1>1, <2>4
    <3> QED
      BY <1>1, <2>4, <3>1 DEF BufferHoldsLine
  <2> QED
    BY <1>1, <2>2, <2>4, <2>5, <2>6 DEF EditType, BufferHoldsLine
<1> QED
  BY <1>2, <1>3

\* A character goes to the end of both, unless the buffer only has room for
\* the terminating 0.
LEMMA InsertEdit ==
  ASSUME EditType, BufferHoldsLine, Insert
  PROVE  EditType' /\ BufferHoldsLine'
<1>1. /\ line \in Seq(CharKeys) /\ Len(line) = command_len /\ command_len \in Nat
      /\ command_len <= MaxCommandLength - 1 /\ command_len \in Slot
      /\ command_buffer \in [Slot -> CharKeys \cup {Nul}]
      /\ ran' = ran
  BY ShellSizes DEF EditType, BufferHoldsLine, Insert, Slot
<1>2. CASE UNCHANGED <<command_buffer, command_len, line>>
  BY <1>1, <1>2 DEF EditType, BufferHoldsLine
<1>3. ASSUME NEW key \in CharKeys,
             command_len < MaxCommandLength - 1,
             command_buffer' = [command_buffer EXCEPT ![command_len] = key],
             command_len' = command_len + 1,
             line' = Append(line, key)
      PROVE  EditType' /\ BufferHoldsLine'
  <2>1. /\ line' \in Seq(CharKeys) /\ Len(line') = command_len + 1
        /\ \A k \in 1..command_len : line'[k] = line[k]
        /\ line'[command_len + 1] = key
    BY <1>1, <1>3, AppendProperties
  <2>2. /\ command_buffer' \in [Slot -> CharKeys \cup {Nul}]
        /\ command_buffer'[command_len] = key
        /\ \A i \in Slot : i # command_len => command_buffer'[i] = command_buffer[i]
    BY <1>1, <1>3
  <2>3. command_len' \in Slot
    BY <1>1, <1>3, ShellSizes DEF Slot
  <2>4. \A k \in 1..Len(line') : line'[k] = command_buffer'[k - 1]
    <3> TAKE k \in 1..Len(line')
    <3>1. CASE k \in 1..command_len
      <4>1. k - 1 \in Slot /\ k - 1 # command_len
        BY <1>1, <3>1, ShellSizes DEF Slot
      <4> QED
        BY <1>1, <2>1, <2>2, <3>1, <4>1 DEF BufferHoldsLine
    <3>2. CASE k = command_len + 1
      <4>1. k - 1 = command_len
        BY <1>1, <3>2
      <4> QED
        BY <2>1, <2>2, <3>2, <4>1
    <3> QED
      BY <1>1, <2>1, <3>1, <3>2
  <2> QED
    BY <1>1, <1>3, <2>1, <2>2, <2>3, <2>4 DEF EditType, BufferHoldsLine
<1> QED
  BY <1>2, <1>3 DEF Insert

\* Enter leaves an empty line and a cleared buffer.
LEMMA EnterEdit ==
  ASSUME EditType, BufferHoldsLine, Enter
  PROVE  EditType' /\ BufferHoldsLine'
<1>1. ran' \in Seq(CharKeys)
  BY EnterRunsLine DEF EditType
<1>2. /\ line' = <<>> /\ command_len' = 0
      /\ command_buffer' = [i \in Slot |-> Nul]
  BY DEF Enter, EmptyBuffer
<1>3. line' \in Seq(CharKeys) /\ Len(line') = 0
  BY <1>2, EmptySeq
<1>4. command_len' \in Slot /\ command_buffer' \in [Slot -> CharKeys \cup {Nul}]
  BY <1>2, ShellSizes DEF Slot
<1>5. \A k \in 1..Len(line') : line'[k] = command_buffer'[k - 1]
  BY <1>3
<1> QED
  BY <1>1, <1>2, <1>3, <1>4, <1>5 DEF EditType, BufferHoldsLine

\* The buffer holds the line after every step: no other step touches either.
LEMMA EditStep ==
  ASSUME EditType, BufferHoldsLine, [ShellNext]_shellvars
  PROVE  EditType' /\ BufferHoldsLine'
<1>1. CASE UNCHANGED edit
  BY <1>1 DEF edit, EditType, BufferHoldsLine
<1>2. CASE Backspace
  BY <1>2, BackspaceEdit
<1>3. CASE Insert
  BY <1>3, InsertEdit
<1>4. CASE Enter
  BY <1>4, EnterEdit
<1>5. CASE Check \/ Load \/ Clear \/ Halt \/ Count \/ Scroll
  BY <1>1, <1>5 DEF Check, Load, Clear, Halt, Count, Scroll
<1>6. CASE Wait \/ Scan \/ Unscan \/ Key
  BY <1>1, <1>6 DEF Wait, Scan, Unscan, Key
<1>7. CASE TimerIrq \/ KeyboardIrq \/ OtherIrq \/ User
  BY <1>1, <1>7 DEF TimerIrq, KeyboardIrq, OtherIrq, User
<1>8. CASE UNCHANGED shellvars
  BY <1>1, <1>8 DEF shellvars
<1> QED
  BY <1>2, <1>3, <1>4, <1>5, <1>6, <1>7, <1>8 DEF ShellNext, Main

-----------------------------------------------------------------------------
(* Types                                                                   *)

\* The rest of ShellTypeOK.
LoopType ==
  /\ KeyboardTypeOK
  /\ pc \in {"check", "load", "clear", "use", "idle", "halted", "woken"} \cup Editing
  /\ c \in Scancode \cup {NoChar}
  /\ total_ticks \in 0..(UintLimit - 1) /\ idle_ticks \in 0..(UintLimit - 1)
  /\ taken \in 0..MaxPresses /\ edited \in 0..MaxPresses

\* The type invariant is the loop's part and the editing's.
LEMMA TypeParts == ShellTypeOK <=> LoopType /\ EditType
BY DEF ShellTypeOK, LoopType, EditType

\* An interrupt moves the loop only out of the hlt.
LEMMA WakeMoves ==
  ASSUME Wake
  PROVE  pc' = pc \/ (pc = "halted" /\ pc' = "woken")
BY DEF Wake

\* Every step keeps the types.
LEMMA LoopTypeStep ==
  ASSUME ShellTypeOK, WireInOrder, [ShellNext]_shellvars
  PROVE  LoopType'
<1>1. LoopType
  BY TypeParts
<1>2. c.press \in 0..MaxPresses
  BY <1>1, CodeFacts DEF LoopType
<1> HIDE DEF Scancode, NoChar
<1>3. CASE UNCHANGED shellvars
  BY <1>1, <1>3 DEF shellvars, kbdvars, ticks, LoopType, KeyboardTypeOK
<1>4. CASE Check \/ Load \/ Clear \/ Halt \/ Wait \/ Scan \/ Unscan
  BY <1>1, <1>4 DEF Check, Load, Clear, Halt, Wait, Scan, Unscan, kbdvars, ticks,
                    LoopType, KeyboardTypeOK, Editing
<1>5. CASE Count
  <2>1. idle_ticks' \in 0..(UintLimit - 1)
    BY <1>1, <1>5, TickType DEF Count, LoopType
  <2> QED
    BY <1>1, <1>5, <2>1 DEF Count, kbdvars, LoopType, KeyboardTypeOK
<1>6. ASSUME NEW key, Handle(key), pc' \in {"check", "wait"}
      PROVE  LoopType'
  BY <1>1, <1>2, <1>6 DEF Handle, kbdvars, ticks, LoopType, KeyboardTypeOK, Editing
<1>7. CASE Scroll \/ Backspace \/ Insert \/ Enter
  BY <1>6, <1>7 DEF Scroll, Backspace, Insert, Enter, Use
<1>8. CASE Key
  BY <1>1, <1>2, <1>8 DEF Key, kbdvars, ticks, LoopType, KeyboardTypeOK, Editing
<1>9. CASE TimerIrq
  <2>1. total_ticks' \in 0..(UintLimit - 1)
    BY <1>1, <1>9, TickType DEF TimerIrq, LoopType
  <2> QED
    BY <1>1, <1>9, <2>1, WakeMoves DEF TimerIrq, kbdvars, LoopType, KeyboardTypeOK, Editing
<1>10. CASE KeyboardIrq
  <2>1. keyboard_handler /\ Wake /\ UNCHANGED <<c, edit, ticks, taken, edited>>
    BY <1>10 DEF KeyboardIrq
  <2>2. /\ Head(wire) \in Scancode /\ wire' \in Seq(Scancode)
        /\ Len(wire') = Len(wire) - 1 /\ presses' = presses
    BY <2>1, NextScancode
  <2>3. last_scancode' \in Scancode /\ last_char' \in Scancode \cup {NoChar}
    BY <1>1, <2>1, <2>2 DEF keyboard_handler, Decoded, LoopType, KeyboardTypeOK
  <2>4. ctrl_pressed' \in BOOLEAN
    BY <1>1, <2>1 DEF keyboard_handler, CtrlAfter, LoopType, KeyboardTypeOK
  <2>5. Len(wire') <= WireSize
    BY <1>1, <2>2, LenProperties, KeyboardSizes DEF LoopType, KeyboardTypeOK
  <2>6. KeyboardTypeOK'
    BY <1>1, <2>2, <2>3, <2>4, <2>5 DEF LoopType, KeyboardTypeOK
  <2> QED
    BY <1>1, <2>1, <2>6, WakeMoves DEF ticks, LoopType, Editing
<1>11. CASE OtherIrq
  BY <1>1, <1>11, WakeMoves DEF OtherIrq, kbdvars, ticks, LoopType, KeyboardTypeOK, Editing
<1>12. CASE User
  <2>1. PICK k \in Keys : Press(k)
    BY <1>12 DEF User
  <2>2. KeyboardTypeOK'
    BY <1>1, <2>1, PressOnWire DEF Press, LoopType, KeyboardTypeOK
  <2> QED
    BY <1>1, <1>12, <2>2 DEF User, ticks, LoopType
<1> QED
  BY <1>3, <1>4, <1>5, <1>7, <1>8, <1>9, <1>10, <1>11, <1>12 DEF ShellNext, Main

-----------------------------------------------------------------------------
(* The order of the presses                                                *)

\* The numbers the order is about.
LEMMA OrderNumbers ==
  ASSUME ShellTypeOK, WireInOrder
  PROVE  /\ Seen \in Nat
         /\ last_char.press \in Nat /\ last_scancode.press \in Nat /\ c.press \in Nat
         /\ taken \in Nat /\ edited \in Nat
         /\ last_char # NoChar => last_char.press > 0
         /\ last_scancode # NoChar => last_scancode.press > 0
<1>1. wire \in Seq(Scancode) /\ presses \in Nat
  BY KeyboardSizes DEF ShellTypeOK, KeyboardTypeOK
<1>2. Len(wire) \in Nat
  BY <1>1, LenProperties
<1>3. Seen \in Nat
  BY <1>1, <1>2 DEF Seen, WireInOrder
<1> QED
  BY <1>3, CodeFacts, KeyboardSizes DEF ShellTypeOK, KeyboardTypeOK

\* A step that handles no key and moves the loop without taking a character
\* or a scancode in hand keeps the order.
LEMMA QuietStep ==
  ASSUME OrderInv,
         UNCHANGED <<kbdvars, c, taken, edited>>,
         pc' \in {"use", "unscan", "key", "clear"} => pc' = pc,
         pc' \in Editing <=> pc \in Editing,
         pc' = "scan" => last_scancode # NoChar
  PROVE  OrderInv'
<1>1. UNCHANGED <<wire, presses, last_char, last_scancode>>
  BY DEF kbdvars
<1>2. Seen' = Seen
  BY <1>1 DEF Seen
<1>3. WireInOrder' /\ OnlyThePast' /\ Newest'
  BY <1>1, <1>2 DEF OrderInv, WireInOrder, OnlyThePast, Newest
<1>4. ShellInOrder'
  BY <1>1, <1>2 DEF OrderInv, ShellInOrder
<1>5. EditorInOrder'
  BY <1>1, <1>2 DEF OrderInv, EditorInOrder
<1> QED
  BY <1>3, <1>4, <1>5 DEF OrderInv

\* No step breaks the order.
LEMMA OrderStep ==
  ASSUME ShellTypeOK, OrderInv, [ShellNext]_shellvars
  PROVE  OrderInv'
<1>1. WireInOrder /\ OnlyThePast /\ Newest /\ ShellInOrder /\ EditorInOrder
  BY DEF OrderInv
<1>2. /\ Seen \in Nat
      /\ last_char.press \in Nat /\ last_scancode.press \in Nat /\ c.press \in Nat
      /\ taken \in Nat /\ edited \in Nat
      /\ last_char # NoChar => last_char.press > 0
      /\ last_scancode # NoChar => last_scancode.press > 0
  BY <1>1, OrderNumbers
<1>3. NoChar.press = 0
  BY CodeFacts
<1> HIDE DEF Scancode, NoChar, Seen
<1>4. CASE UNCHANGED shellvars
  BY <1>1, <1>4, QuietStep DEF shellvars, OrderInv, EditorInOrder
<1>5. CASE Check \/ Halt \/ Count \/ Wait
  <2>1. /\ UNCHANGED <<kbdvars, c, taken, edited>>
        /\ pc' \notin {"use", "unscan", "key", "clear"}
        /\ pc' \in Editing <=> pc \in Editing
        /\ pc' = "scan" => last_scancode # NoChar
    BY <1>5 DEF Check, Halt, Count, Wait, Editing
  <2> QED
    BY <2>1, QuietStep
<1>6. CASE TimerIrq \/ OtherIrq
  <2>1. UNCHANGED <<kbdvars, c, taken, edited>> /\ Wake
    BY <1>6 DEF TimerIrq, OtherIrq
  <2>2. /\ pc' \in {"use", "unscan", "key", "clear"} => pc' = pc
        /\ pc' \in Editing <=> pc \in Editing
        /\ pc' = "scan" => last_scancode # NoChar
    BY <1>1, <2>1, WakeMoves DEF Editing, EditorInOrder
  <2> QED
    BY <2>1, <2>2, QuietStep
<1>7. CASE Load
  <2>1. /\ pc = "load" /\ pc' = "clear" /\ c' = last_char
        /\ UNCHANGED <<wire, presses, last_char, last_scancode, taken, edited>>
    BY <1>7 DEF Load, kbdvars
  <2>2. Seen' = Seen
    BY <2>1 DEF Seen
  <2>3. WireInOrder' /\ OnlyThePast' /\ Newest'
    BY <1>1, <2>1, <2>2 DEF WireInOrder, OnlyThePast, Newest
  <2>4. ShellInOrder' /\ EditorInOrder'
    BY <1>1, <2>1, <2>2 DEF ShellInOrder, EditorInOrder, Editing
  <2> QED
    BY <2>3, <2>4 DEF OrderInv
<1>8. CASE Clear
  <2>1. /\ pc = "clear" /\ pc' = "use" /\ last_char' = NoChar
        /\ UNCHANGED <<wire, presses, c, last_scancode, taken, edited>>
    BY <1>8 DEF Clear
  <2>2. Seen' = Seen
    BY <2>1 DEF Seen
  <2>3. WireInOrder' /\ OnlyThePast' /\ Newest'
    BY <1>1, <1>2, <1>3, <2>1, <2>2 DEF WireInOrder, OnlyThePast, Newest
  <2>4. ShellInOrder' /\ EditorInOrder'
    BY <1>1, <2>1, <2>2 DEF ShellInOrder, EditorInOrder, Editing
  <2> QED
    BY <2>3, <2>4 DEF OrderInv
<1>9. ASSUME NEW key, key # "none", Handle(key), pc' \in {"check", "wait"}
      PROVE  OrderInv'
  <2>1. /\ pc = "use" /\ c.key = key /\ taken' = c.press
        /\ UNCHANGED <<wire, presses, c, last_char, last_scancode, edited>>
    BY <1>9 DEF Handle, kbdvars
  <2>2. Seen' = Seen
    BY <2>1 DEF Seen
  <2>3. WireInOrder' /\ OnlyThePast' /\ Newest'
    BY <1>1, <2>1, <2>2 DEF WireInOrder, OnlyThePast, Newest
  <2>4. ShellInOrder' /\ EditorInOrder'
    BY <1>1, <1>9, <2>1, <2>2 DEF ShellInOrder, EditorInOrder, Editing
  <2> QED
    BY <2>3, <2>4 DEF OrderInv
<1>10. CASE Scroll \/ Backspace \/ Insert \/ Enter
  BY <1>9, <1>10, CharKeysAssumption DEF Scroll, Backspace, Insert, Enter, Use
<1>11. CASE Scan
  <2>1. /\ pc = "scan" /\ pc' = "unscan" /\ c' = last_scancode
        /\ UNCHANGED <<wire, presses, last_char, last_scancode, taken, edited>>
    BY <1>11 DEF Scan, kbdvars
  <2>2. Seen' = Seen
    BY <2>1 DEF Seen
  <2>3. /\ last_scancode # NoChar /\ last_scancode.press = Seen
        /\ Seen > edited /\ Seen >= taken
    BY <1>1, <1>2, <2>1 DEF EditorInOrder, Newest, OnlyThePast
  <2>4. WireInOrder' /\ OnlyThePast' /\ Newest'
    BY <1>1, <1>2, <2>1, <2>2, <2>3 DEF WireInOrder, OnlyThePast, Newest
  <2>5. last_scancode.key = QuitKey /\ last_char # NoChar => last_char.press = Seen
    BY <1>1, <2>3, ShellSizes DEF Newest, ShownKeys, PrintedKeys
  <2>6. ShellInOrder'
    BY <1>1, <2>1 DEF ShellInOrder, Editing
  <2>7. EditorInOrder'
    BY <1>1, <1>2, <2>1, <2>2, <2>3, <2>5 DEF EditorInOrder
  <2> QED
    BY <2>4, <2>6, <2>7 DEF OrderInv
<1>12. CASE Unscan
  <2>1. /\ pc = "unscan" /\ pc' = "key" /\ last_scancode' = NoChar
        /\ UNCHANGED <<wire, presses, c, last_char, taken, edited>>
    BY <1>12 DEF Unscan
  <2>2. Seen' = Seen
    BY <2>1 DEF Seen
  <2>3. WireInOrder' /\ OnlyThePast' /\ Newest'
    BY <1>1, <2>1, <2>2 DEF WireInOrder, OnlyThePast, Newest
  <2>4. ShellInOrder' /\ EditorInOrder'
    BY <1>1, <2>1, <2>2 DEF ShellInOrder, EditorInOrder, Editing
  <2> QED
    BY <2>3, <2>4 DEF OrderInv
<1>13. CASE Key
  <2>1. /\ pc = "key" /\ edited' = c.press
        /\ pc' = "wait" \/ (pc' = "check" /\ c.key = QuitKey)
        /\ UNCHANGED <<wire, presses, c, last_char, last_scancode, taken>>
    BY <1>13 DEF Key, kbdvars
  <2>2. Seen' = Seen
    BY <2>1 DEF Seen
  <2>3. WireInOrder' /\ OnlyThePast' /\ Newest'
    BY <1>1, <2>1, <2>2 DEF WireInOrder, OnlyThePast, Newest
  <2>4. ShellInOrder' /\ EditorInOrder'
    BY <1>1, <2>1, <2>2 DEF ShellInOrder, EditorInOrder, Editing
  <2> QED
    BY <2>3, <2>4 DEF OrderInv
<1>14. CASE KeyboardIrq
  <2> DEFINE h == Head(wire)
  <2>1. keyboard_handler /\ Wake /\ UNCHANGED <<c, taken, edited>>
    BY <1>14 DEF KeyboardIrq
  <2>2. /\ h \in Scancode /\ h.press = Seen + 1 /\ Seen' = Seen + 1
        /\ WireInOrder'
    BY <1>1, <2>1, NextScancode
  <2>3. h # NoChar /\ h.key \in Keys
    BY <2>2, CodeFacts
  <2>4. /\ last_scancode' = h
        /\ last_char' = h \/ last_char' = NoChar
             \/ (last_char' = last_char /\ h.key \in {"ctrl", "ctrl_release", "release"})
    BY <2>1 DEF keyboard_handler, Decoded
  <2>5. h.key \in {"ctrl", "ctrl_release", "release"} => h.key \notin ShownKeys
    BY CharKeysAssumption DEF ShownKeys, PrintedKeys
  <2>6. /\ pc' \in {"use", "unscan", "key", "clear", "scan"} => pc' = pc
        /\ pc' \in Editing <=> pc \in Editing
    BY <2>1, WakeMoves DEF Editing
  <2> HIDE DEF h
  <2>7. OnlyThePast'
    BY <1>1, <1>2, <1>3, <2>1, <2>2, <2>4 DEF OnlyThePast
  <2>8. Newest'
    BY <2>2, <2>4, <2>5 DEF Newest
  <2>9. ShellInOrder'
    <3>1. /\ last_char.press <= Seen /\ c.press <= Seen /\ taken <= Seen /\ edited <= Seen
      BY <1>1 DEF OnlyThePast
    <3>2. CASE last_char' = h
      BY <1>1, <1>2, <2>1, <2>2, <2>6, <3>1, <3>2 DEF ShellInOrder
    <3>3. CASE last_char' = NoChar
      BY <1>1, <2>1, <2>6, <3>3 DEF ShellInOrder
    <3>4. CASE last_char' = last_char
      BY <1>1, <2>1, <2>6, <3>4 DEF ShellInOrder
    <3> QED
      BY <2>4, <3>2, <3>3, <3>4
  <2>10. EditorInOrder'
    <3>1. /\ c.press <= Seen /\ edited <= Seen
      BY <1>1 DEF OnlyThePast
    <3>2. last_scancode' # NoChar /\ Seen' > edited' /\ Seen' > c'.press
      BY <1>2, <2>1, <2>2, <2>3, <2>4, <3>1
    <3>3. ASSUME pc \in {"unscan", "key"}, c.key = QuitKey, last_char' # NoChar
          PROVE  last_char'.press >= c.press
      BY <1>1, <1>2, <2>2, <2>4, <3>1, <3>3 DEF EditorInOrder
    <3> QED
      BY <1>1, <2>1, <2>6, <3>2, <3>3 DEF EditorInOrder
  <2> QED
    BY <2>2, <2>7, <2>8, <2>9, <2>10 DEF OrderInv
<1>15. CASE User
  <2>1. PICK k \in Keys : Press(k)
    BY <1>15 DEF User
  <2>2. Seen' = Seen /\ WireInOrder'
    BY <1>1, <2>1, PressOnWire
  <2>3. UNCHANGED <<last_char, last_scancode, pc, c, taken, edited>>
    BY <1>15, <2>1 DEF User, Press
  <2>4. OnlyThePast' /\ Newest' /\ ShellInOrder' /\ EditorInOrder'
    BY <1>1, <2>2, <2>3 DEF OnlyThePast, Newest, ShellInOrder, EditorInOrder
  <2> QED
    BY <2>2, <2>4 DEF OrderInv
<1> QED
  BY <1>4, <1>5, <1>6, <1>7, <1>8, <1>10, <1>11, <1>12, <1>13, <1>14, <1>15
     DEF ShellNext, Main

-----------------------------------------------------------------------------
(* The theorems                                                            *)

\* The invariant holds in every reachable state.
THEOREM ShellInvariance == ShellSpec => []ShellInv
<1>1. ShellInit => ShellInv
  <2> SUFFICES ASSUME ShellInit PROVE ShellInv
    OBVIOUS
  <2>1. /\ wire = <<>> /\ presses = 0 /\ last_char = NoChar /\ last_scancode = NoChar
        /\ ctrl_pressed = FALSE /\ pc = "check" /\ c = NoChar
        /\ command_buffer = [i \in Slot |-> Nul] /\ command_len = 0
        /\ total_ticks = 0 /\ idle_ticks = 0
        /\ line = <<>> /\ ran = <<>> /\ taken = 0 /\ edited = 0
    BY DEF ShellInit, KeyboardInit, EmptyBuffer
  <2>2. wire \in Seq(Scancode) /\ line \in Seq(CharKeys) /\ ran \in Seq(CharKeys)
        /\ Len(wire) = 0 /\ Len(line) = 0
    BY <2>1, EmptySeq
  <2> HIDE DEF Scancode, NoChar
  <2>3. EditType /\ BufferHoldsLine
    BY <2>1, <2>2, ShellSizes DEF EditType, BufferHoldsLine, Slot
  <2>4. LoopType
    <3>1. 0 \in 0..MaxPresses /\ 0 <= WireSize /\ 0 \in 0..(UintLimit - 1)
      BY KeyboardSizes, ShellSizes
    <3> QED
      BY <2>1, <2>2, <3>1 DEF LoopType, KeyboardTypeOK
  <2>5. Seen = 0 /\ NoChar.press = 0
    <3>1. NoChar.press = 0
      BY CodeFacts
    <3>2. presses = 0 /\ Len(wire) = 0
      BY <2>1, <2>2
    <3> QED
      BY <3>1, <3>2 DEF Seen
  <2>6. OrderInv
    BY <2>1, <2>2, <2>5 DEF OrderInv, WireInOrder, OnlyThePast, Newest,
                            ShellInOrder, EditorInOrder
  <2> QED
    BY <2>3, <2>4, <2>6, TypeParts DEF ShellInv
<1>2. ShellInv /\ [ShellNext]_shellvars => ShellInv'
  <2> SUFFICES ASSUME ShellInv, [ShellNext]_shellvars PROVE ShellInv'
    OBVIOUS
  <2>1. ShellTypeOK /\ OrderInv /\ BufferHoldsLine /\ WireInOrder /\ EditType
    BY TypeParts DEF ShellInv, OrderInv
  <2>2. EditType' /\ BufferHoldsLine'
    BY <2>1, EditStep
  <2>3. LoopType'
    BY <2>1, LoopTypeStep
  <2>4. OrderInv'
    BY <2>1, OrderStep
  <2>5. ShellTypeOK'
    BY <2>2, <2>3 DEF ShellTypeOK, LoopType, EditType
  <2> QED
    BY <2>2, <2>4, <2>5 DEF ShellInv
<1> QED
  BY <1>1, <1>2, PTL DEF ShellSpec

\* Every variable keeps its type: in particular command_len never reaches the
\* last byte of command_buffer plus one, however fast keys come in.
THEOREM ShellTypeCorrect == ShellSpec => []ShellTypeOK
<1>1. ShellInv => ShellTypeOK
  BY DEF ShellInv
<1> QED
  BY <1>1, ShellInvariance, PTL

\* Enter runs the line as edited, whatever is left behind it in the buffer.
THEOREM CommandCorrect == ShellSpec => RunsTheEditedLine
<1>1. ShellInv /\ [ShellNext]_shellvars
        => [pc = "use" /\ c.key = "enter" /\ pc' # "use" => ran' = line]_shellvars
  <2> SUFFICES ASSUME ShellInv, ShellNext, pc = "use", c.key = "enter", pc' # "use"
               PROVE  ran' = line
    BY DEF shellvars
  <2>1. EditType /\ BufferHoldsLine /\ c # NoChar
    BY TypeParts, CodeFacts DEF ShellInv
  <2>2. Enter
    <3>1. ~(Scroll \/ Backspace)
      BY DEF Scroll, Backspace, Use, Handle
    <3>2. ~Insert
      BY CharKeysAssumption DEF Insert, Use, Handle
    <3>3. ~(Check \/ Load \/ Clear \/ Halt \/ Count \/ Wait \/ Scan \/ Unscan \/ Key)
      BY <2>1 DEF Check, Load, Clear, Halt, Count, Wait, Scan, Unscan, Key
    <3>4. ~(TimerIrq \/ KeyboardIrq \/ OtherIrq \/ User)
      BY DEF TimerIrq, KeyboardIrq, OtherIrq, User, Wake
    <3> QED
      BY <3>1, <3>2, <3>3, <3>4 DEF ShellNext, Main
  <2> QED
    BY <2>1, <2>2, EnterRunsLine
<1> QED
  BY <1>1, ShellInvariance, PTL DEF ShellSpec, RunsTheEditedLine

\* Neither the shell nor the editor handles a press twice, out of order, or
\* from before the other one ended.
THEOREM OrderCorrect == ShellSpec => TakenInOrder
<1> DEFINE A == /\ pc = "use" /\ pc' # "use" /\ c # NoChar => taken' > taken /\ taken' >= edited
                /\ pc = "key" /\ pc' # "key" => edited' > edited /\ edited' >= taken
<1>1. ShellInv /\ [ShellNext]_shellvars => [A]_shellvars
  <2> SUFFICES ASSUME ShellInv, ShellNext PROVE A
    OBVIOUS
  <2>1. ShellInOrder /\ EditorInOrder
    BY DEF ShellInv, OrderInv
  <2>2. ASSUME pc = "use", pc' # "use", c # NoChar
        PROVE  taken' = c.press
    <3>1. ~(Check \/ Load \/ Clear \/ Halt \/ Count \/ Wait \/ Scan \/ Unscan \/ Key)
      BY <2>2 DEF Check, Load, Clear, Halt, Count, Wait, Scan, Unscan, Key
    <3>2. ~(TimerIrq \/ KeyboardIrq \/ OtherIrq \/ User)
      BY <2>2 DEF TimerIrq, KeyboardIrq, OtherIrq, User, Wake
    <3>3. Scroll \/ Backspace \/ Insert \/ Enter
      BY <3>1, <3>2 DEF ShellNext, Main
    <3> QED
      BY <3>3 DEF Scroll, Backspace, Insert, Enter, Use, Handle
  <2>3. ASSUME pc = "key", pc' # "key"
        PROVE  edited' = c.press
    <3>1. ~(Check \/ Load \/ Clear \/ Halt \/ Count \/ Wait \/ Scan \/ Unscan)
      BY <2>3 DEF Check, Load, Clear, Halt, Count, Wait, Scan, Unscan
    <3>2. ~(TimerIrq \/ KeyboardIrq \/ OtherIrq \/ User)
      BY <2>3 DEF TimerIrq, KeyboardIrq, OtherIrq, User, Wake
    <3>3. ~(Scroll \/ Backspace \/ Insert \/ Enter)
      BY <2>3 DEF Scroll, Backspace, Insert, Enter, Use, Handle
    <3>4. Key
      BY <3>1, <3>2, <3>3 DEF ShellNext, Main
    <3> QED
      BY <3>4 DEF Key
  <2>4. pc = "use" /\ c # NoChar => c.press > taken /\ c.press >= edited
    BY <2>1 DEF ShellInOrder
  <2>5. pc = "key" => c.press > edited /\ c.press >= taken
    BY <2>1 DEF EditorInOrder
  <2> QED
    BY <2>2, <2>3, <2>4, <2>5
<1> QED
  BY <1>1, ShellInvariance, PTL DEF ShellSpec, TakenInOrder

-----------------------------------------------------------------------------
(* Console: the inductive invariant                                        *)

\* refresh_screen() was the last to write the VGA memory, unless the editor
\* has drawn on it.
ScreenShowsBuffer ==
  screen # "drawn" =>
    \A y \in ScreenRow : view_row + y < Rows => vga[y] = scrollback_buffer[view_row + y]

\* Nothing has been printed, echoed or scrolled since the screen was cleared.
ClearUntilPrinted ==
  screen # "text" =>
    text = <<>> /\ typed = 0 /\ dropped = 0 /\ scrollback_row = 0 /\ view_row = 0

\* What the shell may erase ends the text and has no newline in it.
TypedEndsText ==
  /\ typed <= Len(text)
  /\ \A k \in 1..Len(text) : k > Len(text) - typed => text[k] # Newline

\* The cells in front of the cursor.
CellsBefore == cursor_row * Width + cursor_col

\* The echoed characters lie in the buffer, and the last row in use is no
\* farther from the cursor than one edited line.
CursorNearEnd ==
  /\ typed <= CellsBefore
  /\ scrollback_row * Width <= CellsBefore + (MaxTyped - typed)

ConsoleInv ==
  /\ ConsoleTypeOK
  /\ BufferIsThePaper
  /\ ScreenShowsBuffer
  /\ ClearUntilPrinted
  /\ TypedEndsText
  /\ CursorNearEnd

-----------------------------------------------------------------------------
(* The places of a text on paper                                           *)

\* A place on the paper.
Spot == [row : Nat, col : Column]

\* Where the paper's cursor goes from p with ch.
After(p, ch) ==
  IF ch = Newline \/ p.col = Width - 1
  THEN [row |-> p.row + 1, col |-> 0]
  ELSE [row |-> p.row, col |-> p.col + 1]

\* Place, of a text s that starts at o.
PlaceOf(s, o) ==
  LET place[k \in 0..Len(s)] ==
        IF k = 0 THEN o
        ELSE LET p == place[k - 1]
             IN  IF s[k] = Newline \/ p.col = Width - 1
                 THEN [row |-> p.row + 1, col |-> 0]
                 ELSE [row |-> p.row, col |-> p.col + 1]
  IN  place

\* f has the places of the first n characters of s.
Places(f, s, o, n) ==
  /\ f \in [0..n -> Spot]
  /\ f[0] = o
  /\ \A k \in 1..n : f[k] = After(f[k - 1], s[k])

\* A set of naturals that is not empty has a least element.
LEMMA LeastNat ==
  ASSUME NEW S \in SUBSET Nat, S # {}
  PROVE  \E n \in S : \A m \in S : n <= m
<1>1. IsWellFoundedOn(OpToRel(<, Nat), Nat)
  BY NatLessThanWellFounded
<1>2. PICK n \in S : \A m \in S : ~(<<m, n>> \in OpToRel(<, Nat))
  BY <1>1, WFMin
<1>3. \A m \in S : ~(m < n)
  BY <1>2 DEF OpToRel
<1> QED
  BY <1>3

\* The paper's cursor stays on the paper.
LEMMA AfterSpot ==
  ASSUME NEW p \in Spot, NEW ch
  PROVE  After(p, ch) \in Spot
BY ConsoleSizes DEF After, Spot, Column

\* Every text has places.
LEMMA PlacesExist ==
  ASSUME NEW s, NEW o \in Spot, NEW n \in Nat
  PROVE  \E f : Places(f, s, o, n)
<1> DEFINE S == {m \in Nat : ~\E f : Places(f, s, o, m)}
<1> SUFFICES ASSUME S # {}
             PROVE  FALSE
  OBVIOUS
<1>1. PICK m \in S : \A k \in S : m <= k
  <2> S \in SUBSET Nat
    OBVIOUS
  <2> HIDE DEF S
  <2> QED
    BY LeastNat
<1>2. CASE m = 0
  <2> DEFINE g == [k \in 0..0 |-> o]
  <2>1. Places(g, s, o, 0)
    BY DEF Places
  <2> QED
    BY <1>2, <2>1
<1>3. CASE m # 0
  <2>1. m - 1 \in Nat /\ m - 1 \notin S
    BY <1>1, <1>3
  <2>2. PICK f : Places(f, s, o, m - 1)
    BY <2>1
  <2> DEFINE g == [k \in 0..m |-> IF k = m THEN After(f[m - 1], s[m]) ELSE f[k]]
  <2>3. f \in [0..(m - 1) -> Spot] /\ f[0] = o
    BY <2>2 DEF Places
  <2>4. g \in [0..m -> Spot]
    <3> SUFFICES ASSUME NEW k \in 0..m
                 PROVE  (IF k = m THEN After(f[m - 1], s[m]) ELSE f[k]) \in Spot
      OBVIOUS
    <3>1. f[m - 1] \in Spot
      BY <2>1, <2>3
    <3>2. k # m => f[k] \in Spot
      BY <2>1, <2>3
    <3> QED
      BY <3>1, <3>2, AfterSpot
  <2>5. g[0] = o
    BY <2>1, <2>3, <1>3
  <2>6. ASSUME NEW k \in 1..m
        PROVE  g[k] = After(g[k - 1], s[k])
    <3>1. g[k - 1] = f[k - 1]
      BY <2>1
    <3>2. k # m => g[k] = f[k] /\ f[k] = After(f[k - 1], s[k])
      BY <2>1, <2>2 DEF Places
    <3> QED
      BY <3>1, <3>2
  <2>7. Places(g, s, o, m)
    BY <2>4, <2>5, <2>6 DEF Places
  <2> QED
    BY <2>7
<1> QED
  BY <1>2, <1>3

\* The places depend on the characters in front of them only.
LEMMA PlacesAgree ==
  ASSUME NEW f, NEW g, NEW s, NEW r, NEW o \in Spot, NEW m \in Nat, NEW n \in Nat, m <= n,
         Places(f, s, o, m), Places(g, r, o, n),
         \A k \in 1..m : s[k] = r[k]
  PROVE  \A k \in 0..m : f[k] = g[k]
<1> DEFINE S == {k \in 0..m : f[k] # g[k]}
<1> SUFFICES ASSUME S # {}
             PROVE  FALSE
  OBVIOUS
<1>1. PICK k \in S : \A j \in S : k <= j
  <2> S \in SUBSET Nat
    OBVIOUS
  <2> HIDE DEF S
  <2> QED
    BY LeastNat
<1>2. k # 0
  BY DEF Places
<1>3. k - 1 \in 0..m /\ k - 1 \notin S
  BY <1>1, <1>2
<1>4. f[k - 1] = g[k - 1] /\ k \in 1..m /\ k \in 1..n
  BY <1>2, <1>3
<1>5. f[k] = After(f[k - 1], s[k]) /\ g[k] = After(g[k - 1], r[k])
  BY <1>4 DEF Places
<1> QED
  BY <1>4, <1>5

\* PlaceOf() is the places of the text.
LEMMA PlaceOfIs ==
  ASSUME NEW s \in Seq(Char), NEW o \in Spot
  PROVE  Places(PlaceOf(s, o), s, o, Len(s))
<1> DEFINE Rec(f) == [k \in 0..Len(s) |->
                        IF k = 0 THEN o
                        ELSE IF s[k] = Newline \/ f[k - 1].col = Width - 1
                             THEN [row |-> f[k - 1].row + 1, col |-> 0]
                             ELSE [row |-> f[k - 1].row, col |-> f[k - 1].col + 1]]
<1>1. Len(s) \in Nat
  OBVIOUS
<1>2. PICK f : Places(f, s, o, Len(s))
  BY <1>1, PlacesExist
<1>3. f = Rec(f)
  BY <1>1, <1>2 DEF Places, After
<1>4. PlaceOf(s, o) = CHOOSE g : g = Rec(g)
  BY DEF PlaceOf
<1> DEFINE g == PlaceOf(s, o)
<1>5. g = Rec(g)
  BY <1>3, <1>4, ZenonT(60)
<1>6. g[0] = o
  BY <1>1, <1>5
<1>7. ASSUME NEW k \in 1..Len(s)
      PROVE  g[k] = After(g[k - 1], s[k])
  <2> HIDE DEF g
  <2>1. k \in 0..Len(s) /\ k # 0
    BY <1>1
  <2>2. Rec(g)[k] = After(g[k - 1], s[k])
    BY <2>1 DEF After
  <2> HIDE DEF Rec
  <2> QED
    BY <1>5, <2>2
<1>8. ASSUME NEW k \in 0..Len(s), g[k] \notin Spot
      PROVE  FALSE
  <2> DEFINE S == {j \in 0..Len(s) : g[j] \notin Spot}
  <2> HIDE DEF g
  <2>1. S \in SUBSET Nat /\ S # {}
    BY <1>1, <1>8
  <2>2. PICK j \in S : \A i \in S : j <= i
    <3> HIDE DEF S
    <3> QED
      BY <2>1, LeastNat
  <2>3. j # 0
    BY <1>6
  <2>4. j - 1 \in 0..Len(s) /\ j - 1 \notin S /\ j \in 1..Len(s)
    BY <1>1, <2>2, <2>3
  <2>5. g[j - 1] \in Spot
    BY <2>4
  <2> QED
    BY <1>7, <2>4, <2>5, AfterSpot
<1>9. g = [k \in 0..Len(s) |-> g[k]]
  <2> HIDE DEF g
  <2> QED
    BY <1>5
<1> QED
  <2> HIDE DEF g
  <2> g \in [0..Len(s) -> Spot]
    BY <1>8, <1>9
  <2> QED
    BY <1>6, <1>7 DEF Places, g

\* p lies in front of q.
Before(p, q) == p.row < q.row \/ (p.row = q.row /\ p.col < q.col)

\* The paper's cursor only moves forward.
LEMMA PlacesGrow ==
  ASSUME NEW f, NEW s, NEW o \in Spot, NEW n \in Nat, Places(f, s, o, n),
         NEW i \in 0..n, NEW j \in 0..n, i < j
  PROVE  Before(f[i], f[j])
<1> DEFINE S == {k \in 0..n : i < k /\ ~Before(f[i], f[k])}
<1> SUFFICES ASSUME S # {}
             PROVE  FALSE
  OBVIOUS
<1>1. PICK k \in S : \A m \in S : k <= m
  <2> S \in SUBSET Nat
    OBVIOUS
  <2> HIDE DEF S
  <2> QED
    BY LeastNat
<1>2. k \in 1..n /\ k - 1 \in 0..n /\ i <= k - 1 /\ k - 1 \notin S
  BY <1>1
<1>3. f[i] = f[k - 1] \/ Before(f[i], f[k - 1])
  BY <1>2
<1>4. f[k] = After(f[k - 1], s[k])
  BY <1>2 DEF Places
<1>5. f[i] \in Spot /\ f[k - 1] \in Spot
  BY <1>2 DEF Places
<1>6. Before(f[k - 1], f[k])
  BY <1>4, <1>5 DEF After, Before, Spot, Column
<1>7. f[k] \in Spot
  BY <1>4, <1>5, AfterSpot
<1>8. Before(f[i], f[k])
  BY <1>3, <1>5, <1>6, <1>7 DEF Before, Spot, Column
<1> QED
  BY <1>8

\* So no two characters have the same place, and none lies below a later one.
LEMMA PlacesDiffer ==
  ASSUME NEW f, NEW s, NEW o \in Spot, NEW n \in Nat, Places(f, s, o, n),
         NEW i \in 0..n, NEW j \in 0..n
  PROVE  /\ f[i] \in Spot
         /\ i # j => f[i] # f[j]
         /\ i <= j => f[i].row <= f[j].row
<1>1. f[i] \in Spot /\ f[j] \in Spot
  BY DEF Places
<1>2. (i < j => Before(f[i], f[j])) /\ (j < i => Before(f[j], f[i]))
  BY PlacesGrow
<1>3. f[i].row \in Nat /\ f[j].row \in Nat /\ f[i].col \in Int /\ f[j].col \in Int
  BY <1>1, ConsoleSizes DEF Spot, Column
<1>4. i # j => f[i] # f[j]
  BY <1>2, <1>3 DEF Before
<1>5. i <= j => f[i].row <= f[j].row
  BY <1>2, <1>3 DEF Before
<1> QED
  BY <1>1, <1>4, <1>5

-----------------------------------------------------------------------------
(* The paper                                                               *)

\* The k-th character of s, whose places are f, is in this cell of the buffer
\* when d rows have left it.
IsAt(s, f, d, k, y, x) == s[k] # Newline /\ f[k - 1] = [row |-> y + d, col |-> x]

\* The buffer b shows the text s.
Shows(b, s, f, d) ==
  \A y \in BufferRow, x \in Column :
    /\ \A k \in 1..Len(s) : IsAt(s, f, d, k, y, x) => b[y][x] = s[k]
    /\ (\A k \in 1..Len(s) : ~IsAt(s, f, d, k, y, x)) => b[y][x] = Space

Buffer == [BufferRow -> [Column -> Char]]

\* Paper, of a text s with d rows dropped.
PaperOf(s, o, d) ==
  LET place == PlaceOf(s, o)
      At(y, x) == {k \in 1..Len(s) :
                     s[k] # Newline /\ place[k - 1] = [row |-> y + d, col |-> x]}
  IN  [y \in BufferRow |-> [x \in Column |->
         IF At(y, x) = {} THEN Space ELSE s[CHOOSE k \in At(y, x) : TRUE]]]

\* A buffer is the paper when it shows the text.
LEMMA PaperMeans ==
  ASSUME NEW s \in Seq(Char), NEW o \in Spot, NEW d \in Nat, NEW b \in Buffer
  PROVE  b = PaperOf(s, o, d) <=> Shows(b, s, PlaceOf(s, o), d)
<1> DEFINE f == PlaceOf(s, o)
           At(y, x) == {k \in 1..Len(s) : IsAt(s, f, d, k, y, x)}
           Cell(y, x) == IF At(y, x) = {} THEN Space ELSE s[CHOOSE k \in At(y, x) : TRUE]
<1>1. PaperOf(s, o, d) = [y \in BufferRow |-> [x \in Column |-> Cell(y, x)]]
  BY DEF PaperOf, IsAt
<1>2. Places(f, s, o, Len(s)) /\ Len(s) \in Nat
  BY PlaceOfIs
<1> HIDE DEF f
<1>3. ASSUME NEW y \in BufferRow, NEW x \in Column
      PROVE  /\ \A k \in 1..Len(s) : IsAt(s, f, d, k, y, x) => Cell(y, x) = s[k]
             /\ (\A k \in 1..Len(s) : ~IsAt(s, f, d, k, y, x)) => Cell(y, x) = Space
  <2>1. ASSUME NEW k \in 1..Len(s), IsAt(s, f, d, k, y, x)
        PROVE  Cell(y, x) = s[k]
    <3>1. k \in At(y, x)
      BY <2>1
    <3>2. ASSUME NEW j \in At(y, x)
          PROVE  j = k
      <4>1. j \in 1..Len(s) /\ f[j - 1] = f[k - 1]
        BY <2>1, <3>2 DEF IsAt
      <4>2. j - 1 \in 0..Len(s) /\ k - 1 \in 0..Len(s)
        BY <1>2, <4>1
      <4>3. j - 1 = k - 1
        BY <1>2, <4>1, <4>2, PlacesDiffer
      <4> QED
        BY <1>2, <4>1, <4>3
    <3> HIDE DEF At
    <3>3. (CHOOSE j \in At(y, x) : TRUE) = k
      BY <3>1, <3>2
    <3> QED
      BY <3>1, <3>3
  <2>2. ASSUME \A k \in 1..Len(s) : ~IsAt(s, f, d, k, y, x)
        PROVE  Cell(y, x) = Space
    <3>1. At(y, x) = {}
      BY <2>2
    <3> HIDE DEF At
    <3> QED
      BY <3>1
  <2> QED
    BY <2>1, <2>2
<1> HIDE DEF Cell
<1>4. ASSUME b = PaperOf(s, o, d)
      PROVE  Shows(b, s, f, d)
  <2>1. \A y \in BufferRow, x \in Column : b[y][x] = Cell(y, x)
    BY <1>1, <1>4
  <2> QED
    BY <1>3, <2>1 DEF Shows
<1>5. ASSUME Shows(b, s, f, d)
      PROVE  b = PaperOf(s, o, d)
  <2>1. ASSUME NEW y \in BufferRow, NEW x \in Column
        PROVE  b[y][x] = Cell(y, x)
    <3>1. CASE \E k \in 1..Len(s) : IsAt(s, f, d, k, y, x)
      BY <1>3, <1>5, <3>1 DEF Shows
    <3>2. CASE \A k \in 1..Len(s) : ~IsAt(s, f, d, k, y, x)
      BY <1>3, <1>5, <3>2 DEF Shows
    <3> QED
      BY <3>1, <3>2
  <2>2. b = [y \in BufferRow |-> b[y]] /\ \A y \in BufferRow : b[y] = [x \in Column |-> b[y][x]]
    BY DEF Buffer
  <2>3. \A y \in BufferRow : b[y] = [x \in Column |-> Cell(y, x)]
    BY <2>1, <2>2
  <2> QED
    BY <1>1, <2>2, <2>3
<1> QED
  BY <1>4, <1>5 DEF f

\* b with ch stored in a cell.
Put(b, ch, y, x) == IF ch = Newline THEN b ELSE [b EXCEPT ![y][x] = ch]

\* What storing a character does to the cells.
LEMMA PutCells ==
  ASSUME NEW b \in Buffer, NEW ch \in Char, NEW r \in BufferRow, NEW q \in Column
  PROVE  /\ Put(b, ch, r, q) \in Buffer
         /\ \A y \in BufferRow, x \in Column :
              Put(b, ch, r, q)[y][x] = IF ch # Newline /\ y = r /\ x = q THEN ch ELSE b[y][x]
BY DEF Put, Buffer

\* A longer text keeps the places of the shorter one.
LEMMA PlacesOfPrefix ==
  ASSUME NEW s \in Seq(Char), NEW t \in Seq(Char), NEW o \in Spot, Len(s) <= Len(t),
         \A k \in 1..Len(s) : s[k] = t[k]
  PROVE  \A k \in 0..Len(s) : PlaceOf(s, o)[k] = PlaceOf(t, o)[k]
<1>1. Len(s) \in Nat /\ Len(t) \in Nat
  OBVIOUS
<1>2. Places(PlaceOf(s, o), s, o, Len(s)) /\ Places(PlaceOf(t, o), t, o, Len(t))
  BY PlaceOfIs
<1> QED
  BY <1>1, <1>2, PlacesAgree

\* Storing a character at the paper's cursor shows the longer text.
LEMMA ShowsPut ==
  ASSUME NEW s \in Seq(Char), NEW ch \in Char, NEW o \in Spot, NEW d \in Nat,
         NEW b \in Buffer, NEW r \in BufferRow, NEW q \in Column,
         PlaceOf(s, o)[Len(s)] = [row |-> r + d, col |-> q],
         Shows(b, s, PlaceOf(s, o), d)
  PROVE  /\ Shows(Put(b, ch, r, q), Append(s, ch), PlaceOf(Append(s, ch), o), d)
         /\ PlaceOf(Append(s, ch), o)[Len(s) + 1] = After([row |-> r + d, col |-> q], ch)
         /\ \A k \in 1..(Len(s) + 1) : PlaceOf(Append(s, ch), o)[k - 1].row <= r + d
<1> DEFINE t == Append(s, ch)
           n == Len(s)
           f == PlaceOf(s, o)
           g == PlaceOf(t, o)
           e == Put(b, ch, r, q)
<1>1. t \in Seq(Char) /\ n \in Nat /\ Len(t) = n + 1 /\ t[n + 1] = ch
  BY AppendProperties
<1>2. \A k \in 1..n : t[k] = s[k]
  BY AppendProperties
<1>3. Places(f, s, o, n)
  BY PlaceOfIs
<1>4. Places(g, t, o, n + 1)
  BY <1>1, PlaceOfIs
<1>5. \A k \in 0..n : f[k] = g[k]
  <2>1. Len(s) <= Len(t) /\ \A k \in 1..Len(s) : s[k] = t[k]
    BY <1>1, <1>2
  <2> HIDE DEF t
  <2> QED
    BY <1>1, <2>1, PlacesOfPrefix
<1>6. f[n] = [row |-> r + d, col |-> q] /\ Shows(b, s, f, d)
  OBVIOUS
<1>7. \A y \in BufferRow, x \in Column :
        e[y][x] = IF ch # Newline /\ y = r /\ x = q THEN ch ELSE b[y][x]
  BY PutCells
<1> HIDE DEF t, n, f, g, e
<1>8. g[n] = [row |-> r + d, col |-> q] /\ g[n + 1] = After(g[n], t[n + 1])
  BY <1>1, <1>4, <1>5, <1>6 DEF Places
<1>9. ASSUME NEW k \in 1..(n + 1)
      PROVE  g[k - 1].row <= r + d
  <2>1. k - 1 \in 0..(n + 1) /\ n \in 0..(n + 1) /\ k - 1 <= n /\ n + 1 \in Nat
    BY <1>1
  <2>2. g[k - 1].row <= g[n].row
    BY <1>4, <2>1, PlacesDiffer
  <2> QED
    BY <1>8, <2>2
<1>10. ASSUME NEW y \in BufferRow, NEW x \in Column, NEW k \in 1..n
       PROVE  /\ IsAt(t, g, d, k, y, x) <=> IsAt(s, f, d, k, y, x)
              /\ IsAt(t, g, d, k, y, x) => ~(y = r /\ x = q)
  <2>1. k - 1 \in 0..n /\ k - 1 # n /\ n \in 0..n
    BY <1>1
  <2>2. f[k - 1] # f[n] /\ f[k - 1] = g[k - 1]
    BY <1>1, <1>3, <1>5, <2>1, PlacesDiffer
  <2> QED
    BY <1>2, <1>6, <2>2 DEF IsAt
<1>11. ASSUME NEW y \in BufferRow, NEW x \in Column
       PROVE  IsAt(t, g, d, n + 1, y, x) <=> ch # Newline /\ y = r /\ x = q
  <2>1. [row |-> r + d, col |-> q] = [row |-> y + d, col |-> x] <=> r + d = y + d /\ q = x
    OBVIOUS
  <2>2. r + d = y + d <=> r = y
    BY ConsoleSizes DEF BufferRow
  <2>3. (n + 1) - 1 = n
    BY <1>1
  <2> QED
    BY <1>1, <1>8, <2>1, <2>2, <2>3 DEF IsAt
<1>12. \A k \in 1..(n + 1) : k \in 1..n \/ k = n + 1
  BY <1>1
<1>13. ASSUME NEW y \in BufferRow, NEW x \in Column, NEW k \in 1..(n + 1), IsAt(t, g, d, k, y, x)
       PROVE  e[y][x] = t[k]
  <2>1. CASE k \in 1..n
    BY <1>2, <1>6, <1>7, <1>10, <1>13, <2>1 DEF Shows, n
  <2>2. CASE k = n + 1
    BY <1>1, <1>7, <1>11, <1>13, <2>2
  <2> QED
    BY <1>12, <2>1, <2>2
<1>14. ASSUME NEW y \in BufferRow, NEW x \in Column,
              \A k \in 1..(n + 1) : ~IsAt(t, g, d, k, y, x)
       PROVE  e[y][x] = Space
  <2>1. \A k \in 1..n : ~IsAt(s, f, d, k, y, x)
    BY <1>1, <1>10, <1>14
  <2>2. ~(ch # Newline /\ y = r /\ x = q)
    BY <1>1, <1>11, <1>14
  <2> QED
    BY <1>6, <1>7, <2>1, <2>2 DEF Shows, n
<1>15. Shows(e, t, g, d)
  BY <1>1, <1>13, <1>14 DEF Shows
<1> QED
  BY <1>1, <1>8, <1>9, <1>15 DEF t, n, f, g, e

\* Moving the buffer up drops the row at its top, provided the text does not
\* reach behind its end.
LEMMA ShowsShifted ==
  ASSUME NEW s \in Seq(Char), NEW o \in Spot, NEW d \in Nat, NEW b \in Buffer,
         Shows(b, s, PlaceOf(s, o), d),
         \A k \in 1..Len(s) : PlaceOf(s, o)[k - 1].row < Rows + d
  PROVE  /\ ShiftedUp(b) \in Buffer
         /\ Shows(ShiftedUp(b), s, PlaceOf(s, o), d + 1)
<1> DEFINE f == PlaceOf(s, o)
<1>1. Rows \in Nat /\ Height \in Nat /\ Height > 0 /\ Height <= Rows /\ Space \in Char
  BY ConsoleSizes
<1>2. \A y \in BufferRow : y # Rows - 1 => y + 1 \in BufferRow
  BY <1>1 DEF BufferRow
<1>3. \A y \in BufferRow, x \in Column :
        ShiftedUp(b)[y][x] = IF y = Rows - 1 THEN Space ELSE b[y + 1][x]
  BY <1>2 DEF ShiftedUp, BlankRow, Buffer
<1>4. ShiftedUp(b) \in Buffer
  BY <1>1, <1>2 DEF ShiftedUp, BlankRow, Buffer
<1>5. ASSUME NEW y \in BufferRow, NEW x \in Column, NEW k \in 1..Len(s)
      PROVE  /\ y # Rows - 1 => (IsAt(s, f, d + 1, k, y, x) <=> IsAt(s, f, d, k, y + 1, x))
             /\ y = Rows - 1 => ~IsAt(s, f, d + 1, k, y, x)
  <2>1. y + (d + 1) = (y + 1) + d /\ (y = Rows - 1 => y + (d + 1) = Rows + d) /\ Rows + d \in Nat
    BY <1>1 DEF BufferRow
  <2>2. f[k - 1].row < Rows + d
    OBVIOUS
  <2> HIDE DEF f
  <2>3. [row |-> Rows + d, col |-> x].row = Rows + d
    OBVIOUS
  <2> QED
    BY <2>1, <2>2, <2>3 DEF IsAt
<1> HIDE DEF f
<1>6. Shows(b, s, f, d)
  BY DEF f
<1>7. ASSUME NEW y \in BufferRow, NEW x \in Column, NEW k \in 1..Len(s),
             IsAt(s, f, d + 1, k, y, x)
      PROVE  ShiftedUp(b)[y][x] = s[k]
  <2>1. y # Rows - 1 /\ IsAt(s, f, d, k, y + 1, x)
    BY <1>5, <1>7
  <2> QED
    BY <1>2, <1>3, <1>6, <2>1 DEF Shows
<1>8. ASSUME NEW y \in BufferRow, NEW x \in Column,
             \A k \in 1..Len(s) : ~IsAt(s, f, d + 1, k, y, x)
      PROVE  ShiftedUp(b)[y][x] = Space
  <2>1. CASE y = Rows - 1
    BY <1>3, <2>1
  <2>2. CASE y # Rows - 1
    BY <1>2, <1>3, <1>5, <1>6, <1>8, <2>2 DEF Shows
  <2> QED
    BY <2>1, <2>2
<1>9. Shows(ShiftedUp(b), s, f, d + 1)
  BY <1>7, <1>8 DEF Shows
<1> QED
  BY <1>4, <1>9 DEF f

\* Blanking the cell of the last character shows the shorter text.
LEMMA ShowsErased ==
  ASSUME text \in Seq(Char), origin \in Spot, dropped \in Nat, scrollback_buffer \in Buffer,
         BackRow \in BufferRow, BackCol \in Column,
         Len(text) > 0, text[Len(text)] # Newline,
         PlaceOf(text, origin)[Len(text) - 1] = [row |-> BackRow + dropped, col |-> BackCol],
         Shows(scrollback_buffer, text, PlaceOf(text, origin), dropped),
         NEW t, t = SubSeq(text, 1, Len(text) - 1),
         NEW e, e = [scrollback_buffer EXCEPT ![BackRow][BackCol] = Space]
  PROVE  /\ t \in Seq(Char)
         /\ Len(t) = Len(text) - 1
         /\ \A k \in 1..Len(t) : t[k] = text[k]
         /\ e \in Buffer
         /\ Shows(e, t, PlaceOf(t, origin), dropped)
         /\ PlaceOf(t, origin)[Len(t)] = [row |-> BackRow + dropped, col |-> BackCol]
<1> DEFINE s == text
           o == origin
           d == dropped
           b == scrollback_buffer
           r == BackRow
           q == BackCol
<1>0. /\ s \in Seq(Char) /\ o \in Spot /\ d \in Nat /\ b \in Buffer
      /\ r \in BufferRow /\ q \in Column /\ Len(s) > 0 /\ s[Len(s)] # Newline
      /\ PlaceOf(s, o)[Len(s) - 1] = [row |-> r + d, col |-> q]
      /\ Shows(b, s, PlaceOf(s, o), d) /\ t = SubSeq(s, 1, Len(s) - 1)
      /\ e = [b EXCEPT ![r][q] = Space]
  OBVIOUS
<1> SUFFICES /\ t \in Seq(Char) /\ Len(t) = Len(s) - 1
             /\ \A k \in 1..Len(t) : t[k] = s[k]
             /\ e \in Buffer /\ Shows(e, t, PlaceOf(t, o), d)
             /\ PlaceOf(t, o)[Len(t)] = [row |-> r + d, col |-> q]
  OBVIOUS
<1> HIDE DEF s, o, d, b, r, q
<1> DEFINE n == Len(s)
           f == PlaceOf(s, o)
           g == PlaceOf(t, o)
<1>1. n \in Nat /\ n > 0
  BY <1>0
<1>2. t \in Seq(Char) /\ Len(t) = n - 1 /\ \A k \in 1..(n - 1) : t[k] = s[k]
  <2>1. 1 \in 1..(n + 1) /\ n - 1 \in 0..n /\ 1 <= (n - 1) + 1 /\ (n - 1) - 1 + 1 = n - 1
    BY <1>1
  <2>2. \A k \in 1..(n - 1) : 1 + k - 1 = k
    BY <1>1
  <2>3. s \in Seq(Char) /\ t = SubSeq(s, 1, n - 1)
    BY <1>0
  <2> HIDE DEF n
  <2>4. \A k \in 1..(n - 1) : s[k] \in Char
    BY <1>1, <2>3, ElementOfSeq DEF n
  <2>5. /\ t \in Seq(Char)
        /\ Len(t) = IF 1 <= n - 1 THEN (n - 1) - 1 + 1 ELSE 0
        /\ \A k \in 1..((n - 1) - 1 + 1) : t[k] = s[1 + k - 1]
    BY <1>1, <2>3, <2>4, n - 1 \in Int, SubSeqProperties
  <2> QED
    BY <1>1, <2>1, <2>2, <2>5
<1>3. Places(f, s, o, n) /\ Len(t) <= Len(s)
  BY <1>0, <1>2, PlaceOfIs
<1>4. \A k \in 0..(n - 1) : g[k] = f[k]
  <2>1. \A k \in 1..Len(t) : t[k] = s[k]
    BY <1>2
  <2>2. \A k \in 0..Len(t) : g[k] = f[k]
    BY <1>0, <1>2, <1>3, <2>1, PlacesOfPrefix
  <2> QED
    BY <1>2, <2>2
<1>5. Space \in Char /\ Space # Newline
  BY ConsoleSizes DEF Space, Newline
<1>6. e \in Buffer /\ \A y \in BufferRow, x \in Column :
        e[y][x] = IF y = r /\ x = q THEN Space ELSE b[y][x]
  BY <1>0, <1>5 DEF Buffer
<1>7. f[n - 1] = [row |-> r + d, col |-> q] /\ Shows(b, s, f, d) /\ s[n] # Newline
  BY <1>0
<1> HIDE DEF n, f, g
<1>8. ASSUME NEW y \in BufferRow, NEW x \in Column, NEW k \in 1..(n - 1)
      PROVE  /\ IsAt(t, g, d, k, y, x) <=> IsAt(s, f, d, k, y, x)
             /\ IsAt(t, g, d, k, y, x) => ~(y = r /\ x = q)
  <2>1. k - 1 \in 0..n /\ k - 1 # n - 1 /\ n - 1 \in 0..n /\ k - 1 \in 0..(n - 1)
    BY <1>1
  <2>2. f[k - 1] # f[n - 1] /\ f[k - 1] = g[k - 1]
    BY <1>0, <1>1, <1>3, <1>4, <2>1, PlacesDiffer
  <2> QED
    BY <1>2, <1>7, <2>2 DEF IsAt
<1>9. ASSUME NEW y \in BufferRow, NEW x \in Column
      PROVE  IsAt(s, f, d, n, y, x) => y = r /\ x = q
  <2>1. [row |-> r + d, col |-> q] = [row |-> y + d, col |-> x] <=> r + d = y + d /\ q = x
    OBVIOUS
  <2>2. r + d = y + d <=> r = y
    <3>1. r \in Nat /\ y \in Nat /\ d \in Nat
      BY <1>0, ConsoleSizes DEF BufferRow
    <3> QED
      BY <3>1
  <2> QED
    BY <1>7, <2>1, <2>2 DEF IsAt
<1>10. \A k \in 1..n : k \in 1..(n - 1) \/ k = n
  BY <1>1
<1>11. ASSUME NEW y \in BufferRow, NEW x \in Column, NEW k \in 1..Len(t),
              IsAt(t, g, d, k, y, x)
       PROVE  e[y][x] = t[k]
  <2>1. k \in 1..(n - 1) /\ k \in 1..n
    BY <1>1, <1>2
  <2> QED
    BY <1>2, <1>6, <1>7, <1>8, <1>11, <2>1 DEF Shows, n
<1>12. ASSUME NEW y \in BufferRow, NEW x \in Column,
              \A k \in 1..Len(t) : ~IsAt(t, g, d, k, y, x)
       PROVE  e[y][x] = Space
  <2>1. CASE y = r /\ x = q
    BY <1>6, <2>1
  <2>2. CASE ~(y = r /\ x = q)
    <3>1. \A k \in 1..(n - 1) : k \in 1..Len(t)
      BY <1>2
    <3>2. \A k \in 1..n : ~IsAt(s, f, d, k, y, x)
      BY <1>8, <1>9, <1>10, <1>12, <2>2, <3>1
    <3> QED
      BY <1>6, <1>7, <2>2, <3>2 DEF Shows, n
  <2> QED
    BY <2>1, <2>2
<1>13. Shows(e, t, g, d)
  BY <1>11, <1>12 DEF Shows
<1>14. g[n - 1] = [row |-> r + d, col |-> q]
  BY <1>1, <1>4, <1>7
<1> QED
  BY <1>2, <1>6, <1>13, <1>14 DEF n, f, g

-----------------------------------------------------------------------------
(* Rows, columns and cells                                                 *)

\* The larger of two numbers.
LEMMA MaxOfTwo ==
  ASSUME NEW a \in Int, NEW b \in Int
  PROVE  Max({a, b}) = IF a >= b THEN a ELSE b
BY DEF Max

\* A number of rows times their width.
LEMMA RowsTimes ==
  ASSUME NEW w \in Nat, NEW a \in Nat, NEW b \in Nat
  PROVE  /\ a * w \in Nat
         /\ (a + b) * w = a * w + b * w
         /\ a <= b => a * w <= b * w
<1>1. a * w \in Nat /\ (a + b) * w = a * w + b * w
  OBVIOUS
<1>2. ASSUME a <= b
      PROVE  a * w <= b * w
  <2>1. PICK d \in Nat : b = a + d
    BY <1>2
  <2>2. d * w \in Nat /\ (a + d) * w = a * w + d * w
    OBVIOUS
  <2> QED
    BY <1>1, <2>1, <2>2
<1> QED
  BY <1>1, <1>2

\* A row that is at most a line's cells farther down is on the same screen.
LEMMA RowWithin ==
  ASSUME NEW w \in Nat, w > 0, NEW h \in Nat, h > 0, NEW a \in Nat, NEW b \in Nat,
         NEW q \in 0..(w - 1), a * w <= b * w + q + w * (h - 1)
  PROVE  a < b + h
<1> SUFFICES ASSUME b + h <= a
             PROVE  FALSE
  OBVIOUS
<1>1. (b + h) * w <= a * w /\ (b + h) * w = b * w + h * w
  BY RowsTimes, b + h \in Nat
<1>2. w * (h - 1) = h * w - w
  OBVIOUS
<1>3. a * w \in Nat /\ b * w \in Nat /\ h * w \in Nat
  BY RowsTimes
<1> QED
  BY <1>1, <1>2, <1>3

\* A cell of the screen and its position.
LEMMA PositionOnScreen ==
  ASSUME NEW w \in Nat, w > 0, NEW h \in Nat, NEW r \in 0..(h - 1), NEW q \in 0..(w - 1)
  PROVE  /\ r * w + q \in Nat
         /\ r * w + q < w * h
         /\ (r * w + q) \div w = r
         /\ (r * w + q) % w = q
<1>1. r \in Nat /\ r * w \in Nat
  BY RowsTimes
<1>2. (r + 1) * w <= h * w /\ (r + 1) * w = r * w + w
  BY RowsTimes, <1>1, r + 1 \in Nat, r + 1 <= h
<1>3. h * w = w * h
  OBVIOUS
<1>4. (r * w + q) \div w = r
  BY <1>1
<1>5. (r * w + q) % w = q
  BY <1>1
<1> QED
  BY <1>1, <1>2, <1>3, <1>4, <1>5

\* A position inside the screen is stored as it is.
LEMMA SmallMod ==
  ASSUME NEW a \in Nat, NEW m \in Nat, a < m
  PROVE  a % m = a
OBVIOUS

-----------------------------------------------------------------------------
(* The buffer in terms of Shows                                            *)

\* BufferIsThePaper, said cell by cell.
TextShown(b, s, o, d, r, q) ==
  /\ Shows(b, s, PlaceOf(s, o), d)
  /\ PlaceOf(s, o)[Len(s)] = [row |-> r + d, col |-> q]

\* The text starts on the paper.
LEMMA OriginIsSpot ==
  ASSUME NEW o \in [row : ScreenRow, col : Column]
  PROVE  o \in Spot
BY ConsoleSizes DEF Spot, ScreenRow

\* Before a step ...
LEMMA PaperNow ==
  ASSUME ConsoleTypeOK
  PROVE  BufferIsThePaper <=>
           TextShown(scrollback_buffer, text, origin, dropped, cursor_row, cursor_col)
<1>1. /\ text \in Seq(Char) /\ dropped \in Nat /\ scrollback_buffer \in Buffer
      /\ origin \in Spot
  BY OriginIsSpot DEF ConsoleTypeOK, Buffer
<1>2. Paper = PaperOf(text, origin, dropped)
  BY DEF Paper, PaperOf, Place, PlaceOf
<1>3. Place = PlaceOf(text, origin)
  BY DEF Place, PlaceOf
<1>4. scrollback_buffer = Paper <=>
        Shows(scrollback_buffer, text, PlaceOf(text, origin), dropped)
  BY <1>1, <1>2, PaperMeans
<1> QED
  BY <1>3, <1>4 DEF BufferIsThePaper, TextShown

\* ... and after it.
LEMMA PaperNext ==
  ASSUME ConsoleTypeOK'
  PROVE  BufferIsThePaper' <=>
           TextShown(scrollback_buffer', text', origin', dropped', cursor_row', cursor_col')
<1>1. /\ text' \in Seq(Char) /\ dropped' \in Nat /\ scrollback_buffer' \in Buffer
      /\ origin' \in Spot
  BY OriginIsSpot DEF ConsoleTypeOK, Buffer
<1>2. Paper' = PaperOf(text', origin', dropped')
  BY DEF Paper, PaperOf, Place, PlaceOf
<1>3. Place' = PlaceOf(text', origin')
  BY DEF Place, PlaceOf
<1>4. scrollback_buffer' = Paper' <=>
        Shows(scrollback_buffer', text', PlaceOf(text', origin'), dropped')
  BY <1>1, <1>2, PaperMeans
<1> QED
  BY <1>3, <1>4 DEF BufferIsThePaper, TextShown

\* A blank buffer shows the empty text, wherever that starts.
LEMMA BlankShown ==
  ASSUME NEW r \in ScreenRow, NEW q \in Column
  PROVE  /\ BlankBuffer \in Buffer
         /\ TextShown(BlankBuffer, <<>>, [row |-> r, col |-> q], 0, r, q)
<1> DEFINE o == [row |-> r, col |-> q]
<1>1. BlankBuffer \in Buffer
  BY ConsoleSizes DEF BlankBuffer, BlankRow, Buffer
<1>2. o \in Spot /\ <<>> \in Seq(Char) /\ Len(<<>>) = 0
  BY ConsoleSizes DEF Spot, ScreenRow
<1>3. Places(PlaceOf(<<>>, o), <<>>, o, 0)
  <2> HIDE DEF o
  <2> QED
    BY <1>2, PlaceOfIs
<1>4. PlaceOf(<<>>, o)[0] = o /\ r + 0 = r
  BY <1>3, ConsoleSizes DEF Places, ScreenRow
<1>5. Shows(BlankBuffer, <<>>, PlaceOf(<<>>, o), 0)
  BY <1>2 DEF Shows, BlankBuffer, BlankRow
<1> QED
  BY <1>1, <1>2, <1>4, <1>5 DEF TextShown

\* The screen after refresh_screen().
LEMMA Refreshed ==
  ASSUME refresh_screen, scrollback_buffer' \in Buffer, view_row' \in BufferRow,
         vga \in [ScreenRow -> [Column -> Char]]
  PROVE  /\ vga' \in [ScreenRow -> [Column -> Char]]
         /\ ScreenShowsBuffer'
<1>0. Rows \in Nat /\ Height \in Nat
  BY ConsoleSizes
<1>1. \A v \in BufferRow, y \in ScreenRow : v + y < Rows => v + y \in BufferRow
  BY <1>0 DEF ScreenRow, BufferRow
<1>2. vga' \in [ScreenRow -> [Column -> Char]]
  BY <1>1 DEF refresh_screen, Buffer
<1>3. \A y \in ScreenRow : view_row' + y < Rows => vga'[y] = scrollback_buffer'[view_row' + y]
  BY DEF refresh_screen
<1> QED
  BY <1>2, <1>3 DEF ScreenShowsBuffer

\* The hardware's cursor after update_cursor().
LEMMA CursorUpdated ==
  ASSUME update_cursor, cursor_row' \in BufferRow, cursor_col' \in Column,
         view_row' \in BufferRow
  PROVE  /\ hw_cursor' \in 0..(PosLimit - 1)
         /\ cursor_row' - view_row' \in ScreenRow =>
              /\ hw_cursor' < Width * Height
              /\ hw_cursor' \div Width + view_row' = cursor_row'
              /\ hw_cursor' % Width = cursor_col'
<1> DEFINE r == cursor_row' - view_row'
<1>1. /\ Width \in Nat /\ Width > 0 /\ Height \in Nat /\ Height > 0 /\ Rows \in Nat
      /\ PosLimit \in Nat /\ Width * Height <= PosLimit
  BY ConsoleSizes
<1>2. r \in Int /\ cursor_col' \in Nat /\ cursor_col' \in 0..(Width - 1)
  BY <1>1 DEF BufferRow, Column
<1>3. hw_cursor' = (r * Width + cursor_col') % PosLimit
  BY DEF update_cursor
<1>4. Width * Height > 0
  <2>1. 1 * Width <= Height * Width
    BY <1>1, RowsTimes
  <2> QED
    BY <1>1, <2>1
<1>5. hw_cursor' \in 0..(PosLimit - 1)
  <2> DEFINE a == r * Width + cursor_col'
  <2>1. a \in Int
    BY <1>1, <1>2
  <2>2. PosLimit > 0
    BY <1>1, <1>4
  <2> HIDE DEF a
  <2>3. a % PosLimit \in 0..(PosLimit - 1)
    BY <1>1, <2>1, <2>2
  <2> QED
    BY <1>3, <2>3 DEF a
<1>6. ASSUME r \in ScreenRow
      PROVE  /\ hw_cursor' < Width * Height
             /\ hw_cursor' \div Width + view_row' = cursor_row'
             /\ hw_cursor' % Width = cursor_col'
  <2>1. r + view_row' = cursor_row'
    <3>1. \A a, b \in BufferRow : (a - b) + b = a
      BY <1>1 DEF BufferRow
    <3> QED
      BY <3>1
  <2> HIDE DEF r
  <2>2. r \in 0..(Height - 1)
    BY <1>6 DEF ScreenRow
  <2> DEFINE a == r * Width + cursor_col'
  <2>3. a \in Nat /\ a < Width * Height /\ a \div Width = r /\ a % Width = cursor_col'
    BY <1>1, <1>2, <2>2, PositionOnScreen
  <2> HIDE DEF a
  <2>4. a % PosLimit = a
    BY <1>1, <1>4, <2>3, SmallMod
  <2>5. hw_cursor' = a
    BY <1>3, <2>4 DEF a
  <2> QED
    BY <2>1, <2>3, <2>5
<1> QED
  BY <1>5, <1>6

-----------------------------------------------------------------------------
(* print_char()                                                            *)

\* The cell behind the cursor's, and how many cells are in front of it.
LEMMA NextCell ==
  ASSUME NEW ch, cursor_row \in Nat, cursor_col \in Column
  PROVE  /\ NextCol(ch) \in Column
         /\ NextRow(ch) = cursor_row \/ (NextRow(ch) = cursor_row + 1 /\ NextCol(ch) = 0)
         /\ NextRow(ch) * Width + NextCol(ch) >= CellsBefore + 1
         /\ ch # Newline => NextRow(ch) * Width + NextCol(ch) = CellsBefore + 1
         /\ \A d \in Nat : After([row |-> cursor_row + d, col |-> cursor_col], ch)
                             = [row |-> NextRow(ch) + d, col |-> NextCol(ch)]
<1> DEFINE r == cursor_row
           q == cursor_col
           nr == NextRow(ch)
           nc == NextCol(ch)
<1>0. /\ nc = IF ch = Newline \/ q + 1 >= Width THEN 0 ELSE q + 1
      /\ nr = IF nc = 0 THEN r + 1 ELSE r
      /\ r \in Nat /\ q \in Column
  BY DEF NextRow, NextCol
<1> SUFFICES /\ nc \in Column
             /\ nr = r \/ (nr = r + 1 /\ nc = 0)
             /\ nr * Width + nc >= r * Width + q + 1
             /\ ch # Newline => nr * Width + nc = r * Width + q + 1
             /\ \A d \in Nat : After([row |-> r + d, col |-> q], ch) = [row |-> nr + d, col |-> nc]
  BY DEF CellsBefore
<1> HIDE DEF r, q, nr, nc
<1>1. Width \in Nat /\ Width > 0 /\ q \in Nat /\ q < Width
  BY <1>0, ConsoleSizes DEF Column
<1>2. nc = 0 <=> ch = Newline \/ q = Width - 1
  BY <1>0, <1>1
<1>3. nc # 0 => nc = q + 1
  BY <1>0
<1>4. r * Width \in Nat /\ (r + 1) * Width = r * Width + Width
  BY <1>0, <1>1, RowsTimes
<1>5. nc \in Column
  BY <1>0, <1>1 DEF Column
<1>6. CASE nc = 0
  <2>1. nr = r + 1
    BY <1>0, <1>6
  <2>2. nr * Width + nc = r * Width + Width
    <3>1. nr * Width = r * Width + Width
      BY <1>4, <2>1
    <3> QED
      BY <1>1, <1>4, <1>6, <3>1
  <2>3. ch # Newline => Width = q + 1
    BY <1>1, <1>2, <1>6
  <2>4. \A d \in Nat : (r + d) + 1 = nr + d
    BY <1>0, <2>1
  <2>5. \A d \in Nat : After([row |-> r + d, col |-> q], ch) = [row |-> nr + d, col |-> nc]
    BY <1>2, <1>6, <2>4 DEF After
  <2> QED
    BY <1>0, <1>1, <1>4, <1>5, <1>6, <2>1, <2>2, <2>3, <2>5
<1>7. CASE nc # 0
  <2>1. nr = r
    BY <1>0, <1>7
  <2>2. \A d \in Nat : After([row |-> r + d, col |-> q], ch) = [row |-> nr + d, col |-> nc]
    BY <1>2, <1>3, <1>7, <2>1 DEF After
  <2>3. nr * Width + nc = r * Width + q + 1
    BY <1>1, <1>3, <1>4, <1>7, <2>1
  <2> QED
    BY <1>0, <1>1, <1>4, <1>5, <2>1, <2>2, <2>3
<1> QED
  BY <1>6, <1>7

\* Store(), by what it does to the rows: the cursor stays inside the buffer and
\* in front of the last row in use.
LEMMA StoredRows ==
  ASSUME ConsoleTypeOK, NEW ch \in Char, Store(ch)
  PROVE  \E r \in BufferRow, sr \in BufferRow, d \in Nat :
           /\ cursor_row' = r /\ scrollback_row' = sr /\ dropped' = d
           /\ r <= sr /\ r + d = NextRow(ch) + dropped
           /\ \/ NextRow(ch) < Rows /\ r = NextRow(ch) /\ sr \in {scrollback_row, r}
              \/ NextRow(ch) = Rows /\ r = Rows - 1 /\ sr = r
<1>1. Rows \in Nat /\ Rows > 0
  BY ConsoleSizes
<1>2. cursor_row \in Nat /\ cursor_row < Rows /\ scrollback_row \in Nat /\ scrollback_row < Rows
      /\ dropped \in Nat
  BY <1>1 DEF ConsoleTypeOK, BufferRow
<1>3. NextRow(ch) = cursor_row \/ NextRow(ch) = cursor_row + 1
  BY DEF NextRow
<1> DEFINE n == NextRow(ch)
<1> HIDE DEF n
<1>4. n \in Nat /\ n <= Rows
  BY <1>1, <1>2, <1>3 DEF n
<1>5. Max({scrollback_row, n}) = IF scrollback_row >= n THEN scrollback_row ELSE n
  BY <1>2, <1>4, MaxOfTwo
<1>6. CASE n >= Rows
  <2>1. n = Rows /\ Max({scrollback_row, n}) = n
    BY <1>1, <1>2, <1>4, <1>5, <1>6
  <2>2. /\ cursor_row' = n - 1 /\ scrollback_row' = Max({scrollback_row, n}) - 1
        /\ dropped' = dropped + 1
    BY <1>6 DEF Store, n
  <2>3. /\ cursor_row' = Rows - 1 /\ scrollback_row' = Rows - 1 /\ dropped' = dropped + 1
    BY <2>1, <2>2
  <2>4. Rows - 1 \in BufferRow /\ dropped + 1 \in Nat /\ (Rows - 1) + (dropped + 1) = n + dropped
    BY <1>1, <1>2, <2>1 DEF BufferRow
  <2>5. Rows - 1 <= Rows - 1
    BY <1>1
  <2> QED
    BY <2>1, <2>3, <2>4, <2>5 DEF n
<1>7. CASE ~(n >= Rows)
  <2>1. /\ cursor_row' = n /\ scrollback_row' = Max({scrollback_row, n})
        /\ dropped' = dropped
    BY <1>7 DEF Store, n
  <2>2. n \in BufferRow /\ scrollback_row \in BufferRow /\ n < Rows
    BY <1>1, <1>2, <1>4, <1>7 DEF BufferRow
  <2>3. PICK m \in {scrollback_row, n} : m = Max({scrollback_row, n}) /\ n <= m
    BY <1>2, <1>4, <1>5
  <2> QED
    BY <1>2, <2>1, <2>2, <2>3 DEF n
<1> QED
  BY <1>6, <1>7

\* Store(), by what it does to the buffer: it shows the longer text.
LEMMA StoredText ==
  ASSUME ConsoleTypeOK, BufferIsThePaper, NEW ch \in Char, Store(ch), cursor_col' = NextCol(ch),
         text' = Append(text, ch), origin' = origin
  PROVE  /\ scrollback_buffer' \in Buffer
         /\ TextShown(scrollback_buffer', text', origin', dropped', cursor_row', cursor_col')
<1>1. /\ text \in Seq(Char) /\ dropped \in Nat /\ scrollback_buffer \in Buffer
      /\ cursor_row \in BufferRow /\ cursor_col \in Column /\ origin \in Spot
  BY OriginIsSpot DEF ConsoleTypeOK, Buffer
<1>2. cursor_row \in Nat /\ Rows \in Nat /\ cursor_row < Rows
  BY <1>1, ConsoleSizes DEF BufferRow
<1>3. /\ Shows(scrollback_buffer, text, PlaceOf(text, origin), dropped)
      /\ PlaceOf(text, origin)[Len(text)] = [row |-> cursor_row + dropped, col |-> cursor_col]
  BY PaperNow DEF TextShown
<1> DEFINE s == Append(text, ch)
           f == PlaceOf(s, origin)
           n == Len(text) + 1
<1>4. Written(ch) = Put(scrollback_buffer, ch, cursor_row, cursor_col)
  BY DEF Written, Put
<1>5. Written(ch) \in Buffer
  BY <1>1, <1>4, PutCells
<1>6. /\ Shows(Written(ch), s, f, dropped)
      /\ f[n] = After([row |-> cursor_row + dropped, col |-> cursor_col], ch)
      /\ \A k \in 1..n : f[k - 1].row <= cursor_row + dropped
  BY <1>1, <1>3, <1>4, ShowsPut
<1>7. s \in Seq(Char) /\ Len(s) = n /\ n \in Nat
  BY <1>1, AppendProperties
<1>8. After([row |-> cursor_row + dropped, col |-> cursor_col], ch)
        = [row |-> NextRow(ch) + dropped, col |-> NextCol(ch)]
  BY <1>1, <1>2, NextCell
<1>9. cursor_row' + dropped' = NextRow(ch) + dropped
  BY StoredRows
<1>10. f[Len(s)] = [row |-> cursor_row' + dropped', col |-> cursor_col']
  BY <1>6, <1>7, <1>8, <1>9
<1>11. Places(f, s, origin, Len(s))
  BY <1>1, <1>7, PlaceOfIs
<1> HIDE DEF s, f, n
<1>12. scrollback_buffer' \in Buffer /\ Shows(scrollback_buffer', s, f, dropped')
  <2>1. CASE NextRow(ch) >= Rows
    <3>1. \A k \in 1..Len(s) : f[k - 1].row < Rows + dropped
      <4>1. ASSUME NEW k \in 1..Len(s)
            PROVE  f[k - 1].row < Rows + dropped
        <5>1. f[k - 1].row <= cursor_row + dropped
          BY <1>6, <1>7
        <5>2. f[k - 1].row \in Nat
          BY <1>7, <1>11, k - 1 \in 0..Len(s) DEF Places, Spot
        <5>3. \A a \in Nat : a <= cursor_row + dropped => a < Rows + dropped
          BY <1>1, <1>2
        <5> QED
          BY <5>1, <5>2, <5>3
      <4> QED
        BY <4>1
    <3>2. /\ ShiftedUp(Written(ch)) \in Buffer
          /\ Shows(ShiftedUp(Written(ch)), s, f, dropped + 1)
      BY <1>1, <1>5, <1>6, <1>7, <3>1, ShowsShifted DEF f
    <3>3. scrollback_buffer' = ShiftedUp(Written(ch)) /\ dropped' = dropped + 1
      BY <2>1 DEF Store
    <3> QED
      BY <3>2, <3>3
  <2>2. CASE ~(NextRow(ch) >= Rows)
    BY <1>5, <1>6, <2>2 DEF Store
  <2> QED
    BY <2>1, <2>2
<1> QED
  BY <1>10, <1>12 DEF TextShown, s, f

\* Where the window and the edited line are after print_char().
LEMMA PrintedRows ==
  ASSUME ConsoleTypeOK, CursorNearEnd, NEW ch \in Char, print_char(ch),
         typed' \in 0..MaxTyped, typed' = 0 \/ (ch # Newline /\ typed' = typed + 1)
  PROVE  /\ cursor_row' \in BufferRow /\ cursor_col' \in Column /\ scrollback_row' \in BufferRow
         /\ view_row' \in BufferRow /\ view_row' + Height <= Rows
         /\ cursor_row' - view_row' \in ScreenRow
         /\ CursorNearEnd'
         /\ dropped' \in Nat
<1> DEFINE nr == NextRow(ch)
           nc == NextCol(ch)
<1>1. /\ Width \in Nat /\ Width > 0 /\ Height \in Nat /\ Height > 0 /\ Rows \in Nat
      /\ Height <= Rows /\ MaxTyped \in Nat /\ MaxTyped <= Width * (Height - 1)
  BY ConsoleSizes
<1>2. cursor_row \in Nat /\ cursor_col \in Column /\ scrollback_row \in Nat /\ typed \in Nat
      /\ typed <= MaxTyped /\ scrollback_row < Rows
  BY <1>1 DEF ConsoleTypeOK, BufferRow
<1>3. /\ nc \in Column
      /\ nr = cursor_row \/ (nr = cursor_row + 1 /\ nc = 0)
      /\ nr * Width + nc >= CellsBefore + 1
      /\ ch # Newline => nr * Width + nc = CellsBefore + 1
  BY <1>2, NextCell
<1>4. typed <= CellsBefore /\ scrollback_row * Width <= CellsBefore + (MaxTyped - typed)
  BY DEF CursorNearEnd
<1>5. PICK r \in BufferRow, sr \in BufferRow, d \in Nat :
        /\ cursor_row' = r /\ scrollback_row' = sr /\ dropped' = d
        /\ r <= sr
        /\ \/ nr < Rows /\ r = nr /\ sr \in {scrollback_row, r}
           \/ nr = Rows /\ r = Rows - 1 /\ sr = r
  BY StoredRows DEF print_char
<1>6. cursor_col' = nc /\ view_row' = Max({0, sr - Height + 1})
  BY <1>5 DEF print_char, Follow
<1>7. CellsBefore \in Nat
  BY <1>1, <1>2, RowsTimes DEF CellsBefore, Column
<1>8. PICK t \in 0..MaxTyped : typed' = t /\ (t = 0 \/ (ch # Newline /\ t = typed + 1))
  OBVIOUS
<1> HIDE DEF nr, nc
<1>9. r \in Nat /\ sr \in Nat /\ r < Rows /\ sr < Rows /\ nc \in Nat /\ nc < Width
  BY <1>1, <1>3 DEF BufferRow, Column
<1> DEFINE cb == r * Width + nc
<1>10. r * Width \in Nat /\ sr * Width \in Nat
  BY <1>1, <1>9, RowsTimes
<1>11. t <= cb /\ sr * Width <= cb + (MaxTyped - t)
  <2>1. CASE nr = Rows /\ r = Rows - 1 /\ sr = r
    <3>1. t <= Width * (Height - 1)
      BY <1>1, <1>8
    <3>2. (Height - 1) * Width <= r * Width
      BY <1>1, <1>9, <2>1, RowsTimes, Height - 1 \in Nat
    <3>3. Width * (Height - 1) = (Height - 1) * Width
      BY <1>1
    <3>4. t <= r * Width
      <4>1. (Height - 1) * Width \in Int /\ t \in Int
        BY <1>1
      <4> QED
        BY <1>10, <3>1, <3>2, <3>3, <4>1
    <3> QED
      BY <1>1, <1>8, <1>9, <1>10, <2>1, <3>4
  <2>2. CASE nr < Rows /\ r = nr /\ sr \in {scrollback_row, r}
    <3>1. cb >= CellsBefore + 1 /\ (ch # Newline => cb = CellsBefore + 1)
      BY <1>3, <2>2
    <3> HIDE DEF cb
    <3>2. cb \in Nat
      BY <1>9, <1>10 DEF cb
    <3>3. t <= cb
      BY <1>4, <1>7, <1>8, <1>2, <3>1, <3>2
    <3>4. CASE sr = scrollback_row
      BY <1>1, <1>2, <1>4, <1>7, <1>8, <1>10, <3>1, <3>2, <3>4
    <3>5. CASE sr = r
      <4>1. sr * Width <= cb
        BY <1>9, <1>10, <3>5 DEF cb
      <4> QED
        BY <1>1, <1>8, <1>10, <3>2, <3>3, <4>1
    <3> QED
      BY <2>2, <3>3, <3>4, <3>5
  <2> QED
    BY <1>5, <2>1, <2>2
<1>12. sr < r + Height
  <2>1. sr * Width <= r * Width + nc + Width * (Height - 1)
    <3>1. Width * (Height - 1) \in Int
      BY <1>1
    <3> QED
      BY <1>1, <1>8, <1>9, <1>10, <1>11, <3>1
  <2> QED
    BY <1>1, <1>9, <2>1, RowWithin
<1> DEFINE v == Max({0, sr - Height + 1})
<1>13. v = IF 0 >= sr - Height + 1 THEN 0 ELSE sr - Height + 1
  BY <1>1, <1>9, MaxOfTwo
<1> HIDE DEF v
<1>14. v \in BufferRow /\ v + Height <= Rows /\ r - v \in ScreenRow
  BY <1>1, <1>5, <1>9, <1>12, <1>13 DEF BufferRow, ScreenRow
<1>15. CursorNearEnd'
  BY <1>5, <1>6, <1>8, <1>11 DEF CursorNearEnd, CellsBefore
<1> QED
  BY <1>3, <1>5, <1>6, <1>14, <1>15 DEF v

\* What is printed is seen.
Printed ==
  /\ view_row' + Height <= Rows
  /\ hw_cursor' < Width * Height
  /\ hw_cursor' \div Width + view_row' = cursor_row'
  /\ hw_cursor' % Width = cursor_col'

\* print_char() keeps the invariant and is seen, whether the shell may erase
\* the character or not.
LEMMA PrintStep ==
  ASSUME ConsoleInv, NEW ch \in Char, print_char(ch),
         typed' \in 0..MaxTyped, typed' = 0 \/ (ch # Newline /\ typed' = typed + 1)
  PROVE  ConsoleInv' /\ Printed
<1>1. ConsoleTypeOK /\ BufferIsThePaper /\ TypedEndsText /\ CursorNearEnd
  BY DEF ConsoleInv
<1>2. /\ text \in Seq(Char) /\ typed \in Nat /\ origin \in [row : ScreenRow, col : Column]
      /\ vga \in [ScreenRow -> [Column -> Char]]
  BY <1>1, ConsoleSizes DEF ConsoleTypeOK
<1>3. /\ Store(ch) /\ cursor_col' = NextCol(ch) /\ refresh_screen /\ update_cursor
      /\ screen' = "text" /\ text' = Append(text, ch) /\ origin' = origin
  BY DEF print_char
<1>4. /\ cursor_row' \in BufferRow /\ cursor_col' \in Column /\ scrollback_row' \in BufferRow
      /\ view_row' \in BufferRow /\ view_row' + Height <= Rows
      /\ cursor_row' - view_row' \in ScreenRow
      /\ CursorNearEnd'
      /\ dropped' \in Nat
  BY <1>1, PrintedRows
<1>5. /\ scrollback_buffer' \in Buffer
      /\ TextShown(scrollback_buffer', text', origin', dropped', cursor_row', cursor_col')
  BY <1>1, <1>3, StoredText
<1>6. vga' \in [ScreenRow -> [Column -> Char]] /\ ScreenShowsBuffer'
  BY <1>2, <1>3, <1>4, <1>5, Refreshed
<1>7. /\ hw_cursor' \in 0..(PosLimit - 1)
      /\ hw_cursor' < Width * Height
      /\ hw_cursor' \div Width + view_row' = cursor_row'
      /\ hw_cursor' % Width = cursor_col'
  BY <1>3, <1>4, CursorUpdated
<1>8. text' \in Seq(Char) /\ Len(text') = Len(text) + 1
  BY <1>2, <1>3, AppendProperties
<1>9. ConsoleTypeOK'
  BY <1>2, <1>3, <1>4, <1>5, <1>6, <1>7, <1>8 DEF ConsoleTypeOK, Buffer
<1>10. BufferIsThePaper'
  BY <1>5, <1>9, PaperNext
<1>11. ClearUntilPrinted'
  BY <1>3 DEF ClearUntilPrinted
<1>12. TypedEndsText'
  <2> DEFINE n == Len(text)
             s == Append(text, ch)
  <2>1. n \in Nat /\ Len(s) = n + 1 /\ s[n + 1] = ch /\ \A k \in 1..n : s[k] = text[k]
    BY <1>2, AppendProperties
  <2>2. typed <= n /\ \A k \in 1..n : k > n - typed => text[k] # Newline
    BY <1>1 DEF TypedEndsText
  <2>3. PICK t \in 0..MaxTyped : typed' = t /\ (t = 0 \/ (ch # Newline /\ t = typed + 1))
    OBVIOUS
  <2>4. t \in Nat
    BY ConsoleSizes
  <2> HIDE DEF n, s
  <2>5. t <= n + 1
    BY <1>2, <2>1, <2>2, <2>3, <2>4
  <2>6. ASSUME NEW k \in 1..(n + 1), k > (n + 1) - t
        PROVE  s[k] # Newline
    <3>1. t # 0
      BY <2>1, <2>6
    <3>2. CASE k = n + 1
      BY <2>1, <2>3, <3>1, <3>2
    <3>3. CASE k # n + 1
      <4>1. k \in 1..n /\ k > n - typed
        BY <1>2, <2>1, <2>3, <2>4, <2>6, <3>1, <3>3
      <4> QED
        BY <2>1, <2>2, <4>1
    <3> QED
      BY <3>2, <3>3
  <2>7. text' = s /\ typed' = t /\ Len(s) = n + 1
    BY <1>3, <2>1, <2>3 DEF s
  <2> QED
    BY <2>5, <2>6, <2>7 DEF TypedEndsText
<1> QED
  BY <1>4, <1>6, <1>7, <1>9, <1>10, <1>11, <1>12 DEF ConsoleInv, Printed

-----------------------------------------------------------------------------
(* print_backspace()                                                       *)

\* The cell print_backspace() steps back to is that of the last character.
LEMMA BackCell ==
  ASSUME cursor_row \in Nat, cursor_col \in Column, cursor_row > 0 \/ cursor_col > 0,
         NEW d \in Nat, NEW p \in Spot, NEW ch, ch # Newline,
         After(p, ch) = [row |-> cursor_row + d, col |-> cursor_col]
  PROVE  /\ BackRow \in Nat /\ BackRow <= cursor_row /\ BackCol \in Column
         /\ p = [row |-> BackRow + d, col |-> BackCol]
         /\ BackRow * Width + BackCol = CellsBefore - 1
<1> DEFINE r == cursor_row
           q == cursor_col
           br == BackRow
           bc == BackCol
<1>0. /\ br = IF q > 0 THEN r ELSE r - 1
      /\ bc = IF q > 0 THEN q - 1 ELSE Width - 1
      /\ r \in Nat /\ q \in Column /\ (r > 0 \/ q > 0)
      /\ After(p, ch) = [row |-> r + d, col |-> q]
  BY DEF BackRow, BackCol
<1> SUFFICES /\ br \in Nat /\ br <= r /\ bc \in Column
             /\ p = [row |-> br + d, col |-> bc]
             /\ br * Width + bc = (r * Width + q) - 1
  BY DEF CellsBefore
<1> HIDE DEF r, q, br, bc
<1>1. Width \in Nat /\ Width > 0 /\ q \in Nat /\ q < Width
  BY <1>0, ConsoleSizes DEF Column
<1>2. p.row \in Nat /\ p.col \in Nat /\ p.col < Width /\ p = [row |-> p.row, col |-> p.col]
  BY <1>1 DEF Spot, Column
<1>3. CASE p.col = Width - 1
  <2>1. [row |-> p.row + 1, col |-> 0] = [row |-> r + d, col |-> q]
    BY <1>0, <1>3 DEF After
  <2>2. p.row + 1 = r + d /\ q = 0
    BY <2>1
  <2>3. br = r - 1 /\ bc = Width - 1 /\ br \in Nat
    BY <1>0, <1>1, <2>2
  <2>4. p.row = br + d
    BY <1>0, <1>2, <2>2, <2>3
  <2>5. (br + 1) * Width = br * Width + Width /\ br + 1 = r
    BY <1>0, <1>1, <2>3, RowsTimes
  <2>6. br * Width \in Nat
    BY <1>1, <2>3, RowsTimes
  <2>7. r * Width = br * Width + Width
    BY <2>5
  <2>8. br * Width + bc = (r * Width + q) - 1
    BY <1>1, <2>2, <2>3, <2>6, <2>7
  <2> QED
    BY <1>0, <1>1, <1>2, <1>3, <2>3, <2>4, <2>8 DEF Column
<1>4. CASE p.col # Width - 1
  <2>1. [row |-> p.row, col |-> p.col + 1] = [row |-> r + d, col |-> q]
    BY <1>0, <1>4 DEF After
  <2>2. p.row = r + d /\ q = p.col + 1
    BY <2>1
  <2>3. br = r /\ bc = q - 1 /\ bc = p.col
    BY <1>0, <1>1, <1>2, <2>2
  <2>4. r * Width \in Nat
    BY <1>0, <1>1, RowsTimes
  <2>5. br * Width + bc = (r * Width + q) - 1
    BY <1>1, <2>3, <2>4
  <2> QED
    BY <1>0, <1>1, <1>2, <2>2, <2>3, <2>5 DEF Column
<1> QED
  BY <1>3, <1>4

\* print_backspace() keeps the invariant.
LEMMA EraseStep ==
  ASSUME ConsoleInv, print_backspace
  PROVE  ConsoleInv'
<1>1. ConsoleTypeOK /\ BufferIsThePaper /\ TypedEndsText /\ CursorNearEnd
  BY DEF ConsoleInv
<1>2. /\ text \in Seq(Char) /\ typed \in 0..MaxTyped /\ dropped \in Nat
      /\ origin \in [row : ScreenRow, col : Column]
      /\ vga \in [ScreenRow -> [Column -> Char]]
      /\ scrollback_buffer \in Buffer /\ cursor_row \in BufferRow /\ cursor_col \in Column
      /\ scrollback_row \in BufferRow /\ view_row \in BufferRow
  BY <1>1 DEF ConsoleTypeOK, Buffer
<1>3. /\ typed > 0 /\ refresh_screen /\ update_cursor /\ screen' = "text"
      /\ text' = SubSeq(text, 1, Len(text) - 1) /\ typed' = typed - 1
      /\ scrollback_row' = scrollback_row /\ view_row' = view_row
      /\ origin' = origin /\ dropped' = dropped
  BY DEF print_backspace
<1>4. MaxTyped \in Nat /\ Rows \in Nat /\ Width \in Nat /\ Width > 0
  BY ConsoleSizes
<1>5. typed \in Nat /\ typed <= MaxTyped /\ cursor_row \in Nat /\ cursor_row < Rows
  BY <1>2, <1>4 DEF BufferRow
<1>6. typed <= CellsBefore /\ scrollback_row * Width <= CellsBefore + (MaxTyped - typed)
  BY <1>1 DEF CursorNearEnd
<1>7. cursor_row > 0 \/ cursor_col > 0
  <2>1. ASSUME cursor_row = 0, cursor_col = 0
        PROVE  FALSE
    <3>1. CellsBefore = 0
      BY <1>4, <2>1 DEF CellsBefore
    <3> QED
      BY <1>3, <1>5, <1>6, <3>1
  <2> QED
    BY <1>2, <1>4, <1>5, <2>1 DEF Column
<1>8. /\ cursor_col' = BackCol /\ cursor_row' = BackRow
      /\ scrollback_buffer' = [scrollback_buffer EXCEPT ![BackRow][BackCol] = Space]
  BY <1>7 DEF print_backspace
<1> DEFINE n == Len(text)
           f == PlaceOf(text, origin)
<1>9. n \in Nat /\ typed <= n /\ n > 0 /\ text[n] # Newline
  <2>1. n \in Nat /\ typed <= n
    BY <1>1, <1>2 DEF TypedEndsText
  <2>2. n > 0 /\ n \in 1..n /\ n > n - typed
    BY <1>3, <1>5, <2>1
  <2> QED
    BY <1>1, <2>1, <2>2 DEF TypedEndsText
<1>10. /\ Shows(scrollback_buffer, text, f, dropped)
       /\ f[n] = [row |-> cursor_row + dropped, col |-> cursor_col]
  BY <1>1, PaperNow DEF TextShown
<1>11. origin \in Spot
  BY <1>2, OriginIsSpot
<1>12. Places(f, text, origin, n)
  BY <1>2, <1>11, PlaceOfIs
<1>13. f[n - 1] \in Spot /\ f[n] = After(f[n - 1], text[n])
  <2> HIDE DEF n, f
  <2> QED
    BY <1>9, <1>12, n - 1 \in 0..n, n \in 1..n DEF Places
<1>14. /\ BackRow \in Nat /\ BackRow <= cursor_row /\ BackCol \in Column
       /\ f[n - 1] = [row |-> BackRow + dropped, col |-> BackCol]
       /\ BackRow * Width + BackCol = CellsBefore - 1
  <2> HIDE DEF n, f
  <2> QED
    BY <1>2, <1>5, <1>7, <1>9, <1>10, <1>13, BackCell
<1>15. BackRow \in BufferRow
  BY <1>5, <1>4, <1>14 DEF BufferRow
<1>16. /\ text' \in Seq(Char) /\ Len(text') = n - 1
       /\ \A k \in 1..Len(text') : text'[k] = text[k]
       /\ scrollback_buffer' \in Buffer
       /\ Shows(scrollback_buffer', text', PlaceOf(text', origin), dropped)
       /\ PlaceOf(text', origin)[Len(text')] = [row |-> BackRow + dropped, col |-> BackCol]
  BY <1>2, <1>3, <1>8, <1>9, <1>10, <1>11, <1>14, <1>15, ShowsErased
<1>17. TextShown(scrollback_buffer', text', origin', dropped', cursor_row', cursor_col')
  BY <1>3, <1>8, <1>16 DEF TextShown
<1>18. /\ cursor_row' \in BufferRow /\ cursor_col' \in Column
       /\ scrollback_row' \in BufferRow /\ view_row' \in BufferRow
  BY <1>2, <1>3, <1>8, <1>14, <1>15
<1>19. vga' \in [ScreenRow -> [Column -> Char]] /\ ScreenShowsBuffer'
  BY <1>2, <1>3, <1>16, <1>18, Refreshed
<1>20. hw_cursor' \in 0..(PosLimit - 1)
  BY <1>3, <1>18, CursorUpdated
<1>21. typed' \in 0..MaxTyped
  BY <1>3, <1>4, <1>5
<1>22. ConsoleTypeOK'
  BY <1>2, <1>3, <1>16, <1>18, <1>19, <1>20, <1>21 DEF ConsoleTypeOK, Buffer
<1>23. BufferIsThePaper'
  BY <1>17, <1>22, PaperNext
<1>24. ClearUntilPrinted'
  BY <1>3 DEF ClearUntilPrinted
<1>25. TypedEndsText'
  <2>1. \A k \in 1..n : k > n - typed => text[k] # Newline
    BY <1>1 DEF TypedEndsText
  <2> HIDE DEF n
  <2>2. typed - 1 <= n - 1
    BY <1>5, <1>9
  <2>3. ASSUME NEW k \in 1..(n - 1), k > (n - 1) - (typed - 1)
        PROVE  k \in 1..n /\ k > n - typed
    BY <1>5, <1>9, <2>3
  <2> QED
    BY <1>3, <1>16, <2>1, <2>2, <2>3 DEF TypedEndsText
<1>26. CursorNearEnd'
  <2> DEFINE cb == CellsBefore
             sw == scrollback_row * Width
             bb == BackRow * Width + BackCol
  <2>1. cb \in Nat /\ sw \in Nat
    <3>1. scrollback_row \in Nat /\ cursor_col \in Nat
      BY <1>2, <1>4 DEF BufferRow, Column
    <3>2. cursor_row * Width \in Nat /\ sw \in Nat
      BY <1>4, <1>5, <3>1, RowsTimes
    <3> QED
      BY <3>1, <3>2 DEF CellsBefore
  <2>2. typed <= cb /\ sw <= cb + (MaxTyped - typed) /\ bb = cb - 1
    BY <1>6, <1>14
  <2> HIDE DEF cb, sw, bb
  <2>3. typed - 1 <= bb /\ sw <= bb + (MaxTyped - (typed - 1))
    BY <1>4, <1>5, <2>1, <2>2
  <2> QED
    BY <1>3, <1>8, <2>3 DEF CursorNearEnd, CellsBefore, sw, bb
<1> QED
  BY <1>19, <1>22, <1>23, <1>24, <1>25, <1>26 DEF ConsoleInv

-----------------------------------------------------------------------------
(* The other operations                                                    *)

\* clear_screen() starts an empty text, from any state.
LEMMA ClearStep ==
  ASSUME ConsoleInv, clear_screen
  PROVE  ConsoleInv'
<1>1. /\ scrollback_buffer' = BlankBuffer /\ cursor_row' = 0 /\ cursor_col' = 0
      /\ scrollback_row' = 0 /\ view_row' = 0 /\ refresh_screen /\ screen' = "cleared"
      /\ origin' = [row |-> 0, col |-> 0] /\ text' = <<>> /\ dropped' = 0 /\ typed' = 0
      /\ hw_cursor' = hw_cursor
  BY DEF clear_screen
<1>2. vga \in [ScreenRow -> [Column -> Char]] /\ hw_cursor \in 0..(PosLimit - 1)
  BY DEF ConsoleInv, ConsoleTypeOK
<1>3. Width \in Nat /\ Width > 0 /\ Height \in Nat /\ Height > 0 /\ Rows \in Nat /\ Rows > 0
      /\ MaxTyped \in Nat
  BY ConsoleSizes
<1>4. 0 \in ScreenRow /\ 0 \in Column /\ 0 \in BufferRow /\ 0 \in 0..MaxTyped
  BY <1>3 DEF ScreenRow, Column, BufferRow
<1>5. /\ BlankBuffer \in Buffer
      /\ TextShown(BlankBuffer, <<>>, [row |-> 0, col |-> 0], 0, 0, 0)
  BY <1>4, BlankShown
<1>6. vga' \in [ScreenRow -> [Column -> Char]] /\ ScreenShowsBuffer'
  BY <1>1, <1>2, <1>4, <1>5, Refreshed
<1>7. ConsoleTypeOK'
  BY <1>1, <1>2, <1>4, <1>5, <1>6 DEF ConsoleTypeOK, Buffer
<1>8. BufferIsThePaper'
  BY <1>1, <1>5, <1>7, PaperNext
<1>9. ClearUntilPrinted'
  BY <1>1 DEF ClearUntilPrinted
<1>10. TypedEndsText'
  BY <1>1 DEF TypedEndsText
<1>11. CursorNearEnd'
  <2>1. 0 * Width = 0 /\ 0 <= MaxTyped
    BY <1>3
  <2> QED
    BY <1>1, <1>3, <2>1 DEF CursorNearEnd, CellsBefore
<1> QED
  BY <1>6, <1>7, <1>8, <1>9, <1>10, <1>11 DEF ConsoleInv

\* What the text's part of the invariant depends on.
textvars == <<cursor, scrollback_buffer, history>>

\* A step that leaves these alone keeps that part.
LEMMA TextKept ==
  ASSUME ConsoleInv, UNCHANGED textvars, UNCHANGED scrollback_row
  PROVE  /\ ConsoleTypeOK' => BufferIsThePaper'
         /\ TypedEndsText' /\ CursorNearEnd'
<1>1. UNCHANGED <<cursor_row, cursor_col, scrollback_buffer, origin, text, dropped, typed>>
  BY DEF textvars, cursor, history
<1>2. ConsoleTypeOK /\ BufferIsThePaper /\ TypedEndsText /\ CursorNearEnd
  BY DEF ConsoleInv
<1>3. TextShown(scrollback_buffer, text, origin, dropped, cursor_row, cursor_col)
  BY <1>2, PaperNow
<1>4. ConsoleTypeOK' => BufferIsThePaper'
  BY <1>1, <1>3, PaperNext
<1>5. TypedEndsText'
  BY <1>1, <1>2 DEF TypedEndsText
<1>6. CursorNearEnd'
  BY <1>1, <1>2 DEF CursorNearEnd, CellsBefore
<1> QED
  BY <1>4, <1>5, <1>6

\* scroll_up() and scroll_down() move the window inside the buffer.
LEMMA ScrollStep ==
  ASSUME ConsoleInv, NEW v \in BufferRow, ScrollTo(v)
  PROVE  ConsoleInv'
<1>1. /\ view_row' = v /\ refresh_screen /\ screen' = "text" /\ UNCHANGED textvars
      /\ UNCHANGED scrollback_row /\ UNCHANGED hw_cursor
  BY DEF ScrollTo, textvars
<1>2. UNCHANGED <<cursor_row, cursor_col, scrollback_buffer, origin, text, dropped, typed>>
  BY <1>1 DEF textvars, cursor, history
<1>3. ConsoleTypeOK
  BY DEF ConsoleInv
<1>4. vga' \in [ScreenRow -> [Column -> Char]] /\ ScreenShowsBuffer'
  <2>1. scrollback_buffer' \in Buffer /\ vga \in [ScreenRow -> [Column -> Char]]
    BY <1>2, <1>3 DEF ConsoleTypeOK, Buffer
  <2> QED
    BY <1>1, <2>1, Refreshed
<1>5. ConsoleTypeOK'
  BY <1>1, <1>2, <1>3, <1>4 DEF ConsoleTypeOK
<1>6. BufferIsThePaper' /\ TypedEndsText' /\ CursorNearEnd'
  BY <1>1, <1>5, TextKept
<1>7. ClearUntilPrinted'
  BY <1>1 DEF ClearUntilPrinted
<1> QED
  BY <1>4, <1>5, <1>6, <1>7 DEF ConsoleInv

\* print_char_at() changes the VGA memory only.
LEMMA DrawStep ==
  ASSUME ConsoleInv, NEW ch \in Char, NEW x \in Column, NEW y \in ScreenRow, print_char_at(ch, x, y)
  PROVE  ConsoleInv'
<1>1. /\ vga' = [vga EXCEPT ![y][x] = ch] /\ screen' = "drawn" /\ screen # "text"
      /\ UNCHANGED textvars /\ UNCHANGED scrollback_row /\ UNCHANGED <<view_row, hw_cursor>>
  BY DEF print_char_at, textvars
<1>2. UNCHANGED <<cursor_row, cursor_col, scrollback_buffer, origin, text, dropped, typed>>
  BY <1>1 DEF textvars, cursor, history
<1>3. ConsoleTypeOK /\ ClearUntilPrinted
  BY DEF ConsoleInv
<1>4. vga' \in [ScreenRow -> [Column -> Char]]
  BY <1>1, <1>3 DEF ConsoleTypeOK
<1>5. ConsoleTypeOK'
  BY <1>1, <1>2, <1>3, <1>4 DEF ConsoleTypeOK
<1>6. BufferIsThePaper' /\ TypedEndsText' /\ CursorNearEnd'
  BY <1>1, <1>5, TextKept
<1>7. ClearUntilPrinted' /\ ScreenShowsBuffer'
  BY <1>1, <1>2, <1>3 DEF ClearUntilPrinted, ScreenShowsBuffer
<1> QED
  BY <1>5, <1>6, <1>7 DEF ConsoleInv

\* set_cursor() moves the start of a text that is still empty.
LEMMA PlaceStep ==
  ASSUME ConsoleInv, NEW x \in Column, NEW y \in ScreenRow, set_cursor(x, y)
  PROVE  ConsoleInv'
<1>1. /\ screen # "text" /\ cursor_col' = x /\ cursor_row' = y
      /\ origin' = [row |-> y, col |-> x] /\ update_cursor
      /\ UNCHANGED <<scrollback_buffer, scrollback_row, view_row, vga, screen, text, dropped, typed>>
  BY DEF set_cursor
<1>2. /\ ConsoleTypeOK /\ BufferIsThePaper /\ ScreenShowsBuffer /\ ClearUntilPrinted
  BY DEF ConsoleInv
<1>3. text = <<>> /\ typed = 0 /\ dropped = 0 /\ scrollback_row = 0 /\ view_row = 0
  BY <1>1, <1>2 DEF ClearUntilPrinted
<1>4. Width \in Nat /\ Width > 0 /\ Height \in Nat /\ Height <= Rows /\ Rows \in Nat
      /\ MaxTyped \in Nat
  BY ConsoleSizes
<1>5. y \in BufferRow /\ y \in Nat
  BY <1>4 DEF BufferRow, ScreenRow
<1>6. scrollback_buffer \in Buffer /\ scrollback_buffer = BlankBuffer
  <2>1. scrollback_buffer \in Buffer
    BY <1>2 DEF ConsoleTypeOK, Buffer
  <2>2. Shows(scrollback_buffer, <<>>, PlaceOf(<<>>, origin), 0)
    BY <1>2, <1>3, PaperNow DEF TextShown
  <2>3. \A i \in BufferRow, j \in Column : scrollback_buffer[i][j] = Space
    BY <2>2 DEF Shows
  <2> QED
    BY <2>1, <2>3 DEF Buffer, BlankBuffer, BlankRow
<1>7. TextShown(scrollback_buffer', text', origin', dropped', cursor_row', cursor_col')
  BY <1>1, <1>3, <1>6, BlankShown
<1>8. hw_cursor' \in 0..(PosLimit - 1)
  <2>1. view_row' \in BufferRow /\ cursor_row' \in BufferRow /\ cursor_col' \in Column
    BY <1>1, <1>2, <1>5 DEF ConsoleTypeOK
  <2> QED
    BY <1>1, <2>1, CursorUpdated
<1>9. ConsoleTypeOK'
  BY <1>1, <1>2, <1>5, <1>8 DEF ConsoleTypeOK
<1>10. BufferIsThePaper'
  BY <1>7, <1>9, PaperNext
<1>11. ScreenShowsBuffer' /\ ClearUntilPrinted'
  BY <1>1, <1>2 DEF ScreenShowsBuffer, ClearUntilPrinted
<1>12. TypedEndsText'
  BY <1>1, <1>3 DEF TypedEndsText
<1>13. CursorNearEnd'
  <2>1. y * Width + x \in Nat /\ 0 * Width = 0
    <3>1. y * Width \in Nat /\ x \in Nat /\ 0 * Width = 0
      BY <1>4, <1>5, RowsTimes DEF Column
    <3> QED
      BY <3>1
  <2>2. scrollback_row' = 0 /\ typed' = 0 /\ CellsBefore' = y * Width + x
    BY <1>1, <1>3 DEF CellsBefore
  <2> DEFINE cb == y * Width + x
  <2> HIDE DEF cb
  <2>3. cb \in Nat /\ 0 <= cb + (MaxTyped - 0) /\ CellsBefore' = cb
    BY <1>4, <2>1, <2>2 DEF cb
  <2> QED
    BY <2>1, <2>2, <2>3 DEF CursorNearEnd
<1> QED
  BY <1>9, <1>10, <1>11, <1>12, <1>13 DEF ConsoleInv

-----------------------------------------------------------------------------
(* The invariant holds                                                     *)

\* kernel_main() starts with a blank screen.
LEMMA ConsoleInitially == ConsoleInit => ConsoleInv
<1> SUFFICES ASSUME ConsoleInit
             PROVE  ConsoleInv
  OBVIOUS
<1>1. /\ cursor_row = 0 /\ cursor_col = 0
      /\ scrollback_buffer = BlankBuffer /\ scrollback_row = 0 /\ view_row = 0
      /\ vga = [y \in ScreenRow |-> BlankRow] /\ screen = "cleared"
      /\ hw_cursor = 0
      /\ origin = [row |-> 0, col |-> 0] /\ text = <<>> /\ dropped = 0 /\ typed = 0
  BY DEF ConsoleInit
<1>2. Width \in Nat /\ Width > 0 /\ Height \in Nat /\ Height > 0 /\ Rows \in Nat /\ Rows > 0
      /\ MaxTyped \in Nat /\ Height <= Rows /\ PosLimit \in Nat /\ Width * Height <= PosLimit
      /\ Space \in Char
  BY ConsoleSizes
<1>3. 0 \in ScreenRow /\ 0 \in Column /\ 0 \in BufferRow /\ 0 \in 0..MaxTyped
  BY <1>2 DEF ScreenRow, Column, BufferRow
<1>4. 0 \in 0..(PosLimit - 1)
  <2>1. 1 * Width <= Height * Width
    BY <1>2, RowsTimes
  <2>2. PosLimit > 0
    BY <1>2, <2>1
  <2> QED
    BY <1>2, <2>2
<1>5. /\ BlankBuffer \in Buffer
      /\ TextShown(BlankBuffer, <<>>, [row |-> 0, col |-> 0], 0, 0, 0)
  BY <1>3, BlankShown
<1>6. vga \in [ScreenRow -> [Column -> Char]]
  BY <1>1, <1>2 DEF BlankRow
<1>7. ConsoleTypeOK
  BY <1>1, <1>3, <1>4, <1>5, <1>6 DEF ConsoleTypeOK, Buffer
<1>8. BufferIsThePaper
  BY <1>1, <1>5, <1>7, PaperNow
<1>9. ScreenShowsBuffer
  <2>1. \A y \in ScreenRow : 0 + y \in BufferRow
    BY <1>2 DEF ScreenRow, BufferRow
  <2> QED
    BY <1>1, <2>1 DEF ScreenShowsBuffer, BlankBuffer
<1>10. ClearUntilPrinted /\ TypedEndsText
  BY <1>1 DEF ClearUntilPrinted, TypedEndsText
<1>11. CursorNearEnd
  <2>1. 0 * Width = 0 /\ 0 <= MaxTyped
    BY <1>2
  <2> QED
    BY <1>1, <1>2, <2>1 DEF CursorNearEnd, CellsBefore
<1> QED
  BY <1>7, <1>8, <1>9, <1>10, <1>11 DEF ConsoleInv

\* Every operation keeps the invariant.
LEMMA ConsoleStep == ConsoleInv /\ [ConsoleNext]_consolevars => ConsoleInv'
<1> SUFFICES ASSUME ConsoleInv, [ConsoleNext]_consolevars
             PROVE  ConsoleInv'
  OBVIOUS
<1>1. MaxTyped \in Nat /\ typed \in 0..MaxTyped
  BY ConsoleSizes DEF ConsoleInv, ConsoleTypeOK
<1>2. ASSUME NEW ch \in Char, Echo(ch)
      PROVE  ConsoleInv'
  <2>1. print_char(ch) /\ ch # Newline /\ typed < MaxTyped /\ typed' = typed + 1
    BY <1>2 DEF Echo
  <2>2. typed + 1 \in 0..MaxTyped
    BY <1>1, <2>1
  <2> QED
    BY <2>1, <2>2, PrintStep
<1>3. ASSUME NEW ch \in Char, Output(ch)
      PROVE  ConsoleInv'
  <2>1. print_char(ch) /\ typed' = 0 /\ 0 \in 0..MaxTyped
    BY <1>1, <1>3 DEF Output
  <2> QED
    BY <2>1, PrintStep
<1>4. CASE print_backspace
  BY <1>4, EraseStep
<1>5. CASE clear_screen
  BY <1>5, ClearStep
<1>6. Rows \in Nat /\ view_row \in BufferRow /\ scrollback_row \in BufferRow
  BY ConsoleSizes DEF ConsoleInv, ConsoleTypeOK
<1>7. CASE scroll_up
  <2>1. view_row - 1 \in BufferRow /\ ScrollTo(view_row - 1)
    BY <1>6, <1>7 DEF scroll_up, BufferRow
  <2> QED
    BY <2>1, ScrollStep
<1>8. CASE scroll_down
  <2>1. view_row + 1 \in BufferRow /\ ScrollTo(view_row + 1)
    BY <1>6, <1>8 DEF scroll_down, BufferRow
  <2> QED
    BY <2>1, ScrollStep
<1>9. ASSUME NEW x \in Column, NEW y \in ScreenRow, set_cursor(x, y)
      PROVE  ConsoleInv'
  BY <1>9, PlaceStep
<1>10. ASSUME NEW x \in Column, NEW y \in ScreenRow, NEW ch \in Char, print_char_at(ch, x, y)
       PROVE  ConsoleInv'
  BY <1>10, DrawStep
<1>11. CASE UNCHANGED consolevars
  <2>1. UNCHANGED textvars /\ UNCHANGED scrollback_row
        /\ UNCHANGED <<cursor_row, cursor_col, scrollback_buffer, scrollback_row, view_row, vga,
                       hw_cursor, screen, origin, text, dropped, typed>>
    BY <1>11 DEF consolevars, textvars, cursor, history
  <2>2. ConsoleTypeOK'
    BY <2>1 DEF ConsoleInv, ConsoleTypeOK
  <2>3. ScreenShowsBuffer' /\ ClearUntilPrinted'
    BY <2>1 DEF ConsoleInv, ScreenShowsBuffer, ClearUntilPrinted
  <2> QED
    BY <2>1, <2>2, <2>3, TextKept DEF ConsoleInv
<1> QED
  BY <1>2, <1>3, <1>4, <1>5, <1>7, <1>8, <1>9, <1>10, <1>11 DEF ConsoleNext

-----------------------------------------------------------------------------
(* Theorems                                                                *)

\* The invariant is one of the specification's, for every size of screen and
\* buffer and any amount of text.
THEOREM ConsoleInvariance == ConsoleSpec => []ConsoleInv
BY ConsoleInitially, ConsoleStep, PTL DEF ConsoleSpec

\* print_char(), print_backspace() and refresh_screen() never leave
\* scrollback_buffer: the cursor and the window are always rows of it, also
\* when an edited line is erased back over rows that the buffer has shifted.
THEOREM ConsoleTypeCorrect == ConsoleSpec => []ConsoleTypeOK
<1>1. ConsoleInv => ConsoleTypeOK
  BY DEF ConsoleInv
<1> QED
  BY <1>1, ConsoleInvariance, PTL

\* scrollback_buffer is what paper would show of the text, less the rows that
\* print_char() has shifted out of it, whatever was wrapped and erased.
THEOREM BufferCorrect == ConsoleSpec => []BufferIsThePaper
<1>1. ConsoleInv => BufferIsThePaper
  BY DEF ConsoleInv
<1> QED
  BY <1>1, ConsoleInvariance, PTL

\* The VGA memory shows the same, from view_row on, whenever the editor has not
\* drawn on it.
THEOREM ScreenCorrect == ConsoleSpec => []ScreenIsThePaper
<1>1. ConsoleInv => ScreenIsThePaper
  BY DEF ConsoleInv, BufferIsThePaper, ScreenShowsBuffer, ScreenIsThePaper
<1> QED
  BY <1>1, ConsoleInvariance, PTL

\* After print_char() the window is inside the buffer and the hardware's cursor
\* on the screen, where the program's is.
THEOREM PrintingCorrect == ConsoleSpec => PrintingIsSeen
<1>1. ASSUME ConsoleInv, [ConsoleNext]_consolevars, Len(text') > Len(text)
      PROVE  Printed
  <2>1. MaxTyped \in Nat /\ typed \in 0..MaxTyped /\ text \in Seq(Char)
    BY <1>1, ConsoleSizes DEF ConsoleInv, ConsoleTypeOK
  <2>2. Len(text) \in Nat
    BY <2>1
  <2>3. text' # text
    BY <1>1, <2>2
  <2>4. ~clear_screen
    BY <1>1, <2>2 DEF clear_screen
  <2>5. ~print_backspace
    <3>1. ASSUME print_backspace
          PROVE  FALSE
      <4>1. text' = SubSeq(text, 1, Len(text) - 1) /\ typed > 0 /\ typed <= Len(text)
        BY <1>1, <3>1 DEF print_backspace, ConsoleInv, TypedEndsText
      <4>2. Len(text) > 0
        BY <2>1, <2>2, <4>1
      <4>3. Len(SubSeq(text, 1, Len(text) - 1)) = Len(text) - 1
        <5>1. Len(text) - 1 \in Int /\ \A i \in 1..(Len(text) - 1) : i \in 1..Len(text)
          BY <2>2
        <5>2. \A i \in 1..(Len(text) - 1) : text[i] \in Char
          BY <2>1, <5>1, ElementOfSeq
        <5>3. Len(SubSeq(text, 1, Len(text) - 1))
                = IF 1 <= Len(text) - 1 THEN (Len(text) - 1) - 1 + 1 ELSE 0
          BY <5>1, <5>2, SubSeqProperties
        <5> QED
          BY <2>2, <4>2, <5>3
      <4> QED
        BY <1>1, <2>2, <4>1, <4>3
    <3> QED
      BY <3>1
  <2>6. ~scroll_up /\ ~scroll_down /\ ~UNCHANGED consolevars
    BY <2>3 DEF scroll_up, scroll_down, ScrollTo, history, consolevars
  <2>7. \A x \in Column, y \in ScreenRow :
          ~set_cursor(x, y) /\ \A ch \in Char : ~print_char_at(ch, x, y)
    BY <2>3 DEF set_cursor, print_char_at, history
  <2>8. PICK ch \in Char : Echo(ch) \/ Output(ch)
    BY <1>1, <2>4, <2>5, <2>6, <2>7 DEF ConsoleNext
  <2>9. CASE Echo(ch)
    <3>1. print_char(ch) /\ ch # Newline /\ typed < MaxTyped /\ typed' = typed + 1
      BY <2>9 DEF Echo
    <3>2. typed + 1 \in 0..MaxTyped
      BY <2>1, <3>1
    <3> QED
      BY <1>1, <3>1, <3>2, PrintStep
  <2>10. CASE Output(ch)
    <3>1. print_char(ch) /\ typed' = 0 /\ 0 \in 0..MaxTyped
      BY <2>1, <2>10 DEF Output
    <3> QED
      BY <1>1, <3>1, PrintStep
  <2> QED
    BY <2>8, <2>9, <2>10
<1>2. ConsoleInv /\ [ConsoleNext]_consolevars
        => [Len(text') > Len(text) =>
             /\ view_row' + Height <= Rows
             /\ hw_cursor' < Width * Height
             /\ hw_cursor' \div Width + view_row' = cursor_row'
             /\ hw_cursor' % Width = cursor_col']_consolevars
  BY <1>1 DEF Printed
<1> QED
  BY <1>2, ConsoleInvariance, PTL DEF ConsoleSpec, PrintingIsSeen
=============================================================================
