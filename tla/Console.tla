------------------------------ MODULE Console -------------------------------
(***************************************************************************)
(* The text console of libc/memcore.c: the scrollback buffer everything is *)
(* printed to, the window of it that is copied to the VGA memory, and the  *)
(* two cursors, the program's and the hardware's.                          *)
(*                                                                         *)
(* Its callers, as far as the code matters here: print(), kprintf() and    *)
(* the shell's echo print one character at a time; the shell erases only   *)
(* characters it echoed since its prompt; the editor clears the screen,    *)
(* draws on the VGA memory and places the cursor, in that order.  Colours  *)
(* are left out.                                                           *)
(***************************************************************************)
EXTENDS Integers, Sequences, FiniteSetsExt

CONSTANTS
  Width,      \* VGA_WIDTH
  Height,     \* VGA_HEIGHT
  Rows,       \* SCROLLBACK_ROWS
  PosLimit,   \* the hardware's cursor position is a uint16_t, below this
  Char,       \* the characters printed, space and newline among them
  MaxTyped,   \* most characters the shell echoes behind its prompt
  MaxText     \* bound: characters printed since the screen was cleared

Newline == "newline"
Space == "space"

(***************************************************************************)
(* The window fits the buffer, the screen the position's type, and one     *)
(* edited line takes fewer rows than the screen has: 255 characters at 80  *)
(* a row on 25 rows.                                                       *)
(***************************************************************************)
ASSUME ConsoleSizes ==
  /\ Width \in Nat \ {0} /\ Height \in Nat \ {0} /\ Rows \in Nat
  /\ Height <= Rows /\ PosLimit \in Nat /\ Width * Height <= PosLimit
  /\ {Newline, Space} \subseteq Char
  /\ MaxTyped \in Nat /\ MaxTyped <= Width * (Height - 1)
  /\ MaxText \in Nat

VARIABLES
  cursor_row, cursor_col,
  scrollback_buffer,
  scrollback_row,   \* the last row in use
  view_row,         \* the row at the top of the screen
  vga,              \* the characters in the VGA memory
  hw_cursor,        \* the position in the CRT controller
  screen,           \* caller: prints "text", has just "cleared" it, or has "drawn" on it
  origin,           \* history: where the text starts, ...
  text,             \* ... what was printed from there and not erased, ...
  dropped,          \* ... and how many of its rows left the buffer
  typed             \* how many of its last characters the shell may erase

cursor == <<cursor_row, cursor_col>>
history == <<origin, text, dropped, typed>>
consolevars ==
  <<cursor, scrollback_buffer, scrollback_row, view_row, vga, hw_cursor, screen, history>>

Column == 0..(Width - 1)
BufferRow == 0..(Rows - 1)
ScreenRow == 0..(Height - 1)
BlankRow == [x \in Column |-> Space]
BlankBuffer == [y \in BufferRow |-> BlankRow]

-----------------------------------------------------------------------------
(* The two trailing calls of every operation                               *)

\* Rows of the window that lie behind the buffer stay as they are.
refresh_screen ==
  vga' = [y \in ScreenRow |->
            IF view_row' + y < Rows THEN scrollback_buffer'[view_row' + y] ELSE vga[y]]

update_cursor ==
  hw_cursor' = ((cursor_row' - view_row') * Width + cursor_col') % PosLimit

-----------------------------------------------------------------------------
(* print_char()                                                            *)

\* Where the cursor is after c, before the buffer is shifted.
NextCol(c) == IF c = Newline \/ cursor_col + 1 >= Width THEN 0 ELSE cursor_col + 1
NextRow(c) == IF NextCol(c) = 0 THEN cursor_row + 1 ELSE cursor_row

Written(c) ==
  IF c = Newline THEN scrollback_buffer
                 ELSE [scrollback_buffer EXCEPT ![cursor_row][cursor_col] = c]

ShiftedUp(buffer) ==
  [y \in BufferRow |-> IF y = Rows - 1 THEN BlankRow ELSE buffer[y + 1]]

\* Fault: one row too many before the buffer is shifted.
ShiftLate(c) ==
  IF NextRow(c) > Rows
  THEN /\ scrollback_buffer' = ShiftedUp(Written(c))
       /\ cursor_row' = NextRow(c) - 1
       /\ scrollback_row' = Max({scrollback_row, NextRow(c)}) - 1
       /\ dropped' = dropped + 1
  ELSE /\ scrollback_buffer' = Written(c)
       /\ cursor_row' = NextRow(c)
       /\ scrollback_row' = Max({scrollback_row, NextRow(c)})
       /\ UNCHANGED dropped

\* The character is stored and, once the cursor leaves the buffer, the buffer
\* moved up by a row.
Store(c) ==
  IF NextRow(c) >= Rows
  THEN /\ scrollback_buffer' = ShiftedUp(Written(c))
       /\ cursor_row' = NextRow(c) - 1
       /\ scrollback_row' = Max({scrollback_row, NextRow(c)}) - 1
       /\ dropped' = dropped + 1
  ELSE /\ scrollback_buffer' = Written(c)
       /\ cursor_row' = NextRow(c)
       /\ scrollback_row' = Max({scrollback_row, NextRow(c)})
       /\ UNCHANGED dropped

\* Fault: the window ends a row early.
FollowShort == view_row' = Max({0, scrollback_row' - Height})

\* The window ends with the last row in use.
Follow == view_row' = Max({0, scrollback_row' - Height + 1})

print_char(c) ==
  /\ Len(text) < MaxText
  /\ Store(c)
  /\ cursor_col' = NextCol(c)
  /\ Follow
  /\ refresh_screen
  /\ update_cursor
  /\ screen' = "text"
  /\ text' = Append(text, c)
  /\ UNCHANGED origin

\* The shell echoes a character of the line it reads.
Echo(c) == c # Newline /\ typed < MaxTyped /\ print_char(c) /\ typed' = typed + 1

\* Anything else that is printed; what was echoed before it is final.
Output(c) == print_char(c) /\ typed' = 0

-----------------------------------------------------------------------------
\* The cell print_backspace() steps back to.
BackCol == IF cursor_col > 0 THEN cursor_col - 1 ELSE Width - 1
BackRow == IF cursor_col > 0 THEN cursor_row ELSE cursor_row - 1

\* Fault: at the start of a row the cell is not erased.
BackspaceUnerased ==
  /\ typed > 0
  /\ UNCHANGED <<scrollback_row, view_row, origin, dropped>>
  /\ \/ cursor_col = 0 /\ cursor_row = 0 /\ UNCHANGED <<cursor, scrollback_buffer>>
     \/ /\ cursor_col > 0 \/ cursor_row > 0
        /\ cursor_col' = BackCol /\ cursor_row' = BackRow
        /\ scrollback_buffer' =
             IF cursor_col = 0 THEN scrollback_buffer
             ELSE [scrollback_buffer EXCEPT ![BackRow][BackCol] = Space]
  /\ refresh_screen
  /\ update_cursor
  /\ screen' = "text"
  /\ text' = SubSeq(text, 1, Len(text) - 1)
  /\ typed' = typed - 1

print_backspace ==
  /\ typed > 0
  /\ UNCHANGED <<scrollback_row, view_row, origin, dropped>>
  /\ \/ cursor_col = 0 /\ cursor_row = 0 /\ UNCHANGED <<cursor, scrollback_buffer>>
     \/ /\ cursor_col > 0 \/ cursor_row > 0
        /\ cursor_col' = BackCol /\ cursor_row' = BackRow
        /\ scrollback_buffer' = [scrollback_buffer EXCEPT ![BackRow][BackCol] = Space]
  /\ refresh_screen
  /\ update_cursor
  /\ screen' = "text"
  /\ text' = SubSeq(text, 1, Len(text) - 1)
  /\ typed' = typed - 1

\* It leaves the hardware's cursor where it was.
clear_screen ==
  /\ scrollback_buffer' = BlankBuffer
  /\ cursor_row' = 0 /\ cursor_col' = 0
  /\ scrollback_row' = 0 /\ view_row' = 0
  /\ refresh_screen
  /\ screen' = "cleared"
  /\ origin' = [row |-> 0, col |-> 0] /\ text' = <<>> /\ dropped' = 0 /\ typed' = 0
  /\ UNCHANGED hw_cursor

\* Fault: the screen is not refreshed.
ScrollUnrefreshed(row) ==
  /\ view_row' = row
  /\ screen' = "text"
  /\ UNCHANGED <<cursor, scrollback_buffer, scrollback_row, hw_cursor, vga, history>>

ScrollTo(row) ==
  /\ view_row' = row
  /\ UNCHANGED <<cursor, scrollback_buffer, scrollback_row, hw_cursor, history>>
  /\ refresh_screen
  /\ screen' = "text"

scroll_up == view_row > 0 /\ ScrollTo(view_row - 1)

scroll_down == view_row < scrollback_row /\ ScrollTo(view_row + 1)

-----------------------------------------------------------------------------
(* What the editor draws with: only on a screen it has just cleared        *)

print_char_at(c, x, y) ==
  /\ screen # "text" /\ x < Width /\ y < Height
  /\ vga' = [vga EXCEPT ![y][x] = c]
  /\ screen' = "drawn"
  /\ UNCHANGED <<cursor, scrollback_buffer, scrollback_row, view_row, hw_cursor, history>>

\* Outside the screen the call returns at once.
set_cursor(x, y) ==
  /\ screen # "text" /\ x < Width /\ y < Height
  /\ cursor_col' = x /\ cursor_row' = y
  /\ origin' = [row |-> y, col |-> x]
  /\ UNCHANGED <<scrollback_buffer, scrollback_row, view_row, vga, screen, text, dropped, typed>>
  /\ update_cursor

\* kernel_main() clears the screen before it prints.
ConsoleInit ==
  /\ cursor_row = 0 /\ cursor_col = 0
  /\ scrollback_buffer = BlankBuffer /\ scrollback_row = 0 /\ view_row = 0
  /\ vga = [y \in ScreenRow |-> BlankRow] /\ screen = "cleared"
  /\ hw_cursor = 0
  /\ origin = [row |-> 0, col |-> 0] /\ text = <<>> /\ dropped = 0 /\ typed = 0

ConsoleNext ==
  \/ \E c \in Char : Echo(c) \/ Output(c)
  \/ print_backspace
  \/ clear_screen \/ scroll_up \/ scroll_down
  \/ \E x \in Column, y \in ScreenRow :
       set_cursor(x, y) \/ \E c \in Char : print_char_at(c, x, y)

ConsoleSpec == ConsoleInit /\ [][ConsoleNext]_consolevars

-----------------------------------------------------------------------------
(* Reference: the text on paper that never ends                            *)

\* Place[k]: where the paper's cursor is behind the first k characters.
Place ==
  LET place[k \in 0..Len(text)] ==
        IF k = 0 THEN origin
        ELSE LET p == place[k - 1]
             IN  IF text[k] = Newline \/ p.col = Width - 1
                 THEN [row |-> p.row + 1, col |-> 0]
                 ELSE [row |-> p.row, col |-> p.col + 1]
  IN  place

\* The row of the paper in each row of the buffer.
Paper ==
  LET place == Place
      At(y, x) == {k \in 1..Len(text) :
                     text[k] # Newline /\ place[k - 1] = [row |-> y + dropped, col |-> x]}
  IN  [y \in BufferRow |-> [x \in Column |->
         IF At(y, x) = {} THEN Space ELSE text[CHOOSE k \in At(y, x) : TRUE]]]

-----------------------------------------------------------------------------
(* Properties                                                              *)

\* Cursor and window stay inside the buffer, so no character is ever stored
\* outside scrollback_buffer and refresh_screen() copies no row in front of it.
ConsoleTypeOK ==
  /\ cursor_row \in BufferRow /\ cursor_col \in Column
  /\ scrollback_buffer \in [BufferRow -> [Column -> Char]]
  /\ scrollback_row \in BufferRow /\ view_row \in BufferRow
  /\ vga \in [ScreenRow -> [Column -> Char]]
  /\ hw_cursor \in 0..(PosLimit - 1) /\ screen \in {"text", "cleared", "drawn"}
  /\ origin \in [row : ScreenRow, col : Column]
  /\ text \in Seq(Char) /\ dropped \in Nat /\ typed \in 0..MaxTyped

\* The buffer is the text as paper would show it, less the rows that were
\* dropped: whatever wraps, shifts and erasures came before, also of a wrap
\* that made the buffer shift, no character is lost, doubled or left behind.
BufferIsThePaper ==
  /\ scrollback_buffer = Paper
  /\ [row |-> cursor_row + dropped, col |-> cursor_col] = Place[Len(text)]

\* So is the screen, from the row at its top on: after every print, erasure and
\* scroll it shows the text, except for rows behind the buffer's end and what
\* the editor drew.
ScreenIsThePaper ==
  screen # "drawn" =>
    LET paper == Paper
    IN  \A y \in ScreenRow : view_row + y < Rows => vga[y] = paper[view_row + y]

\* A character that is printed is seen, whatever was scrolled to or drawn
\* before: the window lies inside the buffer, and the hardware's cursor is on
\* the screen, where the next character goes.
PrintingIsSeen ==
  [][Len(text') > Len(text) =>
       /\ view_row' + Height <= Rows
       /\ hw_cursor' < Width * Height
       /\ hw_cursor' \div Width + view_row' = cursor_row'
       /\ hw_cursor' % Width = cursor_col']_consolevars
=============================================================================
