-------------------------------- MODULE Cable -------------------------------
(***************************************************************************)
(* The text editor, app/utils/cable.c, key by key: rows of fixed length in *)
(* one array, each read as a C string, a cursor, the dirty flag, and       *)
(* loading and saving a file of BDFS.                                      *)
(*                                                                         *)
(* The rows lie behind each other in editor.buffer, so buffer is one flat  *)
(* array here too: a row without terminator goes on in the next one.       *)
(* Behind the last row lies editor.filename.  When a step of the code      *)
(* takes memory outside the array (or a wrapped count) for part of a row,  *)
(* or a save outgrows the arrays on the stack, mode becomes "astray"; what *)
(* the machine does from then on is not modelled, up to the next restart.  *)
(***************************************************************************)
EXTENDS Bdx

CONSTANTS
  EDITOR_ROWS, EDITOR_COLS,
  FileName,    \* editor.filename
  CodeSize,    \* bytes in the bytecode of syscall_write()
  SectorSize,  \* bytes in a sector of BDFS
  Char,        \* the printable characters, as bytes
  ShellTexts,  \* what the shell's write command puts in the file
  MaxTyped,    \* bound: how many characters are typed between restarts
  MaxRow       \* bound: how far down Enter takes the cursor

Nul == 0
Newline == 10

ASSUME CableSizes ==
  /\ EDITOR_ROWS \in Nat /\ EDITOR_ROWS >= 2
  /\ EDITOR_COLS \in Nat /\ EDITOR_COLS >= 2
  /\ CodeSize \in Nat /\ CodeSize < 256 * 256 * 256 * 127
  /\ SectorSize \in Nat \ {0}
  /\ MaxTyped \in Nat /\ MaxRow \in Nat /\ MaxRow >= EDITOR_ROWS
  /\ Char \subseteq 32..126

ASSUME CableTexts == ShellTexts \subseteq Seq(Char) /\ FileName \in Seq(Char)

VARIABLES
  mode,    \* "shell" while cable_main() is not running, "edit", or "astray"
  cx, cy,
  buffer,
  dirty,
  exists,  \* whether BDFS finds a file of the name
  file,    \* its content
  typed,   \* characters typed so far
  text     \* history: the rows as a typist expects them, see "Expected"

cablevars == <<mode, cx, cy, buffer, dirty, exists, file, typed, text>>

Cell == 0..(EDITOR_ROWS * EDITOR_COLS - 1)
Rows == 0..(EDITOR_ROWS - 1)

\* &editor.buffer[y][0]
Row(y) == y * EDITOR_COLS

(***************************************************************************)
(* The string functions of libc/memcore.c on the array b.  strlen() is     *)
(* defined where the string ends inside b.                                 *)
(***************************************************************************)
Nuls(b, p) == {i \in Cell : i >= p /\ b[i] = Nul}
IsString(b, p) == Nuls(b, p) # {}
strlen(b, p) == Min(Nuls(b, p)) - p
CString(b, p) == [i \in 1..strlen(b, p) |-> b[p + i - 1]]

memmove(b, dest, src, count) ==
  [i \in Cell |-> IF dest <= i /\ i < dest + count THEN b[src + i - dest] ELSE b[i]]

strcat(b, dest, src) ==
  memmove(b, dest + strlen(b, dest), src, strlen(b, src) + 1)

-----------------------------------------------------------------------------
(* Loading and saving                                                      *)

EmptyBuffer == [i \in Cell |-> Nul]

\* editor_init()'s loop over the bytes of the file.
LoadByte(e, c) ==
  IF e.row >= EDITOR_ROWS THEN e
  ELSE IF c = Newline THEN [e EXCEPT !.row = @ + 1, !.col = 0]
  ELSE IF e.col >= EDITOR_COLS - 1 THEN e
  ELSE [e EXCEPT !.b[Row(e.row) + e.col] = c, !.col = @ + 1]

Loaded(content) ==
  LET load[k \in 0..Len(content)] ==
        IF k = 0 THEN [b |-> EmptyBuffer, row |-> 0, col |-> 0]
        ELSE LoadByte(load[k - 1], content[k])
  IN  load[Len(content)]

\* One iteration of editor_save_file()'s loop.
SavedRow(b, y) ==
  IF strlen(b, Row(y)) = 0 THEN <<>>
  ELSE CString(b, Row(y)) \o (IF y < EDITOR_ROWS - 1 THEN <<Newline>> ELSE <<>>)

Saved(b) == FlattenSeq([i \in 1..EDITOR_ROWS |-> SavedRow(b, i - 1)])

\* No row runs into editor.filename, and the bytes fit save_buffer and
\* syscall_write()'s bytecode.
SaveFits(b) ==
  /\ \A y \in Rows : IsString(b, Row(y))
  /\ Len(Saved(b)) <= EDITOR_ROWS * EDITOR_COLS
  /\ Len(WriteProgram(FileName, Saved(b))) <= CodeSize

\* bdfs_write_file() of content to the file, as far as the editor can tell;
\* Bdfs has all of it.  Whether a file without sectors finds enough depends on the others.
Sectors(n) == (n + SectorSize - 1) \div SectorSize

bdfs_write_file(content) ==
  \/ /\ exists
     /\ file # <<>> => Sectors(Len(content)) <= Sectors(Len(file))
     /\ file' = content
  \/ /\ exists => Sectors(Len(content)) > Sectors(Len(file))
     /\ UNCHANGED file

\* A program of one write and an exit, which interpret_bdx() runs; what it
\* writes to files of other names is nothing to the editor.
syscall_write(content) ==
  LET calls == interpret_bdx(WriteProgram(FileName, content)).calls
      writes == {k \in 1..Len(calls) : calls[k].path = FileName}
  IN  IF writes = {} THEN UNCHANGED file ELSE bdfs_write_file(calls[Max(writes)].data)

-----------------------------------------------------------------------------
(***************************************************************************)
(* Expected: what the rows are to hold by the meaning of the keys, as      *)
(* sequences of characters.  It is <<>>, nothing expected, once a row has  *)
(* been filled to its last byte or the row below the screen has been moved *)
(* up.                                                                     *)
(***************************************************************************)
NothingExpected == <<>>

\* The k-th line of a file, cut to what a row holds.
Line(content, k) ==
  LET at == {p \in 1..Len(content) :
               /\ content[p] # Newline
               /\ Cardinality({q \in 1..p : content[q] = Newline}) = k - 1}
  IN  IF at = {} THEN <<>>
      ELSE SubSeq(content, Min(at), Min({Max(at), Min(at) + EDITOR_COLS - 2}))

Lines(content) == [k \in 1..EDITOR_ROWS |-> Line(content, k)]

ExpectInsert(c) ==
  IF text = NothingExpected \/ Len(text[cy + 1]) >= EDITOR_COLS - 1
  THEN NothingExpected
  ELSE [text EXCEPT ![cy + 1] = InsertAt(@, cx + 1, c)]

ExpectDelete ==
  IF text = NothingExpected \/ cx > Len(text[cy + 1]) THEN text
  ELSE [text EXCEPT ![cy + 1] = RemoveAt(@, cx)]

ExpectJoin ==
  IF text = NothingExpected \/ text[EDITOR_ROWS] # <<>>
  THEN NothingExpected
  ELSE Append(RemoveAt([text EXCEPT ![cy] = @ \o text[cy + 1]], cy + 1), <<>>)

-----------------------------------------------------------------------------
CableInit ==
  /\ mode = "shell"
  /\ cx = 0 /\ cy = 0 /\ buffer = EmptyBuffer /\ dirty = FALSE
  /\ exists = FALSE /\ file = <<>>
  /\ typed = 0 /\ text = NothingExpected

\* cable_main() up to its loop; a file that is not there is an empty buffer.
editor_init ==
  LET e == Loaded(IF exists THEN file ELSE <<>>)
  IN  /\ mode = "shell" /\ mode' = "edit"
      /\ buffer' = e.b /\ cx' = e.col /\ cy' = e.row
      /\ dirty' = FALSE
      /\ text' = Lines(IF exists THEN file ELSE <<>>)
      /\ UNCHANGED <<exists, file, typed>>

\* The string in row y lies inside the buffer and has x characters or more.
Reaches(x, y) ==
  y < EDITOR_ROWS /\ IsString(buffer, Row(y)) /\ strlen(buffer, Row(y)) >= x

GoAstray ==
  mode' = "astray" /\ UNCHANGED <<cx, cy, buffer, dirty, text>>

\* Fault: behind the end of the row the character is stored all the same.
InsertBehind(c) ==
  /\ cx < EDITOR_COLS - 1 /\ Reaches(0, cy)
  /\ buffer' = [buffer EXCEPT ![Row(cy) + cx] = c]
  /\ cx' = cx + 1
  /\ dirty' = TRUE
  /\ text' = NothingExpected
  /\ UNCHANGED <<mode, cy>>

editor_insert_char(c) ==
  LET p == Row(cy)
      count == strlen(buffer, p) - cx
  IN  \/ cx >= EDITOR_COLS - 1 /\ UNCHANGED <<mode, cx, cy, buffer, dirty, text>>
      \/ cx < EDITOR_COLS - 1 /\ ~Reaches(cx, cy) /\ GoAstray
      \/ /\ cx < EDITOR_COLS - 1 /\ Reaches(cx, cy)
         /\ buffer' = [memmove(buffer, p + cx + 1, p + cx, count) EXCEPT ![p + cx] = c]
         /\ cx' = cx + 1
         /\ dirty' = TRUE
         /\ text' = ExpectInsert(c)
         /\ UNCHANGED <<mode, cy>>

\* Fault: the terminator is not moved along.
DeleteShort ==
  /\ cx > 0 /\ Reaches(cx, cy)
  /\ buffer' = memmove(buffer, Row(cy) + cx - 1, Row(cy) + cx, strlen(buffer, Row(cy)) - cx)
  /\ cx' = cx - 1
  /\ dirty' = TRUE
  /\ text' = ExpectDelete
  /\ UNCHANGED <<mode, cy>>

\* editor_delete_char() inside a row.
DeleteInRow ==
  LET p == Row(cy)
      count == strlen(buffer, p) - (cx - 1)
  IN  /\ cx > 0
      /\ \/ ~Reaches(cx - 1, cy) /\ GoAstray
         \/ /\ Reaches(cx - 1, cy)
            /\ buffer' = memmove(buffer, p + cx - 1, p + cx, count)
            /\ cx' = cx - 1
            /\ dirty' = TRUE
            /\ text' = ExpectDelete
            /\ UNCHANGED <<mode, cy>>

\* Fault: dirty is not set.
JoinRowsQuietly ==
  LET p == Row(cy)
      prev_line_len == strlen(buffer, Row(cy - 1))
  IN  /\ cx = 0 /\ cy > 0 /\ Reaches(0, cy - 1) /\ Reaches(0, cy)
      /\ prev_line_len + strlen(buffer, p) < EDITOR_COLS - 1
      /\ buffer' = memmove(strcat(buffer, Row(cy - 1), p), p, Row(cy + 1),
                           (EDITOR_ROWS - cy - 1) * EDITOR_COLS)
      /\ cy' = cy - 1 /\ cx' = prev_line_len
      /\ text' = ExpectJoin
      /\ UNCHANGED <<mode, dirty>>

\* editor_delete_char() at the start of a row: the row joins the one above
\* if the two fit.
JoinRows ==
  LET p == Row(cy)
      prev_line_len == strlen(buffer, Row(cy - 1))
  IN  /\ cx = 0 /\ cy > 0
      /\ \/ ~(Reaches(0, cy - 1) /\ Reaches(0, cy)) /\ GoAstray
         \/ /\ Reaches(0, cy - 1) /\ Reaches(0, cy)
            /\ prev_line_len + strlen(buffer, p) < EDITOR_COLS - 1
            /\ buffer' = memmove(strcat(buffer, Row(cy - 1), p), p, Row(cy + 1),
                                 (EDITOR_ROWS - cy - 1) * EDITOR_COLS)
            /\ cy' = cy - 1 /\ cx' = prev_line_len
            /\ dirty' = TRUE
            /\ text' = ExpectJoin
            /\ UNCHANGED mode
         \/ /\ Reaches(0, cy - 1) /\ Reaches(0, cy)
            /\ prev_line_len + strlen(buffer, p) >= EDITOR_COLS - 1
            /\ UNCHANGED <<mode, cx, cy, buffer, dirty, text>>

editor_delete_char ==
  \/ DeleteInRow
  \/ JoinRows
  \/ cx = 0 /\ cy = 0 /\ UNCHANGED <<mode, cx, cy, buffer, dirty, text>>

\* Ctrl+S.  What bdfs_write_file() returns is not looked at.
editor_save_file ==
  /\ mode = "edit"
  /\ \/ ~SaveFits(buffer) /\ GoAstray /\ UNCHANGED file
     \/ /\ SaveFits(buffer)
        /\ syscall_write(Saved(buffer))
        /\ dirty' = FALSE
        /\ UNCHANGED <<mode, cx, cy, buffer, text>>
  /\ UNCHANGED <<exists, typed>>

-----------------------------------------------------------------------------
(***************************************************************************)
(* editor_process_keypress().  Any key may come with Ctrl up or down: the  *)
(* flag is read after the scancode, when the keyboard may have changed it. *)
(* A release code indexes kbd_us[] past its end and is taken for whatever  *)
(* character lies there, so it is one of these actions or nothing.         *)
(***************************************************************************)
Quit ==
  /\ mode = "edit" /\ mode' = "shell"
  /\ UNCHANGED <<cx, cy, buffer, dirty, exists, file, typed, text>>

MoveTo(x, y) ==
  /\ mode = "edit" /\ cx' = x /\ cy' = y
  /\ UNCHANGED <<mode, buffer, dirty, exists, file, typed, text>>

Up == cy > 0 /\ MoveTo(cx, cy - 1)
Down == cy < EDITOR_ROWS - 2 /\ MoveTo(cx, cy + 1)
Left == cx > 0 /\ MoveTo(cx - 1, cy)
Right ==
  /\ mode = "edit"
  /\ \/ Reaches(cx + 1, cy) /\ MoveTo(cx + 1, cy)
     \/ ~Reaches(0, cy) /\ GoAstray /\ UNCHANGED <<exists, file, typed>>
Enter == cy < MaxRow /\ MoveTo(0, cy + 1)

Backspace ==
  mode = "edit" /\ editor_delete_char /\ UNCHANGED <<exists, file, typed>>

Type(c) ==
  /\ mode = "edit" /\ typed < MaxTyped
  /\ editor_insert_char(c)
  /\ typed' = typed + 1
  /\ UNCHANGED <<exists, file>>

editor_process_keypress ==
  \/ editor_save_file \/ Quit
  \/ Up \/ Down \/ Left \/ Right \/ Enter \/ Backspace
  \/ \E c \in Char : Type(c)

\* The shell between two sessions: touch, rm and write of the edited file.
ShellCommand ==
  /\ mode = "shell"
  /\ \/ ~exists /\ exists' = TRUE /\ file' = <<>>
     \/ exists /\ exists' = FALSE /\ file' = <<>>
     \/ \E t \in ShellTexts : exists /\ bdfs_write_file(t) /\ UNCHANGED exists
  /\ UNCHANGED <<mode, cx, cy, buffer, dirty, typed, text>>

\* The machine is switched off and on.
Restart ==
  /\ mode = "astray" /\ mode' = "shell"
  /\ cx' = 0 /\ cy' = 0 /\ buffer' = EmptyBuffer /\ dirty' = FALSE
  /\ exists' = FALSE /\ file' = <<>> /\ typed' = 0 /\ text' = NothingExpected

CableNext == editor_init \/ editor_process_keypress \/ ShellCommand \/ Restart

CableSpec == CableInit /\ [][CableNext]_cablevars

-----------------------------------------------------------------------------
(* Properties                                                              *)

\* Inside a row no character follows a terminator, whatever was inserted,
\* deleted, joined or loaded.  editor_insert_char() relies on it: it moves
\* the rest of a row without its terminator.
RowsAreZeroPadded ==
  \A y \in Rows : \A i, j \in Row(y)..(Row(y) + EDITOR_COLS - 1) :
    i < j /\ buffer[i] = Nul => buffer[j] = Nul

\* After any sequence of keys the rows hold what was loaded and typed, each
\* character where the cursor was, as long as no row is filled to its last
\* byte.
TextIsKept ==
  mode = "edit" /\ text # NothingExpected =>
    \A y \in Rows : IsString(buffer, Row(y)) /\ CString(buffer, Row(y)) = text[y + 1]

RowTexts == [k \in 1..EDITOR_ROWS |-> CString(buffer, Row(k - 1))]

\* The bytes load as the rows, the empty ones gone from between them.
LoadsAs(bytes, rows) ==
  LET b == Loaded(bytes).b
      Kept(n) == {k \in 1..EDITOR_ROWS : k < n /\ rows[k] # <<>>}
      kept == Kept(EDITOR_ROWS + 1)
  IN  /\ \A k \in kept : CString(b, Row(Cardinality(Kept(k)))) = rows[k]
      /\ \A y \in Rows : y >= Cardinality(kept) => CString(b, Row(y)) = <<>>

\* A save, through the program it assembles and the interpreter that runs it,
\* leaves in the file what the next session loads as the rows on the screen, in
\* their order, blank ones gone, provided no row is full; or it leaves the file
\* alone, and then the file is missing or has to grow.
SaveReachesTheFile ==
  [][mode = "edit" /\ mode' = "edit" /\ dirty /\ ~dirty' =>
       \/ \E y \in Rows : strlen(buffer, Row(y)) >= EDITOR_COLS
       \/ LoadsAs(file', RowTexts)
       \/ file' = file /\ (exists => Sectors(Len(Saved(buffer))) > Sectors(Len(file)))]_cablevars

\* While a file is open no key changes the buffer and leaves dirty clear.
NoSilentEdit ==
  [][mode = "edit" /\ mode' = "edit" /\ buffer' # buffer => dirty']_cablevars
=============================================================================
