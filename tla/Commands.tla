------------------------------ MODULE Commands ------------------------------
(***************************************************************************)
(* The shell's commands: process_command() and the handlers of             *)
(* shell/shell.c, over the file system (Bdfs), the calculator and the      *)
(* interpreter.  How a line comes about is in Shell, what happens inside   *)
(* the editor in Cable.                                                    *)
(*                                                                         *)
(* A line is a sequence of symbols; a symbol is a command word, a file     *)
(* name, a space, or a character of data.  Symbols without a space between *)
(* them are one token, as in the code.                                     *)
(***************************************************************************)
EXTENDS Bdfs, Calculator, Bdx

CONSTANTS
  EnteredLines,\* the lines the user enters
  FreshLines,  \* more of them, entered only while the file table is fresh
  EditBuffers, \* what the editor saves
  CellOf,      \* a symbol's cell in a file
  BufferSize   \* cells of cat's buffer, and of execute_bdx()'s

Lines == EnteredLines \cup FreshLines
Symbol == DOMAIN CellOf

\* The commands whose first argument is a name.
FileWord == {"touch", "write", "cat", "rm", "mv", "mkdir", "cd", "cable"}

\* The names that end in ".bdx".
BdxName == {"p.bdx"}

\* What can be typed: a printable character, or the end of a line in the
\* editor.
TextCell == {10} \cup 32..126

\* The name a token is; one of several symbols is no name in use.
NameOf(token) == IF Len(token) = 1 THEN token[1] ELSE "other"
CellsOf(text) == [i \in 1..Len(text) |-> CellOf[text[i]]]

-----------------------------------------------------------------------------
(* The words of a line and what follows them, without strtok(), and what   *)
(* is assumed of the lines                                                 *)

WordStarts(line) == {i \in 1..Len(line) : line[i] # Space /\ (i = 1 \/ line[i - 1] = Space)}
HasWord(line, n) == Cardinality(WordStarts(line)) >= n
StartOf(line, n) ==
  CHOOSE i \in WordStarts(line) : Cardinality({j \in WordStarts(line) : j <= i}) = n
EndOf(line, n) ==
  Max({i \in StartOf(line, n)..Len(line) :
         \A j \in StartOf(line, n)..i : line[j] # Space})
TheWord(line, n) == SubSeq(line, StartOf(line, n), EndOf(line, n))
BehindWord(line, n) == SubSeq(line, EndOf(line, n) + 2, Len(line))

ASSUME CommandLines == Lines \subseteq Seq(Symbol)

\* A word in the place of a name is one symbol, a name that Bdfs knows.
IsName(line, n) ==
  HasWord(line, n) =>
    Len(TheWord(line, n)) = 1 /\ TheWord(line, n)[1] \in ArgName \ {"other"}

ASSUME NamesInLines ==
  /\ {".", "other"} \cup BdxName \subseteq ArgName
  /\ \A line \in Lines :
       HasWord(line, 1) =>
         /\ TheWord(line, 1) \in {<<w>> : w \in FileWord} => IsName(line, 2)
         /\ TheWord(line, 1) = <<"mv">> => IsName(line, 3)

\* Files come from write, whose line is shorter than the buffers, and from
\* the editor, whose saves go through a program of the same size (Cable).
ASSUME SavesFitBuffers ==
  /\ BufferSize \in Nat
  /\ CellOf \in [Symbol -> 32..126]
  /\ EditBuffers \subseteq Buffer
  /\ \A b \in EditBuffers : Len(b) < BufferSize /\ \A k \in 1..Len(b) : b[k] \in TextCell
  /\ \A line \in Lines :
       LET data == CellsOf(BehindWord(line, 2))
       IN  HasWord(line, 2) /\ TheWord(line, 1) = <<"write">> /\ data # <<>> =>
             data \in Buffer /\ Len(data) <= BufferSize

VARIABLES
  pc,       \* "boot", "prompt", "run", "done", "edit", "astray" or "exception"
  command,  \* command_buffer as process_command() gets it
  shown     \* what the last command printed: [msg, text]

cmdvars == <<vars, pc, command, shown>>

Say(msg, text) == shown' = [msg |-> msg, text |-> text]
Nothing == [msg |-> "", text |-> <<>>]

CommandsInit ==
  /\ Init
  /\ pc = "boot" /\ command = <<>> /\ shown = Nothing

-----------------------------------------------------------------------------
(* strtok(), with strtok_state as the text it points to.  A token is never *)
(* empty; <<>> is the null pointer.                                        *)

Null == <<>>

\* Fault: strtok_state is left on the delimiter.
StrtokOnDelimiter(state, delimiters) ==
  LET is_other == {i \in 1..Len(state) : state[i] \notin delimiters}
      start == Min(is_other)
      ends == {i \in start..Len(state) : state[i] \in delimiters}
  IN  IF is_other = {} THEN [token |-> Null, state |-> <<>>]
      ELSE IF ends = {} THEN [token |-> SubSeq(state, start, Len(state)), state |-> <<>>]
      ELSE [token |-> SubSeq(state, start, Min(ends) - 1),
            state |-> SubSeq(state, Min(ends), Len(state))]

strtok(state, delimiters) ==
  LET is_other == {i \in 1..Len(state) : state[i] \notin delimiters}
      start == Min(is_other)
      ends == {i \in start..Len(state) : state[i] \in delimiters}
  IN  IF is_other = {} THEN [token |-> Null, state |-> <<>>]
      ELSE IF ends = {} THEN [token |-> SubSeq(state, start, Len(state)), state |-> <<>>]
      ELSE [token |-> SubSeq(state, start, Min(ends) - 1),
            state |-> SubSeq(state, Min(ends) + 1, Len(state))]

First == strtok(command, {Space})
Second == strtok(First.state, {Space})
Third == strtok(Second.state, {Space})
RestAfterFirst == strtok(First.state, {}).token
RestAfterSecond == strtok(Second.state, {}).token

-----------------------------------------------------------------------------
(* process_command(): one action per command                               *)

Run(word) == pc = "run" /\ First.token = <<word>>
Done == pc' = "done" /\ UNCHANGED command
NoCall == UNCHANGED vars
Usage == Done /\ NoCall /\ Say("usage", <<>>)

Touch ==
  /\ Run("touch")
  /\ \/ Second.token = Null /\ Usage
     \/ /\ Second.token # Null
        /\ bdfs_create_file(NameOf(Second.token))
        /\ Say(IF ret'.code = 0 THEN "created" ELSE "error creating", <<>>)
        /\ Done

Write ==
  /\ Run("write")
  /\ \/ (Second.token = Null \/ RestAfterSecond = Null) /\ Usage
     \/ /\ Second.token # Null /\ RestAfterSecond # Null
        /\ bdfs_write_file(NameOf(Second.token), CellsOf(RestAfterSecond))
        /\ Say(IF ret'.code > 0 THEN "wrote" ELSE "error writing", <<>>)
        /\ Done

\* cat: bdfs_read_file() is not told the buffer's size.
Cat ==
  /\ Run("cat")
  /\ \/ Second.token = Null /\ Usage
     \/ /\ Second.token # Null
        /\ bdfs_read_file(NameOf(Second.token))
        /\ Say(IF ret'.code = 0 THEN "content" ELSE "error reading", ret'.bytes)
        /\ pc' = (IF Len(ret'.bytes) > BufferSize THEN "astray" ELSE "done")
        /\ UNCHANGED command

Rm ==
  /\ Run("rm")
  /\ \/ Second.token = Null /\ Usage
     \/ /\ Second.token # Null
        /\ bdfs_delete_file(NameOf(Second.token))
        /\ Say(IF ret'.code = 0 THEN "deleted" ELSE "error deleting", <<>>)
        /\ Done

\* Fault: the two error codes change places.
RenameMessageSwapped(code) ==
  CASE code = 0 -> "renamed"
    [] code = -3 -> "source not found"
    [] code = -2 -> "destination exists"
    [] OTHER -> "error renaming"

RenameMessage(code) ==
  CASE code = 0 -> "renamed"
    [] code = -2 -> "source not found"
    [] code = -3 -> "destination exists"
    [] OTHER -> "error renaming"

Mv ==
  /\ Run("mv")
  /\ \/ (Second.token = Null \/ Third.token = Null) /\ Usage
     \/ /\ Second.token # Null /\ Third.token # Null
        /\ bdfs_rename_file(NameOf(Second.token), NameOf(Third.token))
        /\ Say(RenameMessage(ret'.code), <<>>)
        /\ Done

MkdirMessage(code) ==
  CASE code = 0 -> "directory created"
    [] code = -2 -> "already exists"
    [] OTHER -> "error creating directory"

Mkdir ==
  /\ Run("mkdir")
  /\ \/ Second.token = Null /\ Usage
     \/ /\ Second.token # Null
        /\ bdfs_mkdir(NameOf(Second.token))
        /\ Say(MkdirMessage(ret'.code), <<>>)
        /\ Done

CdMessage(code) ==
  CASE code = -1 -> "directory not found"
    [] code = -2 -> "not a directory"
    [] OTHER -> ""

Cd ==
  /\ Run("cd")
  /\ \/ Second.token = Null /\ Usage
     \/ /\ Second.token # Null
        /\ bdfs_chdir(NameOf(Second.token))
        /\ Say(CdMessage(ret'.code), <<>>)
        /\ Done

\* echo: nothing at all when there is no text.
Echo ==
  /\ Run("echo")
  /\ Done /\ NoCall
  /\ Say("", RestAfterFirst)

\* calc: after a divide error the system does not come back (see Interrupts).
Calc ==
  /\ Run("calc")
  /\ \/ RestAfterFirst = Null /\ Usage
     \/ LET result == calculator_main(RestAfterFirst)
        IN  /\ RestAfterFirst # Null
            /\ Say("result", result.text)
            /\ pc' = (IF result.end = "value" THEN "done" ELSE result.end)
            /\ NoCall /\ UNCHANGED command

\* help, clear, meminfo, time, sysinfo, ls, pulse, chrome, applist; and halt,
\* whose hlt the next interrupt ends.
ReportWord ==
  {"help", "clear", "meminfo", "time", "sysinfo", "ls", "pulse", "chrome", "applist", "halt"}

Report ==
  \E word \in ReportWord : Run(word) /\ Done /\ NoCall /\ Say("report", <<>>)

\* cable: up to the loop; the keys are in Cable, their saves below.
OpenEditor ==
  /\ Run("cable")
  /\ \/ Second.token = Null /\ Usage
     \/ /\ Second.token # Null
        /\ pc' = "edit" /\ shown' = Nothing
        /\ NoCall /\ UNCHANGED command

\* Fault: the program of a save may be twice as long.
SaveDouble ==
  /\ pc = "edit"
  /\ \E b \in EditBuffers : bdfs_write_file(NameOf(Second.token), b \o b)
  /\ UNCHANGED <<pc, command, shown>>

Save ==
  /\ pc = "edit"
  /\ \E b \in EditBuffers : bdfs_write_file(NameOf(Second.token), b)
  /\ UNCHANGED <<pc, command, shown>>

Quit == pc = "edit" /\ Done /\ NoCall /\ UNCHANGED shown

Word ==
  ReportWord \cup {"touch", "write", "echo", "cat", "cable", "rm", "mv", "mkdir", "cd",
                   "calc", "reboot", "shutdown"}

Unnamed == pc = "run" /\ \A word \in Word : First.token # <<word>>

ends_with_bdx == command # <<>> /\ Last(command) \in BdxName

\* interpret_bdx() on the bytes of a file: it comes back without a call.  Of a
\* file without bytes it gets a buffer nobody wrote, and a program that makes
\* calls is none that was entered as text.
Returns(bytes) ==
  Len(bytes) <= BufferSize /\ interpret_bdx(bytes) = [calls |-> <<>>, end |-> "returned"]

\* execute_bdx(): the whole line is the path.
RunProgram ==
  /\ Unnamed /\ ends_with_bdx
  /\ bdfs_read_file(NameOf(command))
  /\ \/ ret'.code # 0 /\ Done /\ Say("error executing", <<>>)
     \/ ret'.code = 0 /\ Returns(ret'.bytes) /\ Done /\ shown' = Nothing
     \/ /\ ret'.code = 0 /\ ~Returns(ret'.bytes)
        /\ pc' = "astray" /\ shown' = Nothing /\ UNCHANGED command

\* Also a blank line: its null token is compared with the words all the same,
\* as the bytes at address 0, which are the first interrupt vector.
Unknown ==
  /\ Unnamed /\ ~ends_with_bdx
  /\ Done /\ NoCall
  /\ Say(IF command = <<>> THEN "" ELSE "unknown command", command)

-----------------------------------------------------------------------------
(* reboot, shutdown, and the power switch when nothing else helps          *)

Restart(kept) == Reset(kept) /\ pc' = "boot" /\ command' = <<>> /\ shown' = Nothing

Reboot == Run("reboot") /\ \E kept \in BOOLEAN : Restart(kept)

\* Outside QEMU the port does nothing and the prompt comes back.
Shutdown ==
  /\ Run("shutdown")
  /\ Restart(FALSE) \/ (Done /\ NoCall /\ Say("report", <<>>))

PowerSwitch == pc \in {"astray", "exception"} /\ Restart(FALSE)

\* Fault: the shell starts without bdfs_init().
BootWithoutInit ==
  /\ pc = "boot" /\ pc' = "prompt"
  /\ up' = TRUE
  /\ UNCHANGED <<file_table, current_dir_inode, storage, ret, written, command, shown>>

\* kernel_main(): the file system before the shell.
Boot ==
  /\ pc = "boot" /\ pc' = "prompt"
  /\ bdfs_init
  /\ UNCHANGED <<command, shown>>

\* The user ends a line; start_shell() hands it to process_command().
Enter ==
  /\ pc = "prompt" /\ pc' = "run"
  /\ command' \in EnteredLines \cup (IF file_table = FreshTable THEN FreshLines ELSE {})
  /\ NoCall /\ UNCHANGED shown

\* Back in start_shell(): the buffer is cleared, and print_prompt().  What the
\* call returned is gone.
NextPrompt ==
  /\ pc = "done" /\ pc' = "prompt"
  /\ command' = <<>> /\ shown' = Nothing
  /\ Refuse(0)

CommandsNext ==
  \/ Boot \/ Enter \/ NextPrompt
  \/ Touch \/ Write \/ Cat \/ Rm \/ Mv \/ Mkdir \/ Cd
  \/ Echo \/ Calc \/ Report \/ OpenEditor \/ Save \/ Quit \/ RunProgram \/ Unknown
  \/ Reboot \/ Shutdown \/ PowerSwitch

CommandsSpec == CommandsInit /\ [][CommandsNext]_cmdvars

-----------------------------------------------------------------------------
(* Properties                                                              *)

\* What is in a directory.
Here(t, dir) ==
  {[name |-> t[i].name, type |-> t[i].type] :
     i \in {j \in Inode : Live(t, j) /\ t[j].parent_inode = dir}}
Named(t, dir, name) == {e \in Here(t, dir) : e.name = name}

\* What a command's message says has happened has happened, to the very names
\* the user entered, and no other message goes with a change of any file: not
\* a usage line, not a report, not an error.
MessagesAreTrue ==
  [][LET dir == current_dir_inode
         msg == shown'.msg
         one == TheWord(command, 2)[1]
         two == TheWord(command, 3)[1]
         before == Here(file_table, dir)
         after == Here(file_table', dir)
     IN  pc = "run" /\ pc' = "done" =>
           CASE msg = "created" ->
                  /\ Named(file_table, dir, one) = {}
                  /\ after = before \cup {[name |-> one, type |-> "file"]}
             [] msg = "directory created" ->
                  /\ Named(file_table, dir, one) = {}
                  /\ after = before \cup {[name |-> one, type |-> "directory"]}
             [] msg = "deleted" ->
                  /\ Named(file_table, dir, one) # {}
                  /\ after = before \ Named(file_table, dir, one)
             [] msg = "renamed" ->
                  /\ Named(file_table, dir, one) # {} /\ Named(file_table, dir, two) = {}
                  /\ after = (before \ Named(file_table, dir, one))
                               \cup {[e EXCEPT !.name = two] : e \in Named(file_table, dir, one)}
             [] msg = "wrote" ->
                  after = before /\ Named(file_table, dir, one) # {}
             [] OTHER ->
                  /\ file_table' = file_table
                  /\ msg \in {"already exists"} => Named(file_table, dir, one) # {}
                  /\ msg = "destination exists" => Named(file_table, dir, two) # {}
                  /\ msg \in {"source not found", "directory not found"} =>
                       Named(file_table, dir, one) = {}
                  /\ msg = "not a directory" =>
                       [name |-> one, type |-> "file"] \in before]_cmdvars

\* After `Wrote to file' the file holds the line from behind the name on, inner
\* and trailing spaces included, in every cell but cell 0 of the data region.
WritesTheRest ==
  [][pc = "run" /\ shown'.msg = "wrote" =>
       LET i == find_entry_in_dir(file_table', TheWord(command, 2)[1], current_dir_inode)
           data == CellsOf(BehindWord(command, 2))
       IN  /\ i # -1 /\ file_table'[i].length = Len(data)
           /\ \A k \in 1..Len(data) :
                LET p == file_table'[i].start_sector * SectorSize + k - 1
                IN  p # 0 => stored_data'[p] = data[k]]_cmdvars

\* calc prints what the expression means in school arithmetic, whatever its
\* operators, parentheses and spaces, unless it overran its arrays.  The
\* smallest int, which print_int() garbles, is excepted.
CalcIsRight ==
  pc # "run" /\ shown.msg = "result" =>
    LET rest == BehindWord(command, 1)
        meaning == Meaning(Unspaced(rest))
    IN  Spaced(rest) /\ meaning \notin {<<>>, <<-IntLimit>>} =>
          \/ pc = "done" /\ Denoted(shown.text) = meaning[1]
          \/ pc = "astray"

\* No command runs over its arrays but calc of more characters than a stack
\* has entries, and a program that is an empty file or begins in the cell
\* that the file table spills into.  In particular cat never does.
OverrunsNeedLength ==
  pc = "astray" =>
    \/ HasWord(command, 1) /\ TheWord(command, 1) = <<"calc">>
         /\ Len(BehindWord(command, 1)) > StackSize
    \/ LET i == find_entry_in_dir(file_table, Last(command), current_dir_inode)
       IN  Len(command) = 1 /\ i # -1 /\ (file_table[i].length = 0 \/ file_table[i].start_sector = 0)

\* The shell uses the file system only through its calls, with arguments that
\* Bdfs assumes: what BdfsProofs proves of Bdfs holds under the shell.
ShellKeepsToBdfs == Spec
=============================================================================
