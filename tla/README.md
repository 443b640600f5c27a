# BrainDance: a TLA+ verification project

BrainDance OS is a small 32-bit kernel in C: it boots from a BIOS, sets up
memory, interrupts and a keyboard, keeps a file system in RAM and runs a shell.
This directory holds TLA+ modules translated from its source, the TLC
configurations that check them on small instances, and proofs, checked by
TLAPS, that hold for every size of the tables. Paths and line numbers are those
of the repository; `PROJECT.json` maps every definition to the lines it models.

## 1. The system

| Part | State | Operations | Where it is hard |
|---|---|---|---|
| BDFS `fs/bdfs.c` | `file_table[64]`, `current_dir_inode`, `bdfs_storage` (copy of the table, then 64 data sectors) | init, create, mkdir, delete, rename, chdir, write, read | no free list: the next free sector is derived from the live files; every call must re-synchronise the copy; the copy is what a warm restart finds; entries are reused |
| PMM `memory/pmm.c` | `pmm_bitmap`, `total_blocks`, `used_blocks` | init from the E820 map, alloc, free | three loops that must agree on which block is which; sizes that are no multiple of 8 or 32; exhaustion |
| Keyboard `drivers/keyboard_driver.c` | `last_char`, `last_scancode`, `ctrl_pressed` | IRQ1 handler; three readers | shared with the interrupt handler without a lock; one character deep |
| Shell loop `shell/shell.c` | `command_buffer`, `command_len` | poll, edit, run a command | runs with interrupts enabled; halts when idle |
| Shell commands `shell/shell.c`, `libc/memcore.c` | `strtok_state` | cut the line, call BDFS, editor, calculator or interpreter, report | return codes with a meaning per call; buffers of fixed size for files of any size |
| CPU monitor, timer `kernel/cpu.c`, `arch/i386/timer.c` | `idle_ticks`, `total_ticks`, `timer_ticks` | idle, tick, usage | counters with different clocks, 32 bits wide |
| Console `libc/memcore.c` | `scrollback_buffer`, cursor, `scrollback_row`, `view_row`, VGA memory, hardware cursor | print a character, erase one, clear, scroll, draw, place the cursor | five positions that have to move together when the buffer wraps and shifts |
| Interrupt dispatch `arch/i386/` | IDT, handler tables, PIC masks | install, dispatch, acknowledge | stack layout of the stubs; order of acknowledgement |
| Paging, heap `memory/` | page directory and tables, `heap_ptr` | map, unmap, translate; bump allocation | page tables reached through themselves; heap space that nothing has mapped |
| E1000, PCI `network/` | descriptor rings, buffers | scan, initialise | rings and buffers share pages |
| ATA `drivers/ata/ata.c` | the drive's registers | probe, read and write a sector by polling | a drive at its own pace; early returns in the middle of a command; waits without a limit |
| Cable `app/utils/cable.c` | row buffer, cursor, `dirty` | edit, load, save | C strings in fixed rows, a cursor that leaves them, a save that may fail |
| BDX `exec/exec.c` | instruction pointer | print, write, exit | a 1 KB code buffer without end marker |
| Calculator `app/utils/calculator.c` | operator and value stacks | infix to postfix, evaluate | precedence, malformed input, stacks of 32 |
| Boot `boot/`, kernel entry `kernel/BDkernel.c` | - | load, E820, protected mode; initialisation order | - |

How they interact: `kernel_main()` initialises the parts in a fixed order and
enters `start_shell()`, which never returns. There is one thread of control and
the interrupt handlers; they share `last_char`, `last_scancode`, `ctrl_pressed`
and the tick counters, nothing else. Everything that prints goes through
`print_char()`, never from a handler. The shell calls BDFS, the applications
and the getters of the other parts; the editor calls BDFS through BDX; paging
and the E1000 driver allocate from the PMM.

What makes each part correct, in short: BDFS keeps files apart, returns what was
written, and survives a warm restart; the PMM hands out every usable block
exactly once; the shell runs the line the user edited and misses no key because
of its idling; its commands do what they report; the console shows the text; every
interrupt reaches its handler and is acknowledged; a sector call that reports
success has succeeded.

## 2. Modules

| Module | Models | Used by |
|---|---|---|
| `Bdfs` | `fs/bdfs.c`, one action per call, with resets between calls | `MCBdfs`, `BdfsProofs`, `Commands` |
| `Namespace` | what BDFS promises about names (abstract) | `Bdfs`, by `INSTANCE` |
| `Commands` | `process_command()` and the handlers, over BDFS, calculator and interpreter | `MCCommands`, `CommandsProofs` |
| `Calculator` | `app/utils/calculator.c` and `print_int()`, as operators, with a reference definition | `Commands`, `CommandsProofs` |
| `Bdx` | `exec/exec.c` and the editor's assembler, as operators on bytes | `Commands`, `Cable`, `BdxProofs` |
| `Pmm` | `memory/pmm.c` | `MCPmm`, `KernelProofs` |
| `Keyboard` | IRQ1 handler and the controller that feeds it | `Shell` |
| `Shell` | `start_shell()`, both keyboard readers, `cpu_idle()` and the interrupts between their steps | `MCShell`, `ShellProofs` |
| `Interrupts` | `arch/i386/`: boot order, tables, PICs, dispatch and acknowledgement | its own cfg, `KernelProofs` |
| `Console` | the text console of `libc/memcore.c` | `MCConsole`, `ShellProofs` |
| `Paging` | `memory/paging.c` and `memory/heap.c`, as operators on memory | `E1000` |
| `AddressSpace` | what paging promises (abstract) | `E1000`, by `INSTANCE` |
| `E1000` | `paging_install()`, the PCI scan and `e1000_init()`, step by step | `MCE1000`, `E1000Proofs` |
| `Cable` | the editor's keys, loading and saving | `MCCable`, `CableProofs` |
| `Ata` | `drivers/ata/ata.c`, port access by port access, and the drive | `MCAta`, `AtaProofs` |
| `...Proofs` | theorems about the module of that name; `KernelProofs` about `Pmm` and `Interrupts`, `ShellProofs` about `Shell` and `Console`; see section 4 | - |

Most modules also hold, marked `Fault:`, altered forms of some
definitions: what a plausible slip in the code would make of them. Each
property is violated under one of them.

### Bdfs

State and code correspond one to one, except that `bdfs_storage` is split into
what its bytes mean: `stored_magic`, `stored_table` and `stored_data`. Data is
counted in cells of 4 bytes, because of one detail of the layout: the magic
number and the 64 entries take 2052 bytes, and the data region starts at 2048.
The last word of the table, the length of entry 63, therefore lies in the first
cell of the data. `Sync` writes it there and `LoadedTable` takes it from there.

Each action is a whole call, its final `bdfs_sync_file_table()` included; early
returns are the disjuncts that `Refuse`. `Reset(kept)` is `reboot`, or any other
reset: RAM keeps its content or not. Nothing in the kernel clears `.bss`, so
after a warm reset `bdfs_init()` finds the magic number. `written` remembers
what was last written to each entry, for the properties only.

Names are opaque. `LongName` are those of 16 characters or more. Buffers are
sequences of cells, so lengths that are no multiple of 4 bytes are not told
apart; the sector rounding is checked with sectors of 2 cells.

### Pmm

`pmm_init()` is modelled iteration by iteration (`Measure`, `FreeStep`,
`ReserveStep`), since what has to be shown is that its loops agree. `bitmap` is
the set of 1 bits; `Measure` leaves the bits that `memset()` misses as they
happen to be. The memory maps are assumed `WellFormed`: what the code relies on
and PC memory maps have: whole blocks that overlap nowhere, a partly usable block
only below the end of kernel and bitmap. Callers release only what they hold.

### Commands, Calculator and Bdx

`Commands` is the composition: `Bdfs` as it stands, extended by the shell that calls
it, so that `ShellKeepsToBdfs` is the claim that every behaviour under the shell is
one of `Bdfs`, and the theorems of section 4 apply to it. A command is one action,
from its first `strtok()` to its message. A line is a sequence of symbols: a command
word or a name is one symbol, text is symbols of one character. `strtok()` is an
operator on the rest of the line, since that is what its static pointer stands for.
The commands that print a report change nothing and are one action. `halt` is among
them: the next timer interrupt ends its `hlt` and the prompt comes back.

`Calculator` translates the two passes character by character, with the sizes of
their arrays and the width of an int. `Meaning` is the reference: what an expression
means by the grammar of school arithmetic, with no stack in it. `Bdx` maps the bytes
of a program to the calls it makes; a program that reads on behind its end, or calls
past the arrays, leaves the model (`astray`), as in `Cable`.

### Keyboard and Shell

The build uses no optimisation, so each access to `last_char` in
`keyboard_get_char()` is a step (`Check`, `Load`, `Clear`), and an interrupt may
come between any two. So is each access to `last_scancode` in the editor's
`keyboard_get_scancode()` (`Wait`, `Scan`, `Unscan`), and its look at `ctrl_pressed`
later (`Key`). The editor runs from an Enter to Ctrl+Q and the two readers share what
the handler left. A handler runs with interrupts disabled and is one step.
`Halt` is `sti; hlt`; any interrupt ends it. Scancodes carry the number of the
press that made them, so that properties can tell two presses of a key apart.

### Interrupts

`kernel_main()` from `idt_install()` to `sti`, then interrupts: a request, its
acknowledgement by the processor (`Acknowledge`, which delivers the vector and runs
the stub), the handler, `pic_send_eoi()` and `iret`. The 8259s are external: fixed
priorities, in-service bits, the cascade on line 2, spurious interrupts on lines 7
and 15. A vector without a gate, or one of an exception, loses the system, which
`DispatchIsRight` excludes. An exception ends the system for good, which is what the code
comes to: its stub passes number and error code where `isr_handler()` takes a
pointer.

### Ata

Each port access that matters is a step, and the drive (external) takes steps of its
own: it shows BSY when given a command, ignores commands while busy, and ends with
data, a request for data, or an error. Two things are assumed of it. BSY is there by the
first status read after a command or after the last word; a drive may take 400 ns for
that, and the driver calls `ata_delay()` in `ata_init()` only. And ERR never comes
with DRQ; if it did, a call would return in front of the transfer the drive is waiting for. Which of disk, packet device or
nothing is attached is chosen at the start. `failed` remembers that the drive flagged
an error after the last word, which the driver does not look at.

### Console

Each operation is one action including the refresh and cursor update it ends in.
The callers' discipline is part of the model: the shell erases only what it
echoed since its prompt, and the editor draws on and places the cursor in a
screen it has just cleared (`editor_draw()`). `Place` and `Paper` are the
reference: where each character of the text goes on paper of the screen's width
that never ends.

### Cable

`buffer` is flat, as the rows of `editor.buffer` lie in memory, because the code
reads each row as a C string: a row without terminator continues in the next
one, and `memmove()`, `strcat()` and `strlen()` are operators on the flat array.
One action per key, each the whole of `editor_process_keypress()` for it. The
code can leave its buffer: by typing behind the end of a shorter row (the count
of `memmove()` wraps), by Enter below the last row, and by saving more than the
bytecode on the stack holds. Those steps end in `mode = "astray"`, of which
nothing is claimed; only a `Restart` leads out. Ctrl and scancode are read at
different moments, so any key may come with Ctrl up or down. A save assembles a
program (`WriteProgram` of `Bdx`) and has `interpret_bdx()` run it. The file is BDFS as
the editor sees it: a write is refused when the file does not exist or would
need more sectors than it has, and `dirty` is cleared all the same.

`text` is the reference: the rows as sequences of characters, changed by what each
key means. It is given up for the session when a row is filled to its last byte
or the hidden last row is moved up by a join, where the code no longer does
what the keys mean.

### Paging and E1000

Physical memory is a table of entries per frame, read the way the processor's
page walk reads it (`Walk`). Directory and tables are reached by virtual addresses
in the code and so they are here: the directory through the identity map, a
table through the last directory entry, which is the directory itself. Unused
RAM reads as present entries (`StaleFrame`), so a table that is not cleared shows.
`E1000` is the only user of paging and heap. `given` remembers each buffer and ring that
a card was told of: which slot of which ring it belongs to, its virtual address and the
frame. What a card is told for a buffer is where the frame starts, for a ring where the
ring is in the frame. The PMM is its free frames, lowest first, which is
what `BitmapIsExact` says of `Pmm` as long as the block in which the bitmap ends is not
written to (section 3); the directory's frames are never among them,
because 0x90000 lies below the kernel's end. A panic (no frame for a table) ends
the run of the system, and so does the end of the scan: this is the one run
without a deadlock check.

## 3. Runs

| Run | Checks | Bounds |
|---|---|---|
| `bdfs_files` | `TypeOK`, `ExtentsDisjoint`, `ExtentsInBounds`, `ContentIntegrity`, `ReloadIsCurrent` | 3 entries, 4 sectors of 2 cells, lengths 0, 1 and 3 |
| `bdfs_tree` | `UniqueNames`, `CwdReachesRoot`, `ImplementsNamespace` | 4 entries, two nested directories to start from, 2 names (one of them `..`) |
| `pmm` | `Accounting`, `BitmapIsExact`, `HeldIsUsableRam` | three memory maps of 12 or 13 blocks, with a partly usable block, holes, regions out of order |
| `shell` | `ShellTypeOK`, `RunsTheEditedLine`, `TakenInOrder`, `PendingIsTaken` | 4 key presses of 2 characters and all other keys, a line of 2 characters, 2 scancodes in the controller |
| `console` | `ConsoleTypeOK`, `BufferIsThePaper`, `ScreenIsThePaper`, `PrintingIsSeen` | screen of 2 by 2, buffer of 3 rows, 6 characters since the last clear |
| `e1000` | `E1000TypeOK`, `NoPageFault`, `OneUsePerFrame`, `CardsStayInformed`, `ImplementsAddressSpace` | 2 cards, tables of 8 entries, 16 frames, six sets of free frames (two of them too small), a heap with room for exactly both cards |
| `cable` | `RowsAreZeroPadded`, `TextIsKept`, `SaveReachesTheFile`, `NoSilentEdit` | 3 rows of 3 bytes, 3 characters typed between restarts, programs of up to 15 bytes (files of up to 7) |
| `commands` | `CalcIsRight`, `OverrunsNeedLength`, `MessagesAreTrue`, `WritesTheRest`, `ShellKeepsToBdfs` | 3 entries, 2 sectors of 2 cells, 2 names (one a program's) and one too long; 28 lines at any time, almost 3000 more on a fresh table; stacks of 4, ints below 128 |
| `interrupts` | `DispatchIsRight`, `AllAcknowledged`, `RaisedIsServed` | devices on lines 0, 1, 7, 8 and 14, 4 requests, any mask the BIOS may leave |
| `ata` | `NotLeftHalfway`, `SuccessIsTrue`, `OnlyTheSectorAskedFor`, `CallsReturn` | registers of one bit, so 16 sectors of 2 words; two sectors asked for and one there is not; any sequence of calls |

Why the bounds are enough: a sector conflict takes two files and a third entry
to be created, deleted or shrunk between them, with room for one conflict and
for running out; an orphan takes a directory, one below it, and a fourth entry
to reuse the freed one; the bitmap needs a full and an incomplete word and
byte; the line has to fill up, overflow and be erased; the console has to wrap,
shift more than once and shift by a wrap that is then erased; the editor has to
fill a row, join rows, leave a row empty between others, and save more and less
than fits; a line has to lack each argument, have spaces in odd places, and name
what is there, what is not, and what is of the other kind; an expression has to
mix two precedences on both sides of a parenthesis; a slave's line has to come
while one of the master is in service, and the other way round; a sector number
has to use every register. All of these happen within the bounds. The theorems
of section 4 remove the bounds for every safety property of every passing run;
what stays bounded is liveness.

Two bounds of `commands` need a word. Expressions and reports are entered on a
fresh file table only, because they neither read nor change it. And what the editor
saves there is one buffer, shorter than the 1 KB arrays: the editor's own bytecode
array has that size (`SaveFits` in `Cable`).

Runs that show a disagreement between the code and what the repository says of it:

| Run | Property | What happens |
|---|---|---|
| `bdfs_readback` | `ReadBack` | the first four bytes of the file at sector 0 are overwritten by the spilled end of the table |
| `shell_last_key` | `LastKeyArrives` | a character stored between the read and the clear of `last_char` is lost |

Further disagreements seen while translating have no run of their own:

- `bdfs_delete_file()` deletes any entry of the working directory, and the root is an
  entry of itself named `/`: `rm /` frees inode 0, of which comments say "Root directory is
  inode 0" (`bdfs.c:13`, deletion at `bdfs.c:128`). It also deletes directories that are
  not empty, which its own comment leaves to do; `CwdReachesRoot` shows that the
  working directory survives that.
- "Mark kernel and bitmap as used" (`pmm.c:74`): the number of blocks is rounded down
  (`pmm.c:75`) and `_kernel_end` is not aligned to blocks, so the block in which the bitmap ends
  stays free and is the first to be handed out, in `e1000_init()` as a page table. `BitmapIsExact` takes its reserved blocks from that comment and excepts this one
  (`LeftOut`); what its holder writes over the bitmap is not modelled.
- Blocks of an incomplete last word of the bitmap are counted free and never found by
  `find_first_free()`, where a comment says "Should not happen if used_blocks is correct"
  (`pmm.c:91`). `Pmm` keeps this too (`ScannedBits`), and a map of 13 blocks reaches it.
- A sector number of more than 28 bits loses the upper ones (`ata.c:51`, `ata.c:94`): the call
  reads or overwrites the sector that the rest names, and reports success. The run asks for
  such a sector; `OnlyTheSectorAskedFor` says of it that no third sector changes.
- The cards' frames are not theirs alone. With no frame left `pmm_alloc_block()` returns a null
  pointer, which `e1000_init()` does not check (`e1000.c:62`), so that every further buffer of every
  card is told to be at physical address 0. And a ring lies on the page of its first buffer
  (`e1000.c:60`), so that the card puts the first packet into the frame of the receive ring.
  `OneUsePerFrame` excepts these two and no other. Besides, a buffer does not start where its page
  does, and the card is told where the frame starts (`e1000.c:65`): what it receives is not
  where `rx_buffers[i]` points. The driver does not receive yet.
- `cpu_idle()` counts wake-ups and `cpu_tick()` timer interrupts; two keys within a timer
  period make the usage printed by `pulse` negative (`cpu.c:21`).
- A save that BDFS refuses clears `dirty` (`cable.c:118`), "Flag to track if the file has been
  modified" (`cable.h:16`). `SaveReachesTheFile` says when a save is refused.
- `+`, `(` and `)` are on no key of `kbd_us`, although `docs.md` lists them for `calc`.
  `process_command()` takes any string, so `Commands` enters them all the same.
- `print_int()` garbles the smallest int, for which its buffer is said to be "Enough"
  (`memcore.c:116`): its negation is negative and so are the digits. `CalcIsRight` excepts it.
- Enter on a blank line compares a null pointer with the command words, that is the
  bytes at address 0, which are mapped and hold the first interrupt vector of the
  BIOS. `Unknown` takes them for no command.
- `unmap_page()` takes a page table at its physical address and `map_page()` through the
  recursive mapping (`paging.c:120`): they agree only inside the identity-mapped 4 MB.
  It has no caller.

### Fairness

`Shell`: weak fairness of the loop (the processor goes on), of
`TimerIrq` (the PIT is programmed to 100 Hz in `timer_install()` and its line is
unmasked in `irq_install()`) and of `KeyboardIrq` (the controller keeps its line
raised while it holds a scancode). The user and all other devices owe nothing.
`PendingIsTaken` depends on the timer: with IRQ1 between check and `hlt`, it is
the timer that wakes the loop.

`Interrupts`: weak fairness of the processor. Requests are bounded, so that a line of
low priority gets its turn; the code has no protection against a device that never
stops requesting.

`Ata`: weak fairness of the driver's steps and of the drive's, which says that a drive
that is there ends what it was told. The code depends on it: `ata_poll()` has no limit.
Without a drive only `ata_init()` is claimed to return.

Deadlock is checked in every passing run but `e1000`; none of these systems stops.

## 4. Proofs

Each theorem holds for every value of the constants that satisfies the named
assumptions of its module; the runs above check these on their instances. A
proof module states the inductive invariant first, then one lemma per action, then
the theorems. Each invariant was checked by TLC on the instances of its run before it
was proved.

### BdfsProofs

Any number of entries and sectors, any sector size, names, buffers and default
directories (`SizesAssumption`, `ArgumentsAssumption`, `DefaultDirsAssumption`).

- `TypeCorrect`, `ExtentsCorrect`, `ExtentsStayInBounds`, `ContentCorrect`, `ReloadCorrect`,
  `NamesCorrect`: the invariants of `bdfs_files`, and `UniqueNames`.
- `AlwaysRooted`: `Spec => []Rooted`. From the working directory the parents lead to
  inode 0, whatever was deleted and reused on the way.
- `RootCorrect`: `Spec => []CwdReachesRoot` if no caller names the root,
  `"/" \notin ArgName`. The hypothesis is needed: `rm /` frees inode 0 (section 3), and
  `Rooted` is what is left of the property then.
- `NamespaceCorrect`: `Spec => ImplementsNamespace`, the refinement.

`Inv` is the conjunction of type, extents, content and reload. None of them
is inductive alone: a write stays apart from other files because they are in
their extents (`ExtentsDisjoint`) and the extents in the data region
(`ExtentsInBounds`); content survives a write elsewhere because extents that
share no sector share no cell (`ExtentsApart`); and a restart keeps all of it
because what it loads is the table in use (`ReloadIsCurrent`). `FreeSectorResult`
is the argument for `find_free_sector()`: its result lies behind every live file.
`WritePlace` joins the two ways a write is placed. The scans rest on
`LeastElement`, that a set of numbers has a least one, from which the value of
`FirstOf` follows. `UniqueNames` is proved on top of `Inv`: creation and rename
look a name up first (`FindEntryResult`), and the table `bdfs_init()` makes is
unambiguous by the assumption on the default directories. `Rooted` says that there is
a rank that falls from each entry of the chain to its parent (`Chain`). A reused inode
is the danger: an entry is created with the working directory as its parent, so it
cannot be on the chain above it unless it was freed there, and the live entries
keep their rank. `StepEffect` says once what each call does to the table; the
refinement and the rank are proved from it.

### KernelProofs: the memory manager

Any block size, word size, kernel end and set of well-formed maps (`PmmSizes`,
`PmmMaps`).

- `AccountingCorrect`, `BitmapCorrect`, `HandsOutUsableRam`: the three properties of the run.

`PmmInv` says for each phase of `pmm_init()` which bits are set: all but those of the
iterations done (`Freeing`), all but the usable ones plus those reserved so far
(`Reserving`), the `Marked` and the held (`Serving`). `Marked` is what the code computes;
`MarkedResult` relates it to the blocks that kernel and bitmap really occupy: all but
`LeftOut`. `used_blocks` is the
cardinality of a set that each iteration changes by one element, because the
regions are disjoint. The proof changed the model: `WellFormed` used to allow a partly usable
block anywhere below `_kernel_end`, and `HeldIsUsableRam` is false when that is
not block aligned, since the number of reserved blocks is rounded down.

### KernelProofs: interrupts

Any set of devices (`DevicesAssumption`).

- `DispatchCorrect`, `AcknowledgementCorrect`: the invariants of the run.

`IntInv` says what each step of the boot sequence has left (`BootOrder`), that the interrupt
flag is clear during boot and service (`FlagFollows`), that the vector fits the line
(`RightLine`), and which bits are in service at each stage (`InServiceFollows`).

### ShellProofs: the loop and the keyboard

Any keys, any number of presses, any buffer size, interrupts anywhere
(`KeyboardSizes`, `CharKeysAssumption`, `ShellSizes`, `NulAssumption`: names of keys
are distinct, and no key types a 0).

- `ShellTypeCorrect`, `CommandCorrect` (`RunsTheEditedLine`), `OrderCorrect` (`TakenInOrder`).

`ShellInv` orders every place a key press can be: the controller holds the newest in
sequence (`WireInOrder`), nothing else is newer (`OnlyThePast`), `last_scancode` is the newest the
handler saw and `last_char` the newest character (`Newest`), and what shell and editor hold
or have handled lies in that order too (`ShellInOrder`, `EditorInOrder`). The last two
are where the races are: a press read and not yet cleared may still be in
`last_char`, and may not be taken again. `BufferHoldsLine` says that `command_buffer`
begins with the line the user edited.

### ShellProofs: the console

Any screen, any buffer at least as high, any text (`ConsoleSizes`).

- `ConsoleTypeCorrect`, `BufferCorrect`, `ScreenCorrect`, `PrintingCorrect`: all four properties
  of the run.

`ConsoleInv` adds to the first three that the VGA memory is what `refresh_screen()` drew
(`ScreenShowsBuffer`), that a cleared screen has no text (`ClearUntilPrinted`), that what may
be erased ends the text (`TypedEndsText`) and that the cursor is close enough to its end
(`CursorNearEnd`). The last one is why `print_backspace()` stays inside the buffer:
the characters echoed since the prompt span at most a screen, and that many rows are
left above the cursor after any shift. `Place` is defined by recursion over the text; what it
computes is established from the least index at which it would not (`PlacesExist`,
`PlacesAgree`, `PlacesGrow`). `PaperMeans` turns the reference into a statement about each cell,
and `ShowsPut`, `ShowsShifted` and `ShowsErased` say what the three kinds of changes do to it.

### CableProofs

Any number and length of rows, any file and file name of printable characters, any
sequence of keys (`CableSizes`, `CableTexts`). The size of the bytecode array is
assumed below 2^31, so that the four bytes the program holds for a length are
that length again.

- `CableInvariance`, `RowsCorrect` (`RowsAreZeroPadded`), `TextCorrect` (`TextIsKept`),
  `EditsAreMarked` (`NoSilentEdit`), `SavesReachTheFile` (`SaveReachesTheFile`): all four properties of
  the run, the last two action properties.

`CableInv` is type, padding and text. `TextIsKept` alone is not inductive: it speaks of
strings, and what `memmove()` shifts in at the end of a row is the row's padding;
`RowsHoldText` says what every byte of a row is. `PaddedEdit` is the argument for all
edits on padded rows; `InsertCells` and `DeleteCells` say what the code does to each cell,
and the lemmas behind them that this is the insertion, deletion or join of the texts.

`Loaded`, the concatenation of the saved rows and `interpret_bdx()` are recursive. What
they compute is established from the least position at which it would not be so,
as for `Place` of the console. `Newlines` counts the lines that end before a position
of a file; row y of what is loaded is line y of the file, cut to what fits. A
program decodes to the one call it was assembled from (`EncodeDecode`, `ProgramBytes`), so a save
writes the rows as lines, the empty ones left out (`RowsSaved`), and these load as they were (`SavedLoads`).

The proof changed the models: arms of a `CASE` in `interpret_bdx()` overlapped, so the
definition allowed a complete write to be skipped, which TLC's left-to-right
evaluation hides. The arms are alternatives now, also in `PostfixStep` of `Calculator`,
which had the same defect.

### E1000Proofs

Any table size, memory, free frames, addresses of registers, ring sizes, and any
number of cards for which the heap has room (`PagingSizes`, `PagingFree`, `E1000Sizes`,
`CardsAssumption`).

- `CardTypeCorrect`, `FaultFree`, `FramesCorrect`, `CardsCorrect`: the invariants of the run.
- `AddressSpaceCorrect`: `E1000Spec => ImplementsAddressSpace`, the refinement.

`CardInv` rests on `Paged`: the directory is its own last table, the first table is
the identity, and the other present entries are distinct frames, none of them free. That is what makes
`map_page()` write the table it means to, and change no other translation.
`Told` says that the cards' pages are below `heap_ptr`, each still in its frame, and each
of one use (`OneUse`: a ring and its first buffer are one). A new buffer is on the page of `heap_ptr`
(`HeapAfter`) and so on one that no card knows; a ring is told of when its first buffer has been, and
no other ring on that page (`RingTold`). Frame 0 is told again and again once the PMM is
exhausted; everything said about frames is about the others.

### AtaProofs

Any sector size, register sizes, sectors and buffers (`AtaSizes`), and any drive that
keeps to the two assumptions of section 2. `SuccessCorrect` and the first half of `OnlyItsSector` are about
sector numbers that the registers can hold.

- `NeverLeftHalfway`, `SuccessCorrect`, `OnlyItsSector`: the safety properties of the run, the
  last one an action property.

`AtaInv` relates each step of the driver to what the drive does (`InStep`: how many words
each has counted, what the last poll saw, and when the registers hold the sector asked
for), says that the medium is as it was until the last word (`Untouched`), and what a
result means (`Reported`). That the registers put together name the sector is arithmetic
on mixed radices (`AddressResult`).

### BdxProofs

Any bytes as a program, whatever its jumps and lengths (no assumption).

Lemmas only. `InterpretIs` says that what `interpret_bdx()` does is given, instruction by
instruction, by the opcode at the instruction pointer: the recursion has a solution
because an instruction depends on what is behind it only (`InstructionDepends`).
`CableProofs` uses it for the program of a save, which makes exactly its one call, and
`CommandsProofs` for a text run as a program, which makes none.

### CommandsProofs

Any set of lines, any limits of the file system, any sizes of the calculator's
arrays. The assumptions say what the model's lines are: sequences of symbols
(`CommandLines`), with a name that `Bdfs` knows wherever the commands take a
name (`NamesInLines`), and no data longer than the line buffer or what the editor
can save (`SavesFitBuffers`); the array of the postfix text is twice as long as the
stacks (`CalculatorSizes`: 256 and 32).

- `ShellInvariance`: `CommandsSpec => [](ShellInv /\ FilesSound /\ SavedText)`, the inductive
  invariant.
- `ShellUsesBdfs`: `CommandsSpec => ShellKeepsToBdfs`. Every behaviour under the shell is one of
  `Bdfs`, so all theorems of `BdfsProofs` hold there.
- `MessagesHold` (`MessagesAreTrue`), `WritesHold` (`WritesTheRest`): the two action properties
  of the run.
- `OverrunsAreKnown` (`OverrunsNeedLength`) and `CalcCorrect` (`CalcIsRight`): the two invariants
  of the run.

`strtok()` comes first. `TokenResult` says what one call returns and what it leaves behind,
and `Tokens` that three calls in a row yield the first three words of the
line and the rest behind each, however the line is spaced (`TheWord`, `BehindWord`, which are defined
by positions in the line and know nothing of a static pointer). `ShellUsesBdfs`, `MessagesHold`
and `WritesHold` then go through the commands one by one.

`ShellInv` says where the shell stands and that the editor was opened by `cable` and a
name. `FilesSound` is `Inv` and `UniqueNames` of `BdfsProofs`, carried over by
`ShellUsesBdfs`: without unique names the file that `cat` finds again need not be the one
`write` changed. `SavedText` says that every file holds text no longer than the
buffers it is read into; it has to exclude the name `other`, the one a line's longer words
stand for, because a program of that name could be written by nobody.

`OverrunsAreKnown` has three parts. `cat` is safe by `SavedText`. For a program,
`TextReturns` shows that text begins with no opcode, so that the interpreter returns at
once; `ReadText` that what is read begins with text unless it is empty or in the cell
the table spills into. For the calculator the
lemma behind it (`InfixFits`) is that after i characters `Len(out) + 2 * Len(stack) <= 2 * i`: an
operator waits on the stack as one entry and leaves it as two characters. So a text that fits
a stack fits the postfix array as well; and each number that `evaluate_postfix()` pushes
starts with a digit and ends before a character that is none, so half of the postfix text
bounds the numbers (`EvalFits`).

`CalcCorrect` says that for any text, of any length and depth, `calc` prints the value the
grammar gives it (`Meaning`), unless the text is too long for the arrays. Stacks and grammar cut an
expression differently, so the statement to be proved is about every part `e[i..j]` in its place
(`Translates`): if, before it, the postfix text evaluates to the numbers `V` and the
operator on the stack binds less tightly than anything in the part (`Ready`), then behind it,
once the operators that it has added are popped, the postfix text evaluates to `V` with
the part's value on top (`Compiled`). The three forms of a part are `NumberCase`, `ParenCase` and
`OperatorCase`; the last is where precedence and association to the left matter, because the operators
of the left part are popped by the operator and those of the right part are not.
`SplitBefore`, `SplitBehind` and `JoinedIs` show that the last operator outside parentheses of those that
bind least, where the grammar cuts, leaves two parts that are `Ready` in turn; `PartsTranslate` is the
induction over the length of the part, by the least length at which it would fail. An
intermediate result that is no int has no meaning, so `apply_op()` never wraps where something is claimed.

The rest of the argument is about what surrounds the expression. Spaces make no difference unless they
split a number (`SameState`, where `Spaced` is needed because `EndsAgree`: the character
behind a digit tells `infix_to_postfix()` whether the number ends). `PrintedIs` says that the
digits `print_int()` prints denote the number. `ResultPlace` says that a result is on the
screen only where `calc` has left it, so the line is still the one it belongs to.
`Meaning` and `DecimalDigits` are recursive on parts and quotients and not on positions;
`ValuesExist` and `ValuesUnique`, `Solvable` and `SolvedOnce` give each its one solution. For the proof,
the local definitions of `Meaning` became operators of their own.

The loops are recursive functions of a position. `RecursionExists` gives each of them a
solution of a known type, so that the `CHOOSE` behind its definition has one to pick.

### Only model-checked

Liveness (`PendingIsTaken`, `RaisedIsServed`, `CallsReturn`), which the prover cannot reason
about.

## 5. Plan

Done: `Bdfs` with `Namespace`, `Pmm`, `Keyboard` and `Shell` with both readers, `Console`,
`Cable`, `Paging` with `AddressSpace`, `E1000`, `Bdx`, `Calculator`, `Commands`,
`Interrupts`, `Ata`.

Models left: `unmap_page()` once it has a caller, and the card's own writes to rings
and buffers, which share frames, once the driver receives.

Theorems left: none for the safety properties stated so far; liveness stays with TLC.

## 6. Not modelled

Boot code (real mode, BIOS services), port I/O of the PCI scan, and formatting and
printing of values (`kprintf()`, `print_hex()`, the reports of the shell): device I/O or layout without state that the properties
concern. Colours. Lengths that overflow 32 bits in `bdfs_write_file()`, which only
a BDX program can pass. Programs that consist of more than text, which no command can
put into a file. RAM above 4 GB, which the PMM's 32-bit addresses exclude.
Access flags of pages. What an exception stub prints. `keyboard_get_char_blocking()` and
`unmap_page()`, which have no callers. Ports that a packet device or a failed drive
answers differently from ATA's status register.
