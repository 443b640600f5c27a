-------------------------------- MODULE Bdfs --------------------------------
(***************************************************************************)
(* BDFS, the in-memory file system of fs/bdfs.c: a flat table of entries   *)
(* that name their parent by index, a data region handed out in sectors,   *)
(* and one static buffer, bdfs_storage, that holds a copy of the table     *)
(* next to the data and is what a warm restart finds again.                *)
(*                                                                         *)
(* One action per function of include/bdfs.h; an action is the whole call, *)
(* its trailing bdfs_sync_file_table() included.                           *)
(*                                                                         *)
(* Units.  The model counts in cells of 4 bytes, so that                   *)
(*      SectorSize    stands for 512 bytes     = 128 cells,                *)
(*      the magic number                       =   1 cell,                 *)
(*      one bdfs_file_entry_t (32 bytes)       =   8 cells.                *)
(* With 64 entries the magic number and the table take 1 + 64 * 8 = 513    *)
(* cells, one more than the BDFS_FILE_TABLE_SECTORS = 4 sectors (512       *)
(* cells) in front of the data.  The copy of the table therefore ends in   *)
(* cell 0 of the data region: bdfs_sync_file_table() puts the length of    *)
(* the last entry there and bdfs_init() takes it from there.               *)
(***************************************************************************)
EXTENDS Integers, Sequences, FiniteSetsExt

CONSTANTS
  MaxFiles,     \* BDFS_MAX_FILES
  DataSectors,  \* BDFS_DATA_SECTORS
  SectorSize,   \* cells per sector
  ArgName,      \* the names a caller passes; strtok() never yields ""
  LongName,     \* those with BDFS_MAX_FILENAME_LENGTH characters or more
  Buffer,       \* the buffers a caller passes to bdfs_write_file()
  DefaultDirs   \* the directories bdfs_init() makes, in order: [name, parent]

ASSUME SizesAssumption ==
  /\ MaxFiles \in Nat \ {0}
  /\ DataSectors \in Nat \ {0}
  /\ SectorSize \in Nat \ {0}

ASSUME ArgumentsAssumption ==
  /\ "" \notin ArgName
  /\ LongName \subseteq ArgName
  /\ "/" \notin LongName
  /\ Buffer \subseteq Seq(Nat)

ASSUME DefaultDirsAssumption ==
  /\ DOMAIN DefaultDirs = 1..Len(DefaultDirs)
  /\ Len(DefaultDirs) \in 0..(MaxFiles - 1)
  /\ \A i \in 1..Len(DefaultDirs) :
       /\ DefaultDirs[i].name \notin {"", "/"} \cup LongName
       /\ DefaultDirs[i].parent \in 0..(i - 1)
  /\ \A i, j \in 1..Len(DefaultDirs) :
       /\ DefaultDirs[i].name = DefaultDirs[j].name
       /\ DefaultDirs[i].parent = DefaultDirs[j].parent
       => i = j

VARIABLES
  up,                 \* kernel_main() is past bdfs_init()
  file_table,         \* the working table, a static of bdfs.c
  current_dir_inode,
  stored_magic,       \* bdfs_storage: is BDFS_MAGIC in its first word?
  stored_table,       \* bdfs_storage: the copy of the table
  stored_data,        \* bdfs_storage: the cells of the data sectors
  ret,                \* what the last call handed back to its caller
  written             \* history: the buffer last stored in each entry

storage == <<stored_magic, stored_table, stored_data>>
vars == <<up, file_table, current_dir_inode, storage, ret, written>>

Inode == 0..(MaxFiles - 1)
LastInode == MaxFiles - 1
Position == 0..(DataSectors * SectorSize - 1)

\* Names short enough for char name[BDFS_MAX_FILENAME_LENGTH].
FittingName ==
  ({"", "/"} \cup ArgName \cup {DefaultDirs[i].name : i \in 1..Len(DefaultDirs)})
     \ LongName

Entry == [name : FittingName, type : {"file", "directory"}, parent_inode : Inode,
          start_sector : Nat, length : Nat]

-----------------------------------------------------------------------------
(* The table                                                               *)

Live(t, i) == t[i].name # ""
IsFile(t, i) == Live(t, i) /\ t[i].type = "file"
IsDir(t, i) == Live(t, i) /\ t[i].type = "directory"

\* The scan `for (i = 0; ...) if (...) return i;  return -1;'.
FirstOf(S) == IF S = {} THEN -1 ELSE Min(S)

find_entry_in_dir(t, name, dir) ==
  FirstOf({i \in Inode : Live(t, i) /\ t[i].parent_inode = dir /\ t[i].name = name})

find_free_entry(t) == FirstOf({i \in Inode : ~Live(t, i)})

\* Fault: the sector count rounded down.
SectorsRoundedDown(length) == length \div SectorSize

Sectors(length) == (length + SectorSize - 1) \div SectorSize
EndSector(t, i) == t[i].start_sector + Sectors(t[i].length)

find_free_sector(t) == Max({0} \cup {EndSector(t, i) : i \in {j \in Inode : IsFile(t, j)}})

EmptyEntry ==
  [name |-> "", type |-> "file", parent_inode |-> 0, start_sector |-> 0, length |-> 0]

NewEntry(name, type, dir) ==
  [EmptyEntry EXCEPT !.name = name, !.type = type, !.parent_inode = dir]

\* Fault: no length check before strcpy().
CreateErrorUnchecked(t, name, dir) ==
  IF find_entry_in_dir(t, name, dir) # -1 THEN -2
  ELSE IF find_free_entry(t) = -1 THEN -3
  ELSE 0

\* What bdfs_create_file() and bdfs_create_dir_entry() return, and do, alike.
CreateError(t, name, dir) ==
  IF name \in LongName THEN -1
  ELSE IF find_entry_in_dir(t, name, dir) # -1 THEN -2
  ELSE IF find_free_entry(t) = -1 THEN -3
  ELSE 0

Created(t, name, type, dir) ==
  [t EXCEPT ![find_free_entry(t)] = NewEntry(name, type, dir)]

\* The table bdfs_init() builds: the root at inode 0, then each default
\* directory at the next free entry.
FreshTable ==
  [i \in Inode |->
     IF i = 0 THEN NewEntry("/", "directory", 0)
     ELSE IF i <= Len(DefaultDirs)
       THEN NewEntry(DefaultDirs[i].name, "directory", DefaultDirs[i].parent)
       ELSE EmptyEntry]

-----------------------------------------------------------------------------
(* bdfs_storage                                                            *)

Spill(t, d) == [d EXCEPT ![0] = t[LastInode].length]

\* bdfs_sync_file_table(), d being the data sectors when it is called.
Sync(t, d) ==
  /\ stored_magic' = TRUE
  /\ stored_table' = [t EXCEPT ![LastInode].length = 0]
  /\ stored_data' = Spill(t, d)

LoadedTable == [stored_table EXCEPT ![LastInode].length = stored_data[0]]

\* memcpy() of a buffer to the data sectors from start_sector on.
Copied(d, start, buffer) ==
  [p \in Position |->
     LET k == p - start * SectorSize + 1
     IN  IF k \in 1..Len(buffer) THEN buffer[k] ELSE d[p]]

\* memcpy() of a file's bytes to the caller's buffer.
FileBytes(t, d, i) ==
  [k \in 1..t[i].length |-> d[t[i].start_sector * SectorSize + k - 1]]

-----------------------------------------------------------------------------
(* The operations                                                          *)

Return(code) == ret' = [code |-> code, bytes |-> <<>>]

\* A call that returns before it changed anything.
Refuse(code) ==
  Return(code) /\ UNCHANGED <<up, file_table, current_dir_inode, storage, written>>

\* Power-on: whatever RAM holds, it is not BDFS_MAGIC.
Init ==
  /\ up = FALSE
  /\ file_table = [i \in Inode |-> EmptyEntry]
  /\ current_dir_inode = 0
  /\ stored_magic = FALSE
  /\ stored_table = [i \in Inode |-> EmptyEntry]
  /\ stored_data = [p \in Position |-> 0]
  /\ ret = [code |-> 0, bytes |-> <<>>]
  /\ written = [i \in Inode |-> <<>>]

bdfs_init ==
  /\ ~up
  /\ up' = TRUE
  /\ current_dir_inode' = 0
  /\ Return(0)
  /\ \/ /\ ~stored_magic
        /\ file_table' = FreshTable
        /\ Sync(FreshTable, stored_data)
        /\ written' = [i \in Inode |-> <<>>]
     \/ /\ stored_magic
        /\ file_table' = LoadedTable
        /\ UNCHANGED <<storage, written>>

Create(name, type) ==
  LET code == CreateError(file_table, name, current_dir_inode)
      t == Created(file_table, name, type, current_dir_inode)
  IN  /\ up
      /\ \/ code # 0 /\ Refuse(code)
         \/ /\ code = 0
            /\ file_table' = t
            /\ Sync(t, stored_data)
            /\ written' = [written EXCEPT ![find_free_entry(file_table)] = <<>>]
            /\ Return(0)
            /\ UNCHANGED <<up, current_dir_inode>>

bdfs_create_file(name) == Create(name, "file")

bdfs_mkdir(name) == Create(name, "directory")

bdfs_delete_file(name) ==
  LET i == find_entry_in_dir(file_table, name, current_dir_inode)
      t == [file_table EXCEPT ![i].name = ""]
  IN  /\ up
      /\ \/ i = -1 /\ Refuse(-1)
         \/ /\ i # -1
            /\ file_table' = t
            /\ Sync(t, stored_data)
            /\ Return(0)
            /\ UNCHANGED <<up, current_dir_inode, written>>

\* Fault: the new name is not looked up first.
RenameErrorNoLookup(old, new) ==
  IF new \in LongName THEN -1
  ELSE IF find_entry_in_dir(file_table, old, current_dir_inode) = -1 THEN -2
  ELSE 0

RenameError(old, new) ==
  IF new \in LongName THEN -1
  ELSE IF find_entry_in_dir(file_table, old, current_dir_inode) = -1 THEN -2
  ELSE IF find_entry_in_dir(file_table, new, current_dir_inode) # -1 THEN -3
  ELSE 0

\* Fault: the table is not synchronised after the rename.
RenameWithoutSync(old, new) ==
  LET i == find_entry_in_dir(file_table, old, current_dir_inode)
      code == RenameError(old, new)
  IN  /\ up
      /\ \/ code # 0 /\ Refuse(code)
         \/ /\ code = 0
            /\ file_table' = [file_table EXCEPT ![i].name = new]
            /\ Return(0)
            /\ UNCHANGED <<up, current_dir_inode, storage, written>>

bdfs_rename_file(old, new) ==
  LET i == find_entry_in_dir(file_table, old, current_dir_inode)
      t == [file_table EXCEPT ![i].name = new]
      code == RenameError(old, new)
  IN  /\ up
      /\ \/ code # 0 /\ Refuse(code)
         \/ /\ code = 0
            /\ file_table' = t
            /\ Sync(t, stored_data)
            /\ Return(0)
            /\ UNCHANGED <<up, current_dir_inode, written>>

\* Fault: any entry is a directory.
ChdirTargetUntyped(name) ==
  LET i == find_entry_in_dir(file_table, name, current_dir_inode)
  IN  IF name = "." THEN current_dir_inode
      ELSE IF name = ".." /\ current_dir_inode = 0 THEN 0
      ELSE IF name = ".." THEN file_table[current_dir_inode].parent_inode
      ELSE i

\* The directory bdfs_chdir() moves to, or its error code.
ChdirTarget(name) ==
  LET i == find_entry_in_dir(file_table, name, current_dir_inode)
  IN  IF name = "." THEN current_dir_inode
      ELSE IF name = ".." /\ current_dir_inode = 0 THEN 0
      ELSE IF name = ".." THEN file_table[current_dir_inode].parent_inode
      ELSE IF i = -1 THEN -1
      ELSE IF file_table[i].type # "directory" THEN -2
      ELSE i

bdfs_chdir(name) ==
  /\ up
  /\ \/ ChdirTarget(name) < 0 /\ Refuse(ChdirTarget(name))
     \/ /\ ChdirTarget(name) >= 0
        /\ current_dir_inode' = ChdirTarget(name)
        /\ Return(0)
        /\ UNCHANGED <<up, file_table, storage, written>>

\* Where the bytes go: a file of length 0 is placed behind the last live
\* file, any other file stays where it is.
WriteStart(i) ==
  IF file_table[i].length = 0 THEN find_free_sector(file_table)
                              ELSE file_table[i].start_sector

\* Fault: a file that has sectors may grow as far as the RAM disk goes.
WriteFitsGrowing(i, buffer) ==
  WriteStart(i) + Sectors(Len(buffer)) <= DataSectors

\* Fault: the space check forgets where the file starts.
WriteFitsFromZero(i, buffer) ==
  IF file_table[i].length = 0
  THEN Sectors(Len(buffer)) <= DataSectors
  ELSE Sectors(Len(buffer)) <= Sectors(file_table[i].length)

\* Is there room: up to the end of the RAM disk for a file of length 0, in
\* the sectors it has for any other.
WriteFits(i, buffer) ==
  IF file_table[i].length = 0
  THEN find_free_sector(file_table) + Sectors(Len(buffer)) <= DataSectors
  ELSE Sectors(Len(buffer)) <= Sectors(file_table[i].length)

WriteError(i, buffer) ==
  IF i = -1 THEN -1
  ELSE IF file_table[i].type # "file" THEN -3
  ELSE IF ~WriteFits(i, buffer) THEN -2
  ELSE 0

bdfs_write_file(name, buffer) ==
  LET i == find_entry_in_dir(file_table, name, current_dir_inode)
      code == WriteError(i, buffer)
      t == [file_table EXCEPT ![i].start_sector = WriteStart(i),
                              ![i].length = Len(buffer)]
  IN  /\ up
      /\ \/ code # 0 /\ Refuse(code)
         \/ /\ code = 0
            /\ file_table' = t
            /\ Sync(t, Copied(stored_data, WriteStart(i), buffer))
            /\ written' = [written EXCEPT ![i] = buffer]
            /\ Return(Len(buffer))
            /\ UNCHANGED <<up, current_dir_inode>>

bdfs_read_file(name) ==
  LET i == find_entry_in_dir(file_table, name, current_dir_inode)
  IN  /\ up
      /\ \/ i = -1 /\ Refuse(-1)
         \/ i # -1 /\ file_table[i].type # "file" /\ Refuse(-2)
         \/ /\ i # -1 /\ file_table[i].type = "file"
            /\ ret' = [code |-> 0, bytes |-> FileBytes(file_table, stored_data, i)]
            /\ UNCHANGED <<up, file_table, current_dir_inode, storage, written>>

\* reboot_command() pulses the reset line.  RAM keeps its content or not:
\* the kernel is loaded again, and nothing clears its .bss section.
Reset(kept) ==
  /\ up
  /\ up' = FALSE
  /\ stored_magic' = (stored_magic /\ kept)
  /\ UNCHANGED <<file_table, current_dir_inode, stored_table, stored_data, ret, written>>

Call ==
  \E name \in ArgName :
    \/ bdfs_create_file(name)
    \/ bdfs_mkdir(name)
    \/ bdfs_delete_file(name)
    \/ \E new \in ArgName : bdfs_rename_file(name, new)
    \/ bdfs_chdir(name)
    \/ \E buffer \in Buffer : bdfs_write_file(name, buffer)
    \/ bdfs_read_file(name)

Next == bdfs_init \/ Call \/ \E kept \in BOOLEAN : Reset(kept)

Spec == Init /\ [][Next]_vars

-----------------------------------------------------------------------------
(* Properties                                                              *)

\* Every variable has its C type: in particular an entry's name fits its
\* 16-byte array, which strcpy() itself never checks.
TypeOK ==
  /\ up \in BOOLEAN
  /\ file_table \in [Inode -> Entry]
  /\ current_dir_inode \in Inode
  /\ stored_magic \in BOOLEAN
  /\ stored_table \in [Inode -> Entry]
  /\ stored_data \in [Position -> Nat]
  /\ ret \in [code : Int, bytes : Seq(Nat)]
  /\ written \in [Inode -> Seq(Nat)]


\* At most one live entry answers to a name in a directory, so the first hit
\* of find_entry_in_dir() is the only one, whatever creations, renames,
\* deletions and restarts came before.
UniqueNames ==
  \A i, j \in Inode :
    /\ Live(file_table, i) /\ Live(file_table, j)
    /\ file_table[i].parent_inode = file_table[j].parent_inode
    /\ file_table[i].name = file_table[j].name
    => i = j

Extent(i) == file_table[i].start_sector .. (EndSector(file_table, i) - 1)

\* No sector belongs to two live files, although find_free_sector() keeps no
\* free list and deletions, truncations and rewrites never clear a
\* start_sector.
ExtentsDisjoint ==
  \A i, j \in Inode :
    IsFile(file_table, i) /\ IsFile(file_table, j) /\ i # j
      => Extent(i) \cap Extent(j) = {}

\* No live file reaches past the end of bdfs_storage.
ExtentsInBounds ==
  \A i \in Inode : IsFile(file_table, i) => EndSector(file_table, i) <= DataSectors

\* bdfs_read_file() returns exactly the cells last written to the file, cell
\* 0 of the data region excepted (see ReadBack), whatever happened to other
\* files since and across restarts.
ContentIntegrity ==
  \A i \in Inode :
    IsFile(file_table, i) =>
      /\ file_table[i].length = Len(written[i])
      /\ \A k \in 1..file_table[i].length :
           LET p == file_table[i].start_sector * SectorSize + k - 1
           IN  p # 0 => stored_data[p] = written[i][k]

\* After every call the copy in bdfs_storage, its last cell in the data
\* region included, is what a restart has to load to find the working table
\* again; no call forgets to synchronise it.
ReloadIsCurrent ==
  /\ up => stored_magic
  /\ stored_magic => LoadedTable = file_table

ClosedUnderParent(S) == \A i \in S : file_table[i].parent_inode \in S

\* `cd ..' always leads back to the root, through live directories only:
\* bdfs_delete_file() may drop whole subtrees and find_free_entry() hand
\* their entries out again, but never the working directory's ancestors.
\* (For callers that do not name the root itself: `rm /' deletes it.)
CwdReachesRoot ==
  up =>
    /\ \A S \in SUBSET Inode :
         current_dir_inode \in S /\ ClosedUnderParent(S) => 0 \in S
    /\ \E S \in SUBSET Inode :
         /\ current_dir_inode \in S /\ ClosedUnderParent(S)
         /\ \A i \in S : IsDir(file_table, i)

\* The items of a table, as Namespace sees them.
TreeOf(t) ==
  {[dir |-> t[i].parent_inode, name |-> t[i].name, kind |-> t[i].type,
    id |-> i, size |-> t[i].length] : i \in {j \in Inode : Live(t, j)}}

NS == INSTANCE Namespace WITH
        Name <- ArgName, Id <- Inode, RootId <- 0, DefaultTree <- TreeOf(FreshTable),
        Size <- {Len(b) : b \in Buffer},
        on <- up, intact <- stored_magic, tree <- TreeOf(LoadedTable),
        cwd <- current_dir_inode

\* Every call of bdfs.c does to the names, as a restart would find them in
\* bdfs_storage, what Namespace allows: it changes at most the one item of the
\* working directory it names, and only a restart that lost RAM loses items.
ImplementsNamespace == NS!NsSpec

-----------------------------------------------------------------------------
(* What comments and documentation say, and the code does not keep         *)

\* "First BDFS_FILE_TABLE_SECTORS * 512 bytes: File table (with magic number)
\* - The rest: File data": a file reads back as it was written.
ReadBack ==
  \A i \in Inode :
    IsFile(file_table, i) => FileBytes(file_table, stored_data, i) = written[i]
=============================================================================
