----------------------------- MODULE BdfsProofs -----------------------------
(***************************************************************************)
(* Proofs about Bdfs, for any table size, RAM disk size, set of names and  *)
(* set of buffers.                                                         *)
(***************************************************************************)
EXTENDS Bdfs, WellFoundedInduction, TLAPS

-----------------------------------------------------------------------------
(* Least elements, and the two scans of the table                          *)

\* A set of naturals that is not empty has a least element.
LEMMA LeastElement ==
  ASSUME NEW S \in SUBSET Nat, S # {}
  PROVE  \E x \in S : \A y \in S : x <= y
<1>1. IsWellFoundedOn(OpToRel(<, Nat), Nat)
  BY NatLessThanWellFounded
<1>2. PICK x \in S : \A y \in S : ~(<<y, x>> \in OpToRel(<, Nat))
  BY <1>1, WFMin
<1>3. \A y \in S : ~(y < x)
  BY <1>2 DEF OpToRel
<1> QED
  BY <1>3

\* FirstOf, the result of a scan over the table, is an element of the set
\* scanned for, or -1 when there is none.
LEMMA FirstOfResult ==
  ASSUME NEW S \in SUBSET Inode
  PROVE  (S = {} /\ FirstOf(S) = -1) \/ (FirstOf(S) \in S /\ FirstOf(S) # -1)
<1>1. CASE S = {}
  BY <1>1 DEF FirstOf
<1>2. CASE S # {}
  <2>1. S \in SUBSET Nat
    BY SizesAssumption DEF Inode
  <2>2. \E x \in S : \A y \in S : x <= y
    BY <1>2, <2>1, LeastElement
  <2>3. Min(S) \in S
    BY <2>2 DEF Min
  <2> QED
    BY <1>2, <2>1, <2>3 DEF FirstOf
<1> QED
  BY <1>1, <1>2

\* find_entry_in_dir() returns a live entry of the directory with the name
\* asked for, or -1 when the directory has none.
LEMMA FindEntryResult ==
  ASSUME NEW t, NEW name, NEW dir,
         NEW i, i = find_entry_in_dir(t, name, dir)
  PROVE  \/ /\ i \in Inode /\ i # -1
            /\ Live(t, i) /\ t[i].parent_inode = dir /\ t[i].name = name
         \/ /\ i = -1
            /\ \A j \in Inode :
                 ~(Live(t, j) /\ t[j].parent_inode = dir /\ t[j].name = name)
<1> DEFINE S == {j \in Inode : Live(t, j) /\ t[j].parent_inode = dir /\ t[j].name = name}
<1>1. i = FirstOf(S)
  BY DEF find_entry_in_dir
<1>2. S \in SUBSET Inode
  OBVIOUS
<1>3. (S = {} /\ FirstOf(S) = -1) \/ (FirstOf(S) \in S /\ FirstOf(S) # -1)
  BY <1>2, FirstOfResult
<1> QED
  BY <1>1, <1>3

\* find_free_entry() returns an entry that is not live, or -1 when all are.
LEMMA FreeEntryResult ==
  ASSUME NEW t, NEW i, i = find_free_entry(t)
  PROVE  \/ i \in Inode /\ i # -1 /\ ~Live(t, i)
         \/ i = -1 /\ \A j \in Inode : Live(t, j)
<1> DEFINE S == {j \in Inode : ~Live(t, j)}
<1>1. i = FirstOf(S)
  BY DEF find_free_entry
<1>2. S \in SUBSET Inode
  OBVIOUS
<1>3. (S = {} /\ FirstOf(S) = -1) \/ (FirstOf(S) \in S /\ FirstOf(S) # -1)
  BY <1>2, FirstOfResult
<1> QED
  BY <1>1, <1>3

-----------------------------------------------------------------------------
(* Sectors                                                                 *)

\* The sectors of a file hold all of its cells, and a file without cells has
\* none.
LEMMA SectorsResult ==
  ASSUME NEW n \in Nat
  PROVE  /\ Sectors(n) \in Nat
         /\ n <= Sectors(n) * SectorSize
         /\ n > 0 => Sectors(n) > 0
<1>1. SectorSize \in Nat /\ SectorSize > 0
  BY SizesAssumption
<1> QED
  BY <1>1 DEF Sectors

\* The cells of n cells stored in q sectors from sector s on lie in the data
\* region when those sectors do.
LEMMA ExtentCells ==
  ASSUME NEW s \in Nat, NEW q \in Nat, NEW n \in Nat, NEW S \in Nat, NEW D \in Nat,
         n <= q * S, s + q <= D
  PROVE  \A k \in 1..n : s * S + k - 1 \in 0..(D * S - 1)
<1>1. s * S \in Nat /\ q * S \in Nat /\ D * S \in Nat
  OBVIOUS
<1>2. s * S + q * S <= D * S
  <2>1. (s + q) * S <= D * S
    OBVIOUS
  <2>2. (s + q) * S = s * S + q * S
    OBVIOUS
  <2> QED
    BY <2>1, <2>2
<1>3. ASSUME NEW a \in Nat, NEW b \in Nat, NEW c \in Nat, n <= b, a + b <= c
      PROVE  \A k \in 1..n : a + k - 1 \in 0..(c - 1)
  BY <1>3
<1> QED
  BY <1>1, <1>2, <1>3

\* Two extents that share no sector share no cell.
LEMMA ExtentsApart ==
  ASSUME NEW s \in Nat, NEW q \in Nat, NEW n \in Nat,
         NEW r \in Nat, NEW v \in Nat, NEW m \in Nat, NEW S \in Nat,
         n <= q * S, m <= v * S,
         (s .. (s + q - 1)) \cap (r .. (r + v - 1)) = {},
         NEW k \in 1..m
  PROVE  (r * S + k - 1) - s * S + 1 \notin 1..n
<1>1. CASE n = 0
  BY <1>1
<1>2. CASE n # 0
  <2>1. q > 0 /\ v > 0
    BY <1>2
  <2>2. s + q <= r \/ r + v <= s
    <3>1. SUFFICES ASSUME s + q > r, r + v > s PROVE FALSE
      OBVIOUS
    <3>2. CASE s <= r
      BY <2>1, <3>1, <3>2
    <3>3. CASE r <= s
      BY <2>1, <3>1, <3>3
    <3> QED
      BY <3>2, <3>3
  <2>3. s * S \in Nat /\ r * S \in Nat /\ q * S \in Nat /\ v * S \in Nat
    OBVIOUS
  <2>4. CASE s + q <= r
    <3>1. (s + q) * S <= r * S /\ (s + q) * S = s * S + q * S
      BY <2>4
    <3>2. ASSUME NEW a \in Nat, NEW b \in Nat, NEW c \in Nat, n <= b, a + b <= c
          PROVE  (c + k - 1) - a + 1 \notin 1..n
      BY <3>2
    <3> QED
      BY <2>3, <3>1, <3>2
  <2>5. CASE r + v <= s
    <3>1. (r + v) * S <= s * S /\ (r + v) * S = r * S + v * S
      BY <2>5
    <3>2. ASSUME NEW a \in Nat, NEW b \in Nat, NEW c \in Nat, m <= b, c + b <= a
          PROVE  (c + k - 1) - a + 1 \notin 1..n
      BY <3>2
    <3> QED
      BY <2>3, <3>1, <3>2
  <2> QED
    BY <2>2, <2>4, <2>5
<1> QED
  BY <1>1, <1>2

\* As long as every file ends inside the RAM disk, find_free_sector() returns
\* a sector of it, or its end, at or behind the end of every live file.
LEMMA FreeSectorResult ==
  ASSUME NEW t \in [Inode -> Entry],
         \A i \in Inode : IsFile(t, i) => EndSector(t, i) <= DataSectors,
         NEW s, s = find_free_sector(t)
  PROVE  /\ s \in Nat /\ s <= DataSectors
         /\ \A i \in Inode : IsFile(t, i) => EndSector(t, i) <= s
<1> DEFINE E == {EndSector(t, i) : i \in {j \in Inode : IsFile(t, j)}}
           S == {0} \cup E
           U == {u \in Nat : \A x \in S : x <= u}
<1>0. DataSectors \in Nat
  BY SizesAssumption
<1>1. \A i \in Inode : EndSector(t, i) \in Nat
  <2> TAKE i \in Inode
  <2>1. t[i].start_sector \in Nat /\ t[i].length \in Nat
    BY DEF Entry
  <2> QED
    BY <2>1, SectorsResult DEF EndSector
<1>2. S \in SUBSET Nat
  BY <1>1
<1>3. DataSectors \in U
  BY <1>0
<1>4. PICK u \in U : \A v \in U : u <= v
  <2>1. U \in SUBSET Nat /\ U # {}
    BY <1>3
  <2> QED
    BY <2>1, LeastElement
<1>5. u \in S
  <2>1. SUFFICES ASSUME u \notin S PROVE FALSE
    OBVIOUS
  <2>2. u \in Nat /\ u # 0
    BY <2>1, <1>4
  <2>3. \A x \in S : x <= u - 1
    BY <2>1, <2>2, <1>2, <1>4
  <2>4. u - 1 \in U
    BY <2>2, <2>3
  <2> QED
    BY <2>2, <2>4, <1>4
<1>6. \A x \in S : x <= u
  BY <1>4
<1>7. s = u
  <2>1. s = CHOOSE x \in S : \A y \in S : x >= y
    BY DEF find_free_sector, Max
  <2>2. u \in S /\ \A y \in S : u >= y
    BY <1>2, <1>5, <1>6
  <2>3. s \in S /\ \A y \in S : s >= y
    BY <2>1, <2>2
  <2> QED
    BY <1>2, <2>2, <2>3
<1>8. u <= DataSectors
  BY <1>3, <1>4
<1> QED
  BY <1>4, <1>6, <1>7, <1>8

-----------------------------------------------------------------------------
(* The inductive invariant: none of its parts is inductive without the     *)
(* others.  That a new file overlaps no other needs every file to end      *)
(* inside the RAM disk, that its content survives needs the extents to be  *)
(* disjoint, and all of them need the table a restart loads to be the      *)
(* table in use.                                                           *)

Inv ==
  /\ TypeOK
  /\ ReloadIsCurrent
  /\ ExtentsInBounds
  /\ ExtentsDisjoint
  /\ ContentIntegrity

\* What bdfs_sync_file_table() leaves behind is what a restart loads, and it
\* changes no cell of the data region but cell 0.
LEMMA SyncResult ==
  ASSUME NEW t \in [Inode -> Entry], NEW d \in [Position -> Nat],
         Sync(t, d), file_table' = t
  PROVE  /\ stored_magic' = TRUE
         /\ stored_table' \in [Inode -> Entry]
         /\ stored_data' \in [Position -> Nat]
         /\ ReloadIsCurrent'
         /\ \A p \in Position : p # 0 => stored_data'[p] = d[p]
<1>1. LastInode \in Inode /\ 0 \in Position
  BY SizesAssumption DEF Inode, LastInode, Position
<1>2. t[LastInode] \in Entry /\ t[LastInode].length \in Nat
  BY <1>1 DEF Entry
<1>3. stored_data' = [d EXCEPT ![0] = t[LastInode].length]
  BY DEF Sync, Spill
<1>4. stored_table' = [t EXCEPT ![LastInode].length = 0]
  BY DEF Sync
<1>5. stored_table' \in [Inode -> Entry]
  BY <1>1, <1>2, <1>4 DEF Entry
<1>6. stored_data' \in [Position -> Nat]
  BY <1>1, <1>2, <1>3
<1>7. stored_data'[0] = t[LastInode].length
  BY <1>1, <1>3
<1>8. [stored_table' EXCEPT ![LastInode].length = stored_data'[0]] = t
  BY <1>1, <1>2, <1>4, <1>7 DEF Entry
<1>9. stored_magic' = TRUE
  BY DEF Sync
<1> QED
  BY <1>1, <1>3, <1>5, <1>6, <1>8, <1>9 DEF ReloadIsCurrent, LoadedTable

\* A step keeps the three facts about files when every live file after it
\* either was one before, with the same extent and content, or has no cells.
LEMMA FilesKept ==
  ASSUME TypeOK, TypeOK', ExtentsInBounds, ExtentsDisjoint, ContentIntegrity,
         \A p \in Position : p # 0 => stored_data'[p] = stored_data[p],
         \A i \in Inode : IsFile(file_table', i) =>
           \/ /\ IsFile(file_table, i)
              /\ file_table'[i].start_sector = file_table[i].start_sector
              /\ file_table'[i].length = file_table[i].length
              /\ written'[i] = written[i]
           \/ /\ file_table'[i].start_sector = 0
              /\ file_table'[i].length = 0
              /\ written'[i] = <<>>
  PROVE  ExtentsInBounds' /\ ExtentsDisjoint' /\ ContentIntegrity'
<1> DEFINE Kept(i) == /\ IsFile(file_table, i)
                      /\ file_table'[i].start_sector = file_table[i].start_sector
                      /\ file_table'[i].length = file_table[i].length
                      /\ written'[i] = written[i]
           Empty(i) == /\ file_table'[i].start_sector = 0
                       /\ file_table'[i].length = 0
                       /\ written'[i] = <<>>
<1>0. SectorSize \in Nat /\ SectorSize > 0 /\ DataSectors \in Nat
  BY SizesAssumption
<1>1. Sectors(0) = 0
  BY <1>0 DEF Sectors
<1>2. \A i \in Inode : Empty(i) => EndSector(file_table', i) = 0
  BY <1>1 DEF EndSector
<1>3. \A i \in Inode : Kept(i) => EndSector(file_table', i) = EndSector(file_table, i)
  BY DEF EndSector
<1>4. ExtentsInBounds'
  BY <1>0, <1>2, <1>3 DEF ExtentsInBounds
<1>5. ExtentsDisjoint'
  <2> SUFFICES ASSUME NEW i \in Inode, NEW j \in Inode, i # j,
                      IsFile(file_table', i), IsFile(file_table', j)
               PROVE  Extent(i)' \cap Extent(j)' = {}
    BY DEF ExtentsDisjoint
  <2>1. \A k \in Inode : Empty(k) => Extent(k)' = {}
    BY <1>2 DEF Extent
  <2>2. \A k \in Inode : Kept(k) => Extent(k)' = Extent(k)
    BY <1>3 DEF Extent
  <2> QED
    BY <2>1, <2>2 DEF ExtentsDisjoint
<1>6. ContentIntegrity'
  <2> SUFFICES ASSUME NEW i \in Inode, IsFile(file_table', i)
               PROVE  /\ file_table'[i].length = Len(written'[i])
                      /\ \A k \in 1..file_table'[i].length :
                           LET p == file_table'[i].start_sector * SectorSize + k - 1
                           IN  p # 0 => stored_data'[p] = written'[i][k]
    BY DEF ContentIntegrity
  <2>1. CASE Empty(i)
    BY <2>1
  <2>2. CASE Kept(i)
    <3> DEFINE len == file_table[i].length
               base == file_table[i].start_sector * SectorSize
    <3>1. len \in Nat /\ file_table[i].start_sector \in Nat
      BY DEF TypeOK, Entry
    <3>2. len <= Sectors(len) * SectorSize /\ Sectors(len) \in Nat
      BY <3>1, SectorsResult
    <3>3. file_table[i].start_sector + Sectors(len) <= DataSectors
      BY <2>2 DEF ExtentsInBounds, EndSector
    <3>6. \A k \in 1..len : base + k - 1 \in Position
      BY <3>1, <3>2, <3>3, <1>0, ExtentCells DEF Position
    <3>7. /\ len = Len(written[i])
          /\ \A k \in 1..len : base + k - 1 # 0 => stored_data[base + k - 1] = written[i][k]
      BY <2>2 DEF ContentIntegrity
    <3> QED
      BY <2>2, <3>6, <3>7
  <2> QED
    BY <2>1, <2>2
<1> QED
  BY <1>4, <1>5, <1>6

-----------------------------------------------------------------------------
(* Init and the actions, one lemma each                                    *)

\* At power-on there is no live entry, so Inv holds.
LEMMA InitInv == Init => Inv
<1> SUFFICES ASSUME Init PROVE Inv
  OBVIOUS
<1>1. 0 \in Inode
  BY SizesAssumption DEF Inode
<1>2. EmptyEntry \in Entry
  BY <1>1, ArgumentsAssumption DEF EmptyEntry, Entry, FittingName
<1>3. TypeOK
  BY <1>1, <1>2 DEF Init, TypeOK
<1>4. \A i \in Inode : ~IsFile(file_table, i)
  BY DEF Init, EmptyEntry, IsFile, Live
<1>5. ReloadIsCurrent
  BY DEF Init, ReloadIsCurrent
<1> QED
  BY <1>3, <1>4, <1>5
     DEF Inv, ExtentsInBounds, ExtentsDisjoint, ContentIntegrity

\* A refused call changes nothing but ret.
LEMMA RefuseInv ==
  ASSUME Inv, NEW code \in Int, Refuse(code)
  PROVE  Inv'
<1>1. /\ UNCHANGED <<up, file_table, current_dir_inode, stored_magic, stored_table,
                     stored_data, written>>
      /\ ret' = [code |-> code, bytes |-> <<>>]
  BY DEF Refuse, Return, storage
<1>2. TypeOK'
  BY <1>1 DEF Inv, TypeOK
<1>3. ReloadIsCurrent'
  BY <1>1 DEF Inv, ReloadIsCurrent, LoadedTable
<1>4. ExtentsInBounds' /\ ExtentsDisjoint' /\ ContentIntegrity'
  BY <1>1 DEF Inv, ExtentsInBounds, ExtentsDisjoint, ContentIntegrity, Extent
<1> QED
  BY <1>2, <1>3, <1>4 DEF Inv

\* The root and the default directories of bdfs_init() are well-typed entries.
LEMMA FreshTableType == FreshTable \in [Inode -> Entry]
<1> SUFFICES ASSUME NEW i \in Inode PROVE FreshTable[i] \in Entry
  BY DEF FreshTable
<1>1. 0 \in Inode /\ i \in Nat
  BY SizesAssumption DEF Inode
<1>2. CASE i = 0
  BY <1>1, <1>2, ArgumentsAssumption
     DEF FreshTable, NewEntry, EmptyEntry, Entry, FittingName
<1>3. CASE i # 0 /\ i <= Len(DefaultDirs)
  <2>0. Len(DefaultDirs) \in 0..(MaxFiles - 1) /\ MaxFiles \in Nat
    BY SizesAssumption, DefaultDirsAssumption, Zenon
  <2>1. i \in 1..Len(DefaultDirs) /\ Len(DefaultDirs) \in Nat
    BY <1>1, <1>3, <2>0
  <2>2. DefaultDirs[i].name \in FittingName
    BY <2>1, DefaultDirsAssumption DEF FittingName
  <2>3. DefaultDirs[i].parent \in Inode
    <3>1. DefaultDirs[i].parent \in 0..(i - 1)
      BY <2>1, DefaultDirsAssumption, Zenon
    <3> QED
      BY <3>1, <1>1, <2>0 DEF Inode
  <2> QED
    BY <1>1, <1>3, <2>2, <2>3 DEF FreshTable, NewEntry, EmptyEntry, Entry
<1>4. CASE i # 0 /\ ~(i <= Len(DefaultDirs))
  BY <1>1, <1>4, ArgumentsAssumption DEF FreshTable, EmptyEntry, Entry, FittingName
<1> QED
  BY <1>2, <1>3, <1>4

\* What bdfs_init() copies back from bdfs_storage is a well-typed table.
LEMMA LoadedTableType ==
  ASSUME TypeOK
  PROVE  LoadedTable \in [Inode -> Entry]
<1>1. LastInode \in Inode /\ 0 \in Position
  BY SizesAssumption DEF Inode, LastInode, Position
<1>2. stored_data[0] \in Nat
  BY <1>1 DEF TypeOK
<1> QED
  BY <1>1, <1>2 DEF TypeOK, LoadedTable, Entry

\* bdfs_init() keeps Inv, whether it makes a file system or loads one.
LEMMA bdfs_initInv ==
  ASSUME Inv, bdfs_init
  PROVE  Inv'
<1>1. TypeOK /\ ReloadIsCurrent
  BY DEF Inv
<1>2. up' = TRUE /\ current_dir_inode' = 0 /\ ret' = [code |-> 0, bytes |-> <<>>]
  BY DEF bdfs_init, Return
<1>3. 0 \in Inode
  BY SizesAssumption DEF Inode
<1>4. CASE /\ ~stored_magic
           /\ file_table' = FreshTable
           /\ Sync(FreshTable, stored_data)
           /\ written' = [i \in Inode |-> <<>>]
  <2>1. FreshTable \in [Inode -> Entry] /\ stored_data \in [Position -> Nat]
    BY <1>1, FreshTableType DEF TypeOK
  <2>2. /\ stored_magic' = TRUE
        /\ stored_table' \in [Inode -> Entry]
        /\ stored_data' \in [Position -> Nat]
        /\ ReloadIsCurrent'
    BY <1>4, <2>1, SyncResult
  <2>3. TypeOK'
    BY <1>2, <1>3, <1>4, <2>1, <2>2 DEF TypeOK
  <2>4. \A i \in Inode : ~IsFile(file_table', i)
    BY <1>4 DEF FreshTable, NewEntry, EmptyEntry, IsFile, Live
  <2>5. ExtentsInBounds' /\ ExtentsDisjoint' /\ ContentIntegrity'
    BY <2>4 DEF ExtentsInBounds, ExtentsDisjoint, ContentIntegrity
  <2> QED
    BY <2>2, <2>3, <2>5 DEF Inv
<1>5. CASE /\ stored_magic
           /\ file_table' = LoadedTable
           /\ UNCHANGED <<storage, written>>
  <2>1. file_table' = file_table
    BY <1>1, <1>5 DEF ReloadIsCurrent
  <2>2. UNCHANGED <<stored_magic, stored_table, stored_data, written>>
    BY <1>5 DEF storage
  <2>3. TypeOK'
    BY <1>1, <1>2, <1>3, <2>1, <2>2 DEF TypeOK
  <2>4. ReloadIsCurrent'
    BY <1>1, <1>5, <2>1, <2>2 DEF ReloadIsCurrent, LoadedTable
  <2>5. ExtentsInBounds' /\ ExtentsDisjoint' /\ ContentIntegrity'
    BY <2>1, <2>2 DEF Inv, ExtentsInBounds, ExtentsDisjoint, ContentIntegrity, Extent
  <2> QED
    BY <2>3, <2>4, <2>5 DEF Inv
<1> QED
  BY <1>4, <1>5 DEF bdfs_init

\* bdfs_create_file() and bdfs_mkdir() keep Inv: the entry taken is free, and
\* the file in it has no cells.
LEMMA CreateInv ==
  ASSUME Inv, NEW name \in ArgName, NEW type \in {"file", "directory"},
         Create(name, type)
  PROVE  Inv'
<1> DEFINE code == CreateError(file_table, name, current_dir_inode)
           f == find_free_entry(file_table)
           t == Created(file_table, name, type, current_dir_inode)
<1>1. TypeOK /\ ExtentsInBounds /\ ExtentsDisjoint /\ ContentIntegrity
  BY DEF Inv
<1>2. CASE code # 0 /\ Refuse(code)
  <2>1. code \in Int
    BY DEF CreateError
  <2> QED
    BY <1>2, <2>1, RefuseInv
<1>3. CASE /\ code = 0
           /\ file_table' = t
           /\ Sync(t, stored_data)
           /\ written' = [written EXCEPT ![f] = <<>>]
           /\ Return(0)
           /\ UNCHANGED <<up, current_dir_inode>>
  <2>1. name \notin LongName /\ f # -1
    BY <1>3 DEF CreateError
  <2>2. f \in Inode /\ ~Live(file_table, f)
    BY <2>1, FreeEntryResult
  <2>3. NewEntry(name, type, current_dir_inode) \in Entry
    BY <1>1, <2>1 DEF NewEntry, EmptyEntry, Entry, FittingName, TypeOK
  <2>4. t \in [Inode -> Entry] /\ stored_data \in [Position -> Nat]
    BY <1>1, <2>2, <2>3 DEF TypeOK, Created
  <2>5. /\ stored_magic' = TRUE
        /\ stored_table' \in [Inode -> Entry]
        /\ stored_data' \in [Position -> Nat]
        /\ ReloadIsCurrent'
        /\ \A p \in Position : p # 0 => stored_data'[p] = stored_data[p]
    BY <1>3, <2>4, SyncResult
  <2>6. TypeOK'
    <3>1. written' \in [Inode -> Seq(Nat)]
      BY <1>1, <1>3, <2>2 DEF TypeOK
    <3>2. ret' \in [code : Int, bytes : Seq(Nat)]
      BY <1>3 DEF Return
    <3>3. file_table' \in [Inode -> Entry] /\ up' \in BOOLEAN /\ current_dir_inode' \in Inode
      BY <1>1, <1>3, <2>4 DEF TypeOK
    <3> QED
      BY <3>1, <3>2, <3>3, <2>5 DEF TypeOK
  <2>7. ASSUME NEW i \in Inode, IsFile(file_table', i)
        PROVE  \/ /\ IsFile(file_table, i)
                  /\ file_table'[i].start_sector = file_table[i].start_sector
                  /\ file_table'[i].length = file_table[i].length
                  /\ written'[i] = written[i]
               \/ /\ file_table'[i].start_sector = 0
                  /\ file_table'[i].length = 0
                  /\ written'[i] = <<>>
    <3>1. CASE i = f
      BY <3>1, <1>1, <1>3, <2>2 DEF Created, NewEntry, EmptyEntry, TypeOK
    <3>2. CASE i # f
      <4>1. file_table'[i] = file_table[i] /\ written'[i] = written[i]
        BY <3>2, <1>1, <1>3, <2>2 DEF Created, TypeOK
      <4> QED
        BY <4>1, <2>7 DEF IsFile, Live
    <3> QED
      BY <3>1, <3>2
  <2>8. ExtentsInBounds' /\ ExtentsDisjoint' /\ ContentIntegrity'
    BY <1>1, <2>5, <2>6, <2>7, FilesKept
  <2> QED
    BY <2>5, <2>6, <2>8 DEF Inv
<1> QED
  BY <1>2, <1>3 DEF Create

\* Changing the name of a live entry, to a new one or to none, as
\* bdfs_rename_file() and bdfs_delete_file() do.
LEMMA NameChangeInv ==
  ASSUME Inv, NEW i \in Inode, Live(file_table, i), NEW name \in FittingName,
         NEW t, t = [file_table EXCEPT ![i].name = name],
         file_table' = t, Sync(t, stored_data), Return(0),
         UNCHANGED <<up, current_dir_inode, written>>
  PROVE  Inv'
<1>1. TypeOK /\ ExtentsInBounds /\ ExtentsDisjoint /\ ContentIntegrity
  BY DEF Inv
<1>2. file_table \in [Inode -> Entry] /\ stored_data \in [Position -> Nat]
  BY <1>1 DEF TypeOK
<1>3. [file_table[i] EXCEPT !.name = name] \in Entry
  BY <1>2 DEF Entry
<1>4. t \in [Inode -> Entry]
  BY <1>2, <1>3
<1>5. /\ stored_magic' = TRUE
      /\ stored_table' \in [Inode -> Entry]
      /\ stored_data' \in [Position -> Nat]
      /\ ReloadIsCurrent'
      /\ \A p \in Position : p # 0 => stored_data'[p] = stored_data[p]
  BY <1>2, <1>4, SyncResult
<1>6. TypeOK'
  <2>1. ret' \in [code : Int, bytes : Seq(Nat)]
    BY DEF Return
  <2> QED
    BY <1>1, <1>4, <1>5, <2>1 DEF TypeOK
<1>7. \A j \in Inode : /\ t[j].type = file_table[j].type
                       /\ t[j].start_sector = file_table[j].start_sector
                       /\ t[j].length = file_table[j].length
                       /\ j # i => t[j].name = file_table[j].name
  BY <1>2 DEF Entry
<1>8. ASSUME NEW j \in Inode, IsFile(file_table', j)
      PROVE  /\ IsFile(file_table, j)
             /\ file_table'[j].start_sector = file_table[j].start_sector
             /\ file_table'[j].length = file_table[j].length
             /\ written'[j] = written[j]
  BY <1>7, <1>8 DEF IsFile, Live
<1>9. ExtentsInBounds' /\ ExtentsDisjoint' /\ ContentIntegrity'
  BY <1>1, <1>5, <1>6, <1>8, FilesKept
<1> QED
  BY <1>5, <1>6, <1>9 DEF Inv

\* bdfs_delete_file() keeps Inv.
LEMMA bdfs_delete_fileInv ==
  ASSUME Inv, NEW name \in ArgName, bdfs_delete_file(name)
  PROVE  Inv'
<1> DEFINE i == find_entry_in_dir(file_table, name, current_dir_inode)
           t == [file_table EXCEPT ![i].name = ""]
<1>1. CASE i = -1 /\ Refuse(-1)
  BY <1>1, RefuseInv
<1>2. CASE /\ i # -1
           /\ file_table' = t
           /\ Sync(t, stored_data)
           /\ Return(0)
           /\ UNCHANGED <<up, current_dir_inode, written>>
  <2>1. "" \in FittingName
    BY ArgumentsAssumption DEF FittingName
  <2>2. i \in Inode /\ Live(file_table, i)
    <3>1. i # -1
      BY <1>2
    <3> QED
      BY <3>1, FindEntryResult
  <2> QED
    BY <1>2, <2>1, <2>2, NameChangeInv
<1> QED
  BY <1>1, <1>2 DEF bdfs_delete_file

\* bdfs_rename_file() keeps Inv: the new name fits.
LEMMA bdfs_rename_fileInv ==
  ASSUME Inv, NEW old \in ArgName, NEW new \in ArgName, bdfs_rename_file(old, new)
  PROVE  Inv'
<1> DEFINE i == find_entry_in_dir(file_table, old, current_dir_inode)
           t == [file_table EXCEPT ![i].name = new]
           code == RenameError(old, new)
<1>1. CASE code # 0 /\ Refuse(code)
  <2>1. code \in Int
    BY DEF RenameError
  <2> QED
    BY <1>1, <2>1, RefuseInv
<1>2. CASE /\ code = 0
           /\ file_table' = t
           /\ Sync(t, stored_data)
           /\ Return(0)
           /\ UNCHANGED <<up, current_dir_inode, written>>
  <2>1. new \notin LongName /\ i # -1
    BY <1>2 DEF RenameError
  <2>2. new \in FittingName
    BY <2>1 DEF FittingName
  <2>3. i \in Inode /\ Live(file_table, i)
    BY <2>1, FindEntryResult
  <2> QED
    BY <1>2, <2>2, <2>3, NameChangeInv
<1> QED
  BY <1>1, <1>2 DEF bdfs_rename_file

\* bdfs_chdir() keeps Inv: the working directory stays inside the table.
LEMMA bdfs_chdirInv ==
  ASSUME Inv, NEW name \in ArgName, bdfs_chdir(name)
  PROVE  Inv'
<1> DEFINE d == ChdirTarget(name)
           i == find_entry_in_dir(file_table, name, current_dir_inode)
<1>1. TypeOK
  BY DEF Inv
<1>2. i \in Inode \/ i = -1
  BY FindEntryResult
<1>3. 0 \in Inode /\ file_table[current_dir_inode].parent_inode \in Inode
  <2>1. 0 \in Inode
    BY SizesAssumption DEF Inode
  <2>2. file_table[current_dir_inode].parent_inode \in Inode
    BY <1>1 DEF TypeOK, Entry
  <2> QED
    BY <2>1, <2>2
<1>4. d \in Inode \/ d \in {-1, -2}
  BY <1>1, <1>2, <1>3 DEF ChdirTarget, TypeOK
<1>5. CASE d < 0 /\ Refuse(d)
  <2>1. d \in Int
    BY <1>4 DEF Inode
  <2> QED
    BY <1>5, <2>1, RefuseInv
<1>6. CASE /\ d >= 0
           /\ current_dir_inode' = d
           /\ Return(0)
           /\ UNCHANGED <<up, file_table, storage, written>>
  <2>1. d \in Inode
    BY <1>4, <1>6
  <2>2. UNCHANGED <<up, file_table, stored_magic, stored_table, stored_data, written>>
    BY <1>6 DEF storage
  <2>3. TypeOK'
    BY <1>1, <1>6, <2>1, <2>2 DEF TypeOK, Return
  <2>4. ReloadIsCurrent'
    BY <2>2 DEF Inv, ReloadIsCurrent, LoadedTable
  <2>5. ExtentsInBounds' /\ ExtentsDisjoint' /\ ContentIntegrity'
    BY <2>2 DEF Inv, ExtentsInBounds, ExtentsDisjoint, ContentIntegrity, Extent
  <2> QED
    BY <2>3, <2>4, <2>5 DEF Inv
<1> QED
  BY <1>5, <1>6 DEF bdfs_chdir

\* A restart keeps Inv, whether RAM survives it or not.
LEMMA ResetInv ==
  ASSUME Inv, NEW kept \in BOOLEAN, Reset(kept)
  PROVE  Inv'
<1>1. TypeOK'
  BY DEF Inv, TypeOK, Reset
<1>2. ReloadIsCurrent'
  BY DEF Inv, ReloadIsCurrent, LoadedTable, Reset
<1>3. ExtentsInBounds' /\ ExtentsDisjoint' /\ ContentIntegrity'
  BY DEF Inv, ExtentsInBounds, ExtentsDisjoint, ContentIntegrity, Extent, Reset
<1> QED
  BY <1>1, <1>2, <1>3 DEF Inv

\* Where a write that is not refused puts its sectors: inside the RAM disk
\* and apart from every other live file.
LEMMA WritePlace ==
  ASSUME Inv, NEW i \in Inode, IsFile(file_table, i),
         NEW buffer \in Seq(Nat), WriteFits(i, buffer),
         NEW s, s = WriteStart(i), NEW q, q = Sectors(Len(buffer))
  PROVE  /\ s \in Nat /\ q \in Nat /\ s + q <= DataSectors
         /\ \A j \in Inode : IsFile(file_table, j) /\ j # i =>
              (s .. (s + q - 1)) \cap Extent(j) = {}
<1>0. DataSectors \in Nat
  BY SizesAssumption
<1>1. TypeOK /\ ExtentsInBounds /\ ExtentsDisjoint
  BY DEF Inv
<1>2. file_table \in [Inode -> Entry]
  BY <1>1 DEF TypeOK
<1>3. \A j \in Inode : /\ file_table[j].length \in Nat
                       /\ file_table[j].start_sector \in Nat
  BY <1>2 DEF Entry
<1>4. \A j \in Inode : Sectors(file_table[j].length) \in Nat
  BY <1>3, SectorsResult
<1>5. Len(buffer) \in Nat /\ q \in Nat
  BY SectorsResult
<1>6. CASE file_table[i].length = 0
  <2>1. s = find_free_sector(file_table)
    BY <1>6 DEF WriteStart
  <2>2. /\ s \in Nat
        /\ \A j \in Inode : IsFile(file_table, j) => EndSector(file_table, j) <= s
    BY <1>1, <1>2, <2>1, FreeSectorResult DEF ExtentsInBounds
  <2>3. s + q <= DataSectors
    BY <1>6, <2>1 DEF WriteFits
  <2>4. ASSUME NEW j \in Inode, IsFile(file_table, j)
        PROVE  (s .. (s + q - 1)) \cap Extent(j) = {}
    <3>1. EndSector(file_table, j) <= s /\ EndSector(file_table, j) \in Nat
      BY <1>3, <1>4, <2>2, <2>4 DEF EndSector
    <3> QED
      BY <3>1, <2>2, <1>3, <1>5 DEF Extent
  <2> QED
    BY <1>5, <2>2, <2>3, <2>4
<1>7. CASE file_table[i].length # 0
  <2>1. s = file_table[i].start_sector
    BY <1>7 DEF WriteStart
  <2>2. q <= Sectors(file_table[i].length)
    BY <1>7 DEF WriteFits
  <2>3. s + Sectors(file_table[i].length) <= DataSectors
    BY <1>1, <2>1 DEF ExtentsInBounds, EndSector
  <2>4. (s .. (s + q - 1)) \subseteq Extent(i)
    BY <1>3, <1>4, <1>5, <2>1, <2>2 DEF Extent, EndSector
  <2>5. s + q <= DataSectors
    BY <1>0, <1>3, <1>4, <1>5, <2>1, <2>2, <2>3
  <2> QED
    BY <1>1, <1>3, <1>5, <2>1, <2>4, <2>5 DEF ExtentsDisjoint
<1> QED
  BY <1>6, <1>7

\* A write that is not refused, to the entry i that the name stands for.
LEMMA WriteInv ==
  ASSUME Inv, NEW i \in Inode, IsFile(file_table, i),
         NEW buffer \in Seq(Nat), WriteFits(i, buffer),
         NEW s, s = WriteStart(i),
         NEW n, n = Len(buffer),
         NEW t, t = [file_table EXCEPT ![i].start_sector = s, ![i].length = n],
         NEW d, d = Copied(stored_data, s, buffer),
         file_table' = t, Sync(t, d), written' = [written EXCEPT ![i] = buffer],
         Return(n), UNCHANGED <<up, current_dir_inode>>
  PROVE  Inv'
<1> DEFINE q == Sectors(n)
<1>0. SectorSize \in Nat /\ DataSectors \in Nat
  BY SizesAssumption
<1>1. TypeOK /\ ExtentsInBounds /\ ExtentsDisjoint /\ ContentIntegrity
  BY DEF Inv
<1>2. n \in Nat
  OBVIOUS
<1>3. /\ s \in Nat /\ q \in Nat /\ s + q <= DataSectors
      /\ \A j \in Inode : IsFile(file_table, j) /\ j # i =>
           (s .. (s + q - 1)) \cap Extent(j) = {}
  BY WritePlace
<1> HIDE DEF q
<1>4. file_table \in [Inode -> Entry] /\ stored_data \in [Position -> Nat]
      /\ written \in [Inode -> Seq(Nat)]
  BY <1>1 DEF TypeOK
<1>5. t \in [Inode -> Entry]
  <2>1. [file_table[i] EXCEPT !.start_sector = s, !.length = n] \in Entry
    <3>1. file_table[i] \in Entry /\ s \in Nat
      BY <1>3, <1>4
    <3> QED
      BY <1>2, <3>1 DEF Entry
  <2>2. t = [file_table EXCEPT ![i] = [file_table[i] EXCEPT !.start_sector = s, !.length = n]]
    BY <1>4
  <2> QED
    BY <1>4, <2>1, <2>2
<1>6. d \in [Position -> Nat]
  BY <1>2, <1>3, <1>4 DEF Copied
<1>7. /\ stored_magic' = TRUE
      /\ stored_table' \in [Inode -> Entry]
      /\ stored_data' \in [Position -> Nat]
      /\ ReloadIsCurrent'
      /\ \A p \in Position : p # 0 => stored_data'[p] = d[p]
  BY <1>5, <1>6, SyncResult
<1>8. TypeOK'
  <2>1. written' \in [Inode -> Seq(Nat)]
    BY <1>2, <1>4
  <2>2. ret' \in [code : Int, bytes : Seq(Nat)]
    BY <1>2 DEF Return
  <2>3. file_table' \in [Inode -> Entry] /\ up' \in BOOLEAN /\ current_dir_inode' \in Inode
    BY <1>1, <1>5 DEF TypeOK
  <2> QED
    BY <1>7, <2>1, <2>2, <2>3 DEF TypeOK
\* What the step does to the other entries, and to this one.
<1>9. \A j \in Inode : j # i => file_table'[j] = file_table[j] /\ written'[j] = written[j]
  BY <1>2, <1>4
<1>10. \A j \in Inode : j # i => (IsFile(file_table', j) <=> IsFile(file_table, j))
  BY <1>9 DEF IsFile, Live
<1>11. \A j \in Inode : j # i => Extent(j)' = Extent(j)
  BY <1>9 DEF Extent, EndSector
<1>12. /\ file_table'[i].start_sector = s
       /\ file_table'[i].length = n
       /\ written'[i] = buffer
  BY <1>2, <1>4 DEF Entry
<1>13. Extent(i)' = s .. (s + q - 1)
  <2>1. EndSector(file_table', i) = s + q
    BY <1>12 DEF EndSector, q
  <2> QED
    BY <1>3, <1>12, <2>1 DEF Extent
<1>14. ExtentsInBounds'
  <2>1. EndSector(file_table', i) = s + q
    BY <1>12 DEF EndSector, q
  <2>2. \A j \in Inode : j # i => EndSector(file_table', j) = EndSector(file_table, j)
    BY <1>9 DEF EndSector
  <2> QED
    BY <1>1, <1>3, <1>10, <2>1, <2>2 DEF ExtentsInBounds
<1>15. ExtentsDisjoint'
  <2> SUFFICES ASSUME NEW j \in Inode, NEW k \in Inode, j # k,
                      IsFile(file_table', j), IsFile(file_table', k)
               PROVE  Extent(j)' \cap Extent(k)' = {}
    BY DEF ExtentsDisjoint
  <2>1. CASE j # i /\ k # i
    BY <2>1, <1>1, <1>10, <1>11 DEF ExtentsDisjoint
  <2>2. CASE j = i
    BY <2>2, <1>3, <1>10, <1>11, <1>13
  <2>3. CASE k = i
    BY <2>3, <1>3, <1>10, <1>11, <1>13
  <2> QED
    BY <2>1, <2>2, <2>3
<1>16. ContentIntegrity'
  <2> SUFFICES ASSUME NEW j \in Inode, IsFile(file_table', j)
               PROVE  /\ file_table'[j].length = Len(written'[j])
                      /\ \A k \in 1..file_table'[j].length :
                           LET p == file_table'[j].start_sector * SectorSize + k - 1
                           IN  p # 0 => stored_data'[p] = written'[j][k]
    BY DEF ContentIntegrity
  <2>1. CASE j = i
    <3>1. n <= q * SectorSize
      BY <1>2, SectorsResult DEF q
    <3>2. \A k \in 1..n : s * SectorSize + k - 1 \in Position
      BY <1>0, <1>2, <1>3, <3>1, ExtentCells DEF Position
    <3>3. \A k \in 1..n : d[s * SectorSize + k - 1] = buffer[k]
      <4> TAKE k \in 1..n
      <4>1. (s * SectorSize + k - 1) - s * SectorSize + 1 = k
        BY <1>0, <1>2, <1>3
      <4> QED
        BY <3>2, <4>1 DEF Copied
    <3>4. ASSUME NEW k \in 1..n, s * SectorSize + k - 1 # 0
          PROVE  stored_data'[s * SectorSize + k - 1] = buffer[k]
      <4> DEFINE p == s * SectorSize + k - 1
      <4>1. p \in Position /\ p # 0
        BY <3>2, <3>4
      <4>2. d[p] = buffer[k]
        BY <3>3
      <4> HIDE DEF p
      <4>3. stored_data'[p] = buffer[k]
        BY <1>7, <4>1, <4>2
      <4> QED
        BY <4>3 DEF p
    <3>5. /\ file_table'[j].start_sector = s
          /\ file_table'[j].length = n
          /\ written'[j] = buffer
      BY <2>1, <1>12
    <3> QED
      BY <3>4, <3>5
  <2>2. CASE j # i
    <3> DEFINE r == file_table[j].start_sector
               m == file_table[j].length
               v == Sectors(m)
    <3>1. r \in Nat /\ m \in Nat
      BY <1>4 DEF Entry
    <3>2. IsFile(file_table, j) /\ file_table'[j] = file_table[j] /\ written'[j] = written[j]
      BY <2>2, <1>9, <1>10
    <3>3. v \in Nat /\ m <= v * SectorSize
      BY <3>1, SectorsResult
    <3>4. r + v <= DataSectors
      BY <1>1, <3>2 DEF ExtentsInBounds, EndSector
    <3>5. \A k \in 1..m : r * SectorSize + k - 1 \in Position
      BY <1>0, <3>1, <3>3, <3>4, ExtentCells DEF Position
    <3>6. (s .. (s + q - 1)) \cap (r .. (r + v - 1)) = {}
      <4>1. (s .. (s + q - 1)) \cap Extent(j) = {}
        BY <2>2, <1>3, <3>2
      <4>2. Extent(j) = r .. ((r + v) - 1)
        BY DEF Extent, EndSector
      <4>3. (r + v) - 1 = r + v - 1
        <5> HIDE DEF r, m, v
        <5> QED
          BY <3>1, <3>3
      <4> QED
        BY <4>1, <4>2, <4>3
    <3>7. n <= q * SectorSize
      BY <1>2, SectorsResult DEF q
    <3>8. \A k \in 1..m : (r * SectorSize + k - 1) - s * SectorSize + 1 \notin 1..n
      BY <1>0, <1>2, <1>3, <3>1, <3>3, <3>6, <3>7, ExtentsApart
    <3>9. \A k \in 1..m : d[r * SectorSize + k - 1] = stored_data[r * SectorSize + k - 1]
      BY <3>5, <3>8 DEF Copied
    <3>10. /\ m = Len(written[j])
           /\ \A k \in 1..m : r * SectorSize + k - 1 # 0 =>
                stored_data[r * SectorSize + k - 1] = written[j][k]
      BY <1>1, <3>2 DEF ContentIntegrity
    <3>11. ASSUME NEW k \in 1..m, r * SectorSize + k - 1 # 0
           PROVE  stored_data'[r * SectorSize + k - 1] = written[j][k]
      <4> DEFINE p == r * SectorSize + k - 1
      <4>1. p \in Position /\ p # 0
        BY <3>5, <3>11
      <4>2. d[p] = stored_data[p] /\ stored_data[p] = written[j][k]
        BY <3>9, <3>10, <3>11
      <4> HIDE DEF p
      <4>3. stored_data'[p] = written[j][k]
        BY <1>7, <4>1, <4>2
      <4> QED
        BY <4>3 DEF p
    <3> QED
      BY <3>2, <3>10, <3>11
  <2> QED
    BY <2>1, <2>2
<1> QED
  BY <1>7, <1>8, <1>14, <1>15, <1>16 DEF Inv

\* bdfs_write_file() keeps Inv.
LEMMA bdfs_write_fileInv ==
  ASSUME Inv, NEW name \in ArgName, NEW buffer \in Buffer, bdfs_write_file(name, buffer)
  PROVE  Inv'
<1> DEFINE i == find_entry_in_dir(file_table, name, current_dir_inode)
           s == WriteStart(i)
           n == Len(buffer)
           code == WriteError(i, buffer)
           t == [file_table EXCEPT ![i].start_sector = s, ![i].length = n]
           d == Copied(stored_data, s, buffer)
<1>1. buffer \in Seq(Nat)
  BY ArgumentsAssumption, Zenon
<1>2. CASE code # 0 /\ Refuse(code)
  <2>1. code \in Int
    BY DEF WriteError
  <2> QED
    BY <1>2, <2>1, RefuseInv
<1>3. CASE /\ code = 0
           /\ file_table' = t
           /\ Sync(t, d)
           /\ written' = [written EXCEPT ![i] = buffer]
           /\ Return(n)
           /\ UNCHANGED <<up, current_dir_inode>>
  <2>1. i # -1 /\ file_table[i].type = "file" /\ WriteFits(i, buffer)
    BY <1>3 DEF WriteError
  <2>2. i \in Inode /\ IsFile(file_table, i)
    BY <2>1, FindEntryResult DEF IsFile
  <2> HIDE DEF i, code
  <2> QED
    BY <1>1, <1>3, <2>1, <2>2, WriteInv
<1> QED
  BY <1>2, <1>3 DEF bdfs_write_file

\* bdfs_read_file() keeps Inv: what it copies out are cells of the data region.
LEMMA bdfs_read_fileInv ==
  ASSUME Inv, NEW name \in ArgName, bdfs_read_file(name)
  PROVE  Inv'
<1> DEFINE i == find_entry_in_dir(file_table, name, current_dir_inode)
<1>1. CASE i = -1 /\ Refuse(-1)
  BY <1>1, RefuseInv
<1>2. CASE i # -1 /\ file_table[i].type # "file" /\ Refuse(-2)
  BY <1>2, RefuseInv
<1>3. CASE /\ i # -1 /\ file_table[i].type = "file"
           /\ ret' = [code |-> 0, bytes |-> FileBytes(file_table, stored_data, i)]
           /\ UNCHANGED <<up, file_table, current_dir_inode, storage, written>>
  <2>1. i \in Inode /\ IsFile(file_table, i)
    BY <1>3, FindEntryResult DEF IsFile
  <2>2. UNCHANGED <<up, file_table, current_dir_inode, stored_magic, stored_table,
                    stored_data, written>>
    BY <1>3 DEF storage
  <2> DEFINE s == file_table[i].start_sector
             n == file_table[i].length
  <2>3. s \in Nat /\ n \in Nat /\ stored_data \in [Position -> Nat]
    BY <2>1 DEF Inv, TypeOK, Entry
  <2>4. s + Sectors(n) <= DataSectors
    BY <2>1 DEF Inv, ExtentsInBounds, EndSector
  <2>5. Sectors(n) \in Nat /\ n <= Sectors(n) * SectorSize
    BY <2>3, SectorsResult
  <2>6. \A k \in 1..n : s * SectorSize + k - 1 \in Position
    BY <2>3, <2>4, <2>5, ExtentCells, SizesAssumption DEF Position
  <2>7. FileBytes(file_table, stored_data, i) \in [1..n -> Nat]
    BY <2>3, <2>6 DEF FileBytes
  <2>8. FileBytes(file_table, stored_data, i) \in Seq(Nat)
    BY <2>3, <2>7
  <2>9. TypeOK'
    BY <1>3, <2>2, <2>8 DEF Inv, TypeOK
  <2>10. ReloadIsCurrent'
    BY <2>2 DEF Inv, ReloadIsCurrent, LoadedTable
  <2>11. ExtentsInBounds' /\ ExtentsDisjoint' /\ ContentIntegrity'
    BY <2>2 DEF Inv, ExtentsInBounds, ExtentsDisjoint, ContentIntegrity, Extent
  <2> QED
    BY <2>9, <2>10, <2>11 DEF Inv
<1> QED
  BY <1>1, <1>2, <1>3 DEF bdfs_read_file

\* A step that changes nothing keeps Inv.
LEMMA StutterInv ==
  ASSUME Inv, UNCHANGED vars
  PROVE  Inv'
<1>1. UNCHANGED <<up, file_table, current_dir_inode, stored_magic, stored_table,
                  stored_data, ret, written>>
  BY DEF vars, storage
<1>2. TypeOK' /\ ReloadIsCurrent'
  BY <1>1 DEF Inv, TypeOK, ReloadIsCurrent, LoadedTable
<1>3. ExtentsInBounds' /\ ExtentsDisjoint' /\ ContentIntegrity'
  BY <1>1 DEF Inv, ExtentsInBounds, ExtentsDisjoint, ContentIntegrity, Extent
<1> QED
  BY <1>2, <1>3 DEF Inv

\* Every call, restart and stutter keeps Inv.
LEMMA InvStep ==
  ASSUME Inv, [Next]_vars
  PROVE  Inv'
<1>1. CASE bdfs_init
  BY <1>1, bdfs_initInv
<1>2. ASSUME NEW name \in ArgName, bdfs_create_file(name) PROVE Inv'
  BY <1>2, CreateInv DEF bdfs_create_file
<1>3. ASSUME NEW name \in ArgName, bdfs_mkdir(name) PROVE Inv'
  BY <1>3, CreateInv DEF bdfs_mkdir
<1>4. ASSUME NEW name \in ArgName, bdfs_delete_file(name) PROVE Inv'
  BY <1>4, bdfs_delete_fileInv
<1>5. ASSUME NEW old \in ArgName, NEW new \in ArgName, bdfs_rename_file(old, new) PROVE Inv'
  BY <1>5, bdfs_rename_fileInv
<1>6. ASSUME NEW name \in ArgName, bdfs_chdir(name) PROVE Inv'
  BY <1>6, bdfs_chdirInv
<1>7. ASSUME NEW name \in ArgName, NEW buffer \in Buffer, bdfs_write_file(name, buffer)
      PROVE  Inv'
  BY <1>7, bdfs_write_fileInv
<1>8. ASSUME NEW name \in ArgName, bdfs_read_file(name) PROVE Inv'
  BY <1>8, bdfs_read_fileInv
<1>9. ASSUME NEW kept \in BOOLEAN, Reset(kept) PROVE Inv'
  BY <1>9, ResetInv
<1>10. CASE UNCHANGED vars
  BY <1>10, StutterInv
<1> QED
  BY <1>1, <1>2, <1>3, <1>4, <1>5, <1>6, <1>7, <1>8, <1>9, <1>10 DEF Next, Call

-----------------------------------------------------------------------------
(* The theorems                                                            *)

\* Inv holds of every reachable state.
THEOREM Invariance == Spec => []Inv
<1>1. Init => Inv
  BY InitInv
<1>2. Inv /\ [Next]_vars => Inv'
  BY InvStep
<1> QED
  BY <1>1, <1>2, PTL DEF Spec

\* Every variable of bdfs.c keeps its type; no name outgrows its array.
THEOREM TypeCorrect == Spec => []TypeOK
<1>1. Inv => TypeOK
  BY DEF Inv
<1> QED
  BY <1>1, Invariance, PTL

\* No two live files share a sector, for any sequence of creations, writes,
\* deletions and restarts.
THEOREM ExtentsCorrect == Spec => []ExtentsDisjoint
<1>1. Inv => ExtentsDisjoint
  BY DEF Inv
<1> QED
  BY <1>1, Invariance, PTL

\* No live file reaches past bdfs_storage: bdfs_write_file() checks for space
\* against the end of the last live file only.
THEOREM ExtentsStayInBounds == Spec => []ExtentsInBounds
<1>1. Inv => ExtentsInBounds
  BY DEF Inv
<1> QED
  BY <1>1, Invariance, PTL

\* What bdfs_read_file() returns is what was last written, but for cell 0 of
\* the data region.
THEOREM ContentCorrect == Spec => []ContentIntegrity
<1>1. Inv => ContentIntegrity
  BY DEF Inv
<1> QED
  BY <1>1, Invariance, PTL

\* A warm restart after any call finds the table that was in use.
THEOREM ReloadCorrect == Spec => []ReloadIsCurrent
<1>1. Inv => ReloadIsCurrent
  BY DEF Inv
<1> QED
  BY <1>1, Invariance, PTL

-----------------------------------------------------------------------------
(* Names                                                                   *)

\* The table t has at most one live entry for a name in a directory.
Unambiguous(t) ==
  \A i, j \in Inode :
    /\ Live(t, i) /\ Live(t, j)
    /\ t[i].parent_inode = t[j].parent_inode
    /\ t[i].name = t[j].name
    => i = j

\* An entry given a name that its directory does not have yet leaves the table
\* unambiguous: what a creation and a rename do.
LEMMA FreshNameKept ==
  ASSUME NEW t \in [Inode -> Entry], Unambiguous(t), NEW u \in [Inode -> Entry],
         NEW f \in Inode, NEW name, NEW dir,
         \A j \in Inode : ~(Live(t, j) /\ t[j].parent_inode = dir /\ t[j].name = name),
         u[f].name = name, u[f].parent_inode = dir,
         \A j \in Inode : j # f => u[j] = t[j]
  PROVE  Unambiguous(u)
<1> SUFFICES ASSUME NEW i \in Inode, NEW j \in Inode,
                    Live(u, i), Live(u, j),
                    u[i].parent_inode = u[j].parent_inode,
                    u[i].name = u[j].name, i # j
             PROVE  FALSE
  BY DEF Unambiguous
<1>1. CASE i = f
  BY <1>1 DEF Live
<1>2. CASE j = f
  BY <1>2 DEF Live
<1>3. CASE i # f /\ j # f
  BY <1>3 DEF Live, Unambiguous
<1> QED
  BY <1>1, <1>2, <1>3

\* The file system that bdfs_init() makes is unambiguous.
LEMMA FreshTableUnambiguous == Unambiguous(FreshTable)
<1> SUFFICES ASSUME NEW i \in Inode, NEW j \in Inode,
                    Live(FreshTable, i), Live(FreshTable, j),
                    FreshTable[i].parent_inode = FreshTable[j].parent_inode,
                    FreshTable[i].name = FreshTable[j].name
             PROVE  i = j
  BY DEF Unambiguous
<1>0. Len(DefaultDirs) \in 0..(MaxFiles - 1) /\ MaxFiles \in Nat
  BY SizesAssumption, DefaultDirsAssumption, Zenon
<1>1. Len(DefaultDirs) \in Nat
  BY <1>0
<1>2. \A k \in Inode : Live(FreshTable, k) =>
        \/ k = 0 /\ FreshTable[k].name = "/"
        \/ /\ k \in 1..Len(DefaultDirs)
           /\ FreshTable[k].name = DefaultDirs[k].name
           /\ FreshTable[k].parent_inode = DefaultDirs[k].parent
  <2> SUFFICES ASSUME NEW k \in Inode, Live(FreshTable, k)
               PROVE  \/ k = 0 /\ FreshTable[k].name = "/"
                      \/ /\ k \in 1..Len(DefaultDirs)
                         /\ FreshTable[k].name = DefaultDirs[k].name
                         /\ FreshTable[k].parent_inode = DefaultDirs[k].parent
    OBVIOUS
  <2>1. k \in Nat
    BY SizesAssumption DEF Inode
  <2>2. CASE k = 0
    BY <2>2 DEF FreshTable, NewEntry, EmptyEntry
  <2>3. CASE k # 0 /\ k <= Len(DefaultDirs)
    <3>1. k \in 1..Len(DefaultDirs)
      BY <2>1, <2>3, <1>1
    <3>2. FreshTable[k] = NewEntry(DefaultDirs[k].name, "directory", DefaultDirs[k].parent)
      BY <2>3 DEF FreshTable
    <3> QED
      BY <3>1, <3>2 DEF NewEntry, EmptyEntry
  <2>4. CASE k # 0 /\ ~(k <= Len(DefaultDirs))
    BY <2>4 DEF FreshTable, EmptyEntry, Live
  <2> QED
    BY <2>2, <2>3, <2>4
<1>3. \A k \in 1..Len(DefaultDirs) : DefaultDirs[k].name # "/"
  BY DefaultDirsAssumption
<1> QED
  BY <1>2, <1>3, DefaultDirsAssumption

\* No step makes a name ambiguous: creations and renames look the name up
\* first, deletions only remove, and a restart loads the table in use.
LEMMA UniqueNamesStep ==
  ASSUME Inv, UniqueNames, [Next]_vars
  PROVE  UniqueNames'
<1>1. TypeOK /\ ReloadIsCurrent
  BY DEF Inv
<1>2. file_table \in [Inode -> Entry] /\ Unambiguous(file_table)
  BY <1>1 DEF TypeOK, UniqueNames, Unambiguous
<1> SUFFICES Unambiguous(file_table')
  BY DEF UniqueNames, Unambiguous, Live
<1>3. CASE UNCHANGED file_table
  BY <1>2, <1>3
<1>4. CASE bdfs_init
  BY <1>1, <1>2, <1>4, FreshTableUnambiguous DEF bdfs_init, ReloadIsCurrent
<1>5. ASSUME NEW name \in ArgName, NEW type \in {"file", "directory"}, Create(name, type)
      PROVE  Unambiguous(file_table')
  <2> DEFINE f == find_free_entry(file_table)
  <2>1. CASE UNCHANGED file_table
    BY <1>2, <2>1
  <2>2. CASE /\ CreateError(file_table, name, current_dir_inode) = 0
             /\ file_table' = Created(file_table, name, type, current_dir_inode)
    <3>1. f \in Inode /\ find_entry_in_dir(file_table, name, current_dir_inode) = -1
      BY <2>2, FreeEntryResult DEF CreateError
    <3>2. \A j \in Inode : ~(/\ Live(file_table, j)
                             /\ file_table[j].parent_inode = current_dir_inode
                             /\ file_table[j].name = name)
      BY <3>1, FindEntryResult
    <3>3. name \notin LongName
      BY <2>2 DEF CreateError
    <3>4. NewEntry(name, type, current_dir_inode) \in Entry
      BY <1>1, <3>3 DEF NewEntry, EmptyEntry, Entry, FittingName, TypeOK
    <3>5. /\ file_table' \in [Inode -> Entry]
          /\ file_table'[f] = NewEntry(name, type, current_dir_inode)
          /\ \A j \in Inode : j # f => file_table'[j] = file_table[j]
      BY <1>2, <2>2, <3>1, <3>4 DEF Created
    <3>6. file_table'[f].name = name /\ file_table'[f].parent_inode = current_dir_inode
      BY <3>5 DEF NewEntry, EmptyEntry
    <3> HIDE DEF f
    <3> QED
      BY <1>2, <3>1, <3>2, <3>5, <3>6, FreshNameKept
  <2> QED
    BY <1>5, <2>1, <2>2 DEF Create, Refuse
<1>6. ASSUME NEW name \in ArgName, bdfs_delete_file(name)
      PROVE  Unambiguous(file_table')
  <2> DEFINE i == find_entry_in_dir(file_table, name, current_dir_inode)
  <2>1. CASE UNCHANGED file_table
    BY <1>2, <2>1
  <2>2. CASE i # -1 /\ file_table' = [file_table EXCEPT ![i].name = ""]
    <3>0. i # -1
      BY <2>2
    <3>1. i \in Inode
      BY <3>0, FindEntryResult
    <3> HIDE DEF i
    <3>2. /\ ~Live(file_table', i)
          /\ \A j \in Inode : j # i => file_table'[j] = file_table[j]
      BY <1>2, <2>2, <3>1, ZenonT(60) DEF Live, Entry
    <3> SUFFICES ASSUME NEW j \in Inode, NEW k \in Inode,
                        Live(file_table', j), Live(file_table', k),
                        file_table'[j].parent_inode = file_table'[k].parent_inode,
                        file_table'[j].name = file_table'[k].name
                 PROVE  j = k
      BY DEF Unambiguous
    <3>3. j # i /\ k # i
      BY <3>2
    <3>4. file_table'[j] = file_table[j] /\ file_table'[k] = file_table[k]
      BY <3>2, <3>3
    <3> QED
      BY <1>2, <3>4 DEF Unambiguous, Live
  <2> QED
    BY <1>6, <2>1, <2>2 DEF bdfs_delete_file, Refuse
<1>7. ASSUME NEW old \in ArgName, NEW new \in ArgName, bdfs_rename_file(old, new)
      PROVE  Unambiguous(file_table')
  <2> DEFINE i == find_entry_in_dir(file_table, old, current_dir_inode)
  <2>1. CASE UNCHANGED file_table
    BY <1>2, <2>1
  <2>2. CASE RenameError(old, new) = 0 /\ file_table' = [file_table EXCEPT ![i].name = new]
    <3>1. i # -1 /\ find_entry_in_dir(file_table, new, current_dir_inode) = -1
      BY <2>2 DEF RenameError
    <3>2. i \in Inode /\ file_table[i].parent_inode = current_dir_inode
      BY <3>1, FindEntryResult
    <3>3. \A j \in Inode : ~(/\ Live(file_table, j)
                             /\ file_table[j].parent_inode = current_dir_inode
                             /\ file_table[j].name = new)
      BY <3>1, FindEntryResult
    <3>4. new \notin LongName
      BY <2>2 DEF RenameError
    <3>5. new \in FittingName
      BY <3>4 DEF FittingName
    <3> HIDE DEF i
    <3>6. /\ file_table' \in [Inode -> Entry]
          /\ file_table'[i].name = new
          /\ file_table'[i].parent_inode = current_dir_inode
          /\ \A j \in Inode : j # i => file_table'[j] = file_table[j]
      BY <1>2, <2>2, <3>2, <3>5 DEF Entry
    <3> QED
      BY <1>2, <3>2, <3>3, <3>6, FreshNameKept
  <2> QED
    BY <1>7, <2>1, <2>2 DEF bdfs_rename_file, Refuse
<1>8. ASSUME NEW name \in ArgName, NEW buffer \in Buffer, bdfs_write_file(name, buffer)
      PROVE  Unambiguous(file_table')
  <2> DEFINE i == find_entry_in_dir(file_table, name, current_dir_inode)
  <2>1. CASE UNCHANGED file_table
    BY <1>2, <2>1
  <2>2. CASE /\ WriteError(i, buffer) = 0
             /\ file_table' = [file_table EXCEPT ![i].start_sector = WriteStart(i),
                                                 ![i].length = Len(buffer)]
    <3>1. i \in Inode
      BY <2>2, FindEntryResult DEF WriteError
    <3> HIDE DEF i
    <3>2. \A j \in Inode : /\ file_table'[j].name = file_table[j].name
                           /\ file_table'[j].parent_inode = file_table[j].parent_inode
      BY <1>2, <2>2, <3>1 DEF Entry
    <3> QED
      BY <1>2, <3>2 DEF Unambiguous, Live
  <2> QED
    BY <1>8, <2>1, <2>2 DEF bdfs_write_file, Refuse
<1>9. ASSUME NEW name \in ArgName, bdfs_chdir(name) \/ bdfs_read_file(name)
      PROVE  Unambiguous(file_table')
  BY <1>2, <1>9 DEF bdfs_chdir, bdfs_read_file, Refuse
<1>10. ASSUME NEW kept \in BOOLEAN, Reset(kept)
       PROVE  Unambiguous(file_table')
  BY <1>2, <1>10 DEF Reset
<1>11. CASE Call
  BY <1>5, <1>6, <1>7, <1>8, <1>9, <1>11 DEF Call, bdfs_create_file, bdfs_mkdir
<1>12. CASE UNCHANGED vars
  BY <1>3, <1>12 DEF vars
<1> QED
  BY <1>4, <1>10, <1>11, <1>12 DEF Next

\* In every reachable state find_entry_in_dir()'s first hit is its only one.
THEOREM NamesCorrect == Spec => []UniqueNames
<1>1. Init => UniqueNames
  <2> SUFFICES ASSUME Init PROVE UniqueNames
    OBVIOUS
  <2>1. \A i \in Inode : file_table[i].name = ""
    BY DEF Init, EmptyEntry
  <2> QED
    BY <2>1 DEF UniqueNames, Live
<1>2. Inv /\ UniqueNames /\ [Next]_vars => UniqueNames'
  BY UniqueNamesStep
<1> QED
  BY <1>1, <1>2, Invariance, PTL DEF Spec

-----------------------------------------------------------------------------
(* What a step does to the table and to the working directory, whichever   *)
(* call it is.  The two results below only use this summary.               *)

\* No live entry of the working directory has this name.
NotHere(name) ==
  \A j \in Inode :
    ~(/\ Live(file_table, j)
      /\ file_table[j].parent_inode = current_dir_inode
      /\ file_table[j].name = name)

\* Entry i is live and in the working directory.
IsHere(i) ==
  i \in Inode /\ Live(file_table, i) /\ file_table[i].parent_inode = current_dir_inode

Booted ==
  /\ ~up /\ up'
  /\ current_dir_inode' = 0
  /\ file_table' = IF stored_magic THEN file_table ELSE FreshTable

Stopped ==
  /\ up /\ ~up'
  /\ UNCHANGED <<file_table, current_dir_inode, stored_table, stored_data>>

EntryMade ==
  \E f \in Inode, name \in ArgName, type \in {"file", "directory"} :
    /\ ~Live(file_table, f) /\ NotHere(name) /\ name \notin LongName
    /\ file_table' = [file_table EXCEPT ![f] = NewEntry(name, type, current_dir_inode)]
    /\ up /\ UNCHANGED <<up, current_dir_inode>>

EntryDeleted ==
  \E i \in Inode :
    /\ IsHere(i) /\ file_table[i].name \in ArgName
    /\ file_table' = [file_table EXCEPT ![i].name = ""]
    /\ up /\ UNCHANGED <<up, current_dir_inode>>

EntryRenamed ==
  \E i \in Inode, name \in ArgName :
    /\ IsHere(i) /\ file_table[i].name \in ArgName
    /\ NotHere(name) /\ name \notin LongName
    /\ file_table' = [file_table EXCEPT ![i].name = name]
    /\ up /\ UNCHANGED <<up, current_dir_inode>>

FileWritten ==
  \E i \in Inode, start \in Nat, buffer \in Buffer :
    /\ IsHere(i) /\ file_table[i].type = "file"
    /\ file_table' = [file_table EXCEPT ![i].start_sector = start,
                                        ![i].length = Len(buffer)]
    /\ up /\ UNCHANGED <<up, current_dir_inode>>

MovedDown ==
  /\ IsHere(current_dir_inode') /\ file_table[current_dir_inode'].type = "directory"
  /\ up /\ UNCHANGED <<up, file_table, stored_magic, stored_table, stored_data>>

MovedUp ==
  /\ current_dir_inode # 0
  /\ current_dir_inode' = file_table[current_dir_inode].parent_inode
  /\ up /\ UNCHANGED <<up, file_table, stored_magic, stored_table, stored_data>>

\* Each call either leaves names and directories alone or does one of these
\* things to them.
LEMMA StepEffect ==
  ASSUME Inv, Next
  PROVE  \/ UNCHANGED <<up, file_table, current_dir_inode, storage>>
         \/ Booted \/ Stopped
         \/ EntryMade \/ EntryDeleted \/ EntryRenamed \/ FileWritten
         \/ MovedDown \/ MovedUp
<1> DEFINE Same == UNCHANGED <<up, file_table, current_dir_inode, storage>>
           Effect == \/ Same
                     \/ Booted \/ Stopped
                     \/ EntryMade \/ EntryDeleted \/ EntryRenamed \/ FileWritten
                     \/ MovedDown \/ MovedUp
<1>1. TypeOK /\ ReloadIsCurrent
  BY DEF Inv
<1>2. ASSUME bdfs_init
      PROVE  Effect
  <2>1. Booted
    BY <1>1, <1>2 DEF bdfs_init, ReloadIsCurrent, Booted
  <2> QED
    BY <2>1
<1>3. ASSUME NEW name \in ArgName, NEW type \in {"file", "directory"}, Create(name, type)
      PROVE  Effect
  <2> DEFINE f == find_free_entry(file_table)
  <2>1. CASE Same
    BY <2>1
  <2>2. CASE /\ CreateError(file_table, name, current_dir_inode) = 0
             /\ file_table' = Created(file_table, name, type, current_dir_inode)
             /\ up /\ UNCHANGED <<up, current_dir_inode>>
    <3>1. /\ f # -1 /\ find_entry_in_dir(file_table, name, current_dir_inode) = -1
          /\ name \notin LongName
      BY <2>2 DEF CreateError
    <3>2. f \in Inode /\ ~Live(file_table, f)
      BY <3>1, FreeEntryResult
    <3>3. NotHere(name)
      BY <3>1, FindEntryResult DEF NotHere
    <3>4. file_table' = [file_table EXCEPT ![f] = NewEntry(name, type, current_dir_inode)]
      BY <2>2 DEF Created
    <3> HIDE DEF f
    <3>5. EntryMade
      BY <2>2, <3>1, <3>2, <3>3, <3>4 DEF EntryMade
    <3> QED
      BY <3>5
  <2> QED
    BY <1>3, <2>1, <2>2 DEF Create, Refuse
<1>4. ASSUME NEW name \in ArgName, bdfs_delete_file(name)
      PROVE  Effect
  <2> DEFINE i == find_entry_in_dir(file_table, name, current_dir_inode)
  <2>1. CASE Same
    BY <2>1
  <2>2. CASE /\ i # -1 /\ file_table' = [file_table EXCEPT ![i].name = ""]
             /\ up /\ UNCHANGED <<up, current_dir_inode>>
    <3>0. i # -1
      BY <2>2
    <3>1. IsHere(i) /\ file_table[i].name = name
      BY <3>0, FindEntryResult DEF IsHere
    <3> HIDE DEF i
    <3>2. EntryDeleted
      BY <2>2, <3>1 DEF EntryDeleted, IsHere
    <3> QED
      BY <3>2
  <2> QED
    BY <1>4, <2>1, <2>2 DEF bdfs_delete_file, Refuse
<1>5. ASSUME NEW old \in ArgName, NEW new \in ArgName, bdfs_rename_file(old, new)
      PROVE  Effect
  <2> DEFINE i == find_entry_in_dir(file_table, old, current_dir_inode)
  <2>1. CASE Same
    BY <2>1
  <2>2. CASE /\ RenameError(old, new) = 0
             /\ file_table' = [file_table EXCEPT ![i].name = new]
             /\ up /\ UNCHANGED <<up, current_dir_inode>>
    <3>1. /\ i # -1 /\ find_entry_in_dir(file_table, new, current_dir_inode) = -1
          /\ new \notin LongName
      BY <2>2 DEF RenameError
    <3>2. IsHere(i) /\ file_table[i].name = old
      BY <3>1, FindEntryResult DEF IsHere
    <3>3. NotHere(new)
      BY <3>1, FindEntryResult DEF NotHere
    <3> HIDE DEF i
    <3>4. EntryRenamed
      BY <2>2, <3>1, <3>2, <3>3 DEF EntryRenamed, IsHere
    <3> QED
      BY <3>4
  <2> QED
    BY <1>5, <2>1, <2>2 DEF bdfs_rename_file, Refuse
<1>6. ASSUME NEW name \in ArgName, NEW buffer \in Buffer, bdfs_write_file(name, buffer)
      PROVE  Effect
  <2> DEFINE i == find_entry_in_dir(file_table, name, current_dir_inode)
  <2>1. CASE Same
    BY <2>1
  <2>2. CASE /\ WriteError(i, buffer) = 0
             /\ file_table' = [file_table EXCEPT ![i].start_sector = WriteStart(i),
                                                 ![i].length = Len(buffer)]
             /\ up /\ UNCHANGED <<up, current_dir_inode>>
    <3>1. i # -1 /\ file_table[i].type = "file"
      BY <2>2 DEF WriteError
    <3>2. IsHere(i)
      BY <3>1, FindEntryResult DEF IsHere
    <3> HIDE DEF i
    <3>3. i \in Inode /\ WriteStart(i) \in Nat
      <4>1. i \in Inode
        BY <3>2 DEF IsHere
      <4>2. find_free_sector(file_table) \in Nat
        BY <1>1, FreeSectorResult DEF TypeOK, Inv, ExtentsInBounds
      <4>3. file_table[i].start_sector \in Nat
        BY <1>1, <4>1 DEF TypeOK, Entry
      <4> QED
        BY <4>1, <4>2, <4>3 DEF WriteStart
    <3>4. FileWritten
      BY <2>2, <3>1, <3>2, <3>3 DEF FileWritten
    <3> QED
      BY <3>4
  <2> QED
    BY <1>6, <2>1, <2>2 DEF bdfs_write_file, Refuse
<1>7. ASSUME NEW name \in ArgName, bdfs_chdir(name)
      PROVE  Effect
  <2> DEFINE d == ChdirTarget(name)
             i == find_entry_in_dir(file_table, name, current_dir_inode)
  <2>1. CASE Same
    BY <2>1
  <2>2. CASE /\ d >= 0 /\ current_dir_inode' = d
             /\ up /\ UNCHANGED <<up, file_table, storage>>
    <3>1. \/ d = current_dir_inode
          \/ current_dir_inode # 0 /\ d = file_table[current_dir_inode].parent_inode
          \/ d = -1 \/ d = -2
          \/ d = i /\ i # -1 /\ file_table[i].type = "directory"
      BY DEF ChdirTarget
    <3>2. CASE d = current_dir_inode
      BY <2>2, <3>2
    <3>3. CASE current_dir_inode # 0 /\ d = file_table[current_dir_inode].parent_inode
      <4>1. MovedUp
        BY <2>2, <3>3 DEF MovedUp, storage
      <4> QED
        BY <4>1
    <3>4. CASE d = i /\ i # -1 /\ file_table[i].type = "directory"
      <4>1. i # -1
        BY <3>4
      <4>2. IsHere(i)
        BY <4>1, FindEntryResult DEF IsHere
      <4>3. MovedDown
        BY <2>2, <3>4, <4>2 DEF MovedDown, storage
      <4> QED
        BY <4>3
    <3>5. ~(d = -1 \/ d = -2)
      BY <2>2
    <3> QED
      BY <3>1, <3>2, <3>3, <3>4, <3>5
  <2> QED
    BY <1>7, <2>1, <2>2 DEF bdfs_chdir, Refuse
<1>8. ASSUME NEW name \in ArgName, bdfs_read_file(name)
      PROVE  Effect
  BY <1>8 DEF bdfs_read_file, Refuse
<1>9. ASSUME NEW kept \in BOOLEAN, Reset(kept)
      PROVE  Effect
  <2>1. Stopped
    BY <1>9 DEF Reset, Stopped
  <2> QED
    BY <2>1
<1> HIDE DEF Same, Effect
<1>10. ASSUME Call
       PROVE  Effect
  BY <1>3, <1>4, <1>5, <1>6, <1>7, <1>8, <1>10 DEF Call, bdfs_create_file, bdfs_mkdir
<1>11. Effect
  BY <1>2, <1>9, <1>10 DEF Next
<1> QED
  BY <1>11 DEF Same, Effect

-----------------------------------------------------------------------------
(* The way back to the root                                                *)

\* D is a set of directories that holds the working directory and, with a
\* directory, its parent, down to inode 0; rank falls from child to parent.
Chain(D, rank) ==
  /\ current_dir_inode \in D /\ 0 \in D
  /\ \A j \in D \ {0} :
       /\ IsDir(file_table, j)
       /\ file_table[j].parent_inode \in D
       /\ rank[file_table[j].parent_inode] < rank[j]

\* The working directory hangs off inode 0 by live directories, and the way
\* has no cycle.  bdfs_delete_file() keeps this because it only reaches
\* entries of the working directory, one rank further away from the root.
Rooted == up => \E D \in SUBSET Inode, rank \in [Inode -> Nat] : Chain(D, rank)

\* What has to be shown of a step.
LEMMA RootedAfter ==
  ASSUME NEW D \in SUBSET Inode, NEW rank \in [Inode -> Nat],
         current_dir_inode' \in D, 0 \in D,
         \A j \in D \ {0} :
           /\ IsDir(file_table', j)
           /\ file_table'[j].parent_inode \in D
           /\ rank[file_table'[j].parent_inode] < rank[j]
  PROVE  Rooted'
BY DEF Rooted, Chain, IsDir, Live

\* The entries of D keep what Chain says of them when their type and parent
\* stay and they stay live.
LEMMA ChainKept ==
  ASSUME NEW D \in SUBSET Inode, NEW rank \in [Inode -> Nat], Chain(D, rank),
         current_dir_inode' = current_dir_inode,
         \A j \in D \ {0} : /\ Live(file_table', j)
                            /\ file_table'[j].type = file_table[j].type
                            /\ file_table'[j].parent_inode = file_table[j].parent_inode
  PROVE  Rooted'
<1>1. current_dir_inode' \in D /\ 0 \in D
  BY DEF Chain
<1>2. \A j \in D \ {0} :
        /\ IsDir(file_table', j)
        /\ file_table'[j].parent_inode \in D
        /\ rank[file_table'[j].parent_inode] < rank[j]
  BY DEF Chain, IsDir
<1> QED
  BY <1>1, <1>2, RootedAfter

\* No step cuts the way back to the root.
LEMMA RootedStep ==
  ASSUME Inv, Rooted, [Next]_vars
  PROVE  Rooted'
<1>1. TypeOK
  BY DEF Inv
<1>2. file_table \in [Inode -> Entry] /\ current_dir_inode \in Inode /\ 0 \in Inode
  BY <1>1, SizesAssumption DEF TypeOK, Inode
<1>3. CASE UNCHANGED <<up, file_table, current_dir_inode, storage>>
  BY <1>3 DEF Rooted, Chain
<1>4. CASE Booted
  <2> DEFINE D == {0}
             rank == [j \in Inode |-> 0]
  <2>1. D \in SUBSET Inode /\ rank \in [Inode -> Nat]
    BY <1>2
  <2>2. Chain(D, rank)'
    BY <1>4 DEF Booted, Chain
  <2> QED
    BY <2>1, <2>2 DEF Rooted
<1>5. CASE Stopped
  BY <1>5 DEF Stopped, Rooted
<1>6. ASSUME up PROVE \E D \in SUBSET Inode, rank \in [Inode -> Nat] : Chain(D, rank)
  BY <1>6 DEF Rooted
<1>7. CASE EntryMade
  <2>1. PICK f \in Inode, name \in ArgName, type \in {"file", "directory"} :
          /\ ~Live(file_table, f)
          /\ file_table' = [file_table EXCEPT ![f] = NewEntry(name, type, current_dir_inode)]
          /\ up /\ UNCHANGED <<up, current_dir_inode>>
    BY <1>7 DEF EntryMade
  <2>2. PICK D \in SUBSET Inode, rank \in [Inode -> Nat] : Chain(D, rank)
    BY <1>6, <2>1
  <2>3. \A j \in D \ {0} : Live(file_table, j)
    BY <2>2 DEF Chain, IsDir
  <2>4. \A j \in D \ {0} : file_table'[j] = file_table[j]
    BY <1>2, <2>1, <2>3
  <2> QED
    BY <2>1, <2>2, <2>3, <2>4, ChainKept DEF Live
<1>8. CASE EntryDeleted
  <2>1. PICK i \in Inode :
          /\ IsHere(i)
          /\ file_table' = [file_table EXCEPT ![i].name = ""]
          /\ up /\ UNCHANGED <<up, current_dir_inode>>
    BY <1>8 DEF EntryDeleted
  <2>2. PICK D \in SUBSET Inode, rank \in [Inode -> Nat] : Chain(D, rank)
    BY <1>6, <2>1
  <2> DEFINE N == {j \in D : j = 0 \/ rank[j] <= rank[current_dir_inode]}
  <2>3. N \in SUBSET Inode
    OBVIOUS
  <2>4. Chain(N, rank)
    <3>1. current_dir_inode \in N /\ 0 \in N
      BY <1>2, <2>2 DEF Chain
    <3>2. ASSUME NEW j \in N \ {0}
          PROVE  /\ IsDir(file_table, j)
                 /\ file_table[j].parent_inode \in N
                 /\ rank[file_table[j].parent_inode] < rank[j]
      <4>1. /\ j \in D \ {0} /\ rank[j] <= rank[current_dir_inode]
            /\ IsDir(file_table, j)
            /\ file_table[j].parent_inode \in D
            /\ rank[file_table[j].parent_inode] < rank[j]
        BY <2>2, <3>2 DEF Chain
      <4>2. /\ rank[file_table[j].parent_inode] \in Nat /\ rank[j] \in Nat
            /\ rank[current_dir_inode] \in Nat
        BY <1>2, <4>1
      <4> QED
        BY <4>1, <4>2
    <3> HIDE DEF N
    <3> QED
      BY <3>1, <3>2 DEF Chain
  <2>5. i \notin N \ {0}
    <3> SUFFICES ASSUME i \in N \ {0} PROVE FALSE
      OBVIOUS
    <3>1. rank[current_dir_inode] < rank[i] /\ rank[i] <= rank[current_dir_inode]
      BY <2>1, <2>2 DEF Chain, IsHere
    <3>2. rank[current_dir_inode] \in Nat /\ rank[i] \in Nat
      BY <1>2
    <3> QED
      BY <3>1, <3>2
  <2> HIDE DEF N
  <2>6. \A j \in N \ {0} : Live(file_table, j) /\ file_table'[j] = file_table[j]
    BY <1>2, <2>1, <2>3, <2>4, <2>5 DEF Chain, IsDir
  <2> QED
    BY <2>1, <2>3, <2>4, <2>6, ChainKept DEF Live
<1>9. CASE EntryRenamed
  <2>1. PICK i \in Inode, name \in ArgName :
          /\ file_table' = [file_table EXCEPT ![i].name = name]
          /\ up /\ UNCHANGED <<up, current_dir_inode>>
    BY <1>9 DEF EntryRenamed
  <2>2. PICK D \in SUBSET Inode, rank \in [Inode -> Nat] : Chain(D, rank)
    BY <1>6, <2>1
  <2>3. \A j \in D \ {0} : Live(file_table, j)
    BY <2>2 DEF Chain, IsDir
  <2>4. name # ""
    BY ArgumentsAssumption
  <2>5. \A j \in Inode : /\ Live(file_table, j) => Live(file_table', j)
                         /\ file_table'[j].type = file_table[j].type
                         /\ file_table'[j].parent_inode = file_table[j].parent_inode
    <3>1. /\ file_table'[i].name = name
          /\ file_table'[i].type = file_table[i].type
          /\ file_table'[i].parent_inode = file_table[i].parent_inode
          /\ \A j \in Inode : j # i => file_table'[j] = file_table[j]
      BY <1>2, <2>1 DEF Entry
    <3> QED
      BY <2>4, <3>1 DEF Live
  <2> QED
    BY <2>1, <2>2, <2>3, <2>5, ChainKept
<1>10. CASE FileWritten
  <2>1. PICK i \in Inode, start \in Nat, buffer \in Buffer :
          /\ file_table' = [file_table EXCEPT ![i].start_sector = start,
                                              ![i].length = Len(buffer)]
          /\ up /\ UNCHANGED <<up, current_dir_inode>>
    BY <1>10 DEF FileWritten
  <2>2. PICK D \in SUBSET Inode, rank \in [Inode -> Nat] : Chain(D, rank)
    BY <1>6, <2>1
  <2>3. \A j \in D \ {0} : Live(file_table, j)
    BY <2>2 DEF Chain, IsDir
  <2>4. \A j \in Inode : /\ file_table'[j].name = file_table[j].name
                         /\ file_table'[j].type = file_table[j].type
                         /\ file_table'[j].parent_inode = file_table[j].parent_inode
    BY <1>2, <2>1 DEF Entry
  <2> QED
    BY <2>1, <2>2, <2>3, <2>4, ChainKept DEF Live
<1>11. CASE MovedDown
  <2> DEFINE i == current_dir_inode'
  <2>1. /\ i \in Inode /\ IsDir(file_table, i)
        /\ file_table[i].parent_inode = current_dir_inode
        /\ up /\ UNCHANGED <<up, file_table>>
    BY <1>11 DEF MovedDown, IsHere, IsDir
  <2>2. PICK D \in SUBSET Inode, rank \in [Inode -> Nat] : Chain(D, rank)
    BY <1>6, <2>1
  <2> HIDE DEF i
  <2>3. CASE i \in D
    BY <2>1, <2>2, <2>3 DEF Rooted, Chain, i
  <2>4. CASE i \notin D
    <3> DEFINE N == D \cup {i}
               next == [rank EXCEPT ![i] = rank[current_dir_inode] + 1]
    <3>1. N \in SUBSET Inode /\ next \in [Inode -> Nat]
      BY <1>2, <2>1
    <3>2. \A j \in D : next[j] = rank[j]
      BY <2>1, <2>4
    <3>3. next[i] = rank[current_dir_inode] + 1 /\ rank[current_dir_inode] \in Nat
      BY <1>2, <2>1
    <3>4. current_dir_inode \in D /\ 0 \in D
      BY <2>2 DEF Chain
    <3> HIDE DEF next
    <3>5. \A j \in N \ {0} :
            /\ IsDir(file_table, j)
            /\ file_table[j].parent_inode \in N
            /\ next[file_table[j].parent_inode] < next[j]
      <4> SUFFICES ASSUME NEW j \in N \ {0}
                   PROVE  /\ IsDir(file_table, j)
                          /\ file_table[j].parent_inode \in N
                          /\ next[file_table[j].parent_inode] < next[j]
        OBVIOUS
      <4>1. CASE j = i
        <5>1. next[current_dir_inode] < next[i]
          BY <3>2, <3>3, <3>4
        <5> QED
          BY <2>1, <3>4, <4>1, <5>1
      <4>2. CASE j \in D \ {0}
        BY <2>2, <3>2, <4>2 DEF Chain
      <4> QED
        BY <4>1, <4>2
    <3>6. i \in N /\ 0 \in N
      BY <3>4
    <3> HIDE DEF N
    <3>7. current_dir_inode' \in N /\ file_table' = file_table
      BY <2>1, <3>6 DEF i
    <3> QED
      BY <3>1, <3>5, <3>6, <3>7, RootedAfter
  <2> QED
    BY <2>3, <2>4
<1>12. CASE MovedUp
  <2>1. up /\ UNCHANGED <<up, file_table>>
    BY <1>12 DEF MovedUp
  <2>2. PICK D \in SUBSET Inode, rank \in [Inode -> Nat] : Chain(D, rank)
    BY <1>6, <2>1
  <2>3. current_dir_inode' \in D
    BY <1>12, <2>2 DEF MovedUp, Chain
  <2> QED
    BY <2>1, <2>2, <2>3 DEF Rooted, Chain
<1>13. CASE UNCHANGED vars
  BY <1>3, <1>13 DEF vars
<1> QED
  BY <1>3, <1>4, <1>5, <1>7, <1>8, <1>9, <1>10, <1>11, <1>12, <1>13, StepEffect

\* The working directory always hangs off inode 0, even for callers that
\* delete the root's own entry.
THEOREM AlwaysRooted == Spec => []Rooted
<1>1. Init => Rooted
  BY DEF Init, Rooted
<1>2. Inv /\ Rooted /\ [Next]_vars => Rooted'
  BY RootedStep
<1> QED
  BY <1>1, <1>2, Invariance, PTL DEF Spec

\* The root's own entry, as bdfs_init() made it.
RootStands ==
  stored_magic =>
    /\ file_table[0].name = "/"
    /\ file_table[0].type = "directory"
    /\ file_table[0].parent_inode = 0

\* Callers that do not name the root leave its entry alone.
LEMMA RootStandsStep ==
  ASSUME "/" \notin ArgName, Inv, RootStands, [Next]_vars
  PROVE  RootStands'
<1>1. TypeOK /\ ReloadIsCurrent
  BY DEF Inv
<1>2. file_table \in [Inode -> Entry] /\ 0 \in Inode
  BY <1>1, SizesAssumption DEF TypeOK, Inode
<1>3. up => stored_magic
  BY <1>1 DEF ReloadIsCurrent
<1>4. CASE UNCHANGED <<up, file_table, current_dir_inode, storage>>
  BY <1>4 DEF RootStands, storage
<1>5. CASE Booted
  <2>1. FreshTable[0] = NewEntry("/", "directory", 0)
    BY <1>2 DEF FreshTable
  <2> QED
    BY <1>5, <2>1 DEF Booted, RootStands, NewEntry, EmptyEntry
<1>6. CASE Stopped
  BY <1>3, <1>6 DEF Stopped, RootStands
<1>7. CASE EntryMade
  BY <1>2, <1>3, <1>7 DEF EntryMade, RootStands, Live
<1>8. CASE EntryDeleted
  BY <1>2, <1>3, <1>8 DEF EntryDeleted, RootStands
<1>9. CASE EntryRenamed
  BY <1>2, <1>3, <1>9 DEF EntryRenamed, RootStands
<1>10. CASE FileWritten
  BY <1>2, <1>3, <1>10 DEF FileWritten, RootStands, Entry
<1>11. CASE MovedDown \/ MovedUp
  BY <1>11 DEF MovedDown, MovedUp, RootStands
<1>12. CASE UNCHANGED vars
  BY <1>4, <1>12 DEF vars
<1> QED
  BY <1>4, <1>5, <1>6, <1>7, <1>8, <1>9, <1>10, <1>11, <1>12, StepEffect

\* The two invariants together give the property: a set that holds the
\* working directory and all parents holds the entry of least rank on the
\* way, and that is the root.
LEMMA ReachesRoot ==
  ASSUME Inv, Rooted, RootStands
  PROVE  CwdReachesRoot
<1> SUFFICES ASSUME up PROVE CwdReachesRoot!2
  BY DEF CwdReachesRoot
<1>1. TypeOK /\ stored_magic
  BY DEF Inv, ReloadIsCurrent
<1>2. PICK D \in SUBSET Inode, rank \in [Inode -> Nat] : Chain(D, rank)
  BY DEF Rooted
<1>3. ASSUME NEW S \in SUBSET Inode, current_dir_inode \in S, ClosedUnderParent(S)
      PROVE  0 \in S
  <2> DEFINE R == {rank[j] : j \in D \cap S}
  <2>1. R \in SUBSET Nat /\ R # {}
    BY <1>2, <1>3 DEF Chain
  <2>2. PICK x \in R : \A y \in R : x <= y
    BY <2>1, LeastElement
  <2>3. PICK j \in D \cap S : rank[j] = x
    BY <2>2
  <2>4. CASE j = 0
    BY <2>4
  <2>5. CASE j # 0
    <3> DEFINE p == file_table[j].parent_inode
    <3>1. p \in D \cap S /\ rank[p] < rank[j]
      BY <1>2, <1>3, <2>5 DEF Chain, ClosedUnderParent
    <3>2. rank[p] \in R /\ rank[p] \in Nat /\ rank[j] \in Nat
      BY <3>1
    <3> QED
      BY <2>2, <2>3, <3>1, <3>2
  <2> QED
    BY <2>4, <2>5
<1>4. /\ current_dir_inode \in D /\ ClosedUnderParent(D)
      /\ \A i \in D : IsDir(file_table, i)
  BY <1>1, <1>2 DEF Chain, ClosedUnderParent, RootStands, IsDir, Live
<1> QED
  BY <1>3, <1>4

\* From any working directory `cd ..' leads to the root through live
\* directories, for callers that do not name the root itself.
THEOREM RootCorrect ==
  ASSUME "/" \notin ArgName
  PROVE  Spec => []CwdReachesRoot
<1>1. Init => RootStands
  BY DEF Init, RootStands
<1>2. Inv /\ RootStands /\ [Next]_vars => RootStands'
  BY RootStandsStep
<1>3. Inv /\ Rooted /\ RootStands => CwdReachesRoot
  BY ReachesRoot
<1> QED
  BY <1>1, <1>2, <1>3, Invariance, AlwaysRooted, PTL DEF Spec

-----------------------------------------------------------------------------
(* The refinement of Namespace                                             *)

\* The item an entry stands for.
Item(t, i) ==
  [dir |-> t[i].parent_inode, name |-> t[i].name, kind |-> t[i].type,
   id |-> i, size |-> t[i].length]

\* The items of a table, and that an item names its entry.
LEMMA TreeItems ==
  ASSUME NEW t
  PROVE  /\ \A e : e \in TreeOf(t) <=> \E i \in Inode : Live(t, i) /\ e = Item(t, i)
         /\ \A i \in Inode : Live(t, i) => Item(t, i) \in TreeOf(t)
         /\ \A i, j \in Inode : Item(t, i) = Item(t, j) => i = j
BY DEF TreeOf, Item

\* An entry that becomes live adds its item.
LEMMA ItemAdded ==
  ASSUME NEW t, NEW u, NEW f \in Inode, ~Live(t, f), Live(u, f),
         \A j \in Inode : j # f => u[j] = t[j]
  PROVE  TreeOf(u) = TreeOf(t) \cup {Item(u, f)}
<1>1. \A j \in Inode : j # f => (Live(u, j) <=> Live(t, j)) /\ Item(u, j) = Item(t, j)
  BY DEF Live, Item
<1> QED
  BY <1>1, TreeItems

\* An entry that stops to be live takes its item away.
LEMMA ItemRemoved ==
  ASSUME NEW t, NEW u, NEW i \in Inode, Live(t, i), ~Live(u, i),
         \A j \in Inode : j # i => u[j] = t[j]
  PROVE  TreeOf(u) = TreeOf(t) \ {Item(t, i)}
<1>1. \A j \in Inode : j # i => (Live(u, j) <=> Live(t, j)) /\ Item(u, j) = Item(t, j)
  BY DEF Live, Item
<1>2. \A j \in Inode : Item(t, j) = Item(t, i) => j = i
  BY DEF Item
<1> QED
  BY <1>1, <1>2, TreeItems

\* An entry that stays live changes its own item only.
LEMMA ItemChanged ==
  ASSUME NEW t, NEW u, NEW i \in Inode, Live(t, i), Live(u, i),
         \A j \in Inode : j # i => u[j] = t[j]
  PROVE  TreeOf(u) = (TreeOf(t) \ {Item(t, i)}) \cup {Item(u, i)}
<1>1. \A j \in Inode : j # i => (Live(u, j) <=> Live(t, j)) /\ Item(u, j) = Item(t, j)
  BY DEF Live, Item
<1>2. \A j \in Inode : Item(t, j) = Item(t, i) => j = i
  BY DEF Item
<1> QED
  BY <1>1, <1>2, TreeItems

\* Every step of bdfs.c is a step of Namespace or changes nothing it sees.
LEMMA NamespaceStep ==
  ASSUME Inv, Inv', Rooted, [Next]_vars
  PROVE  [NS!NsNext]_(NS!nsvars)
<1>1. /\ TypeOK /\ ReloadIsCurrent
      /\ TypeOK' /\ ReloadIsCurrent'
  BY DEF Inv
<1>2. file_table \in [Inode -> Entry] /\ current_dir_inode \in Inode
  BY <1>1 DEF TypeOK
<1>3. /\ stored_magic => LoadedTable = file_table
      /\ stored_magic' => LoadedTable' = file_table'
  BY <1>1 DEF ReloadIsCurrent
<1>4. /\ up => stored_magic
      /\ up' => stored_magic'
      /\ up \in BOOLEAN /\ up' \in BOOLEAN
      /\ stored_magic \in BOOLEAN /\ stored_magic' \in BOOLEAN
  BY <1>1 DEF ReloadIsCurrent, TypeOK
<1> DEFINE tree == TreeOf(LoadedTable)
<1>5. /\ up => tree = TreeOf(file_table)
      /\ up' => tree' = TreeOf(file_table')
  BY <1>3, <1>4
<1>6. CASE UNCHANGED <<up, file_table, current_dir_inode, storage>>
  <2>1. UNCHANGED <<up, stored_magic, current_dir_inode, stored_table, stored_data>>
    BY <1>6 DEF storage
  <2>2. LoadedTable' = LoadedTable
    BY <2>1 DEF LoadedTable
  <2> QED
    BY <2>1, <2>2 DEF NS!nsvars
<1>7. CASE Booted
  <2>1. /\ up' = TRUE /\ stored_magic' = TRUE /\ current_dir_inode' = 0 /\ ~up
    BY <1>4, <1>7 DEF Booted
  <2>2. tree' = IF stored_magic THEN tree ELSE TreeOf(FreshTable)
    BY <1>3, <1>5, <1>7, <2>1 DEF Booted
  <2>3. NS!Boot
    BY <2>1, <2>2 DEF NS!Boot
  <2> QED
    BY <2>3 DEF NS!NsNext
<1>8. CASE Stopped
  <2>1. LoadedTable' = LoadedTable
    BY <1>8 DEF Stopped, LoadedTable
  <2>2. NS!Crash(stored_magic')
    BY <1>4, <1>8, <2>1 DEF Stopped, NS!Crash
  <2> QED
    BY <1>4, <2>2 DEF NS!NsNext
<1>9. CASE EntryMade
  <2>1. PICK f \in Inode, name \in ArgName, type \in {"file", "directory"} :
          /\ ~Live(file_table, f) /\ NotHere(name)
          /\ file_table' = [file_table EXCEPT ![f] = NewEntry(name, type, current_dir_inode)]
          /\ up /\ UNCHANGED <<up, current_dir_inode>>
    BY <1>9 DEF EntryMade
  <2>2. /\ file_table'[f] = NewEntry(name, type, current_dir_inode)
        /\ \A j \in Inode : j # f => file_table'[j] = file_table[j]
    BY <1>2, <2>1
  <2>3. ~Live(file_table, f) /\ Live(file_table', f)
    <3>1. Live(file_table', f)
      BY <2>2, ArgumentsAssumption DEF Live, NewEntry, EmptyEntry
    <3> QED
      BY <2>1, <3>1
  <2>4. Item(file_table', f) = [dir |-> current_dir_inode, name |-> name, kind |-> type,
                                id |-> f, size |-> 0]
    BY <2>2 DEF Item, NewEntry, EmptyEntry
  <2>5. TreeOf(file_table') = TreeOf(file_table) \cup {Item(file_table', f)}
    BY <2>2, <2>3, ItemAdded
  <2>6. tree' = tree \cup {[dir |-> current_dir_inode, name |-> name, kind |-> type,
                            id |-> f, size |-> 0]}
    BY <1>5, <2>1, <2>4, <2>5
  <2>7. NS!Here(name) = {}
    <3>1. \A e \in TreeOf(file_table) : ~(e.dir = current_dir_inode /\ e.name = name)
      BY <2>1, TreeItems DEF NotHere, Item
    <3> QED
      BY <1>5, <2>1, <3>1 DEF NS!Here
  <2>8. f \notin NS!Used
    <3>1. \A e \in TreeOf(file_table) : e.id # f
      BY <2>1, TreeItems DEF Item
    <3> QED
      BY <1>5, <2>1, <3>1 DEF NS!Used
  <2>9. stored_magic' = stored_magic
    BY <1>4, <2>1
  <2>10. NS!Add(name, type, f)
    BY <2>1, <2>6, <2>7, <2>8, <2>9 DEF NS!Add
  <2> QED
    BY <2>10 DEF NS!NsNext
<1>10. CASE EntryDeleted
  <2>1. PICK i \in Inode :
          /\ IsHere(i)
          /\ file_table' = [file_table EXCEPT ![i].name = ""]
          /\ up /\ UNCHANGED <<up, current_dir_inode>>
    BY <1>10 DEF EntryDeleted
  <2>2. /\ file_table'[i].name = ""
        /\ \A j \in Inode : j # i => file_table'[j] = file_table[j]
    BY <1>2, <2>1, ZenonT(60) DEF Entry
  <2>3. Live(file_table, i) /\ ~Live(file_table', i)
    BY <2>1, <2>2 DEF IsHere, Live
  <2>4. TreeOf(file_table') = TreeOf(file_table) \ {Item(file_table, i)}
    BY <2>2, <2>3, ItemRemoved
  <2>5. /\ tree' = tree \ {Item(file_table, i)}
        /\ Item(file_table, i) \in tree
    BY <1>5, <2>1, <2>3, <2>4, TreeItems
  <2>6. Item(file_table, i).dir = current_dir_inode
    BY <2>1 DEF IsHere, Item
  <2>7. stored_magic' = stored_magic
    BY <1>4, <2>1
  <2>8. NS!Remove(Item(file_table, i))
    BY <2>1, <2>5, <2>6, <2>7 DEF NS!Remove
  <2> QED
    BY <2>5, <2>8 DEF NS!NsNext
<1>11. CASE EntryRenamed
  <2>1. PICK i \in Inode, name \in ArgName :
          /\ IsHere(i) /\ NotHere(name)
          /\ file_table' = [file_table EXCEPT ![i].name = name]
          /\ up /\ UNCHANGED <<up, current_dir_inode>>
    BY <1>11 DEF EntryRenamed
  <2>2. /\ file_table'[i].name = name
        /\ file_table'[i].parent_inode = file_table[i].parent_inode
        /\ file_table'[i].type = file_table[i].type
        /\ file_table'[i].length = file_table[i].length
        /\ \A j \in Inode : j # i => file_table'[j] = file_table[j]
    BY <1>2, <2>1 DEF Entry
  <2>3. Live(file_table, i) /\ Live(file_table', i)
    BY <2>1, <2>2, ArgumentsAssumption DEF IsHere, Live
  <2>4. Item(file_table', i) = [Item(file_table, i) EXCEPT !.name = name]
    BY <2>2 DEF Item
  <2>5. TreeOf(file_table') = (TreeOf(file_table) \ {Item(file_table, i)})
                                \cup {Item(file_table', i)}
    BY <2>2, <2>3, ItemChanged
  <2>6. /\ tree' = (tree \ {Item(file_table, i)})
                     \cup {[Item(file_table, i) EXCEPT !.name = name]}
        /\ Item(file_table, i) \in tree
    BY <1>5, <2>1, <2>3, <2>4, <2>5, TreeItems
  <2>7. NS!Here(name) = {}
    <3>1. \A e \in TreeOf(file_table) : ~(e.dir = current_dir_inode /\ e.name = name)
      BY <2>1, TreeItems DEF NotHere, Item
    <3> QED
      BY <1>5, <2>1, <3>1 DEF NS!Here
  <2>8. Item(file_table, i).dir = current_dir_inode
    BY <2>1 DEF IsHere, Item
  <2>9. stored_magic' = stored_magic
    BY <1>4, <2>1
  <2>10. NS!Rename(Item(file_table, i), name)
    BY <2>1, <2>6, <2>7, <2>8, <2>9 DEF NS!Rename
  <2> QED
    BY <2>6, <2>10 DEF NS!NsNext
<1>12. CASE FileWritten
  <2>1. PICK i \in Inode, start \in Nat, buffer \in Buffer :
          /\ IsHere(i) /\ file_table[i].type = "file"
          /\ file_table' = [file_table EXCEPT ![i].start_sector = start,
                                              ![i].length = Len(buffer)]
          /\ up /\ UNCHANGED <<up, current_dir_inode>>
    BY <1>12 DEF FileWritten
  <2>2. /\ file_table'[i].name = file_table[i].name
        /\ file_table'[i].parent_inode = file_table[i].parent_inode
        /\ file_table'[i].type = file_table[i].type
        /\ file_table'[i].length = Len(buffer)
        /\ \A j \in Inode : j # i => file_table'[j] = file_table[j]
    BY <1>2, <2>1 DEF Entry
  <2>3. Live(file_table, i) /\ Live(file_table', i)
    BY <2>1, <2>2 DEF IsHere, Live
  <2>4. Item(file_table', i) = [Item(file_table, i) EXCEPT !.size = Len(buffer)]
    BY <2>2 DEF Item
  <2>5. TreeOf(file_table') = (TreeOf(file_table) \ {Item(file_table, i)})
                                \cup {Item(file_table', i)}
    BY <2>2, <2>3, ItemChanged
  <2>6. /\ tree' = (tree \ {Item(file_table, i)})
                     \cup {[Item(file_table, i) EXCEPT !.size = Len(buffer)]}
        /\ Item(file_table, i) \in tree
    BY <1>5, <2>1, <2>3, <2>4, <2>5, TreeItems
  <2>7. Item(file_table, i).dir = current_dir_inode /\ Item(file_table, i).kind = "file"
    BY <2>1 DEF IsHere, Item
  <2>8. stored_magic' = stored_magic
    BY <1>4, <2>1
  <2>9. NS!Resize(Item(file_table, i), Len(buffer))
    BY <2>1, <2>6, <2>7, <2>8 DEF NS!Resize
  <2> QED
    BY <2>6, <2>9 DEF NS!NsNext
<1>13. CASE MovedDown
  <2> DEFINE i == current_dir_inode'
  <2>1. /\ IsHere(i) /\ file_table[i].type = "directory" /\ i \in Inode
        /\ up /\ UNCHANGED <<up, stored_magic, stored_table, stored_data>>
    BY <1>13 DEF MovedDown, IsHere
  <2>2. LoadedTable' = LoadedTable
    BY <2>1 DEF LoadedTable
  <2>3. /\ Item(file_table, i).dir = current_dir_inode
        /\ Item(file_table, i).kind = "directory"
        /\ Item(file_table, i).id = i
    BY <2>1 DEF IsHere, Item
  <2>4. Item(file_table, i) \in tree
    BY <1>5, <2>1, TreeItems DEF IsHere
  <2>5. NS!Enter(Item(file_table, i))
    BY <2>1, <2>2, <2>3 DEF NS!Enter
  <2> QED
    BY <2>4, <2>5 DEF NS!NsNext
<1>14. CASE MovedUp
  <2> DEFINE c == current_dir_inode
  <2>1. /\ c # 0 /\ current_dir_inode' = file_table[c].parent_inode
        /\ up /\ UNCHANGED <<up, stored_magic, stored_table, stored_data>>
    BY <1>14 DEF MovedUp
  <2>2. LoadedTable' = LoadedTable
    BY <2>1 DEF LoadedTable
  <2>3. Live(file_table, c)
    BY <2>1 DEF Rooted, Chain, IsDir
  <2>4. Item(file_table, c).id = c /\ Item(file_table, c).dir = file_table[c].parent_inode
    BY DEF Item
  <2>5. Item(file_table, c) \in tree
    BY <1>2, <1>5, <2>1, <2>3, TreeItems
  <2>6. NS!Leave(Item(file_table, c))
    BY <2>1, <2>2, <2>4 DEF NS!Leave
  <2> QED
    BY <2>5, <2>6 DEF NS!NsNext
<1>15. CASE UNCHANGED vars
  BY <1>6, <1>15 DEF vars
<1> QED
  BY <1>6, <1>7, <1>8, <1>9, <1>10, <1>11, <1>12, <1>13, <1>14, <1>15, StepEffect

\* bdfs.c implements Namespace: for any sizes, names, buffers and sequence of
\* calls and restarts, what a restart would find in bdfs_storage changes as
\* the abstract specification says.
THEOREM NamespaceCorrect == Spec => ImplementsNamespace
<1>1. Init => NS!Start
  <2> SUFFICES ASSUME Init PROVE NS!Start
    OBVIOUS
  <2>1. \A i \in Inode : stored_table[i].name = "" /\ stored_table[i] = EmptyEntry
    BY DEF Init, EmptyEntry
  <2>2. \A i \in Inode : LoadedTable[i].name = ""
    BY <2>1 DEF LoadedTable, EmptyEntry, Init
  <2>3. TreeOf(LoadedTable) = {}
    BY <2>2 DEF TreeOf, Live
  <2> QED
    BY <2>3 DEF Init, NS!Start
<1>2. Inv /\ Inv' /\ Rooted /\ [Next]_vars => [NS!NsNext]_(NS!nsvars)
  BY NamespaceStep
<1> QED
  BY <1>1, <1>2, Invariance, AlwaysRooted, PTL DEF Spec, ImplementsNamespace, NS!NsSpec
=============================================================================
