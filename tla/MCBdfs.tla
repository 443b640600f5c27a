------------------------------- MODULE MCBdfs -------------------------------
(***************************************************************************)
(* Bdfs for TLC.  Two shapes of instance: one in which files of several    *)
(* sizes compete for the sectors, and one in which directories are made,   *)
(* dropped and their entries reused.                                       *)
(***************************************************************************)
EXTENDS Bdfs, TLC

NoDirs == << >>
TwoDirs == << [name |-> "vault", parent |-> 0], [name |-> "vault", parent |-> 1] >>

\* Lengths 0, 1 (part of a sector) and 3 (more than a sector).
Buffers == { <<>>, <<7>>, <<8, 9, 8>> }
OneByte == { <<7>> }

\* The default directories of bdfs_init() as it makes them, one
\* bdfs_create_dir_entry() after the other, give the table FreshTable states.
MadeOneByOne[k \in 0..Len(DefaultDirs)] ==
  IF k = 0
  THEN [[i \in Inode |-> EmptyEntry] EXCEPT ![0] = NewEntry("/", "directory", 0)]
  ELSE Created(MadeOneByOne[k - 1], DefaultDirs[k].name, "directory", DefaultDirs[k].parent)

ASSUME BootOrder == MadeOneByOne[Len(DefaultDirs)] = FreshTable
=============================================================================
