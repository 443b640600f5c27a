----------------------------- MODULE Namespace ------------------------------
(***************************************************************************)
(* What BDFS promises its callers about names, whatever the tables look    *)
(* like: a set of named items, each in one directory, that survives a warm *)
(* restart; every call changes at most the one item of the working         *)
(* directory it names.  Which entry, and which sectors, an item occupies,  *)
(* when a call is refused and what the copy in bdfs_storage looks like are *)
(* not part of the promise.                                                *)
(***************************************************************************)
EXTENDS Integers

CONSTANTS
  Name,        \* names of items
  Id,          \* what identifies an item: its inode
  RootId,
  Size,        \* sizes of files
  DefaultTree  \* the items of a new file system

VARIABLES
  on,      \* the system is running
  intact,  \* memory still holds the tree
  tree,    \* the items: [dir, name, kind, id, size]
  cwd      \* the working directory

nsvars == <<on, intact, tree, cwd>>

Here(n) == {e \in tree : e.dir = cwd /\ e.name = n}
Used == {e.id : e \in tree}

Start == on = FALSE /\ intact = FALSE /\ tree = {} /\ cwd = RootId

Boot ==
  /\ ~on
  /\ on' = TRUE /\ intact' = TRUE /\ cwd' = RootId
  /\ tree' = IF intact THEN tree ELSE DefaultTree

Crash(kept) ==
  /\ on
  /\ on' = FALSE
  /\ intact' = kept
  /\ UNCHANGED <<tree, cwd>>

Add(n, kind, id) ==
  /\ on
  /\ Here(n) = {} /\ id \notin Used
  /\ tree' = tree \cup {[dir |-> cwd, name |-> n, kind |-> kind, id |-> id, size |-> 0]}
  /\ UNCHANGED <<on, intact, cwd>>

Remove(e) ==
  /\ on
  /\ e.dir = cwd
  /\ tree' = tree \ {e}
  /\ UNCHANGED <<on, intact, cwd>>

Rename(e, n) ==
  /\ on
  /\ e.dir = cwd /\ Here(n) = {}
  /\ tree' = (tree \ {e}) \cup {[e EXCEPT !.name = n]}
  /\ UNCHANGED <<on, intact, cwd>>

Resize(e, size) ==
  /\ on
  /\ e.dir = cwd /\ e.kind = "file"
  /\ tree' = (tree \ {e}) \cup {[e EXCEPT !.size = size]}
  /\ UNCHANGED <<on, intact, cwd>>

Enter(e) ==
  /\ on
  /\ e.dir = cwd /\ e.kind = "directory"
  /\ cwd' = e.id
  /\ UNCHANGED <<on, intact, tree>>

Leave(e) ==
  /\ on
  /\ e.id = cwd
  /\ cwd' = e.dir
  /\ UNCHANGED <<on, intact, tree>>

NsNext ==
  \/ Boot
  \/ \E kept \in BOOLEAN : Crash(kept)
  \/ \E n \in Name, kind \in {"file", "directory"}, id \in Id : Add(n, kind, id)
  \/ \E e \in tree :
       \/ Remove(e)
       \/ \E n \in Name : Rename(e, n)
       \/ \E size \in Size : Resize(e, size)
       \/ Enter(e)
       \/ Leave(e)

NsSpec == Start /\ [][NsNext]_nsvars
=============================================================================
