----------------------------- MODULE Initramfs -----------------------------
(***************************************************************************)
(* Filling the file tree at boot: initramfs_load (kernel/initramfs.c)      *)
(* creates directories and files of the RAM file system (kernel/ramfs.c)   *)
(* from the entries of a tar archive, and vfs_lookup (kernel/vfs.c) finds  *)
(* them afterwards.                                                        *)
(*                                                                         *)
(* A path is the sequence of its components, as normalize_path and the     *)
(* loops over '/' leave it; a component is a sequence of characters.  The  *)
(* loader cuts a component to the length of a node's name, vfs_lookup      *)
(* refuses one that is longer.  Any allocation may fail.                   *)
(***************************************************************************)
EXTENDS Naturals, Sequences, FiniteSets, FiniteSetsExt

CONSTANTS
  Components,   \* the path components considered
  NameMax,      \* VFS_NAME_MAX
  MaxEntries    \* the entries of an archive

ASSUME InitramfsAssumption ==
  /\ \A c \in Components : Len(c) > 0
  /\ NameMax \in Nat /\ NameMax > 1
  /\ MaxEntries \in Nat

VARIABLES
  nodes,         \* the tree, in order of creation: name, type, parent, entry
  archive,       \* the entries read so far
  pc,
  current,       \* the directory ensure_dir_path has come to
  depth,         \* and the component it is at
  loaded_files, loaded_dirs,
  failed         \* history: an allocation has failed

stats == <<loaded_files, loaded_dirs>>
initramfsVars == <<nodes, archive, pc, current, depth, stats, failed>>

Paths == UNION {[1 .. n -> Components] : n \in 1 .. 2}
\* The path of an entry that is neither file nor directory is not looked at.
ArchiveEntries ==
  [path : Paths, type : {"dir", "file"}]
    \cup [path : {CHOOSE p \in Paths : TRUE}, type : {"other"}]
Ids == DOMAIN nodes
Root == 1
Null == 0

\* A node: `entry' is the archive entry its data comes from.
Node(name, type, parent, entry) ==
  [name |-> name, type |-> type, parent |-> parent, entry |-> entry]

\* Every variable has its type: a node's name fits, with its final zero, in
\* VFS_NAME_MAX bytes, and a parent is older than its children.
InitramfsTypeOK ==
  /\ \A i \in Ids : /\ Len(nodes[i].name) < NameMax
                    /\ nodes[i].type \in {"dir", "file"}
                    /\ nodes[i].parent \in 0 .. i - 1
                    /\ nodes[i].entry \in 0 .. Len(archive)
  /\ archive \in Seq(ArchiveEntries) /\ Len(archive) <= MaxEntries
  /\ pc \in {"header", "path", "file", "done"}
  /\ current \in Ids
  /\ depth \in 0 .. 3
  /\ loaded_files \in Nat /\ loaded_dirs \in Nat
  /\ failed \in BOOLEAN

\* ramfs_init: the root directory.  (dev and tmp are in nobody's way.)
InitramfsInit ==
  /\ nodes = <<Node(<<>>, "dir", Null, 0)>>
  /\ archive = <<>>
  /\ pc = "header"
  /\ current = Root /\ depth = 0
  /\ loaded_files = 0 /\ loaded_dirs = 0
  /\ failed = FALSE

----------------------------------------------------------------------------
\* find_child and vfs_find_child: the first child of that name, or null.
find_child(parent, name) ==
  LET found == {i \in Ids : nodes[i].parent = parent /\ nodes[i].name = name}
  IN  IF found = {} THEN Null ELSE Min(found)

\* copy_component: as much of a component as a name holds.
Cut(c) == SubSeq(c, 1, Min({Len(c), NameMax - 1}))

\* ramfs_alloc_node and ramfs_add_child.
Add(name, type, entry) == nodes' = Append(nodes, Node(name, type, current, entry))

This == archive[Len(archive)]
Name == Cut(This.path[depth])

\* The components that are directories: all, or all but a file's last one.
DirDepth == IF This.type = "dir" THEN Len(This.path) ELSE Len(This.path) - 1

StartDir_Mutant == current

\* Where ensure_dir_path begins.
StartDir == Root

DirsCounted(created) == IF created THEN loaded_dirs + 1 ELSE loaded_dirs

----------------------------------------------------------------------------
\* One round of initramfs_load: the next header.  Entries that are neither
\* files nor directories are passed over.
ReadHeader(e) ==
  /\ pc = "header"
  /\ Len(archive) < MaxEntries
  /\ archive' = Append(archive, e)
  /\ current' = StartDir
  /\ depth' = 1
  /\ pc' = IF e.type = "other" THEN "header" ELSE "path"
  /\ UNCHANGED <<nodes, stats, failed>>

\* The zero block after the last entry.
EndOfArchive ==
  /\ pc = "header"
  /\ pc' = "done"
  /\ current' = Root /\ depth' = 0
  /\ UNCHANGED <<nodes, archive, stats, failed>>

\* One component of ensure_dir_path: it is there, ...
EnterDir ==
  LET child == find_child(current, Name)
  IN  /\ pc = "path" /\ depth <= DirDepth
      /\ child # Null /\ nodes[child].type = "dir"
      /\ current' = child
      /\ depth' = depth + 1
      /\ loaded_dirs' = DirsCounted(FALSE)
      /\ UNCHANGED <<nodes, archive, pc, loaded_files, failed>>

\* ... or is a file, and the entry is given up, ...
NotADir ==
  LET child == find_child(current, Name)
  IN  /\ pc = "path" /\ depth <= DirDepth
      /\ child # Null /\ nodes[child].type # "dir"
      /\ pc' = "header"
      /\ UNCHANGED <<nodes, archive, current, depth, stats, failed>>

DirMissing_Mutant == pc = "path" /\ depth <= DirDepth

DirMissing ==
  pc = "path" /\ depth <= DirDepth /\ find_child(current, Name) = Null

\* ... or is missing and is created, ...
CreateDir ==
  /\ DirMissing
  /\ Add(Name, "dir", Len(archive))
  /\ loaded_dirs' = DirsCounted(TRUE)
  /\ current' = Len(nodes) + 1
  /\ depth' = depth + 1
  /\ UNCHANGED <<archive, pc, loaded_files, failed>>

\* ... unless there is no memory.  The counter is incremented all the same.
CreateDirFails ==
  /\ DirMissing
  /\ loaded_dirs' = DirsCounted(TRUE)
  /\ failed' = TRUE
  /\ pc' = "header"
  /\ UNCHANGED <<nodes, archive, current, depth, loaded_files>>

PathDone ==
  /\ pc = "path" /\ depth > DirDepth
  /\ pc' = IF This.type = "dir" THEN "header" ELSE "file"
  /\ UNCHANGED <<nodes, archive, current, depth, stats, failed>>

\* load_file_entry with its directory there: an existing node is kept, ...
FileExists ==
  /\ pc = "file"
  /\ find_child(current, Name) # Null
  /\ pc' = "header"
  /\ UNCHANGED <<nodes, archive, current, depth, stats, failed>>

FileMissing == pc = "file" /\ find_child(current, Name) = Null

\* ... a missing one is created with the entry's data, ...
CreateFile ==
  /\ FileMissing
  /\ Add(Name, "file", Len(archive))
  /\ loaded_files' = loaded_files + 1
  /\ pc' = "header"
  /\ UNCHANGED <<archive, current, depth, loaded_dirs, failed>>

\* ... if there is memory for the node and the data.
CreateFileFails ==
  /\ FileMissing
  /\ failed' = TRUE
  /\ pc' = "header"
  /\ UNCHANGED <<nodes, archive, current, depth, stats>>

InitramfsNext ==
  \/ \E e \in ArchiveEntries : ReadHeader(e)
  \/ EndOfArchive
  \/ EnterDir \/ NotADir \/ CreateDir \/ CreateDirFails \/ PathDone
  \/ FileExists \/ CreateFile \/ CreateFileFails

InitramfsSpec == InitramfsInit /\ [][InitramfsNext]_initramfsVars

----------------------------------------------------------------------------
(* Finding a node.                                                         *)

\* One component of vfs_lookup, from node n.
Step(n, c) ==
  IF n = Null \/ Len(c) >= NameMax \/ nodes[n].type # "dir" THEN Null
  ELSE find_child(n, c)

vfs_lookup(path) ==
  LET at[k \in 0 .. Len(path)] == IF k = 0 THEN Root ELSE Step(at[k - 1], path[k])
  IN  at[Len(path)]

----------------------------------------------------------------------------
\* No directory has two children of one name, so each node can be looked up;
\* and the counters of initramfsinfo say what is in the tree, until memory
\* fails.
TreeExact ==
  /\ InitramfsTypeOK
  /\ \A i, j \in Ids :
       nodes[i].parent = nodes[j].parent /\ nodes[i].name = nodes[j].name => i = j
  /\ ~failed =>
       /\ loaded_files = Cardinality({i \in Ids : nodes[i].type = "file"})
       /\ loaded_dirs = Cardinality({i \in Ids : nodes[i].type = "dir"}) - 1

CutPath(p) == [k \in DOMAIN p |-> Cut(p[k])]

\* p is a proper prefix of q.
Above(p, q) == Len(p) < Len(q) /\ SubSeq(q, 1, Len(p)) = p

\* No entry makes a file of a directory of entry k, or a directory of entry k.
NoConflict(k) ==
  LET p == CutPath(archive[k].path)
  IN  \A j \in DOMAIN archive :
        LET q == CutPath(archive[j].path)
        IN  /\ archive[j].type = "file" => ~Above(q, p)
            /\ archive[j].type # "other" => ~Above(p, q)
            /\ archive[j].type = "dir" => q # p

\* The first file entry whose path, cut, is p.
FirstOf(p) ==
  Min({j \in DOMAIN archive : archive[j].type = "file" /\ CutPath(archive[j].path) = p})

\* When the archive has been read and memory sufficed, every file whose names
\* fit is found under its path, with the data of the first entry of that path;
\* an entry with a longer name that is cut to the same one counts as such.
FilesFound ==
  pc = "done" /\ ~failed =>
    \A k \in DOMAIN archive :
      LET p == archive[k].path
          n == vfs_lookup(p)
      IN  archive[k].type = "file" /\ CutPath(p) = p /\ NoConflict(k)
            => n # Null /\ nodes[n].type = "file" /\ nodes[n].entry = FirstOf(p)
============================================================================
