---------------------------- MODULE MCFileSystem ---------------------------
(***************************************************************************)
(* Descriptors and files, the archive's walk, the tree it fills and the    *)
(* loading of program images, on small instances.  In each behaviour one   *)
(* of Parts moves.                                                         *)
(***************************************************************************)
EXTENDS Files, Initramfs, Tar, ElfImage

CONSTANT Parts
VARIABLE part

\* Names of one and two characters fit; the third is cut to the second.
MCComponents == {<<"a">>, <<"a", "b">>, <<"a", "b", "c">>}

\* The root, a directory, files with and without prefix, a path that is one
\* character too long, and one that stands for nothing.
TarPath(prefix, name) == [prefix |-> prefix, name |-> name]
MCTarPaths ==
  {TarPath(<<>>, <<".", "/">>), TarPath(<<>>, <<".", "/", "a", "/">>),
   TarPath(<<>>, <<".", "/", "a">>), TarPath(<<".">>, <<"a", "a">>),
   TarPath(<<"a", "a">>, <<"a", "a", "a">>), TarPath(<<>>, <<"/", ".">>)}

Header(length, ident, type, phoff, phnum) ==
  [size |-> length, ident |-> ident, type |-> type, phoff |-> phoff, phnum |-> phnum]
Segment(load, start, filesz, memsz) ==
  [load |-> load, offset |-> start, filesz |-> filesz, memsz |-> memsz]

\* Two good headers; then a table that ends, starts or would wrap outside the
\* file, no table, another type, another machine, and half a header.
MCFileHeaders ==
  {Header(4, TRUE, "EXEC", 2, 2), Header(5, TRUE, "DYN", 2, 3),
   Header(4, TRUE, "EXEC", 2, 3), Header(4, TRUE, "EXEC", 5, 1),
   Header(4, TRUE, "EXEC", 15, 2), Header(4, TRUE, "EXEC", 2, 0),
   Header(4, TRUE, "other", 2, 2), Header(4, FALSE, "EXEC", 2, 2),
   Header(1, TRUE, "EXEC", 0, 1)}

\* Two that are skipped, three that are loaded, one that fits the longer file
\* only; then a range that would wrap, more bytes than memory, and more memory
\* than there is.
MCProgramHeaders ==
  {Segment(FALSE, 0, 2, 3), Segment(TRUE, 0, 0, 0),
   Segment(TRUE, 0, 2, 3), Segment(TRUE, 2, 2, 2), Segment(TRUE, 3, 0, 1),
   Segment(TRUE, 3, 2, 3),
   Segment(TRUE, 15, 2, 3), Segment(TRUE, 0, 3, 1), Segment(TRUE, 0, 1, 12)}

MCInit ==
  /\ part \in Parts
  /\ FilesInit /\ InitramfsInit /\ TarInit /\ ElfInit
  /\ part # "files" => \A f \in FileNodes : size[f] = 0
  /\ part # "tar" => listed = <<>> /\ tar = <<>>

MCNext ==
  \/ /\ part = "files" /\ FilesNext
     /\ UNCHANGED <<part, initramfsVars, tarVars, elfVars>>
  \/ /\ part = "tree" /\ InitramfsNext
     /\ UNCHANGED <<part, filesVars, tarVars, elfVars>>
  \/ /\ part = "tar" /\ TarStep
     /\ UNCHANGED <<part, filesVars, initramfsVars, elfVars>>
  \/ /\ part = "elf" /\ ElfNext
     /\ UNCHANGED <<part, filesVars, initramfsVars, tarVars>>

MCSpec == MCInit /\ [][MCNext]_<<part, filesVars, initramfsVars, tarVars, elfVars>>
============================================================================
