------------------------------ MODULE ElfImage -----------------------------
(***************************************************************************)
(* The commands elfinfo and elfload (kernel/elf.c): a file is read into a  *)
(* buffer, its headers are checked, and elfload copies each PT_LOAD        *)
(* segment to memory of its own and records it in last_loaded_image.       *)
(*                                                                         *)
(* Sizes are counted in units: the file header takes HeaderSize, a program *)
(* header one.  Fields read from the file are below Word, 2^64 in the      *)
(* code.  Unit k of a file, counted from 1, holds k; 0 is a cleared unit.  *)
(* In a header `ident' stands for the fields with one legal value: magic,  *)
(* class, byte order, both versions, machine and e_phentsize.              *)
(* A program header is chosen when it is read.  The heap is external: it   *)
(* serves requests of at most BlockSize while one of its blocks is free.   *)
(***************************************************************************)
EXTENDS Naturals, Sequences, FiniteSetsExt

CONSTANTS
  Word,          \* 2^64
  HeaderSize,    \* sizeof(elf64_ehdr_t)
  FileHeaders, ProgramHeaders,   \* the headers files may have
  MaxSegments,   \* ELF_MAX_LOADED_SEGMENTS
  BlockSize, Blocks

ASSUME ElfAssumption ==
  /\ {Word, HeaderSize, MaxSegments, BlockSize, Blocks} \subseteq Nat
  /\ FileHeaders \subseteq
       [size : 0 .. Word - 1, ident : BOOLEAN, type : {"EXEC", "DYN", "other"},
        phoff : 0 .. Word - 1, phnum : 0 .. Word - 1]
  /\ ProgramHeaders \subseteq
       [load : BOOLEAN, offset : 0 .. Word - 1, filesz : 0 .. Word - 1,
        memsz : 0 .. Word - 1]

VARIABLES
  command,       \* "none", or the command whose call is in progress
  file,          \* the file being read
  buffer,        \* the block that holds it, 0 for none
  phdrs,         \* its program headers read so far
  image,         \* last_loaded_image
  loaded,        \* history: the file of the last load that succeeded
  blocks         \* the contents of each block of the heap

elfVars == <<command, file, buffer, phdrs, image, loaded, blocks>>

NoFile == [size |-> 0, ident |-> FALSE, type |-> "other", phoff |-> 0, phnum |-> 0]
Free == <<>>

\* `entry' tells whether e_entry has been recorded.
elf_clear_image == [valid |-> FALSE, entry |-> FALSE, segments |-> <<>>, total_memory |-> 0]

ElfInit ==
  /\ command = "none" /\ file = NoFile /\ buffer = 0 /\ phdrs = <<>>
  /\ image = elf_clear_image /\ loaded = [file |-> NoFile, phdrs |-> <<>>]
  /\ blocks = [b \in 1 .. Blocks |-> Free]

----------------------------------------------------------------------------
FreeBlocks == {b \in DOMAIN blocks : blocks[b] = Free}
Serves(size) == size <= BlockSize /\ FreeBlocks # {}
kmalloc == Min(FreeBlocks)
kfree == [blocks EXCEPT ![buffer] = Free]


elf_range_ok(offset, size, file_size) ==
  offset <= file_size /\ size <= file_size - offset

elf_validate_header(h) ==
  /\ h.size >= HeaderSize
  /\ h.ident /\ h.type \in {"EXEC", "DYN"}
  /\ h.phnum # 0
  /\ elf_range_ok(h.phoff, h.phnum, h.size)

----------------------------------------------------------------------------
\* elf_load_from_path clears the image before it reads the file; elfinfo
\* does not touch it.
ImageAtEntry(c) == IF c = "elfload" THEN elf_clear_image ELSE image

\* There is no such file, it is empty, or there is no memory for it.
CannotRead(c) ==
  /\ command = "none"
  /\ image' = ImageAtEntry(c)
  /\ UNCHANGED <<command, file, buffer, phdrs, loaded, blocks>>

read_file_to_memory(c, h) ==
  /\ command = "none" /\ h.size # 0 /\ Serves(h.size)
  /\ command' = c /\ file' = h /\ phdrs' = <<>>
  /\ buffer' = kmalloc
  /\ blocks' = [blocks EXCEPT ![kmalloc] = [i \in 1 .. h.size |-> i]]
  /\ image' = ImageAtEntry(c)
  /\ UNCHANGED loaded

\* Every return once the file is in memory frees the buffer.
Return ==
  /\ command' = "none" /\ buffer' = 0 /\ blocks' = kfree
  /\ file' = NoFile /\ phdrs' = <<>>

RejectHeader ==
  /\ buffer # 0 /\ ~elf_validate_header(file)
  /\ Return /\ UNCHANGED <<image, loaded>>

\* elfinfo prints the headers.
ShowHeaders ==
  /\ command = "elfinfo" /\ elf_validate_header(file)
  /\ Return /\ UNCHANGED <<image, loaded>>

Loading == command = "elfload" /\ elf_validate_header(file)
More == Loading /\ Len(phdrs) < file.phnum

Skipped(p) == ~p.load \/ p.memsz = 0

Refused(p) ==
  \/ p.filesz > p.memsz
  \/ ~elf_range_ok(p.offset, p.filesz, file.size)
  \/ Len(image.segments) >= MaxSegments
  \/ ~Serves(p.memsz)

SkipSegment(p) ==
  /\ More /\ Skipped(p)
  /\ phdrs' = Append(phdrs, p)
  /\ image' = [image EXCEPT !.entry = TRUE]
  /\ UNCHANGED <<command, file, buffer, loaded, blocks>>

\* The load fails.  The segments already loaded are not freed.
RefuseSegment(p) ==
  /\ More /\ ~Skipped(p) /\ Refused(p)
  /\ Return /\ image' = elf_clear_image
  /\ UNCHANGED loaded

\* mem_zero clears the block, mem_copy fills its start from the buffer.
LoadSegment(p) ==
  /\ More /\ ~Skipped(p) /\ ~Refused(p)
  /\ phdrs' = Append(phdrs, p)
  /\ blocks' = [blocks EXCEPT ![kmalloc] =
                  [i \in 1 .. p.memsz |-> IF i <= p.filesz THEN p.offset + i ELSE 0]]
  /\ image' = [image EXCEPT
                 !.entry = TRUE,
                 !.segments = Append(@, [header |-> p, memory |-> kmalloc]),
                 !.total_memory = @ + p.memsz]
  /\ UNCHANGED <<command, file, buffer, loaded>>

FinishLoad ==
  /\ Loading /\ Len(phdrs) = file.phnum
  /\ image' = [image EXCEPT !.entry = TRUE, !.valid = TRUE]
  /\ loaded' = [file |-> file, phdrs |-> phdrs]
  /\ Return

ElfNext ==
  \/ \E c \in {"elfinfo", "elfload"} :
       CannotRead(c) \/ (\E h \in FileHeaders : read_file_to_memory(c, h))
  \/ RejectHeader \/ ShowHeaders
  \/ \E p \in ProgramHeaders : SkipSegment(p) \/ RefuseSegment(p) \/ LoadSegment(p)
  \/ FinishLoad

ElfSpec == ElfInit /\ [][ElfNext]_elfVars

----------------------------------------------------------------------------
Loads == SelectSeq(loaded.phdrs, LAMBDA p : ~Skipped(p))

============================================================================
