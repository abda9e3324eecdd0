------------------------------- MODULE Files -------------------------------
(***************************************************************************)
(* File descriptors and file data: fd_open, fd_read, fd_write and fd_close *)
(* (kernel/fd.c) on the nodes of the RAM file system (kernel/ramfs.c),     *)
(* through vfs_read and vfs_write (kernel/vfs.c).  A file keeps its bytes  *)
(* in one heap buffer, which a write replaces by a larger one when it must.*)
(*                                                                         *)
(* Only a read of the terminal gives up the CPU, and it changes neither    *)
(* table nor file, so every call is one step.  kmalloc may fail.           *)
(***************************************************************************)
EXTENDS Naturals, Sequences, FiniteSets, FiniteSetsExt

CONSTANTS
  FileNodes,       \* nodes of type VFS_NODE_FILE
  Tty,             \* the node /dev/tty0
  None,            \* the null pointer
  TableSize,       \* FD_TABLE_SIZE
  MinCapacity,     \* the least capacity a write allocates
  Bytes,           \* what may be written
  Zero,            \* what ramfs_memzero writes
  MaxCount,        \* the most bytes of a call considered
  MaxSize          \* bound on the size of a file

ASSUME FilesAssumption ==
  /\ Tty \notin FileNodes /\ None \notin FileNodes \cup {Tty}
  /\ TableSize \in Nat /\ TableSize > 3
  /\ MinCapacity \in Nat \ {0} /\ MaxCount \in Nat \ {0} /\ MaxSize \in Nat
  /\ IsFiniteSet(FileNodes)

VARIABLES
  fd_table,    \* object, offset, readable, writable; used when object # None
  data,        \* the buffer of each file, or 0
  size,        \* of each file
  buffers      \* the allocated buffers: their bytes, as many as the capacity

filesVars == <<fd_table, data, size, buffers>>

Fds == 0 .. TableSize - 1
Nodes == FileNodes \cup {Tty}
FdEntries == [object : Nodes \cup {None}, offset : 0 .. MaxSize,
            readable : BOOLEAN, writable : BOOLEAN]

\* As many buffers as files, and the one a write copies to.
BufferIds == 1 .. Cardinality(FileNodes) + 1

\* Every variable has its type: positions, sizes and buffers in their ranges.
FilesTypeOK ==
  /\ fd_table \in [Fds -> FdEntries]
  /\ data \in [FileNodes -> BufferIds \cup {0}]
  /\ size \in [FileNodes -> 0 .. MaxSize]
  /\ DOMAIN buffers \subseteq BufferIds

Unused == [object |-> None, offset |-> 0, readable |-> FALSE, writable |-> FALSE]
Entry(n, r, w) == [object |-> n, offset |-> 0, readable |-> r, writable |-> w]

Strings == UNION {[1 .. n -> Bytes] : n \in 1 .. MaxCount}

\* fd_init, after initramfs_load: a file that is not empty has a buffer of
\* exactly its size.
FilesInit ==
  /\ fd_table = [d \in Fds |-> IF d = 0 THEN Entry(Tty, TRUE, FALSE)
                               ELSE IF d < 3 THEN Entry(Tty, FALSE, TRUE)
                               ELSE Unused]
  /\ \E text \in [FileNodes -> Strings \cup {<<>>}] :
       /\ size = [f \in FileNodes |-> Len(text[f])]
       /\ data = CHOOSE b \in [FileNodes -> BufferIds \cup {0}] :
                   \A f, g \in FileNodes :
                     /\ b[f] = 0 <=> text[f] = <<>>
                     /\ b[f] = b[g] => f = g \/ b[f] = 0
       /\ buffers = [b \in {data[f] : f \in FileNodes} \ {0} |->
                       text[CHOOSE f \in FileNodes : data[f] = b]]

----------------------------------------------------------------------------
Used(d) == fd_table[d].object # None

\* fd_alloc_locked: the first free entry after the standard ones.
FirstFree(d) == d >= 3 /\ ~Used(d) /\ \A e \in 3 .. d - 1 : Used(e)

fd_open(n) ==
  \E d \in Fds :
    /\ FirstFree(d)
    /\ fd_table' = [fd_table EXCEPT ![d] = Entry(n, TRUE, TRUE)]
    /\ UNCHANGED <<data, size, buffers>>

MayClose(d) == d >= 3 /\ Used(d)

fd_close(d) ==
  /\ MayClose(d)
  /\ fd_table' = [fd_table EXCEPT ![d] = Unused]
  /\ UNCHANGED <<data, size, buffers>>

----------------------------------------------------------------------------
\* The bytes ramfs_read copies.
ToRead(f, offset, n) ==
  IF offset >= size[f] THEN 0 ELSE Min({n, size[f] - offset})

\* fd_read on a file.
fd_read(d, n) ==
  LET f == fd_table[d].object
  IN  /\ Used(d) /\ fd_table[d].readable
      /\ f \in FileNodes
      /\ fd_table' = [fd_table EXCEPT ![d].offset = @ + ToRead(f, @, n)]
      /\ UNCHANGED <<data, size, buffers>>

----------------------------------------------------------------------------
(* ramfs_write                                                             *)

\* The bytes of f's buffer: as many as its capacity.
Buffer(f) == IF data[f] = 0 THEN <<>> ELSE buffers[data[f]]

NewCapacity(end) == IF end < MinCapacity THEN MinCapacity ELSE end

CopiedTo_Mutant(buf, p, s) ==
  [i \in 1 .. Len(buf) |-> IF i <= Len(s) THEN s[i] ELSE buf[i]]

\* ramfs_memcpy to position p of a buffer.
CopiedTo(buf, p, s) ==
  [i \in 1 .. Len(buf) |-> IF i \in p + 1 .. p + Len(s) THEN s[i - p] ELSE buf[i]]

Fresh == Min(BufferIds \ DOMAIN buffers)

\* A new, zeroed buffer with the old bytes.
Grown(f, end) ==
  CopiedTo([i \in 1 .. NewCapacity(end) |-> Zero], 0, SubSeq(Buffer(f), 1, size[f]))

KeptBuffers_Mutant(f) == DOMAIN buffers

\* The old buffer is freed when there is one with bytes in it.
KeptBuffers(f) ==
  IF data[f] # 0 /\ size[f] > 0 THEN DOMAIN buffers \ {data[f]} ELSE DOMAIN buffers

MustGrow(f, end) == end > Len(Buffer(f))

NewSize_Mutant(f, end) == end

NewSize(f, end) == IF end > size[f] THEN end ELSE size[f]

\* fd_write's update of the offset.
Advanced(d, n) == [fd_table EXCEPT ![d].offset = @ + n]

\* A write that fits the buffer ...
WriteInPlace(d, s) ==
  LET f == fd_table[d].object
      end == fd_table[d].offset + Len(s)
  IN  /\ Used(d) /\ fd_table[d].writable
      /\ f \in FileNodes
      /\ end <= MaxSize
      /\ ~MustGrow(f, end)
      /\ buffers' = [buffers EXCEPT ![data[f]] =
                       CopiedTo(@, fd_table[d].offset, s)]
      /\ size' = [size EXCEPT ![f] = NewSize(f, end)]
      /\ fd_table' = Advanced(d, Len(s))
      /\ UNCHANGED data

\* ... and one that needs a larger one, which kmalloc gives.  If it does not,
\* nothing is written and nothing changes.
WriteGrow(d, s) ==
  LET f == fd_table[d].object
      end == fd_table[d].offset + Len(s)
      new == CopiedTo(Grown(f, end), fd_table[d].offset, s)
  IN  /\ Used(d) /\ fd_table[d].writable
      /\ f \in FileNodes
      /\ end <= MaxSize
      /\ MustGrow(f, end)
      /\ buffers' = [b \in KeptBuffers(f) \cup {Fresh} |->
                       IF b = Fresh THEN new ELSE buffers[b]]
      /\ data' = [data EXCEPT ![f] = Fresh]
      /\ size' = [size EXCEPT ![f] = NewSize(f, end)]
      /\ fd_table' = Advanced(d, Len(s))

fd_write(d, s) == WriteInPlace(d, s) \/ WriteGrow(d, s)

FilesNext ==
  \/ \E n \in Nodes : fd_open(n)
  \/ \E d \in Fds :
       \/ fd_close(d)
       \/ \E n \in 1 .. MaxCount : fd_read(d, n)
       \/ \E s \in Strings : fd_write(d, s)

FilesSpec == FilesInit /\ [][FilesNext]_filesVars

----------------------------------------------------------------------------
\* Every allocated buffer is the buffer of exactly one file, and a file's size
\* never exceeds its capacity: growing a file neither leaks the old buffer nor
\* leaves it in use.  And no descriptor stands beyond the end of its file,
\* however many of them read and write it: a write never leaves a gap.
BuffersOwned ==
  /\ FilesTypeOK
  /\ DOMAIN buffers = {data[f] : f \in FileNodes} \ {0}
  /\ \A f, g \in FileNodes : f # g /\ data[f] # 0 => data[f] # data[g]
  /\ \A f \in FileNodes : size[f] <= Len(Buffer(f))
  /\ \A d \in Fds : fd_table[d].object \in FileNodes
                       => fd_table[d].offset <= size[fd_table[d].object]

\* Reads and writes through descriptors act on files as sequences of bytes.
Api == INSTANCE FileApi WITH
         Files <- FileNodes, Descriptors <- Fds,
         contents <- [f \in FileNodes |-> SubSeq(Buffer(f), 1, size[f])],
         node <- [d \in Fds |-> fd_table[d].object],
         position <- [d \in Fds |-> fd_table[d].offset]

\* fd_open, fd_read, fd_write and fd_close implement FileApi: a file is a
\* sequence of bytes, whatever its buffer goes through.
ImplementsFiles == Api!ApiSpec
============================================================================
