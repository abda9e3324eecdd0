-------------------------------- MODULE Tar --------------------------------
(***************************************************************************)
(* The walk of initramfs_load (kernel/initramfs.c) over the blocks of the  *)
(* archive linked into the kernel: which calls of load_dir_entry and       *)
(* load_file_entry it makes.  What those calls do is in module Initramfs.  *)
(*                                                                         *)
(* A block is a record of the header fields the code reads; a block of     *)
(* file data may hold anything, the fields of a header included.  A size   *)
(* is a field of octal digits, most significant first, closed by Stop (a   *)
(* zero byte or a space).  Offsets count blocks.  How tar lays out an      *)
(* archive is external.                                                    *)
(***************************************************************************)
EXTENDS Naturals, Sequences, FiniteSetsExt

CONSTANTS
  BlockBytes,    \* TAR_BLOCK_SIZE
  PathMax,       \* INITRAMFS_PATH_MAX
  TarPaths,      \* what a header holds: [prefix, name], sequences of characters
  TarSizes,      \* file sizes
  MaxFiles       \* the entries of an archive

ASSUME TarAssumption ==
  /\ BlockBytes \in Nat \ {0} /\ PathMax \in Nat \ {0} /\ MaxFiles \in Nat
  /\ TarSizes \subseteq 0 .. 63

VARIABLES
  tar,           \* the blocks of the archive
  listed,        \* history: the entries it was made from
  offset,        \* the block initramfs_load is at
  walking,
  calls,         \* the calls made, in order
  loaded_bytes   \* as if every file could be created

tarVars == <<tar, listed, offset, walking, calls, loaded_bytes>>

----------------------------------------------------------------------------
(* What tar writes.                                                        *)

Stop == 8
Octal(size) == <<size \div 8, size % 8, Stop>>
BlocksOf(size) == (size + BlockBytes - 1) \div BlockBytes

HeaderBlock(path, type, size) ==
  [zero |-> FALSE, prefix |-> path.prefix, name |-> path.name,
   size |-> Octal(size), type |-> type]
ZeroBlock == [zero |-> TRUE, prefix |-> <<>>, name |-> <<>>, size |-> <<Stop>>, type |-> "0"]

\* Directories and links have no data.  A file's data may look like the
\* header of another file, or be zero.
TarEntries ==
  [path : TarPaths, type : {"5", "2"}, size : {0}, zero : {TRUE}]
    \cup [path : TarPaths, type : {"0"}, size : TarSizes, zero : BOOLEAN]

Written(e) ==
  <<HeaderBlock(e.path, e.type, e.size)>> \o
    [i \in 1 .. BlocksOf(e.size) |->
       IF e.zero THEN ZeroBlock ELSE HeaderBlock(e.path, "0", BlockBytes)]

Archive(entries) ==
  LET upto[k \in 0 .. Len(entries)] ==
        IF k = 0 THEN <<>> ELSE upto[k - 1] \o Written(entries[k])
  IN  upto[Len(entries)]

\* The archive ends with zero blocks, or with the last entry.
TarInit ==
  /\ \E n \in 0 .. MaxFiles, trailer \in {0, 2} :
       /\ listed \in [1 .. n -> TarEntries]
       /\ tar = Archive(listed) \o [i \in 1 .. trailer |-> ZeroBlock]
  /\ offset = 0 /\ walking = TRUE
  /\ calls = <<>> /\ loaded_bytes = 0

----------------------------------------------------------------------------
\* Digits up to the first Stop.
tar_parse_octal(field) ==
  LET stop == Min({i \in DOMAIN field : field[i] = Stop})
      value[k \in 0 .. stop - 1] == IF k = 0 THEN 0 ELSE value[k - 1] * 8 + field[k]
  IN  value[stop - 1]

align_tar_size_Mutant(size) == size \div BlockBytes + 1

\* The blocks that hold `size' bytes.
align_tar_size(size) == (size + BlockBytes - 1) \div BlockBytes

RawPath(block) ==
  IF block.prefix = <<>> THEN block.name ELSE block.prefix \o <<"/">> \o block.name

\* tar_get_raw_path gives up on a path that does not fit, or is empty.
tar_get_raw_path(block) == Len(RawPath(block)) \in 1 .. PathMax - 1

From(s, k) == SubSeq(s, k, Len(s))

\* normalize_path: without leading slashes, one "./" and trailing slashes; the
\* empty path stands for a return of 0.
normalize_path(raw) ==
  LET slashes == Max({k \in 0 .. Len(raw) : \A i \in 1 .. k : raw[i] = "/"})
      p == From(raw, slashes + 1)
      q == IF Len(p) >= 2 /\ SubSeq(p, 1, 2) = <<".", "/">> THEN From(p, 3) ELSE p
      end == Max({0} \cup {k \in 1 .. Len(q) : q[k] # "/"})
  IN  IF q = <<".">> THEN <<>> ELSE SubSeq(q, 1, end)

----------------------------------------------------------------------------
Block == tar[offset + 1]
InArchive == walking /\ offset < Len(tar)

EndOfBlocks ==
  /\ walking /\ offset >= Len(tar)
  /\ walking' = FALSE
  /\ UNCHANGED <<tar, listed, offset, calls, loaded_bytes>>

ZeroEnds ==
  /\ InArchive /\ Block.zero
  /\ walking' = FALSE
  /\ UNCHANGED <<tar, listed, offset, calls, loaded_bytes>>

\* The block is passed over, the data after it is not.
NoPath ==
  /\ InArchive /\ ~Block.zero /\ ~tar_get_raw_path(Block)
  /\ offset' = offset + 1
  /\ UNCHANGED <<tar, listed, walking, calls, loaded_bytes>>

\* `data' is the first block of the file's data.
LoadCall(path, size) ==
  CASE Block.type = "5" -> <<[type |-> "5", path |-> path, data |-> 0, size |-> 0]>>
    [] Block.type = "0" -> <<[type |-> "0", path |-> path, data |-> offset + 2, size |-> size]>>
    [] OTHER -> <<>>

LoadEntry ==
  /\ InArchive /\ ~Block.zero /\ tar_get_raw_path(Block)
  /\ LET path == normalize_path(RawPath(Block))
         size == tar_parse_octal(Block.size)
         call == IF path = <<>> THEN <<>> ELSE LoadCall(path, size)
     IN  /\ calls' = calls \o call
         /\ loaded_bytes' = loaded_bytes + (IF call = <<>> THEN 0 ELSE call[1].size)
         /\ offset' = offset + 1 + align_tar_size(size)
  /\ UNCHANGED <<tar, listed, walking>>

TarStep == EndOfBlocks \/ ZeroEnds \/ NoPath \/ LoadEntry
TarSpec == TarInit /\ [][TarStep]_tarVars

----------------------------------------------------------------------------
\* Entry k is one the walk can step over: its path fits, or it has no data.
SteppedOver(k) ==
  tar_get_raw_path(HeaderBlock(listed[k].path, "0", 0)) \/ listed[k].size = 0

DataOf(k) == Len(Archive(SubSeq(listed, 1, k - 1))) + 2

\* The call entry k asks for.
Asked(k) ==
  LET e == listed[k]
      raw == RawPath(HeaderBlock(e.path, e.type, 0))
      path == normalize_path(raw)
  IN  IF e.type = "2" \/ path = <<>> \/ Len(raw) >= PathMax THEN <<>>
      ELSE <<[type |-> e.type, path |-> path, size |-> e.size,
              data |-> IF e.type = "0" THEN DataOf(k) ELSE 0]>>

AllAsked ==
  LET upto[k \in 0 .. Len(listed)] == IF k = 0 THEN <<>> ELSE upto[k - 1] \o Asked(k)
  IN  upto[Len(listed)]

TotalBytes(s) ==
  LET upto[k \in 0 .. Len(s)] == IF k = 0 THEN 0 ELSE upto[k - 1] + s[k].size
  IN  upto[Len(s)]

\* When the walk is over it has asked for exactly the directories and files of
\* the archive, in order, each with its own data and size: a file's data is
\* never read as a header, whatever it holds, and zero blocks in it do not end
\* the walk.  The one condition is that no entry with data has a path too long
\* for the buffer, since such an entry's data is not stepped over.
WalkExact ==
  ~walking /\ (\A k \in DOMAIN listed : SteppedOver(k))
    => calls = AllAsked /\ loaded_bytes = TotalBytes(AllAsked)
============================================================================
