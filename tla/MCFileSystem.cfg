CONSTANTS
  Parts = {"files", "tree", "tar", "elf"}
\* Two files of up to three bytes under two descriptors; buffers of one or
\* two bytes grow.
  FileNodes = {f1, f2}
  Tty = tty0
  None = None
  TableSize = 5
  MinCapacity = 2
  Bytes = {1, 2}
  Zero = 0
  MaxCount = 2
  MaxSize = 3
\* Archives of up to three entries, names of two characters.
  Components <- MCComponents
  NameMax = 3
  MaxEntries = 3
\* Archives of two entries; files that fill a block, or a byte less or more.
  BlockBytes = 8
  PathMax = 6
  TarPaths <- MCTarPaths
  TarSizes = {0, 1, 8, 9}
  MaxFiles = 2
\* Files of up to five units, images of two segments, room for three blocks.
  Word = 16
  HeaderSize = 2
  FileHeaders <- MCFileHeaders
  ProgramHeaders <- MCProgramHeaders
  MaxSegments = 2
  BlockSize = 8
  Blocks = 3
SPECIFICATION MCSpec
INVARIANTS
  BuffersOwned
  TreeExact
  FilesFound
  WalkExact
  
PROPERTIES
  ImplementsFiles
CHECK_DEADLOCK FALSE
