CONSTANTS
  Parts = {"heap", "frames", "lists"}
\* A chunk of two pages, which grows by two or three more.
  Base = 1
  Limit = 16
  Header = 1
  MinSplit = 1
  Page = 3
  Chunk = 6
  MaxSize = 8
\* Ten frames, and entries that begin and end within them.
  PageBytes = 2
  ByteBits = 2
  MinUsable = 4
  Cuts = {0, 4, 7, 10, 16, 19}
  MaxEntries = 3
  Kernels <- MCKernels
  Infos <- MCInfos
  TagLists <- MCTagLists
\* Three registrations, failed ones included; lines of four characters.
  Letter = {"m", "e"}
  Space = " "
  CommandNames <- MCCommandNames
  DeviceNames <- MCDeviceNames
  MaxNodes = 3
  MaxLine = 4
SPECIFICATION MCSpec
INVARIANTS
  BlocksExact
  BitmapExact
  ListsExact
  DispatchExact
PROPERTIES
  AllocatesApart
CHECK_DEADLOCK FALSE
