\* Page tables of three pages.  The heap has two of them, the user's segments
\* may straddle two more, the stack shares the last.  Ten frames run out in
\* every phase.
CONSTANTS
  NFrames = 10
  HeapStart = 3
  PageEnd = 15
  PtSpan = 3
  HeapMax = 8
  HeapChunk = 2
  MaxGrow = 3
  UserStart = 10
  StackStart = 13
SPECIFICATION Spec
INVARIANT
  HeapMapped
