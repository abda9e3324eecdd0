CONSTANTS
  Parts = {"console", "log"}
\* A ring of four lines under a screen of two; nine lines go round it twice.
  Width = 2
  Height = 2
  Lines = 4
  MaxLine = 8
\* A log of two characters and four printed; a last message of two.
  Chars = {a, b}
  Mark = m
  LogSize = 2
  Message = 2
  MaxPolls = 1
  MaxPrinted = 4
SPECIFICATION MCSpec
INVARIANTS
  ScreenExact
  LogIsTail
PROPERTIES
  LastWordsShown
CHECK_DEADLOCK FALSE
