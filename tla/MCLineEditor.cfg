\* Lines of five characters, blanks and slashes among them; a history of two
\* lines, three entered, of one character each; other
\* tasks print before the second one is.
CONSTANTS
  Chars = {"a", "b", " ", "/"}
  Commands <- MCCommands
  PathCommands <- MCPathCommands
  Names <- MCNames
  LineMax = 6
  HistorySize = 2
  Alien = "#"
  QuietAfter = 2
  MaxEntered = 3
  MaxKept = 1
SPECIFICATION Spec
INVARIANTS
  HistoryExact
  ScreenShowsLine
  CompletionExact
CHECK_DEADLOCK FALSE
