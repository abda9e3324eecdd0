------------------------------ MODULE Console ------------------------------
(***************************************************************************)
(* The VGA console with its scrollback ring (kernel/console.c), written by *)
(* print from the kernel's tasks and scrolled by the shell's page keys and *)
(* by the mouse wheel, whose interrupt may fall anywhere in the others.    *)
(*                                                                         *)
(* Text is abstracted to the logical line a row of the ring was cleared    *)
(* for, and to whether a row of the screen still shows its line as it is.  *)
(***************************************************************************)
EXTENDS Naturals, FiniteSetsExt

CONSTANTS
  Width,     \* CONSOLE_WIDTH
  Height,    \* CONSOLE_HEIGHT
  Lines,     \* CONSOLE_SCROLLBACK_LINES
  MaxLine    \* bound on current_line, a 64-bit counter

ASSUME ConsoleAssumption ==
  /\ Width \in Nat \ {0} /\ Height \in Nat \ {0}
  /\ Lines \in Nat /\ Lines >= Height
  /\ MaxLine \in Nat

VARIABLES
  scrollback,       \* the logical line each row of the ring was cleared for
  current_line, current_col,
  viewport_top,
  vga,              \* each row of the screen: the line it shows, or none
  pc,               \* where the task that uses the console is
  top, row,         \* render_viewport's copy of viewport_top, and its row
  output,           \* history: what the last call was
  wheeled,          \* history: the wheel turned since that call began
  torn,             \* history: the wheel turned during the last rendering
  high              \* history: the largest current_line since console_clear

place == <<current_line, current_col>>
history == <<output, wheeled, torn, high>>
consoleVars == <<scrollback, place, viewport_top, vga, pc, top, row, history>>

Rows == 0 .. Height - 1
Blank == [line |-> MaxLine + 1, fresh |-> TRUE]

\* A u64 that has gone below zero is larger than any line.
Wrapped == MaxLine + 1

\* Every variable has its type: columns stay on the row, rows on the screen.
ConsoleTypeOK ==
  /\ scrollback \in [0 .. Lines - 1 -> 0 .. MaxLine]
  /\ current_line \in 0 .. MaxLine
  /\ current_col \in 0 .. Width - 1
  /\ viewport_top \in 0 .. Wrapped
  /\ vga \in [Rows -> [line : 0 .. MaxLine + 1, fresh : BOOLEAN]]
  /\ pc \in {"rest", "clear", "page", "render", "rows"}
  /\ top \in 0 .. MaxLine
  /\ row \in 0 .. Height
  /\ output \in {"none", "char", "line", "scroll"}
  /\ wheeled \in BOOLEAN /\ torn \in BOOLEAN
  /\ high \in 0 .. MaxLine

----------------------------------------------------------------------------
\* scrollback_oldest_line and scrollback_bottom_top.
oldest == IF current_line + 1 <= Lines THEN 0 ELSE current_line + 1 - Lines
bottom == IF current_line + 1 <= Height THEN 0 ELSE current_line + 1 - Height

physical_line(l) == l % Lines

\* What render_viewport puts on row r of a viewport at v.
Shown(v, r) ==
  IF v + r >= oldest /\ v + r <= current_line
  THEN [line |-> scrollback[physical_line(v + r)], fresh |-> TRUE]
  ELSE Blank

Clamped_Mutant(v) == IF v < oldest THEN oldest ELSE v

\* render_viewport's correction of viewport_top.
Clamped(v) ==
  IF v < oldest THEN oldest ELSE IF v > bottom THEN bottom ELSE v

ConsoleInit ==
  /\ scrollback = [s \in 0 .. Lines - 1 |-> s]
  /\ current_line = 0 /\ current_col = 0
  /\ viewport_top = 0
  /\ vga = [r \in Rows |-> IF r = 0 THEN [line |-> 0, fresh |-> TRUE] ELSE Blank]
  /\ pc = "rest"
  /\ top = 0 /\ row = 0
  /\ output = "none" /\ wheeled = FALSE /\ torn = FALSE
  /\ high = 0

----------------------------------------------------------------------------
(* console_put_char and console_set_cursor, up to their render_viewport.   *)

\* Rows that show line l no longer show it as it is.
Outdated(l) == [r \in Rows |-> IF vga[r].line = l THEN [vga[r] EXCEPT !.fresh = FALSE]
                                               ELSE vga[r]]

Called(what) ==
  /\ pc = "rest"
  /\ output' = what
  /\ wheeled' = FALSE

\* Where console_put_char sets the viewport first.
NewOutputTop == bottom

\* Whether a character leaves room on its line.
LineHasRoom == current_col + 1 < Width

\* The first two assignments of move_to_next_line.
Advance ==
  /\ current_line < MaxLine
  /\ current_line' = current_line + 1
  /\ current_col' = 0
  /\ high' = Max({high, current_line + 1})
  /\ pc' = "clear"

PutNewline ==
  /\ Called("line")
  /\ viewport_top' = NewOutputTop
  /\ Advance
  /\ UNCHANGED <<scrollback, vga, top, row, torn>>

\* A character that leaves room on the line, ... ('\t' is four spaces.)
PutChar ==
  /\ Called("char")
  /\ LineHasRoom
  /\ viewport_top' = NewOutputTop
  /\ vga' = Outdated(scrollback[physical_line(current_line)])
  /\ current_col' = current_col + 1
  /\ pc' = "render"
  /\ UNCHANGED <<scrollback, current_line, top, row, torn, high>>

\* ... and one that fills it.
PutCharWrap ==
  /\ Called("line")
  /\ ~LineHasRoom
  /\ viewport_top' = NewOutputTop
  /\ vga' = Outdated(scrollback[physical_line(current_line)])
  /\ Advance
  /\ UNCHANGED <<scrollback, top, row, torn>>

PutReturn ==
  /\ Called("char")
  /\ viewport_top' = NewOutputTop
  /\ current_col' = 0
  /\ pc' = "render"
  /\ UNCHANGED <<scrollback, current_line, vga, top, row, torn, high>>

PutBackspace ==
  /\ Called("char")
  /\ viewport_top' = NewOutputTop
  /\ IF current_col > 0
     THEN /\ current_col' = current_col - 1
          /\ vga' = Outdated(scrollback[physical_line(current_line)])
     ELSE UNCHANGED <<current_col, vga>>
  /\ pc' = "render"
  /\ UNCHANGED <<scrollback, current_line, top, row, torn, high>>

\* The end of move_to_next_line.  current_line has moved already, so the
\* viewport is at the bottom only while the first screen is being filled.
FollowTop == IF viewport_top = bottom THEN bottom ELSE viewport_top

ClearedLine_Mutant ==
  [scrollback EXCEPT ![physical_line(current_line - 1)] = current_line - 1]

ClearedLine == [scrollback EXCEPT ![physical_line(current_line)] = current_line]

\* The rest of move_to_next_line.
ClearLine ==
  /\ pc = "clear"
  /\ scrollback' = ClearedLine
  /\ vga' = Outdated(scrollback[physical_line(current_line)])
  /\ viewport_top' = FollowTop
  /\ pc' = "render"
  /\ UNCHANGED <<place, top, row, history>>

SetCursor(r, c) ==
  /\ Called("char")
  /\ bottom + r <= MaxLine
  /\ viewport_top' = bottom
  /\ current_line' = bottom + r
  /\ current_col' = c
  /\ high' = Max({high, bottom + r})
  /\ pc' = "render"
  /\ UNCHANGED <<scrollback, vga, top, row, torn>>

\* The clear command.
ConsoleClear ==
  /\ Called("none")
  /\ scrollback' = [s \in 0 .. Lines - 1 |-> s]
  /\ current_line' = 0 /\ current_col' = 0
  /\ viewport_top' = 0
  /\ high' = 0
  /\ vga' = [r \in Rows |-> [vga[r] EXCEPT !.fresh = FALSE]]
  /\ pc' = "render"
  /\ UNCHANGED <<top, row, torn>>

----------------------------------------------------------------------------
(* The page keys.                                                          *)

\* console_scroll_page_up when there is less than a page above ...
PageUpShort ==
  /\ Called("scroll")
  /\ viewport_top < oldest + Height
  /\ viewport_top' = oldest
  /\ pc' = "render"
  /\ UNCHANGED <<scrollback, place, vga, top, row, torn, high>>

\* ... and when there is more: the test, and then the subtraction.
PageUpTest ==
  /\ Called("scroll")
  /\ viewport_top >= oldest + Height
  /\ top' = viewport_top
  /\ pc' = "page"
  /\ UNCHANGED <<scrollback, place, viewport_top, vga, row, torn, high>>

Minus(v) == IF v >= Height THEN v - Height ELSE Wrapped

\* The compiler may subtract from the value it tested or from the variable,
\* which the wheel may have changed.
PageUpMove ==
  /\ pc = "page"
  /\ \E v \in {top, viewport_top} : viewport_top' = Minus(v)
  /\ top' = 0
  /\ pc' = "render"
  /\ UNCHANGED <<scrollback, place, vga, row, history>>

PageDown ==
  /\ Called("scroll")
  /\ viewport_top' = Min({viewport_top + Height, bottom})
  /\ pc' = "render"
  /\ UNCHANGED <<scrollback, place, vga, top, row, torn, high>>

----------------------------------------------------------------------------
(* render_viewport                                                         *)

RenderStart ==
  /\ pc = "render"
  /\ viewport_top' = Clamped(viewport_top)
  /\ top' = Clamped(viewport_top)
  /\ row' = 0
  /\ torn' = FALSE
  /\ pc' = "rows"
  /\ UNCHANGED <<scrollback, place, vga, output, wheeled, high>>

RowsLeft_Mutant == row < Height - 1

RowsLeft == row < Height

\* One row, from the variable or from a register that holds its old value.
RenderRow ==
  /\ pc = "rows"
  /\ RowsLeft
  /\ \E v \in {top, viewport_top} : vga' = [vga EXCEPT ![row] = Shown(v, row)]
  /\ row' = row + 1
  /\ UNCHANGED <<scrollback, place, viewport_top, pc, top, history>>

RenderDone ==
  /\ pc = "rows"
  /\ ~RowsLeft
  /\ row' = 0 /\ top' = 0
  /\ pc' = "rest"
  /\ UNCHANGED <<scrollback, place, viewport_top, vga, history>>

----------------------------------------------------------------------------
(* The mouse interrupt: console_scroll_line_up or _down, with all of its   *)
(* rendering, at any point of the above.                                   *)

WheelTop(up) ==
  IF up THEN IF viewport_top <= oldest THEN oldest ELSE viewport_top - 1
        ELSE IF viewport_top >= bottom THEN bottom ELSE viewport_top + 1

Wheel(up) ==
  /\ viewport_top' = Clamped(WheelTop(up))
  /\ vga' = [r \in Rows |-> Shown(viewport_top', r)]
  /\ wheeled' = TRUE
  /\ torn' = (torn \/ pc = "rows")
  /\ UNCHANGED <<scrollback, place, pc, top, row, output, high>>

ConsoleNext ==
  \/ PutNewline \/ PutChar \/ PutCharWrap \/ PutReturn \/ PutBackspace
  \/ ClearLine
  \/ \E r \in Rows, c \in 0 .. Width - 1 : SetCursor(r, c)
  \/ ConsoleClear
  \/ PageUpShort \/ PageUpTest \/ PageUpMove \/ PageDown
  \/ RenderStart \/ RenderRow \/ RenderDone
  \/ \E up \in BOOLEAN : Wheel(up)

ConsoleSpec == ConsoleInit /\ [][ConsoleNext]_consoleVars

----------------------------------------------------------------------------
ViewportInRange == ConsoleTypeOK /\ (pc = "rest" => viewport_top \in oldest .. bottom)

\* A line that can be scrolled to is kept until the ring has come round to it.
\* (The cursor may have been set back from `high', so the line that came round
\* may be one that current_line has not reached again.)
LinesKept ==
  pc # "clear" =>
    \A l \in oldest .. current_line :
      scrollback[physical_line(l)] = l \/ l + Lines <= high

\* Between calls the viewport lies inside the scrollback, whatever the wheel
\* did to viewport_top in between, and the lines in it have not been
\* overwritten.  The screen shows the viewport, each row as its line is now,
\* unless the wheel turned while the last call was rendering; and output that
\* does not end the line is on it.
ScreenExact ==
  /\ ViewportInRange /\ LinesKept
  /\ pc = "rest" =>
       /\ ~torn => \A r \in Rows : vga[r] = Shown(viewport_top, r)
       /\ output = "char" /\ ~wheeled => viewport_top = bottom

============================================================================
