----------------------------- MODULE LineEditor -----------------------------
(***************************************************************************)
(* The shell's line (kernel/shell.c): editing, the history ring and its    *)
(* browsing, completion of commands and paths, and what is left on the     *)
(* screen behind the prompt.  One action handles one key.                  *)
(*                                                                         *)
(* The screen is the row of cells behind the prompt, at prompt_row.  Tasks *)
(* and deferred work print between two keys: their text lands behind the   *)
(* line, or scrolls the prompt away from prompt_row.  The file tree is a   *)
(* root directory with plain files: Names.                                 *)
(***************************************************************************)
EXTENDS Integers, Sequences, SequencesExt

CONSTANTS
  Chars,         \* the characters typed
  Commands,      \* shell_completion_commands
  PathCommands,  \* those shell_is_path_command knows
  Names,         \* the files of the root directory
  LineMax,       \* SHELL_LINE_MAX
  HistorySize,   \* SHELL_HISTORY_SIZE
  Alien,         \* a character another task printed
  MaxEntered,    \* bound: lines entered
  MaxKept,       \* bound: the length of the lines entered
  QuietAfter     \* bound: other tasks print until that many lines are entered

ASSUME EditorAssumption ==
  /\ LineMax \in Nat /\ LineMax > 1
  /\ HistorySize \in Nat /\ HistorySize > 0
  /\ MaxEntered \in Nat /\ MaxKept \in Nat /\ QuietAfter \in Nat
  /\ \A i \in DOMAIN Commands : Len(Commands[i]) < LineMax
  /\ \A i \in DOMAIN Names : Len(Names[i]) < LineMax

VARIABLES
  line,                              \* line_buffer up to line_length
  history, history_count, history_next,
  history_view,                      \* the entry shown, or -1
  history_draft, history_draft_valid,
  last_rendered_length,
  cells,                             \* the screen behind prompt_row, prompt_col
  disturbed,                         \* history: other output since the prompt
  entered                            \* history: the lines history_add took

ring == <<history, history_count, history_next>>
browse == <<history_view, history_draft, history_draft_valid>>
screen == <<last_rendered_length, cells, disturbed>>
vars == <<line, ring, browse, screen, entered>>

Lines == UNION {[1 .. n -> Chars \cup {" ", "/"}] : n \in 0 .. LineMax - 1}
Columns == 1 .. LineMax
Slots == 0 .. HistorySize - 1
BlankRow == [i \in Columns |-> " "]

\* Every variable has its type: the line fits line_buffer with its final zero,
\* the history's indices stay inside the ring.
TypeOK ==
  /\ line \in Lines
  /\ history \in [Slots -> Lines]
  /\ history_count \in 0 .. HistorySize
  /\ history_next \in Slots
  /\ history_view \in -1 .. HistorySize - 1
  /\ history_draft \in Lines
  /\ history_draft_valid \in BOOLEAN
  /\ last_rendered_length \in 0 .. LineMax - 1
  /\ cells \in [Columns -> Chars \cup {" ", "/", Alien}]
  /\ disturbed \in BOOLEAN

\* shell_init.
Init ==
  /\ line = <<>>
  /\ history = [i \in Slots |-> <<>>] /\ history_count = 0 /\ history_next = 0
  /\ history_view = -1 /\ history_draft = <<>> /\ history_draft_valid = FALSE
  /\ last_rendered_length = 0
  /\ cells = BlankRow
  /\ disturbed = FALSE
  /\ entered = <<>>

----------------------------------------------------------------------------
(* Drawing.                                                                *)

Erased_Mutant(text) == last_rendered_length - 1

\* The columns a redraw writes: the text, and blanks over what was there.
Erased(text) == last_rendered_length

\* shell_redraw_line with the line become text.
Redraw(text) ==
  /\ cells' = [i \in Columns |->
                 IF i <= Len(text) THEN text[i]
                 ELSE IF i <= Erased(text) THEN " " ELSE cells[i]]
  /\ last_rendered_length' = Len(text)
  /\ UNCHANGED disturbed

\* shell_replace_line, shell_copy_line: what fits.
Fit(text) == IF Len(text) < LineMax THEN text ELSE SubSeq(text, 1, LineMax - 1)

shell_replace_line(text) == line' = Fit(text) /\ Redraw(Fit(text))

\* A new prompt with text behind it, where the cursor is read again, on a row
\* that the line feed before it cleared.
NewRow(text) ==
  /\ cells' = [i \in Columns |-> IF i <= Len(text) THEN text[i] ELSE " "]
  /\ last_rendered_length' = Len(text)
  /\ disturbed' = FALSE

history_reset_view ==
  /\ history_view' = -1
  /\ history_draft' = <<>>
  /\ history_draft_valid' = FALSE

----------------------------------------------------------------------------
(* The history.                                                            *)

Physical_Mutant(i) == i

Physical(i) ==
  IF history_count < HistorySize THEN i
  ELSE (history_next + i) % HistorySize

history_get(i) == history[Physical(i)]

Blank(text) == \A i \in DOMAIN text : text[i] = " "

Repeats(text) == history_count > 0 /\ history_get(history_count - 1) = text

history_add(text) ==
  IF Blank(text) \/ Repeats(text) THEN UNCHANGED <<ring, entered>>
  ELSE /\ history' = [history EXCEPT ![history_next] = text]
       /\ history_next' = (history_next + 1) % HistorySize
       /\ history_count' = IF history_count < HistorySize THEN history_count + 1
                           ELSE history_count
       /\ entered' = Append(entered, text)

\* shell_history_up.
Up ==
  /\ history_count > 0
  /\ IF history_view < 0
     THEN /\ history_draft' = line
          /\ history_draft_valid' = TRUE
          /\ history_view' = history_count - 1
     ELSE /\ history_view' = IF history_view > 0 THEN history_view - 1 ELSE 0
          /\ UNCHANGED <<history_draft, history_draft_valid>>
  /\ shell_replace_line(history_get(history_view'))
  /\ UNCHANGED <<ring, entered>>

\* shell_history_down, to a newer entry, ...
Down ==
  /\ history_view >= 0 /\ history_view + 1 < history_count
  /\ history_view' = history_view + 1
  /\ shell_replace_line(history_get(history_view + 1))
  /\ UNCHANGED <<ring, history_draft, history_draft_valid, entered>>

\* ... or back to the draft.
DownToDraft ==
  /\ history_view >= 0 /\ history_view + 1 >= history_count
  /\ history_view' = -1
  /\ shell_replace_line(IF history_draft_valid THEN history_draft ELSE <<>>)
  /\ history_draft_valid' = FALSE
  /\ UNCHANGED <<ring, history_draft, entered>>

----------------------------------------------------------------------------
(* Editing.                                                                *)

\* shell_backspace.  It leaves the browsing of the history alone.
Backspace ==
  /\ line # <<>>
  /\ line' = Front(line)
  /\ Redraw(Front(line))
  /\ UNCHANGED <<ring, browse, entered>>

Full == Len(line) + 1 >= LineMax

ViewAfterChar == history_reset_view

\* shell_on_char.
Type(c) ==
  /\ ViewAfterChar
  /\ IF Full THEN UNCHANGED <<line, screen>>
     ELSE line' = Append(line, c) /\ Redraw(Append(line, c))
  /\ UNCHANGED <<ring, entered>>

\* shell_on_char of '\n': the line is recorded and executed, and there is a
\* new prompt.
Enter ==
  /\ Len(entered) < MaxEntered /\ Len(line) <= MaxKept
  /\ history_add(line)
  /\ line' = <<>>
  /\ NewRow(<<>>)
  /\ history_reset_view

----------------------------------------------------------------------------
(* Completion.                                                             *)

Matching(names, prefix) == SelectSeq(names, LAMBDA n : IsPrefix(prefix, n))

CommonOf_Mutant(base, other) == IF Len(base) < Len(other) THEN base ELSE other

\* shell_reduce_to_common_prefix.
CommonOf(base, other) == LongestCommonPrefix({base, other})

\* The prefix that the loop over the candidates is left with.
Common(found) == FoldLeft(CommonOf, found[1], Tail(found))

\* The key changes the line to text, and the matches are listed under it if
\* there are several.
TabTo(text, listed) ==
  /\ line' = Fit(text)
  /\ IF listed THEN NewRow(Fit(text)) ELSE Redraw(Fit(text))
  /\ history_reset_view

\* shell_complete_command, for a line without blanks.
CompletedCommand(text) ==
  LET found == Matching(Commands, text)
  IN  CASE Len(found) = 0 -> text
        [] Len(found) = 1 -> Append(found[1], " ")
        [] OTHER -> Common(found)

IsBlank(c) == c = " "
HasBlank(text) == \E i \in DOMAIN text : IsBlank(text[i])

\* The positions of the first word's first character and of the blank after
\* it; shell_extract_command and shell_find_path_token_start.
WordStart(text) == SelectInSeq(text, LAMBDA c : ~IsBlank(c))
WordEnd(text) == CHOOSE e \in WordStart(text) .. Len(text) + 1 :
                   /\ e = Len(text) + 1 \/ IsBlank(text[e])
                   /\ \A i \in WordStart(text) .. e - 1 : ~IsBlank(text[i])
TokenStart(text) == CHOOSE t \in WordEnd(text) .. Len(text) + 1 :
                   /\ t = Len(text) + 1 \/ ~IsBlank(text[t])
                   /\ \A i \in WordEnd(text) .. t - 1 : IsBlank(text[i])
Token(text) == SubSeq(text, TokenStart(text), Len(text))

\* shell_complete_path takes the key: a path command, a blank, and nothing or
\* something that begins with '/'.
PathContext(text) ==
  /\ WordStart(text) # 0
  /\ SubSeq(text, WordStart(text), WordEnd(text) - 1) \in PathCommands
  /\ WordEnd(text) <= Len(text)
  /\ Token(text) # <<>> => Token(text)[1] = "/"

\* shell_make_path_context: the directory part and the name's beginning.
LastSlash(token) == SelectLastInSeq(token, LAMBDA c : c = "/")
Parent(token) == IF LastSlash(token) <= 1 THEN <<"/">>
                 ELSE SubSeq(token, 1, LastSlash(token) - 1)
PrefixOf(token) == SubSeq(token, LastSlash(token) + 1, Len(token))

\* vfs_lookup finds a directory: only the root is one.
IsRoot(path) == \A i \in DOMAIN path : path[i] = "/"

\* shell_build_child_path and shell_replace_path_token.  Without room the line
\* stays; without room for the last character, that is left out.
ChildPath(parent, name) ==
  (IF parent = <<"/">> THEN <<>> ELSE parent) \o <<"/">> \o name

Replaced(text, path, suffix) ==
  LET new == SubSeq(text, 1, TokenStart(text) - 1) \o path
  IN  IF Len(path) >= LineMax \/ Len(new) >= LineMax THEN text
      ELSE Fit(new \o suffix)

PathMatches(text) == Matching(Names, PrefixOf(Token(text)))

CompletedPath(text) ==
  LET token == Token(text)
      found == PathMatches(text)
  IN  CASE Len(found) = 1 ->
             Replaced(text, ChildPath(Parent(token), found[1]), <<" ">>)
        [] Len(Common(found)) > Len(PrefixOf(token)) ->
             Replaced(text, ChildPath(Parent(token), Common(found)), <<>>)
        [] OTHER -> text

\* With one match the path is replaced; with several, and room for the common
\* part, they are listed.
PathListed(text) ==
  LET token == Token(text)
      found == PathMatches(text)
  IN  /\ Len(found) > 1
      /\ Len(Common(found)) > Len(PrefixOf(token)) =>
           Len(ChildPath(Parent(token), Common(found))) < LineMax

\* shell_complete_tab: completion of a path, ...
TabPath ==
  /\ PathContext(line)
  /\ IsRoot(Parent(Token(line))) /\ PathMatches(line) # <<>>
  /\ history_reset_view
  /\ line' = CompletedPath(line)
  /\ IF PathListed(line) THEN NewRow(line')
     ELSE IF line' # line THEN Redraw(line') ELSE UNCHANGED screen
  /\ UNCHANGED <<ring, entered>>

\* ... or of a command.  Otherwise the key does nothing.
TabCommand ==
  /\ ~PathContext(line) /\ ~HasBlank(line)
  /\ Matching(Commands, line) # <<>>
  /\ TabTo(CompletedCommand(line), Len(Matching(Commands, line)) > 1)
  /\ UNCHANGED <<ring, entered>>

shell_on_key ==
  \/ \E c \in Chars : Type(c)
  \/ Backspace \/ Enter \/ Up \/ Down \/ DownToDraft \/ TabPath \/ TabCommand

\* Another task prints: behind the line, or so much that prompt_row is a row of
\* its text.
OtherOutput ==
  /\ Len(entered) < QuietAfter
  /\ \E kept \in {0, Len(line)} :
       cells' = [i \in Columns |-> IF i <= kept THEN cells[i] ELSE Alien]
  /\ disturbed' = TRUE
  /\ UNCHANGED <<line, ring, browse, last_rendered_length, entered>>

Next == shell_on_key \/ OtherOutput

Spec == Init /\ [][Next]_vars

----------------------------------------------------------------------------
\* The ring, read through history_get, holds the last lines entered, oldest
\* first, also after it has wrapped; and while it is browsed the line is the
\* entry shown, or what backspaces have left of it, and the draft can be gone
\* back to.
HistoryExact ==
  LET n == IF Len(entered) < HistorySize THEN Len(entered) ELSE HistorySize
  IN  /\ TypeOK
      /\ history_count = n
      /\ \A i \in 0 .. n - 1 : history_get(i) = entered[Len(entered) - n + i + 1]
      /\ history_view >= 0 =>
           /\ history_view < history_count /\ history_draft_valid
           /\ IsPrefix(line, history_get(history_view))

\* The screen shows the line and blanks behind it: nothing of a longer line is
\* left over, unless another task printed since the last prompt.  After the
\* next prompt, by Enter or under a list of matches, the row is right again,
\* whatever was on the screen.
ScreenShowsLine ==
  ~disturbed => cells = [i \in Columns |-> IF i <= Len(line) THEN line[i] ELSE " "]

\* Completing a command keeps what was typed, still fits every command that
\* fitted, and cannot be taken further without choosing between them.
CommandCompletion ==
  LET fits == {i \in DOMAIN Commands : IsPrefix(line, Commands[i])}
      done == CompletedCommand(line)
      longer == {Append(done, c) : c \in Chars}
  IN  ~HasBlank(line) /\ fits # {} =>
        /\ IsPrefix(line, done)
        /\ \A i \in fits : IsPrefix(done, Append(Commands[i], " "))
        /\ \A text \in longer :
             \E i \in fits : ~IsPrefix(text, Append(Commands[i], " "))

\* Completing a path keeps the words before it, and leaves the part common to
\* all files that fitted (the whole path of a single one), unless the line has
\* no room for that: then it stays as it was.
PathCompletion ==
  LET token == Token(line)
      fits == {Names[i] : i \in {j \in DOMAIN Names : IsPrefix(PrefixOf(token), Names[j])}}
      common == LongestCommonPrefix(fits)
      done == CompletedPath(line)
      name == SelectSeq(PrefixOf(Token(done)), LAMBDA c : c # " ")
      room == TokenStart(line) + Len(ChildPath(Parent(token), common)) <= LineMax
  IN  PathContext(line) /\ IsRoot(Parent(token)) /\ fits # {} =>
        /\ IsPrefix(SubSeq(line, 1, TokenStart(line) - 1), done)
        /\ IsRoot(Parent(Token(done)))
        /\ IF room THEN name = common ELSE done = line

\* What Tab makes of the line, at its end: see the two definitions above.  A
\* command is completed as far as the commands that fit agree, and a path as
\* far as the files that fit do, or not at all when it would not fit.
CompletionExact == CommandCompletion /\ PathCompletion
============================================================================
