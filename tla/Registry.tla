------------------------------ MODULE Registry -----------------------------
(***************************************************************************)
(* The kernel's two tables: the commands of the shell (kernel/command.c)   *)
(* and the devices (kernel/device.c), each a singly linked list that grows *)
(* at its tail, and the way a line finds its command.                      *)
(*                                                                         *)
(* A list is a record l: l.node has the linked and the abandoned nodes,    *)
(* each with its name, its next and, for a device, its id; l.head and      *)
(* l.tail are node numbers, 0 for null.  A name and a line are sequences   *)
(* of characters, Space among them.                                        *)
(***************************************************************************)
EXTENDS Naturals, Sequences, FiniteSets, FiniteSetsExt

CONSTANTS
  Letter,      \* the characters of names
  Space,
  CommandNames, DeviceNames,
  MaxNodes,    \* nodes of the lists, abandoned ones included
  MaxLine      \* the length of a line

ASSUME RegistryAssumption ==
  /\ Space \notin Letter
  /\ CommandNames \cup DeviceNames \subseteq Seq(Letter) \ {<<>>}
  /\ MaxNodes \in Nat /\ MaxLine \in Nat

VARIABLES
  lists,       \* the two lists, "command" and "device"
  names,       \* history: the names registered in each, in order
  ran          \* the last command_execute: its line, command and arguments

registryVars == <<lists, names, ran>>

Kinds == {"command", "device"}
NamesOf(kind) == IF kind = "command" THEN CommandNames ELSE DeviceNames
Lines == UNION {[1 .. n -> Letter \cup {Space}] : n \in 0 .. MaxLine}
NotRun == [line |-> <<>>, name |-> <<>>, args |-> <<>>, ok |-> FALSE]

\* command_init and device_init.
EmptyList == [node |-> <<>>, head |-> 0, tail |-> 0, count |-> 0, next_id |-> 1]

RegistryInit ==
  /\ lists = [k \in Kinds |-> EmptyList]
  /\ names = [k \in Kinds |-> <<>>]
  /\ ran = NotRun

----------------------------------------------------------------------------
(* Registration.                                                           *)

\* The nodes from n on, following next.
Reached(l, n) ==
  LET walk[i \in 0 .. Len(l.node)] ==
        IF i = 0 THEN <<>>
        ELSE LET last == IF walk[i - 1] = <<>> THEN n
                         ELSE l.node[walk[i - 1][Len(walk[i - 1])]].next
             IN  IF last = 0 THEN walk[i - 1] ELSE Append(walk[i - 1], last)
  IN  walk[Len(l.node)]

\* command_find_by_name and device_find: the first node of that name, or 0.
Find(l, name) ==
  LET r == Reached(l, l.head)
      hits == {i \in DOMAIN r : l.node[r[i]].name = name}
  IN  IF hits = {} THEN 0 ELSE r[Min(hits)]

\* The node when its strings could be copied, and when they could not.
Fresh(l, name) == Append(l.node, [name |-> name, next |-> 0, id |-> l.next_id])
Abandoned(l, name) == [l EXCEPT !.node = Append(@, [name |-> name, next |-> 0, id |-> 0])]

Linked_Mutant(l, name) ==
  LET n == Len(l.node) + 1
  IN  [node |-> IF l.head = 0 THEN Fresh(l, name)
                ELSE [Fresh(l, name) EXCEPT ![l.head].next = n],
       head |-> IF l.head = 0 THEN n ELSE l.head,
       tail |-> n, count |-> l.count + 1, next_id |-> l.next_id + 1]

Linked(l, name) ==
  LET n == Len(l.node) + 1
  IN  [node |-> IF l.head = 0 THEN Fresh(l, name)
                ELSE [Fresh(l, name) EXCEPT ![l.tail].next = n],
       head |-> IF l.head = 0 THEN n ELSE l.head,
       tail |-> n, count |-> l.count + 1, next_id |-> l.next_id + 1]

\* command_register and device_register, with the first allocation that fails.
Register(kind, name, fails) ==
  LET l == lists[kind]
      refused == Find(l, name) # 0 \/ fails = "node"
  IN  /\ Len(lists["command"].node) + Len(lists["device"].node) < MaxNodes
      /\ lists' = [lists EXCEPT ![kind] =
                     IF refused THEN l
                     ELSE IF fails = "string" THEN Abandoned(l, name)
                     ELSE Linked(l, name)]
      /\ names' = [names EXCEPT ![kind] =
                     IF refused \/ fails = "string" THEN @ ELSE Append(@, name)]
      /\ ran' = NotRun

----------------------------------------------------------------------------
(* command_execute.                                                        *)

command_skip_spaces(s) ==
  LET text == {i \in DOMAIN s : s[i] # Space}
  IN  IF text = {} THEN <<>> ELSE SubSeq(s, Min(text), Len(s))

\* command_token_matches: what follows the name, if the line begins with it.
After(line, name) == SubSeq(line, Len(name) + 1, Len(line))

command_token_matches_Mutant(line, name) ==
  Len(name) <= Len(line) /\ SubSeq(line, 1, Len(name)) = name

command_token_matches(line, name) ==
  /\ Len(name) <= Len(line) /\ SubSeq(line, 1, Len(name)) = name
  /\ After(line, name) = <<>> \/ Head(After(line, name)) = Space

\* One line between two registrations is enough: a command run leaves the
\* lists as they are.
command_execute(typed) ==
  LET line == command_skip_spaces(typed)
      l == lists["command"]
      r == Reached(l, l.head)
      hits == {i \in DOMAIN r : command_token_matches(line, l.node[r[i]].name)}
      name == l.node[r[Min(hits)]].name
  IN  /\ ran = NotRun
      /\ ran' = IF line = <<>> THEN [NotRun EXCEPT !.line = typed, !.ok = TRUE]
                ELSE IF hits = {} THEN [NotRun EXCEPT !.line = typed]
                ELSE [line |-> typed, name |-> name, ok |-> TRUE,
                      args |-> command_skip_spaces(After(line, name))]
      /\ UNCHANGED <<lists, names>>

RegistryNext ==
  \/ \E kind \in Kinds, fails \in {"nothing", "node", "string"} :
       \E name \in NamesOf(kind) : Register(kind, name, fails)
  \/ \E line \in Lines : command_execute(line)

RegistrySpec == RegistryInit /\ [][RegistryNext]_registryVars

----------------------------------------------------------------------------
\* However many registrations failed on the way, the list walked from its head
\* has the names that were registered, each once and in this order; the tail is
\* its last node, the count its length, and a device's id its place, so that no
\* id is used twice or left out.
ListsExact ==
  \A kind \in Kinds :
    LET l == lists[kind]
        r == Reached(l, l.head)
    IN  /\ [i \in DOMAIN r |-> l.node[r[i]].name] = names[kind]
        /\ \A i \in DOMAIN r : l.node[r[i]].id = i
        /\ l.tail = (IF r = <<>> THEN 0 ELSE r[Len(r)])
        /\ l.tail # 0 => l.node[l.tail].next = 0
        /\ l.count = Len(r)
        /\ \A i, j \in DOMAIN names[kind] : names[kind][i] = names[kind][j] => i = j

\* The line is spaces, the name, spaces and the arguments.
Words(line, name, args) ==
  \E i, j \in 0 .. Len(line) :
    LET gap == Len(line) - i - Len(name) - j
    IN  /\ Len(line) >= i + Len(name) + j
        /\ \A k \in 1 .. i : line[k] = Space
        /\ SubSeq(line, i + 1, i + Len(name)) = name
        /\ \A k \in i + Len(name) + 1 .. Len(line) - j : line[k] = Space
        /\ SubSeq(line, Len(line) - j + 1, Len(line)) = args
        /\ args # <<>> => gap > 0 /\ Head(args) # Space

\* command_execute runs a command exactly when the first word of the line is its
\* whole name, and hands it the rest of the line from the next word on; a name
\* that is a prefix of another, or of the word, does not run instead.
DispatchExact ==
  LET known == {names["command"][i] : i \in DOMAIN names["command"]}
      blank == \A k \in DOMAIN ran.line : ran.line[k] = Space
  IN  ran # NotRun =>
        IF ran.name # <<>>
        THEN ran.ok /\ ran.name \in known /\ Words(ran.line, ran.name, ran.args)
        ELSE /\ ran.ok <=> blank
             /\ ~blank => \A name \in known, i \in 0 .. Len(ran.line) :
                            ~Words(ran.line, name, SubSeq(ran.line, i + 1, Len(ran.line)))
============================================================================
