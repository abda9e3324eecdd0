------------------------------ MODULE FileApi ------------------------------
(***************************************************************************)
(* What a user of file descriptors may rely on: a file is a sequence of    *)
(* bytes that never shrinks, every descriptor has a position of its own,   *)
(* and a read or write acts on the bytes at that position and moves it     *)
(* past them.                                                              *)
(***************************************************************************)
EXTENDS Naturals, Sequences

CONSTANTS Files, Nodes, Descriptors, Bytes, MaxCount, None

VARIABLES
  contents,    \* the bytes of each file
  node,        \* what each descriptor is open on, or None
  position     \* where it stands

ApiInit ==
  /\ contents \in [Files -> Seq(Bytes)]
  /\ position = [d \in Descriptors |-> 0]

\* The bytes c with the bytes s written over them from position p on.
Overwrite(c, p, s) ==
  [i \in 1 .. (IF p + Len(s) > Len(c) THEN p + Len(s) ELSE Len(c)) |->
     IF i \in p + 1 .. p + Len(s) THEN s[i - p] ELSE c[i]]

Open(d) ==
  /\ node[d] = None
  /\ \E n \in Nodes : node' = [node EXCEPT ![d] = n]
  /\ position' = [position EXCEPT ![d] = 0]
  /\ UNCHANGED contents

Close(d) ==
  /\ node[d] # None
  /\ node' = [node EXCEPT ![d] = None]
  /\ position' = [position EXCEPT ![d] = 0]
  /\ UNCHANGED contents

Read(d) ==
  /\ node[d] \in Files
  /\ \E n \in 1 .. MaxCount :
       /\ position[d] + n <= Len(contents[node[d]])
       /\ position' = [position EXCEPT ![d] = @ + n]
  /\ UNCHANGED <<contents, node>>

Write(d) ==
  /\ node[d] \in Files
  /\ \E n \in 1 .. MaxCount : \E s \in [1 .. n -> Bytes] :
       /\ contents' = [contents EXCEPT ![node[d]] = Overwrite(@, position[d], s)]
       /\ position' = [position EXCEPT ![d] = @ + n]
  /\ UNCHANGED node

ApiNext == \E d \in Descriptors : Open(d) \/ Close(d) \/ Read(d) \/ Write(d)

ApiSpec == ApiInit /\ [][ApiNext]_<<contents, node, position>>
============================================================================
