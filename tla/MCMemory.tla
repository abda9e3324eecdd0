------------------------------ MODULE MCMemory -----------------------------
(***************************************************************************)
(* The heap, the start of the frame allocator and the lists kept in the    *)
(* heap, on small instances.  In each behaviour one of Parts moves.        *)
(***************************************************************************)
EXTENDS Heap, FrameMap, Registry

CONSTANT Parts
VARIABLE part

\* The kernel within two pages or one, and apart from it the boot information.
MCKernels == {Span(4, 7), Span(9, 10)}
MCInfos == {Span(1, 3), Span(12, 15)}

\* The map is the first tag, follows another, comes after the end, after a tag
\* with a bad size, or is missing.
MCTagLists ==
  {<<"mmap", "end">>, <<"other", "mmap", "end">>, <<"other", "end", "mmap">>,
   <<"bad", "mmap">>, <<"other">>}

\* Names of which one begins another.
MCCommandNames == {<<"m">>, <<"m", "e">>, <<"e">>}
MCDeviceNames == {<<"m">>, <<"e">>}

MCInit == part \in Parts /\ HeapInit /\ FrameMapInit /\ RegistryInit

MCNext ==
  \/ part = "heap" /\ HeapNext /\ UNCHANGED <<part, frameMapVars, registryVars>>
  \/ part = "frames" /\ FrameMapNext /\ UNCHANGED <<part, heapVars, registryVars>>
  \/ part = "lists" /\ RegistryNext /\ UNCHANGED <<part, heapVars, frameMapVars>>

MCSpec == MCInit /\ [][MCNext]_<<part, heapVars, frameMapVars, registryVars>>
============================================================================
