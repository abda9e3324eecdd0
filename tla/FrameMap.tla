------------------------------ MODULE FrameMap -----------------------------
(***************************************************************************)
(* How the frame allocator (kernel/pmm.c) starts: the memory map is found  *)
(* among the boot information (mb2_find_mmap_tag, kernel/multiboot2.c),    *)
(* the bitmap is placed, and every frame that may be handed out is marked  *)
(* free.  What the kernel does with frames later is in module Memory.      *)
(*                                                                         *)
(* An address counts bytes; a page has PageBytes of them, and a byte of    *)
(* the bitmap ByteBits bits.  A range is a record of its start and end.    *)
(* The boot loader is external: the entries of its map do not overlap, and *)
(* neither do the kernel and the boot information.                         *)
(***************************************************************************)
EXTENDS Naturals, Sequences, FiniteSetsExt

CONSTANTS
  PageBytes, ByteBits,
  MinUsable,     \* MIN_USABLE_ADDR
  Cuts,          \* addresses at which entries of the map start and end
  MaxEntries,
  Kernels,       \* where the kernel may lie,
  Infos,         \* and the boot information
  TagLists       \* the kinds of the tags of the boot information, in order

ASSUME FrameMapAssumption ==
  /\ PageBytes \in Nat \ {0} /\ ByteBits \in Nat \ {0}
  /\ MinUsable \in Nat \ {0} /\ MinUsable % PageBytes = 0
  /\ Cuts \subseteq Nat /\ MaxEntries \in Nat

VARIABLES
  mmap,               \* the entries of the memory map
  kernel, info,       \* the ranges of the kernel and the boot information
  booted,             \* pmm_init has returned
  found,              \* it has found the memory map
  pmm_bitmap_start,   \* where the bitmap is; 0: there is none
  pmm_bitmap_bytes, pmm_total_frames,
  bits,               \* the bits set: the frames in use
  pmm_free_frames,
  held,               \* history: the frames handed out and not given back
  tested              \* pmm_test has run

boot == <<mmap, kernel, info>>
layout == <<found, pmm_bitmap_start, pmm_bitmap_bytes, pmm_total_frames>>
frameMapVars == <<boot, booted, layout, bits, pmm_free_frames, held, tested>>

\* Named apart from the record's fields in the memory map.
Span(first, past) == [start |-> first, end |-> past]
align_down(a) == (a \div PageBytes) * PageBytes
align_up(a) == align_down(a + PageBytes - 1)
ranges_overlap(r, s) == Max({r.start, s.start}) < Min({r.end, s.end})
Nowhere == Span(0, 0)

FrameMapInit ==
  /\ mmap = <<>> /\ kernel = Nowhere /\ info = Nowhere
  /\ booted = FALSE /\ found = FALSE
  /\ pmm_bitmap_start = 0 /\ pmm_bitmap_bytes = 0 /\ pmm_total_frames = 0
  /\ bits = {} /\ pmm_free_frames = 0 /\ held = {} /\ tested = FALSE

\* The firmware's memory map, entry by entry and in any order.
AddEntry(from, to, available) ==
  /\ ~booted /\ Len(mmap) < MaxEntries
  /\ from < to
  /\ \A i \in DOMAIN mmap : ~ranges_overlap(mmap[i].range, Span(from, to))
  /\ mmap' = Append(mmap, [range |-> Span(from, to), available |-> available])
  /\ UNCHANGED <<kernel, info, booted, layout, bits, pmm_free_frames, held, tested>>

----------------------------------------------------------------------------
(* pmm_init.                                                               *)

\* The walk stops at the memory map, at the end tag, at a tag whose size
\* cannot be right, or where the information ends.
mb2_find_mmap_tag(tags) ==
  \E i \in DOMAIN tags : tags[i] = "mmap" /\ \A j \in 1 .. i - 1 : tags[j] = "other"

\* The whole pages of an entry above MIN_USABLE_ADDR; it may have none.
WholePages(entry) ==
  Span(align_up(Max({entry.range.start, MinUsable})), align_down(entry.range.end))

UsableRanges ==
  LET usable == SelectSeq(mmap, LAMBDA e : e.available)
  IN  SelectSeq([i \in DOMAIN usable |-> WholePages(usable[i])],
                LAMBDA r : r.start < r.end)

pmm_find_max_usable_addr ==
  Max({0} \cup {UsableRanges[i].end : i \in DOMAIN UsableRanges})

Reserves(k, m) ==
  <<Span(0, MinUsable), Span(align_down(k.start), align_up(k.end)),
    Span(align_down(m.start), align_up(m.end))>>

Collides_Mutant(cursor, size, reserves) ==
  {i \in DOMAIN reserves :
     cursor < reserves[i].end /\ reserves[i].start < cursor + size - PageBytes}

Collides(cursor, size, reserves) ==
  {i \in DOMAIN reserves : ranges_overlap(Span(cursor, cursor + size), reserves[i])}

\* The inner loop of pmm_find_free_region: from "cursor" on, the place found in
\* a range, or 0.  A collision moves the cursor to the end of the reserve.
PlaceIn(range, size, reserves) ==
  LET place[cursor \in 0 .. range.end] ==
        LET hit == Collides(cursor, size, reserves)
            next == align_up(reserves[Min(hit)].end)
        IN  IF cursor + size > range.end THEN 0
            ELSE IF hit = {} THEN cursor
            ELSE IF next > range.end THEN 0 ELSE place[next]
  IN  place[range.start]

pmm_find_free_region(size, reserves) ==
  LET places == {i \in DOMAIN UsableRanges : PlaceIn(UsableRanges[i], size, reserves) # 0}
  IN  IF places = {} THEN 0 ELSE PlaceIn(UsableRanges[Min(places)], size, reserves)

\* The frames that pmm_mark_range_free and pmm_mark_range_used touch.
FramesWithin(range, total) ==
  {f \in 0 .. total - 1 : align_up(range.start) <= f * PageBytes
                          /\ (f + 1) * PageBytes <= align_down(range.end)}
FramesTouching(range, total) ==
  {f \in 0 .. total - 1 : align_down(range.start) <= f * PageBytes
                          /\ f * PageBytes < align_up(range.end)}

\* The frames whose bit is clear at the end.
MarkedFree(total, used) ==
  UNION {FramesWithin(UsableRanges[i], total) : i \in DOMAIN UsableRanges}
    \ UNION {FramesTouching(used[i], total) : i \in DOMAIN used}

pmm_init(tags, k, m) ==
  LET total == align_up(pmm_find_max_usable_addr) \div PageBytes
      bytes == (total + ByteBits - 1) \div ByteBits
      size == align_up(bytes)
      start == pmm_find_free_region(size, Reserves(k, m))
      free == MarkedFree(total, Append(Reserves(k, m), Span(start, start + size)))
  IN  /\ ~booted
      /\ ~ranges_overlap(Reserves(k, m)[2], Reserves(k, m)[3])
      /\ booted' = TRUE
      /\ kernel' = k /\ info' = m
      /\ found' = mb2_find_mmap_tag(tags)
      /\ IF ~found' THEN UNCHANGED <<pmm_bitmap_start, pmm_bitmap_bytes, pmm_total_frames>>
         ELSE /\ pmm_bitmap_start' = start
              /\ pmm_bitmap_bytes' = bytes /\ pmm_total_frames' = total
      /\ IF ~found' \/ start = 0 THEN UNCHANGED <<bits, pmm_free_frames>>
         ELSE /\ bits' = (0 .. ByteBits * bytes - 1) \ free
              /\ pmm_free_frames' = Cardinality(free)
      /\ UNCHANGED <<mmap, held, tested>>

----------------------------------------------------------------------------
(* pmm_alloc_frame and pmm_free_frame, on m = [bits, free].                *)

Now == [bits |-> bits, free |-> pmm_free_frames]
Becomes(m) == bits' = m.bits /\ pmm_free_frames' = m.free

Clear(m) == {f \in 0 .. pmm_total_frames - 1 : f \notin m.bits}
HasBitmap == pmm_bitmap_start # 0

\* The frame that is returned, 0 for none, and the allocator after the call.
FrameOf(m) == IF ~HasBitmap \/ Clear(m) = {} THEN 0 ELSE Min(Clear(m))
pmm_alloc_frame(m) ==
  IF ~HasBitmap \/ Clear(m) = {} THEN m
  ELSE [bits |-> m.bits \cup {FrameOf(m)},
        free |-> IF m.free > 0 THEN m.free - 1 ELSE 0]

pmm_free_frame(m, f) ==
  IF HasBitmap /\ f < pmm_total_frames /\ f \in m.bits
  THEN [bits |-> m.bits \ {f}, free |-> m.free + 1] ELSE m

AllocFrame ==
  /\ booted
  /\ Becomes(pmm_alloc_frame(Now))
  /\ held' = held \cup ({FrameOf(Now)} \ {0})
  /\ UNCHANGED <<boot, booted, layout, tested>>

FreeFrame(f) ==
  /\ f \in held
  /\ Becomes(pmm_free_frame(Now, f))
  /\ held' = held \ {f}
  /\ UNCHANGED <<boot, booted, layout, tested>>

\* Frames a, b and c are taken, b is given back and a frame d taken again; all
\* but b, or d in its place, stay with nobody.  With no frame left, b is 0 and
\* pmm_free_frame(0) clears the bit of frame 0, which is then frame d.
pmm_test ==
  LET m1 == pmm_alloc_frame(Now)
      m2 == pmm_alloc_frame(m1)
      m3 == pmm_alloc_frame(m2)
      m4 == pmm_free_frame(m3, FrameOf(m1))
  IN  /\ booted /\ ~tested
      /\ tested' = TRUE
      /\ Becomes(pmm_alloc_frame(m4))
      /\ held' = held \cup ({FrameOf(Now), FrameOf(m1), FrameOf(m2), FrameOf(m4)} \ {0})
      /\ UNCHANGED <<boot, booted, layout>>

FrameMapNext ==
  \/ \E from, to \in Cuts, available \in BOOLEAN : AddEntry(from, to, available)
  \/ \E tags \in TagLists, k \in Kernels, m \in Infos : pmm_init(tags, k, m)
  \/ AllocFrame \/ \E f \in held : FreeFrame(f)
  \/ pmm_test

FrameMapSpec == FrameMapInit /\ [][FrameMapNext]_frameMapVars

----------------------------------------------------------------------------
\* Bytes of the memory map that are memory, and the bytes in use at boot.
Top == Max(Cuts)
Memory(f) ==
  \E i \in DOMAIN mmap : mmap[i].available /\ mmap[i].range.start <= f * PageBytes
                         /\ (f + 1) * PageBytes <= mmap[i].range.end
InUse(f) ==
  \E r \in {kernel, info, Span(0, MinUsable)} :
    ranges_overlap(r, Span(f * PageBytes, (f + 1) * PageBytes))
AllFrames == 0 .. Top \div PageBytes
BitmapFrames ==
  FramesTouching(Span(pmm_bitmap_start, pmm_bitmap_start + align_up(pmm_bitmap_bytes)),
                 Top \div PageBytes + 1)
Eligible == {f \in AllFrames : Memory(f) /\ ~InUse(f)}

\* Once pmm_init has found the memory map, the bitmap lies in memory that
\* nothing else uses and has a bit for every frame; if it could not be placed,
\* no entry has room for it.  From then on the frames with a clear bit are
\* exactly the whole frames of memory outside the kernel, the boot information,
\* low memory and the bitmap that are not handed out, and the counter is their
\* number.  So no frame is handed out twice, no one gets frame 0, and none is
\* lost but those pmm_test keeps.
BitmapExact ==
  booted /\ found =>
    IF HasBitmap
    THEN /\ BitmapFrames \subseteq Eligible
         /\ pmm_bitmap_bytes * ByteBits >= pmm_total_frames
         /\ Eligible \subseteq 0 .. pmm_total_frames - 1
         /\ Clear(Now) = (Eligible \ BitmapFrames) \ held
         /\ held \subseteq Eligible \ BitmapFrames
         /\ pmm_free_frames = Cardinality(Clear(Now))
    ELSE LET pages == align_up(pmm_bitmap_bytes) \div PageBytes
         IN  held = {} /\ \A i \in DOMAIN mmap, f \in AllFrames :
               mmap[i].available /\ pages > 0 =>
                 \E g \in f .. f + pages - 1 :
                   \/ g \notin Eligible
                   \/ ~(mmap[i].range.start <= g * PageBytes /\ (g + 1) * PageBytes <= mmap[i].range.end)
============================================================================
