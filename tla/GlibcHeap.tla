------------------------------ MODULE GlibcHeap ------------------------------
(***************************************************************************)
(* The memory of a stopped target, a word at an address, and the walk the  *)
(* tracer makes over its heap.  The allocator is external: its free lists  *)
(* decide what the words hold, and at most one word (`bad') holds          *)
(* something else.  A word stands for eight bytes: chunks are aligned to   *)
(* two words, the header is two, the smallest chunk four.                  *)
(*                                                                         *)
(* A heap is a record [lists, carved, brk, bad, skew, class]:              *)
(*   lists    the chunks of each free list, in the order they are linked   *)
(*   carved   how many chunks the allocator has cut off the top chunk      *)
(*   brk      the end of the heap                                          *)
(*   bad      None, or [at, word]: a word overwritten by the program       *)
(*   skew     how far below its fd word the header of a bin lies           *)
(*   class    the bin its chunks belong to                                 *)
(***************************************************************************)
EXTENDS Naturals, Sequences, SequencesExt, FiniteSetsExt

CONSTANTS
  Chunks,       \* at most so many chunks are cut off the top
  WalkLimit,    \* 4096
  None

Start     == 6
Unit      == 6      \* the words of a chunk, its header included
Header    == 2
MinChunk  == 4
Alignment == 2
Wild      == 5000   \* an address nothing is mapped at
Key       == 10000  \* what safe linking adds to a pointer it hides
NULL      == 0

Chunk(k) == Unit * k

\* A walk can list every chunk; the heap ends below the arena and the other places.
ASSUME HeapBounds ==
  /\ Chunks \in Nat \ {0, 1} /\ WalkLimit \in Nat /\ Chunks < WalkLimit
  /\ Chunk(Chunks + 2) < 1000

Bins   == {"fastbin", "unsorted", "smallbin", "largebin"}
Linked == Bins \ {"fastbin"}
Lists  == Bins \cup {"tcache"}

Slots    == {Chunk(k) : k \in 1 .. Chunks}
UserOf(c) == c + Header

\* The fd word of each bin in the arena; chunks linked there see its header.
FieldOf(bin) == CASE bin = "fastbin"  -> 1010 [] bin = "unsorted" -> 1020
                  [] bin = "smallbin" -> 1030 [] OTHER            -> 1040
HeaderOf(h, bin) == FieldOf(bin) - h.skew

Top(h)    == Chunk(h.carved + 1)
Free(h)   == UNION {ToSet(h.lists[l]) : l \in Lists}
InUse(h)  == {c \in Slots : c < Top(h)} \ Free(h)

-----------------------------------------------------------------------------
(* The words *)

Protect(p) == p + Key

\* decode_safe_linked_ptr: a word that was not hidden decodes to anything.
Reveal(w) == IF w >= Key THEN w - Key ELSE Wild

Neighbour(s, i, end) == IF i \in DOMAIN s THEN s[i] ELSE end
At(h, l, c) == CHOOSE i \in DOMAIN h.lists[l] : h.lists[l][i] = c

\* What the allocator keeps in a free chunk's first two words.
Fd(h, l, c) ==
  LET i == At(h, l, c) IN
  CASE l = "tcache"  -> Protect(IF i < Len(h.lists[l]) THEN UserOf(h.lists[l][i + 1])
                                                       ELSE NULL)
    [] l = "fastbin" -> Protect(Neighbour(h.lists[l], i + 1, NULL))
    [] OTHER         -> Neighbour(h.lists[l], i + 1, HeaderOf(h, l))

Bk(h, l, c) ==
  IF l \in Linked THEN Neighbour(h.lists[l], At(h, l, c) - 1, HeaderOf(h, l)) ELSE NULL

HeadOf(h, bin) == Neighbour(h.lists[bin], 1,
                            IF bin = "fastbin" THEN NULL ELSE HeaderOf(h, bin))
TailOf(h, bin) == Neighbour(h.lists[bin], Len(h.lists[bin]), HeaderOf(h, bin))

ListOf(h, c) == CHOOSE l \in Lists : c \in ToSet(h.lists[l])

Written(h, a) ==
  CASE \E c \in Slots : c < Top(h) /\ a = c + 1 -> Unit
    [] a = Top(h) + 1 -> h.brk - Top(h)
    [] \E c \in Free(h) : a = UserOf(c) ->
         Fd(h, ListOf(h, a - Header), a - Header)
    [] \E c \in Free(h) : a = UserOf(c) + 1 ->
         Bk(h, ListOf(h, a - Header - 1), a - Header - 1)
    [] OTHER -> NULL

Readable(h, a) == a \in Start .. h.brk - 1

\* read_word: None where it fails.
Word(h, a) ==
  IF ~Readable(h, a) THEN None
  ELSE IF h.bad # None /\ h.bad.at = a THEN h.bad.word ELSE Written(h, a)

-----------------------------------------------------------------------------
(* The walk: GlibcHeapSnapshot, chunk after chunk up to the end the        *)
(* mapping had when it was discovered.                                     *)

Normalize(size) == (size \div Alignment) * Alignment

\* A chunk is listed before its size is judged.
Listing(w, end, size) ==
  LET bad == size < MinChunk \/ w.at + size > end
  IN  [at |-> w.at + size, stop |-> bad, truncated |-> bad,
       chunks |-> Append(w.chunks, [addr |-> w.at, size |-> size])]

WalkStep(h, end, w) ==
  IF w.stop \/ w.at >= end THEN w
  ELSE IF Len(w.chunks) >= WalkLimit \/ ~Readable(h, w.at + 1)
    THEN [at |-> w.at, chunks |-> w.chunks, stop |-> TRUE, truncated |-> TRUE]
  ELSE Listing(w, end, Normalize(Word(h, w.at + 1)))

Walks == [end : Nat, chunks : Seq([addr : Nat, size : Nat]), truncated : BOOLEAN]

\* What is not there is no address, and no snapshot.
ASSUME NoneIsNothing == None \notin Nat /\ None \notin Walks /\ None \notin [at : Nat, word : Nat]

SnapshotOf(end, w) == [end |-> end, chunks |-> w.chunks, truncated |-> w.truncated]

Walk(h, end) ==
  LET walk[n \in 0 .. WalkLimit + 1] ==
        IF n = 0 THEN [at |-> Start, chunks |-> <<>>, stop |-> FALSE, truncated |-> FALSE]
                 ELSE WalkStep(h, end, walk[n - 1])
  IN  SnapshotOf(end, walk[WalkLimit + 1])

PointsIntoHeap(p, walk) == Start <= p /\ p < walk.end
Walked(p, walk)         == \E i \in DOMAIN walk.chunks : walk.chunks[i].addr = p

\* The size the walk gave a chunk, None of an address it did not list.
WalkedSize(p, walk) ==
  IF Walked(p, walk)
  THEN LET i == CHOOSE j \in DOMAIN walk.chunks : walk.chunks[j].addr = p
       IN  walk.chunks[i].size
  ELSE None

\* *_chain_next_is_plausible
Plausible(p, walk) == PointsIntoHeap(p, walk) /\ p % Alignment = 0

\* classify_main_arena_top_candidate
TopStatus(h, walk) ==
  IF Walked(Top(h), walk) THEN "validated"
  ELSE IF PointsIntoHeap(Top(h), walk) THEN "points_into_heap" ELSE "outside_heap"
=============================================================================
