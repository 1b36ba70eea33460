-------------------------- MODULE ArenaExperiments --------------------------
(***************************************************************************)
(* The experiments: words of the main arena that could be pointers of the  *)
(* allocator, whatever the profile knows of its layout                     *)
(* (crates/heapify-debugger/src/lib.rs, read_*_experiment).                *)
(*                                                                         *)
(* The arena holds, in this order, the fastbins, the top chunk with the    *)
(* last remainder, and the pairs of links of the other bins.               *)
(***************************************************************************)
EXTENDS BinChains

Fields == {"fastbin", "top"} \cup Linked

FirstWord(h, f)  == IF f = "top" THEN Top(h) ELSE HeadOf(h, f)
SecondWord(h, f) == IF f \in Linked THEN TailOf(h, f) ELSE NULL

ArenaWords(h) ==
  {[field |-> f, place |-> i, value |-> IF i = 1 THEN FirstWord(h, f) ELSE SecondWord(h, f)] :
     f \in Fields, i \in {1, 2}}

PointsIntoArena(p) == p \in FieldOf("fastbin") - 10 .. FieldOf("largebin") + 10

CandidateFreed(t, p, walk) ==
  IF PointsIntoHeap(p, walk) THEN KnownFreed(t, UserOf(p)) ELSE "unknown"

\* The last chunk walked is taken for the top.
RoleHint(p, walk) ==
  IF walk.chunks # <<>> /\ p = Last(walk.chunks).addr THEN "candidate_top" ELSE "heap_pointer"

\* The words near the arena's start that point into the heap; the large bins are far.
MainArenaExperiment(h, walk) ==
  {[at |-> w, size |-> WalkedSize(w.value, walk), role |-> RoleHint(w.value, walk)] :
     w \in {x \in ArenaWords(h) : x.field # "largebin" /\ PointsIntoHeap(x.value, walk)}}

\* Without the offset of the top, what follows the fastbins is scanned as well.
FastbinScan(offsets) == IF offsets THEN {"fastbin"} ELSE {"fastbin", "top", "unsorted"}

FastbinExperiment(h, walk, t, offsets) ==
  {[at |-> w, size |-> WalkedSize(w.value, walk), freed |-> KnownFreed(t, UserOf(w.value))] :
     w \in {x \in ArenaWords(h) : x.field \in FastbinScan(offsets)
                                    /\ PointsIntoHeap(x.value, walk)}}

Pair(h, walk, t, f) ==
  [field |-> f, fd |-> FirstWord(h, f), bk |-> SecondWord(h, f),
   fdFreed |-> CandidateFreed(t, FirstWord(h, f), walk),
   bkFreed |-> CandidateFreed(t, SecondWord(h, f), walk)]

IntoHeap(h, walk, f) == \E p \in {FirstWord(h, f), SecondWord(h, f)} : PointsIntoHeap(p, walk)
IntoArena(h, f)      == \E p \in {FirstWord(h, f), SecondWord(h, f)} : PointsIntoArena(p)

\* Every other word is taken for a link forward, the next one for the link back: the
\* top chunk looks like one too.
UnsortedBinExperiment(h, walk, t) ==
  {Pair(h, walk, t, f) : f \in {g \in {"top", "unsorted", "smallbin"} : IntoHeap(h, walk, g)}}

BinExperiment(h, walk, t) ==
  {Pair(h, walk, t, f) : f \in {g \in Linked : IntoHeap(h, walk, g) \/ IntoArena(h, g)}}
=============================================================================
