----------------------------- MODULE HeapTracker -----------------------------
(***************************************************************************)
(* What the tracer believes of the heap (crates/heapify-core/src/          *)
(* tracker.rs): one record per address the allocator ever returned, moved  *)
(* by the events of traced calls, each with a note.  The allocator and the *)
(* program are the environment: `live' is what is really allocated.        *)
(*                                                                         *)
(* Events reach the tracker in the order the calls return, which is the    *)
(* order their effects take place in; their ids, handed out at the entry,  *)
(* decide nothing and are left out.                                        *)
(***************************************************************************)
EXTENDS Naturals

CONSTANTS
  Ptr, Null,    \* user addresses; the address 0
  Size,         \* requested sizes, and the factors of calloc
  MaxWord       \* u64::MAX

ASSUME Constants ==
  /\ Null \notin Ptr
  /\ Size \subseteq 0 .. MaxWord /\ MaxWord \in Nat

VARIABLES
  live,         \* the requested size of each allocated address
  dangling,     \* addresses freed and not returned since
  doubled,      \* addresses in the free lists once more than they should be
  hidden,       \* addresses last allocated or freed by a call not traced
  chunks,       \* HashMap<u64, ObservedChunk>
  note          \* HeapTrackerNote of the last event

heap == <<live, dangling, doubled, hidden>>
vars == <<heap, chunks, note>>

Tracked == DOMAIN chunks
Live    == DOMAIN live

Put(f, k, v) == [x \in (DOMAIN f) \cup {k} |-> IF x = k THEN v ELSE f[x]]
Drop(f, k)   == [x \in (DOMAIN f) \ {k} |-> f[x]]

Init ==
  /\ live = [p \in {} |-> 0]
  /\ dangling = {} /\ doubled = {} /\ hidden = {}
  /\ chunks = [p \in {} |-> 0]
  /\ note = "none"

-----------------------------------------------------------------------------
(* HeapTracker::observe_*: the chunks after an event, and its note.        *)

Chunk(size, state) == [requested |-> size, state |-> state]

\* Mutant: a chunk that is already known is left as it was.
AllocatedIfNew(c, p, size) ==
  IF p \in DOMAIN c THEN c ELSE Put(c, p, Chunk(size, "Allocated"))

Allocated(c, p, size) == Put(c, p, Chunk(size, "Allocated"))

\* Mutant: the event is ignored.
FreedIgnored(c, p) == c

\* Mutant: the chunk is forgotten.
FreedForgets(c, p) == IF p \in DOMAIN c THEN Drop(c, p) ELSE c

\* A pointer never returned by a traced call is not remembered.
Freed(c, p) ==
  IF p \in DOMAIN c THEN Put(c, p, Chunk(c[p].requested, "Freed")) ELSE c

\* Mutant: realloc keeps the size first asked for.
ReallocInPlaceKeepsSize(c, p, size) ==
  IF p \in DOMAIN c THEN Put(c, p, Chunk(c[p].requested, "Allocated")) ELSE c

ReallocInPlace(c, p, size) ==
  IF p \in DOMAIN c THEN Put(c, p, Chunk(size, "Allocated")) ELSE c

Is(p, state) == p \in Tracked /\ chunks[p].state = state

MallocNote(p) ==
  IF p \notin Tracked THEN "NewAllocation"
  ELSE IF Is(p, "Freed") THEN "ReusedFreedChunk" ELSE "AllocatedPointerReturnedAgain"

FreeNote(p) ==
  IF p \notin Tracked THEN "FreeUnknownPointer"
  ELSE IF Is(p, "Freed") THEN "DoubleFree" ELSE "FreedKnownChunk"

\* checked_mul, saturating
Product(n, size) == IF n * size <= MaxWord THEN n * size ELSE MaxWord

-----------------------------------------------------------------------------
(* The heap *)

\* Any address not in use may be returned; one freed twice, even while it is.
Fresh == (Ptr \ Live) \cup doubled

Return(p, size) ==
  /\ live' = Put(live, p, size)
  /\ dangling' = dangling \ {p}
  /\ doubled' = IF p \in Live THEN doubled \ {p} ELSE doubled

GiveBack(p) ==
  /\ live' = Drop(live, p)
  /\ dangling' = IF p \in Live THEN dangling \cup {p} ELSE dangling
  /\ doubled' = IF p \in dangling THEN doubled \cup {p} ELSE doubled

\* aligned_alloc, or a library that allocates or frees on its own: no
\* breakpoint stands there.
AllocateUntraced(p, size) ==
  /\ p \in Fresh
  /\ Return(p, size)
  /\ hidden' = hidden \cup {p}
  /\ UNCHANGED <<chunks, note>>

FreeUntraced(p) ==
  /\ GiveBack(p)
  /\ hidden' = hidden \cup {p}
  /\ UNCHANGED <<chunks, note>>

-----------------------------------------------------------------------------
(* The traced calls: what the allocator does, and what the tracker makes   *)
(* of the event reported when the call returns.                            *)

AllocateAt(p, size) == Return(p, size) /\ hidden' = hidden \ {p}

\* Mutant: the address 0 is tracked like any other.
MallocTracksNull(size) ==
  \E p \in Fresh \cup {Null} :
    /\ AllocateAt(p, size)
    /\ chunks' = Allocated(chunks, p, size)
    /\ note' = MallocNote(p)

Malloc(size) ==
  \/ \E p \in Fresh :
       /\ AllocateAt(p, size)
       /\ chunks' = Allocated(chunks, p, size)
       /\ note' = MallocNote(p)
  \/ /\ note' = "NullMalloc"
     /\ UNCHANGED <<heap, chunks>>

\* An allocator refuses a product that does not fit.
Calloc(n, size) ==
  \/ \E p \in Fresh :
       /\ n * size <= MaxWord
       /\ AllocateAt(p, n * size)
       /\ chunks' = Allocated(chunks, p, Product(n, size))
       /\ note' = MallocNote(p)
  \/ /\ note' = "NullCalloc"
     /\ UNCHANGED <<heap, chunks>>

Free(p) ==
  \/ /\ p = Null
     /\ note' = "NullFree"
     /\ UNCHANGED <<heap, chunks>>
  \/ /\ p \in Ptr
     /\ GiveBack(p)
     /\ chunks' = Freed(chunks, p)
     /\ note' = FreeNote(p)
     /\ UNCHANGED hidden

ReallocNull(size) ==
  /\ note' = "ReallocNullActsLikeMalloc"
  /\ \/ \E p \in Fresh :
          /\ AllocateAt(p, size)
          /\ chunks' = Allocated(chunks, p, size)
     \/ UNCHANGED <<heap, chunks>>

\* realloc of a live block: in place, moved, freed by size 0, or failed.
Realloc(old, size) ==
  /\ old \in Live
  /\ \/ /\ size # 0
        /\ live' = Put(live, old, size)
        /\ chunks' = ReallocInPlace(chunks, old, size)
        /\ note' = "ReallocInPlace"
        /\ UNCHANGED <<dangling, doubled, hidden>>
     \/ \E p \in Fresh \ Live :
          /\ size # 0
          /\ live' = Put(Drop(live, old), p, size)
          /\ dangling' = (dangling \cup {old}) \ {p}
          /\ hidden' = hidden \ {p}
          /\ UNCHANGED doubled
          /\ chunks' = Allocated(Freed(chunks, old), p, size)
          /\ note' = IF old \in Tracked THEN "ReallocMovedAllocation"
                                        ELSE "ReallocUnknownOldPointer"
     \/ /\ size = 0
        /\ live' = Drop(live, old)
        /\ dangling' = dangling \cup {old}
        /\ UNCHANGED <<doubled, hidden>>
        /\ chunks' = Freed(chunks, old)
        /\ note' = "ReallocPtrZeroFreedOldPointer"
     \/ /\ size # 0
        /\ note' = "ReallocFailedKeepsOldPointer"
        /\ UNCHANGED <<heap, chunks>>

Next ==
  \/ \E size \in Size :
       \/ Malloc(size) \/ ReallocNull(size)
       \/ \E n \in Size : Calloc(n, size)
       \/ \E p \in Ptr : Realloc(p, size) \/ AllocateUntraced(p, size)
  \/ \E p \in Ptr \cup {Null} : Free(p)
  \/ \E p \in Ptr : FreeUntraced(p)

Spec == Init /\ [][Next]_vars

-----------------------------------------------------------------------------
(* Properties *)

Notes == {"none", "NewAllocation", "ReusedFreedChunk", "FreedKnownChunk", "DoubleFree",
          "FreeUnknownPointer", "NullMalloc", "NullFree", "AllocatedPointerReturnedAgain",
          "NullCalloc", "ReallocNullActsLikeMalloc", "ReallocInPlace",
          "ReallocMovedAllocation", "ReallocFailedKeepsOldPointer",
          "ReallocPtrZeroFreedOldPointer", "ReallocUnknownOldPointer"}

ObservedChunk == [requested : Nat, state : {"Allocated", "Freed"}]

\* The heap, the tracked chunks and the note have their types (tracker.rs:5-49).
TypeOK ==
  /\ live \in [Live -> 0 .. MaxWord] /\ Live \subseteq Ptr
  /\ dangling \subseteq Ptr /\ doubled \subseteq Ptr /\ hidden \subseteq Ptr
  /\ chunks \in [Tracked -> ObservedChunk] /\ Tracked \subseteq Ptr
  /\ note \in Notes

\* Of an address no untraced call touched last the tracker knows exactly whether it
\* is allocated, and the size last asked for, through any mix of reuse, calloc and
\* realloc, and whatever happens to other addresses (tracker.rs:114-239).
TracksLive ==
  \A p \in Ptr \ hidden :
    /\ p \in Live <=> Is(p, "Allocated")
    /\ p \in Live => chunks[p].requested = live[p]

\* ... and whether it was handed back, by free or by realloc (tracker.rs:153-239).
TracksFreed == \A p \in Ptr \ hidden : p \in dangling <=> Is(p, "Freed")

\* "DoubleFree" is said of a free exactly when the pointer was given back before and
\* not returned since, unless an untraced call was the last to touch it;
\* --break-on double-free stands on it (tracker.rs:153-170).
FreesNoted ==
  \A p \in Ptr \ hidden : Free(p) => (note' = "DoubleFree" <=> p \in dangling)
DoubleFreeExact == [][FreesNoted]_vars

\* A pointer is said to be returned again while allocated only if an earlier double
\* free, or an untraced call, is to blame: no order of frees, reuse and realloc by a
\* sound program raises that alarm (tracker.rs:144-150).
ReuseBlamed ==
  note' = "AllocatedPointerReturnedAgain" =>
    \E p \in Tracked \cap (doubled \cup hidden) : Is(p, "Allocated")
ReuseExplained == [][note' # note => ReuseBlamed]_vars
=============================================================================
