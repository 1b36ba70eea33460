------------------------- MODULE HeapTracker_proofs -------------------------
(***************************************************************************)
(* The tracker agrees with the heap, for any set of addresses and sizes    *)
(* and any number of calls.                                                *)
(***************************************************************************)
EXTENDS HeapTracker, TLAPS

IInv == TypeOK /\ TracksLive /\ TracksFreed

LEMMA AllocatedType ==
  ASSUME NEW p \in Ptr, NEW n \in Nat,
         NEW c, c \in [DOMAIN c -> ObservedChunk], DOMAIN c \subseteq Ptr
  PROVE  LET d == Allocated(c, p, n)
         IN  d \in [DOMAIN d -> ObservedChunk] /\ DOMAIN d = (DOMAIN c) \cup {p}
  BY DEF Allocated, Put, Chunk, ObservedChunk

LEMMA FreedType ==
  ASSUME NEW p \in Ptr,
         NEW c, c \in [DOMAIN c -> ObservedChunk], DOMAIN c \subseteq Ptr
  PROVE  LET d == Freed(c, p)
         IN  d \in [DOMAIN d -> ObservedChunk] /\ DOMAIN d = DOMAIN c
  BY DEF Freed, Put, Chunk, ObservedChunk

LEMMA InPlaceType ==
  ASSUME NEW p \in Ptr, NEW n \in Nat,
         NEW c, c \in [DOMAIN c -> ObservedChunk], DOMAIN c \subseteq Ptr
  PROVE  LET d == ReallocInPlace(c, p, n)
         IN  d \in [DOMAIN d -> ObservedChunk] /\ DOMAIN d = DOMAIN c
  BY DEF ReallocInPlace, Put, Chunk, ObservedChunk

\* Products that fit are sizes, saturated or not.
LEMMA ProductSize ==
  ASSUME NEW n \in Size, NEW size \in Size
  PROVE  /\ n * size \in Nat
         /\ n * size <= MaxWord => Product(n, size) = n * size
  BY Constants DEF Product

-----------------------------------------------------------------------------
(* The outcomes the calls are made of, each preserving the invariant. *)

\* An address the allocator returns.
LEMMA Allocation ==
  ASSUME IInv, NEW p \in Fresh, NEW n \in 0 .. MaxWord,
         AllocateAt(p, n), chunks' = Allocated(chunks, p, n), note' \in Notes
  PROVE  IInv'
<1>1. p \in Ptr /\ n \in Nat
  BY Constants DEF Fresh, IInv, TypeOK
<1>2. TypeOK'
  <2>1. /\ chunks' \in [DOMAIN chunks' -> ObservedChunk]
        /\ DOMAIN chunks' = Tracked \cup {p}
    BY <1>1, AllocatedType DEF IInv, TypeOK, Tracked
  <2>2. live' \in [DOMAIN live' -> 0 .. MaxWord] /\ DOMAIN live' = Live \cup {p}
    BY <1>1 DEF AllocateAt, Return, Put, IInv, TypeOK, Live
  <2> QED
    BY <1>1, <2>1, <2>2 DEF IInv, TypeOK, AllocateAt, Return, Live, Tracked
<1>3. TracksLive' /\ TracksFreed'
  BY <1>1 DEF IInv, TracksLive, Is, TracksFreed, AllocateAt, Return,
              Allocated, Put, Chunk, Live, Tracked
<1> QED
  BY <1>2, <1>3 DEF IInv

\* An address handed back, by free or by realloc.
LEMMA Release ==
  ASSUME IInv, NEW p \in Ptr,
         live' = Drop(live, p), chunks' = Freed(chunks, p), note' \in Notes,
         dangling' = (IF p \in Live THEN dangling \cup {p} ELSE dangling),
         doubled' \subseteq Ptr, UNCHANGED hidden
  PROVE  IInv'
<1>1. TypeOK'
  <2>1. /\ chunks' \in [DOMAIN chunks' -> ObservedChunk]
        /\ DOMAIN chunks' = Tracked
    BY FreedType DEF IInv, TypeOK, Tracked
  <2>2. live' \in [DOMAIN live' -> 0 .. MaxWord] /\ DOMAIN live' = Live \ {p}
    BY DEF Drop, IInv, TypeOK, Live
  <2> QED
    BY <2>1, <2>2 DEF IInv, TypeOK, Live, Tracked
<1>2. TracksLive' /\ TracksFreed'
  <2>1. TypeOK /\ TracksLive /\ TracksFreed
    BY DEF IInv
  <2>2. Tracked' = Tracked
    BY FreedType DEF IInv, TypeOK, Tracked
  <2>3. \A q \in Tracked :
          chunks'[q] = IF q = p THEN Chunk(chunks[p].requested, "Freed")
                                ELSE chunks[q]
    BY <2>1 DEF Freed, Put, Tracked
  <2>4. \A q \in Tracked : /\ chunks'[q].state = IF q = p THEN "Freed" ELSE chunks[q].state
                           /\ chunks'[q].requested = chunks[q].requested
    BY <2>1, <2>3 DEF TypeOK, ObservedChunk, Chunk
  <2>5. Live' = Live \ {p} /\ \A q \in Live' : live'[q] = live[q]
    BY DEF Drop, Live
  <2>6. TracksLive'
    BY <2>1, <2>2, <2>4, <2>5 DEF TracksLive, Is, TypeOK
  <2>7. TracksFreed'
    BY <2>1, <2>2, <2>4, <2>5 DEF TracksLive, Is, TracksFreed, TypeOK, ObservedChunk
  <2> QED
    BY <2>6, <2>7
<1> QED
  BY <1>1, <1>2 DEF IInv

\* A call that changes nothing but the note.
LEMMA Nothing ==
  ASSUME IInv, UNCHANGED <<heap, chunks>>, note' \in Notes
  PROVE  IInv'
  BY DEF IInv, TypeOK, heap, TracksLive, Is, TracksFreed, Live, Tracked

\* realloc where the block stays, and where it moves.
LEMMA Resized ==
  ASSUME IInv, NEW p \in Live, NEW n \in 0 .. MaxWord,
         live' = Put(live, p, n), chunks' = ReallocInPlace(chunks, p, n),
         note' \in Notes, UNCHANGED <<dangling, doubled, hidden>>
  PROVE  IInv'
<1>1. p \in Ptr /\ n \in Nat
  BY Constants DEF IInv, TypeOK
<1>2. TypeOK'
  <2>1. /\ chunks' \in [DOMAIN chunks' -> ObservedChunk]
        /\ DOMAIN chunks' = Tracked
    BY <1>1, InPlaceType DEF IInv, TypeOK, Tracked
  <2>2. live' \in [DOMAIN live' -> 0 .. MaxWord] /\ DOMAIN live' = Live
    BY <1>1 DEF Put, IInv, TypeOK, Live
  <2> QED
    BY <1>1, <2>1, <2>2 DEF IInv, TypeOK, Live, Tracked
<1>3. TracksLive' /\ TracksFreed'
  BY <1>1 DEF IInv, TypeOK, TracksLive, Is, TracksFreed, ReallocInPlace,
              Put, Chunk, Live, Tracked
<1> QED
  BY <1>2, <1>3 DEF IInv

LEMMA Moved ==
  ASSUME IInv, NEW old \in Live, NEW p \in Fresh \ Live, NEW n \in 0 .. MaxWord,
         live' = Put(Drop(live, old), p, n),
         chunks' = Allocated(Freed(chunks, old), p, n),
         dangling' = (dangling \cup {old}) \ {p}, hidden' = hidden \ {p}, UNCHANGED doubled,
         note' \in Notes
  PROVE  IInv'
<1> DEFINE c == Freed(chunks, old)
<1>1. p \in Ptr /\ n \in Nat /\ old \in Ptr
  BY Constants DEF IInv, TypeOK, Fresh
<1>2. c \in [DOMAIN c -> ObservedChunk] /\ DOMAIN c = Tracked
  BY <1>1, FreedType DEF IInv, TypeOK, Tracked
<1>3. TypeOK'
  <2>1. /\ chunks' \in [DOMAIN chunks' -> ObservedChunk]
        /\ DOMAIN chunks' = Tracked \cup {p}
    <3>1. DOMAIN c \subseteq Ptr
      BY <1>2 DEF IInv, TypeOK
    <3>2. /\ Allocated(c, p, n) \in
               [DOMAIN Allocated(c, p, n) -> ObservedChunk]
          /\ DOMAIN Allocated(c, p, n) = (DOMAIN c) \cup {p}
      BY <1>1, <1>2, <3>1, AllocatedType
    <3> QED
      BY <1>2, <3>2 DEF c
  <2>2. live' \in [DOMAIN live' -> 0 .. MaxWord] /\ DOMAIN live' = (Live \ {old}) \cup {p}
    BY <1>1 DEF Put, Drop, IInv, TypeOK, Live
  <2> QED
    BY <1>1, <2>1, <2>2 DEF IInv, TypeOK, Live, Tracked
<1>4. TracksLive' /\ TracksFreed'
  <2>1. TypeOK /\ TracksLive /\ TracksFreed
    BY DEF IInv
  <2>2. /\ Tracked' = Tracked \cup {p}
        /\ \A q \in Tracked' :
             /\ chunks'[q].state = IF q = p THEN "Allocated"
                                   ELSE IF q = old THEN "Freed" ELSE chunks[q].state
             /\ q = p => chunks'[q].requested = n
             /\ q # p => chunks'[q].requested = chunks[q].requested
    BY <1>1, <2>1 DEF Allocated, Freed, Put, Chunk, Tracked, TypeOK, ObservedChunk
  <2>3. /\ Live' = (Live \ {old}) \cup {p}
        /\ \A q \in Live' : live'[q] = IF q = p THEN n ELSE live[q]
    BY DEF Put, Drop, Live
  <2>4. TracksLive'
    BY <1>1, <2>1, <2>2, <2>3 DEF TracksLive, Is
  <2>5. TracksFreed'
    BY <1>1, <2>1, <2>2 DEF TracksLive, Is, TracksFreed
  <2> QED
    BY <2>4, <2>5
<1> QED
  BY <1>3, <1>4 DEF IInv

\* An allocation no event tells of: the tracker promises nothing of its address.
LEMMA UntracedAllocation ==
  ASSUME IInv, NEW p \in Ptr, NEW n \in 0 .. MaxWord, AllocateUntraced(p, n)
  PROVE  IInv'
<1>1. live' \in [DOMAIN live' -> 0 .. MaxWord] /\ DOMAIN live' = Live \cup {p}
  BY DEF AllocateUntraced, Return, Put, IInv, TypeOK, Live
<1>2. TypeOK'
  BY <1>1 DEF AllocateUntraced, Return, IInv, TypeOK, Live, Tracked
<1>3. TracksLive' /\ TracksFreed'
  BY DEF AllocateUntraced, Return, Put, IInv, TracksLive, Is, TracksFreed, Live, Tracked
<1> QED
  BY <1>2, <1>3 DEF IInv

\* A free no event tells of.
LEMMA UntracedFree ==
  ASSUME IInv, NEW p \in Ptr, FreeUntraced(p)
  PROVE  IInv'
<1>1. live' \in [DOMAIN live' -> 0 .. MaxWord] /\ DOMAIN live' = Live \ {p}
  BY DEF FreeUntraced, GiveBack, Drop, IInv, TypeOK, Live
<1>2. TypeOK'
  BY <1>1 DEF FreeUntraced, GiveBack, IInv, TypeOK, Live, Tracked
<1>3. TracksLive' /\ TracksFreed'
  BY DEF FreeUntraced, GiveBack, Drop, IInv, TracksLive, Is, TracksFreed, Live, Tracked
<1> QED
  BY <1>2, <1>3 DEF IInv

-----------------------------------------------------------------------------
LEMMA InitIInv == Init => IInv
  BY Constants DEF Init, IInv, TypeOK, TracksLive, Is, TracksFreed, Live, Tracked, Notes

LEMMA MallocNotes ==
  ASSUME NEW p PROVE MallocNote(p) \in Notes /\ FreeNote(p) \in Notes
  BY DEF MallocNote, FreeNote, Notes

LEMMA StepIInv == IInv /\ [Next]_vars => IInv'
<1> SUFFICES ASSUME IInv, [Next]_vars PROVE IInv'
  OBVIOUS
<1> USE DEF Notes
<1>0. /\ Size \subseteq 0 .. MaxWord
      /\ \A n \in Size : n \in Nat
  BY Constants
<1>1. ASSUME NEW size \in Size, Malloc(size) PROVE IInv'
  <2>1. ASSUME NEW p \in Fresh, AllocateAt(p, size),
               chunks' = Allocated(chunks, p, size), note' = MallocNote(p)
        PROVE  IInv'
    BY <1>0, <1>1, <2>1, Allocation, MallocNotes DEF Malloc
  <2>2. CASE note' = "NullMalloc" /\ UNCHANGED <<heap, chunks>>
    BY <1>1, <2>2, Nothing DEF Malloc
  <2> QED
    BY <1>1, <2>1, <2>2 DEF Malloc
<1>2. ASSUME NEW size \in Size, NEW n \in Size, Calloc(n, size) PROVE IInv'
  <2>1. ASSUME NEW p \in Fresh, n * size <= MaxWord, AllocateAt(p, n * size),
               chunks' = Allocated(chunks, p, Product(n, size)),
               note' = MallocNote(p)
        PROVE  IInv'
    <3>1. n * size \in 0 .. MaxWord /\ Product(n, size) = n * size
      BY <2>1, ProductSize, Constants
    <3> QED
      BY <1>2, <2>1, <3>1, Allocation, MallocNotes DEF Calloc
  <2>2. CASE note' = "NullCalloc" /\ UNCHANGED <<heap, chunks>>
    BY <1>2, <2>2, Nothing DEF Calloc
  <2> QED
    BY <1>2, <2>1, <2>2 DEF Calloc
<1>3. ASSUME NEW size \in Size, ReallocNull(size) PROVE IInv'
  <2>1. ASSUME NEW p \in Fresh, AllocateAt(p, size),
               chunks' = Allocated(chunks, p, size)
        PROVE  IInv'
    BY <1>0, <1>3, <2>1, Allocation DEF ReallocNull
  <2>2. CASE UNCHANGED <<heap, chunks>>
    BY <1>3, <2>2, Nothing DEF ReallocNull
  <2> QED
    BY <1>3, <2>1, <2>2 DEF ReallocNull
<1>4. ASSUME NEW p \in Ptr \cup {Null}, Free(p) PROVE IInv'
  <2>1. CASE p = Null /\ note' = "NullFree" /\ UNCHANGED <<heap, chunks>>
    BY <1>4, <2>1, Nothing DEF Free, GiveBack
  <2>2. CASE /\ p \in Ptr /\ live' = Drop(live, p)
             /\ dangling' = (IF p \in Live THEN dangling \cup {p} ELSE dangling)
             /\ doubled' = (IF p \in dangling THEN doubled \cup {p} ELSE doubled)
             /\ chunks' = Freed(chunks, p) /\ note' = FreeNote(p)
             /\ UNCHANGED hidden
    <3>1. doubled' \subseteq Ptr
      BY <2>2 DEF IInv, TypeOK
    <3> QED
      BY <1>4, <2>2, <3>1, Release, MallocNotes DEF Free, GiveBack
  <2> QED
    BY <1>4, <2>1, <2>2 DEF Free, GiveBack
<1>5. ASSUME NEW p \in Ptr, NEW size \in Size, Realloc(p, size) PROVE IInv'
  <2>1. CASE /\ live' = Put(live, p, size) /\ note' = "ReallocInPlace"
             /\ chunks' = ReallocInPlace(chunks, p, size)
             /\ UNCHANGED <<dangling, doubled, hidden>>
    BY <1>0, <1>5, <2>1, Resized DEF Realloc
  <2>2. ASSUME NEW q \in Fresh \ Live, live' = Put(Drop(live, p), q, size),
               dangling' = (dangling \cup {p}) \ {q}, hidden' = hidden \ {q},
               UNCHANGED doubled,
               chunks' = Allocated(Freed(chunks, p), q, size),
               note' = (IF p \in Tracked THEN "ReallocMovedAllocation"
                                         ELSE "ReallocUnknownOldPointer")
        PROVE  IInv'
    BY <1>0, <1>5, <2>2, Moved DEF Realloc
  <2>3. CASE /\ live' = Drop(live, p) /\ dangling' = dangling \cup {p} /\ UNCHANGED <<doubled, hidden>>
             /\ chunks' = Freed(chunks, p)
             /\ note' = "ReallocPtrZeroFreedOldPointer"
    <3>1. doubled' \subseteq Ptr /\ p \in Live
      BY <1>5, <2>3 DEF IInv, TypeOK, Realloc
    <3> QED
      BY <1>5, <2>3, <3>1, Release DEF Realloc
  <2>4. CASE note' = "ReallocFailedKeepsOldPointer" /\ UNCHANGED <<heap, chunks>>
    BY <1>5, <2>4, Nothing DEF Realloc
  <2> QED
    BY <1>5, <2>1, <2>2, <2>3, <2>4 DEF Realloc
<1>6. ASSUME NEW p \in Ptr, NEW size \in Size, AllocateUntraced(p, size) PROVE IInv'
  BY <1>0, <1>6, UntracedAllocation
<1>7. ASSUME NEW p \in Ptr, FreeUntraced(p) PROVE IInv'
  BY <1>7, UntracedFree
<1>8. CASE UNCHANGED vars
  BY <1>8 DEF vars, heap, IInv, TypeOK, TracksLive, Is, TracksFreed, Live, Tracked
<1> QED
  BY <1>1, <1>2, <1>3, <1>4, <1>5, <1>6, <1>7, <1>8 DEF Next

\* The tracker and the heap keep their types, and of every address no untraced call
\* touched last the tracker knows whether it is allocated, how large, or handed back.
\* The conjunction is inductive as it stands, because each event touches the chunks it
\* names and no other (tracker.rs:68-239).
THEOREM TrackerAgrees == Spec => [](TypeOK /\ TracksLive /\ TracksFreed)
<1>1. Spec => []IInv
  BY InitIInv, StepIInv, PTL DEF Spec
<1> QED
  BY <1>1 DEF IInv

\* The run's TypeOK for every instance: realloc and calloc keep chunk sizes within a word
\* (tracker.rs:172-239).
COROLLARY TrackerTyped == Spec => []TypeOK
  BY TrackerAgrees, PTL

\* The run's TracksFreed for every instance: an address handed back is known as freed until it
\* is returned again (tracker.rs:153-239).
COROLLARY FreedKnown == Spec => []TracksFreed
  BY TrackerAgrees, PTL

\* A free is called a double free exactly when the pointer had been handed back and not
\* returned since, unless an untraced call was the last to touch it (tracker.rs:153-170).
THEOREM DoubleFreeSound == Spec => DoubleFreeExact
<1>1. IInv /\ [Next]_vars => [FreesNoted]_vars
  BY Constants DEF IInv, TracksFreed, FreesNoted, Free, FreeNote, Is, Tracked
<1>2. Spec => []IInv
  BY InitIInv, StepIInv, PTL DEF Spec
<1> QED
  BY <1>1, <1>2, PTL DEF Spec, DoubleFreeExact

\* Without a double free and without an untraced call, the tracker never says that an
\* allocated pointer was returned again (tracker.rs:144-150).
THEOREM ReuseSound == Spec => ReuseExplained
<1>1. IInv /\ [Next]_vars => [note' # note => ReuseBlamed]_vars
  <2> SUFFICES ASSUME IInv, Next, note' # note, note' = "AllocatedPointerReturnedAgain"
               PROVE  ReuseBlamed
    BY DEF vars, ReuseBlamed
  <2>1. ASSUME NEW p \in Fresh, note' = MallocNote(p) PROVE ReuseBlamed
    <3>1. Is(p, "Allocated")
      BY <2>1 DEF MallocNote, IInv, TypeOK, ObservedChunk, Is
    <3>2. p \in hidden \/ p \in doubled
      BY <3>1 DEF IInv, TracksLive, TypeOK, Fresh
    <3> QED
      BY <3>1, <3>2 DEF ReuseBlamed, Is
  <2>2. ASSUME NEW size \in Size, Malloc(size) PROVE ReuseBlamed
    BY <2>1, <2>2 DEF Malloc
  <2>3. ASSUME NEW size \in Size, NEW n \in Size, Calloc(n, size) PROVE ReuseBlamed
    BY <2>1, <2>3 DEF Calloc
  <2> QED
    BY <2>2, <2>3 DEF Next, ReallocNull, Realloc, AllocateUntraced, Free, FreeNote, FreeUntraced
<1>2. Spec => []IInv
  BY InitIInv, StepIInv, PTL DEF Spec
<1> QED
  BY <1>1, <1>2, PTL DEF Spec, ReuseExplained
=============================================================================
