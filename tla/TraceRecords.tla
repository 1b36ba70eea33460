---------------------------- MODULE TraceRecords ----------------------------
(***************************************************************************)
(* The records of a trace (crates/heapify-cli/src/json.rs): a kind, the    *)
(* event the record belongs to, which is None at the two ends of a         *)
(* session, and what it holds of the evidence of that event.               *)
(***************************************************************************)
EXTENDS HeapReport, ArenaExperiments, Integers

Ends == {"session_start", "session_end"}

\* What --events-only alone hides, and what also needs the display of chunks.
ArenaKinds ==
  {"main_arena_candidate", "main_arena_experiment", "main_arena_top_candidate",
   "main_arena_view"}
ScanKinds  == {"heap_scan"}
TcacheKinds ==
  {"observed_tcache_chains", "tcache_struct_candidate", "tcache_comparison", "tcache_validation"}
ExperimentKinds == {"fastbin_experiment", "unsorted_bin_experiment", "bin_experiment"}
BinKinds        == {"fastbins", "unsorted_bin", "regular_bins", "smallbins", "largebins"}
ValidationKinds ==
  {"fastbin_validation", "unsorted_bin_validation", "smallbin_validation", "largebin_validation"}
SourceKinds ==
  {"allocator_warnings", "allocator_source_summary", "allocator_source_delta"}
ChunkKinds ==
  {"heap_layout"} \cup TcacheKinds \cup ExperimentKinds \cup BinKinds \cup ValidationKinds
    \cup SourceKinds

Kinds == Ends \cup {"event"} \cup ArenaKinds \cup ScanKinds \cup ChunkKinds

Record(kind, event, body) == [kind |-> kind, event |-> event, body |-> body]

-----------------------------------------------------------------------------
(* The ends, and the event itself *)

SessionStart(selection, preset, features) ==
  Record("session_start", None, [selection |-> selection, preset |-> preset, features |-> features])

\* How the program ended is not known here.
SessionEnd(count) == Record("session_end", None, [status |-> "unknown", count |-> count])

EventRecord(id, event, chunk) == Record("event", id, [event |-> event, chunk |-> chunk])

-----------------------------------------------------------------------------
(* The layout: of each chunk walked, up to a limit, its state, and the     *)
(* list it is a member of.                                                 *)

PlaceIn(users, user) ==
  IF user \in ToSet(users) THEN CHOOSE i \in DOMAIN users : users[i] = user ELSE None

UsersOf(snapshot) == [i \in DOMAIN Nodes(snapshot) |-> Nodes(snapshot)[i].user]

Member(kind, users, user) ==
  IF user \in ToSet(users) THEN <<[kind |-> kind, index |-> PlaceIn(users, user)]>> ELSE <<>>

\* Mutant: a chunk the tracer saw freed in an earlier life stays freed.
StateOfFirst(t, user) == IF user \in DOMAIN t THEN "freed" ELSE "unknown"

StateOf(t, user) ==
  CASE KnownFreed(t, user) = "yes" -> "freed"
    [] KnownFreed(t, user) = "no"  -> "allocated"
    [] OTHER                       -> "unknown"

\* The bins before the tcache, the large ones first.
Sources(kept, o, user) ==
  Member("largebin", UsersOf(kept["largebin"]), user)
    \o Member("smallbin", UsersOf(kept["smallbin"]), user)
    \o Member("unsorted", UsersOf(kept["unsorted"]), user)
    \o Member("fastbin", UsersOf(kept["fastbin"]), user)
    \o Member("tcache_candidate", EntriesIf(o), user)

LayoutChunk(chunk, t, o, kept) ==
  [chunk  |-> chunk.addr, size |-> chunk.size, state |-> StateOf(t, UserOf(chunk.addr)),
   tcache |-> PlaceIn(EntriesIf(o), UserOf(chunk.addr)),
   source |-> IF Sources(kept, o, UserOf(chunk.addr)) = <<>> THEN None
              ELSE Head(Sources(kept, o, UserOf(chunk.addr)))]

Least(a, b) == IF a < b THEN a ELSE b

HeapLayout(id, walk, t, o, kept, limit) ==
  LET shown == SubSeq(walk.chunks, 1, Least(limit, Len(walk.chunks)))
  IN  Record("heap_layout", id,
        [chunks    |-> [i \in DOMAIN shown |-> LayoutChunk(shown[i], t, o, kept)],
         omitted   |-> Len(walk.chunks) - Len(shown),
         truncated |-> walk.truncated])

-----------------------------------------------------------------------------
(* The tcache: an answer per bin, a list of at most one                    *)

OneOf(value) == IF value = None THEN <<>> ELSE <<value>>

ChainOf(o) ==
  IF ObservedChain(o) = None THEN None
  ELSE [entries |-> ObservedChain(o).entries, end |-> ObservedChain(o).end]

ObservedTcacheChains(id, o) == Record("observed_tcache_chains", id, OneOf(ChainOf(o)))

TcacheStruct(id, bin) == Record("tcache_struct_candidate", id, OneOf(bin))

ComparisonOf(bin, o) ==
  IF bin = None THEN None
  ELSE [bin |-> bin, observed |-> ChainOf(o), status |-> Compare(bin, o)]

TcacheComparison(id, bin, o) == Record("tcache_comparison", id, OneOf(ComparisonOf(bin, o)))

TcacheValidation(id, bin, o, t, end) ==
  Record("tcache_validation", id, OneOf(ValidateTcache(bin, o, t, end)))

-----------------------------------------------------------------------------
(* The arena and its bins *)

TopBody(h, walk, source) ==
  [top |-> Top(h), size |-> WalkedSize(Top(h), walk), status |-> TopStatus(h, walk),
   source |-> source]

\* is_clean_main_arena_view
CleanView(body) == body.source = "glibc_profile" /\ body.status = "validated"

TopRecord(id, body) ==
  Record(IF CleanView(body) THEN "main_arena_view" ELSE "main_arena_top_candidate", id, body)

MainArena(id, source) == Record("main_arena_candidate", id, [source |-> source])

Experiment(kind, id, candidates) == Record(kind, id, candidates)

RegularBinsRecord(id, h, limit) == Record("regular_bins", id, RegularBins(h, limit))

KindOf(bin) == CASE bin = "fastbin"  -> "fastbins"     [] bin = "unsorted" -> "unsorted_bin"
                 [] bin = "smallbin" -> "smallbins"    [] OTHER            -> "largebins"
ValidationKind(bin) ==
  CASE bin = "fastbin"  -> "fastbin_validation"
    [] bin = "unsorted" -> "unsorted_bin_validation"
    [] bin = "smallbin" -> "smallbin_validation"
    [] OTHER            -> "largebin_validation"

\* The snapshot of a bin, and what its validation says, if anything.
BinRecords(id, bin, snapshot) ==
  <<Record(KindOf(bin), id, OneOf(snapshot.chain))>>
    \o (IF snapshot.verdict = None THEN <<>>
        ELSE <<Record(ValidationKind(bin), id, <<snapshot.verdict>>)>>)

-----------------------------------------------------------------------------
(* What is made of it *)

\* maybe_emit_allocator_warnings_record: no record of no warnings.
SourceRecords(id, summary, delta, warnings) ==
  <<Record("allocator_source_summary", id, summary),
    Record("allocator_source_delta", id, delta)>>
    \o (IF warnings = {} THEN <<>> ELSE <<Record("allocator_warnings", id, warnings)>>)

ScanRecord(id, report) == Record("heap_scan", id, report)
=============================================================================
