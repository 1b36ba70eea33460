---------------------------- MODULE HeapEvidence ----------------------------
(***************************************************************************)
(* The evidence a session gathers event by event: emit_live_trace_records  *)
(* (crates/heapify-cli/src/app.rs) over the readers, the observed tcache,  *)
(* the allocator sources and the heap scan.  The allocator and the program *)
(* are the environment; the target is stopped while an event is handled,   *)
(* so an event is one step.                                                *)
(*                                                                         *)
(* The program is sound (no double free); what disturbs the evidence are   *)
(* calls no breakpoint saw, one overwritten word, and the allocator's own  *)
(* moves between its lists.  Chunks are of one size and never merge.       *)
(***************************************************************************)
EXTENDS Replay

CONSTANTS
  Setups,       \* the sessions: the command line, the target's glibc, the heap's kind
  TcacheMax,    \* how many chunks the allocator keeps in the tcache
  MaxEvents,    \* bound: events of an undisturbed session
  MaxWritten,   \* bound: calls of a session that writes a trace
  MaxDisturbed, \* bound: calls of one with an untraced call or an overwritten word
  MaxHidden     \* bound: calls not traced

VARIABLES
  setup,        \* [line, version, skew, class]
  config,       \* RenderConfig
  heap,         \* the target's memory
  tracked,      \* HeapTracker: user address -> [state, size]
  observed,     \* ObservedTcacheTracker
  mapping,      \* the end of the heap mapping when it was discovered, or None
  kept,         \* cached_*_snapshot of each bin
  summary,      \* previous_allocator_source_summary
  printed,      \* printed_*_block: the kinds of record told once that were told
  related,      \* the records told of the last event
  records,      \* the trace written so far, if one is
  matched,      \* the break condition the last event met, or None
  events,       \* how many events so far
  hidden,       \* chunks whose last call was not traced
  hiddenCalls,
  unseen,       \* chunks last freed by a call that is no free event
  wasIn         \* the list each bin was read from, None before

world == <<heap, hidden, hiddenCalls, unseen>>
trace == <<tracked, observed, mapping, kept, summary, printed, related, records, matched, wasIn>>
vars  == <<setup, config, events, world, trace>>

L == INSTANCE LaunchOptions

Program == "program"

Profile  == P!Select(L!Request(config), setup.version).selected
Offsets  == P!HasOffsets(Profile)
Shows(v) == v \in config.views

\* The target is one of glibc's, and a command line's limits are numbers where they parse.
ASSUME BoundsAreNumbers ==
  /\ TcacheMax \in Nat /\ MaxEvents \in Nat /\ MaxHidden \in Nat
  /\ MaxWritten \in 0 .. MaxEvents /\ MaxDisturbed \in 0 .. MaxEvents
ASSUME SetupsTyped ==
  \A s \in Setups :
    /\ s.skew \in {0, 2} /\ s.class \in Bins \ {"unsorted"}
    /\ s.line \in Seq(ToSet(s.line))
    /\ \A o \in ToSet(s.line) : o.flag \in L!Limits => o.value \in Nat \cup {None}

\* What is not there is no answer, no note and no summary.
ASSUME NoneIsNoAnswer ==
  None \notin BOOLEAN /\ None # "double free" /\ None \notin [Counts -> Nat]

\* json_enabled
WritesTrace == config.stored["--json-out"] # None \/ "--json" \in config.on
Writing(sequence) == IF WritesTrace THEN sequence ELSE <<>>

\* json_trace_features
Features(c) ==
  {v \in {"layout"} : v \in c.texts} \cup (c.views \cap {"tcache", "tcache_struct"})
    \cup {v \in {"libc_symbols"} : L!Mode(c) = "libc"}

Started(c, version) ==
  SessionStart(P!Select(L!Request(c), version), L!Preset(c), Features(c))

Init ==
  /\ setup \in Setups
  /\ config \in L!Parse(setup.line, Program)
  /\ heap = [lists |-> [l \in Lists |-> <<>>], carved |-> 0, brk |-> Start, bad |-> None,
             skew |-> setup.skew, class |-> setup.class]
  /\ tracked = [u \in {} |-> 0]
  /\ observed = NoFrees
  /\ mapping = None
  /\ kept = [b \in Bins |-> None]
  /\ summary = None
  /\ printed = {} /\ related = <<>>
  /\ records = Writing(<<Started(config, setup.version)>>)
  /\ matched = None
  /\ events = 0 /\ hidden = {} /\ hiddenCalls = 0 /\ unseen = {}
  /\ wasIn = [b \in Bins |-> None]

-----------------------------------------------------------------------------
(* The allocator (external)                                                *)

Enough(carved) == Chunk(carved + 1) + MinChunk

\* The words of the chunk at c, and the list it is in.
Touches(h, c) == h.bad # None /\ h.bad.at \in c .. c + Unit - 1
Frozen(h, l)  == \E c \in ToSet(h.lists[l]) : Touches(h, c)

\* What is left of a list the allocator took a chunk from goes to the tcache.
Stash(rest) ==
  LET n == IF Len(rest) < TcacheMax THEN Len(rest) ELSE TcacheMax
  IN  [tcache |-> Reverse(SubSeq(rest, 1, n)), rest |-> SubSeq(rest, n + 1, Len(rest))]

FromTcache(h) ==
  IF h.lists["tcache"] = <<>> \/ Frozen(h, "tcache") THEN {}
  ELSE {[chunk |-> Head(h.lists["tcache"]),
         heap  |-> [h EXCEPT !.lists["tcache"] = Tail(@)]]}

FromBin(h, b) ==
  LET list == IF b = "fastbin" THEN h.lists[b] ELSE Reverse(h.lists[b])
      kept2 == IF b \in {"fastbin", "smallbin"} THEN Stash(Tail(list))
               ELSE [tcache |-> <<>>, rest |-> Tail(list)]
  IN  IF list = <<>> \/ h.lists["tcache"] # <<>> \/ Frozen(h, b) THEN {}
      ELSE {[chunk |-> Head(list),
             heap  |-> [h EXCEPT !.lists[b] = IF b = "fastbin" THEN kept2.rest
                                              ELSE Reverse(kept2.rest),
                                 !.lists["tcache"] = kept2.tcache]]}

\* The chunks of the unsorted bin that did not fit go to the bin of their size.
Sorted(h) ==
  IF h.class = "fastbin" \/ Frozen(h, "unsorted") \/ Frozen(h, h.class) THEN h.lists
  ELSE [h.lists EXCEPT !["unsorted"] = <<>>, ![h.class] = h.lists["unsorted"] \o @]

\* A chunk is cut off the top, which grows when it is too small.
FromTop(h) ==
  LET need == Enough(h.carved + 1)
  IN  IF h.carved >= Chunks THEN {}
      ELSE {[chunk |-> Top(h),
             heap  |-> [h EXCEPT !.carved = @ + 1, !.lists = Sorted(h),
                                 !.brk = IF @ >= need THEN @
                                         ELSE IF @ = Start THEN Enough(Chunks - 1)
                                         ELSE need]]}

Served(h) == FromTcache(h) \cup (UNION {FromBin(h, b) : b \in Bins}) \cup FromTop(h)

Home(h) ==
  IF h.class # "largebin" /\ Len(h.lists["tcache"]) < TcacheMax THEN "tcache"
  ELSE IF h.class = "fastbin" THEN "fastbin" ELSE "unsorted"

Freeable(h) == {c \in InUse(h) : ~Touches(h, c) /\ ~Frozen(h, Home(h))}
Given(h, c) == [h EXCEPT !.lists[Home(h)] = <<c>> \o @]

\* The program overwrites a size, or a link of a chunk in a bin.
Targets(h, b) == {x \in Slots : x < Top(h)} \cup {Chunk(1) + 1, Wild, NULL, HeaderOf(h, b)}
Words(h) ==
  {[at |-> c + 1, word |-> w] : c \in {x \in Slots : x < Top(h)}, w \in {0, 2 * Unit}}
  \cup
  UNION {{[at |-> UserOf(c) + i, word |-> IF b = "fastbin" THEN Protect(w) ELSE w] :
            c \in ToSet(h.lists[b]), i \in 0 .. (IF b = "fastbin" THEN 0 ELSE 1),
            w \in Targets(h, b)} : b \in Bins}

Overwrites(h) ==
  {w \in Words(h) : Word(h, w.at) # w.word}

-----------------------------------------------------------------------------
(* An event: what is emitted of heap h by a tracker t and a tcache o.      *)

Known(t, c, state, size) ==
  [u \in DOMAIN t \cup {UserOf(c)} |->
     IF u = UserOf(c) THEN [state |-> state, size |-> size] ELSE t[u]]

ChunkSize(h, c) == Normalize(Word(h, c + 1))

Returned(t, h, c) == Known(t, c, "Allocated", ChunkSize(h, c))
GivenBack(t, c) ==
  IF UserOf(c) \in DOMAIN t THEN Known(t, c, "Freed", t[UserOf(c)].size) ELSE t

\* The size of the chunk an event is about.
ChunkAt(h, user) == IF user = NULL THEN None ELSE ChunkSize(h, user - Header)

\* observe_event: only a free is looked at; the other chunk sizes are left out.
ObserveEvent(o, h, c) ==
  IF ChunkSize(h, c) = Unit THEN ObserveFree(o, UserOf(c), Reveal(Word(h, UserOf(c)))) ELSE o

\* try_discover_heap_mapping: a mapping found is never looked up again.
Discovered(h) == IF mapping # None \/ h.brk = Start THEN mapping ELSE h.brk

Snapshot(h, end) == IF end = None THEN None ELSE Walk(h, end)

\* Bins are part of the display of chunks.
CanRead(walk) == "chunks" \in config.texts /\ Offsets /\ walk # None

\* Mutant: a bin is read again at every event.
DueAlways(bin, view, walk) == IF CanRead(walk) /\ Shows(view) THEN {bin} ELSE {}

\* A bin is read once, at the first event that can.
Due(bin, view, walk) ==
  IF CanRead(walk) /\ Shows(view) /\ kept[bin] = None THEN {bin} ELSE {}

FastbinsRecord(walk)    == Due("fastbin", "fastbins", walk)
UnsortedBinRecord(walk) == Due("unsorted", "unsorted_bin", walk)
SmallbinsRecord(walk)   == Due("smallbin", "smallbins", walk)
LargebinsRecord(walk)   == Due("largebin", "largebins", walk)

ReadNow(walk) ==
  FastbinsRecord(walk) \cup UnsortedBinRecord(walk) \cup SmallbinsRecord(walk)
    \cup LargebinsRecord(walk)

\* read_main_arena_top_validated_for_scan
TopValidated(h, walk) ==
  IF walk = None \/ ~Shows("top") \/ ~L!TopKnown(config, Profile) THEN None
  ELSE TopStatus(h, walk) = "validated"

\* allocator_warnings_enabled
WarningsOn == config.texts # {} /\ config.views \cap (L!BinViews \cup {"tcache"}) # {}

\* allocator_break_condition_matches
Matches(condition, event, report) ==
  CASE condition.flag = "--break-on-free" ->
         event.kind = "free" /\ event.ptr = condition.value
    [] condition.flag = "--break-on-alloc-size" -> event.size = condition.value
    [] condition.value = "double-free" -> event.note = "double free"
    [] OTHER -> report # None /\ report.status = "suspicious"

\* evaluate_allocator_break_conditions: the first that matches.
StopOn(event, report) ==
  LET met == {i \in DOMAIN config.breaks : Matches(config.breaks[i], event, report)}
  IN  IF met = {} THEN None ELSE config.breaks[Min(met)]

OnlyIf(on, value) == IF on THEN value ELSE None

Seen(o) == OnlyIf(Shows("tcache"), o)

ReportOn(h, t, o, scan, k) ==
  OnlyIf(config.texts # {} /\ Shows("heap_scan"),
         Report(Seen(o), k, t, scan, TopValidated(h, scan)))

-----------------------------------------------------------------------------
(* The records of an event, in the order they are emitted                  *)

ToldOnce == ArenaKinds \cup {"fastbin_experiment", "unsorted_bin_experiment", "bin_experiment",
                             "regular_bins", "tcache_struct_candidate"}

If(condition, sequence) == IF condition THEN sequence ELSE <<>>

Once(kinds) == printed \cap kinds = {}

ByOption(option, user, other) == IF config.stored[option] # None THEN user ELSE other

TopRecords(id, h, walk) ==
  If(Shows("top") /\ Once({"main_arena_view", "main_arena_top_candidate"})
       /\ L!TopKnown(config, Profile) /\ walk # None,
     <<TopRecord(id, TopBody(h, walk, ByOption("--main-arena-top-offset", "user_offset",
                                             "glibc_profile")))>>)

\* A clean view tells of the arena as well.
ArenaRecords(id, top) ==
  If(Shows("main_arena") /\ Once({"main_arena_view", "main_arena_candidate"})
       /\ \A i \in DOMAIN top : top[i].kind # "main_arena_view",
     <<MainArena(id, ByOption("--main-arena-offset", "user_offset", "libc_symbol"))>>)

ExperimentRecords(id, view, kind, walk, candidates) ==
  If(Shows(view) /\ Once({kind}) /\ walk # None, <<Experiment(kind, id, candidates)>>)

OfBin(id, b, now, k) == If(b \in now, BinRecords(id, b, k[b]))

RegularRecords(id, h, walk) ==
  If(CanRead(walk) /\ Shows("regular_bins") /\ Once({"regular_bins"}),
     <<RegularBinsRecord(id, h, L!Limit(config))>>)

\* Of the display of chunks; the bins just read are in k.
ChunkRecords(id, h, t, walk, now, k) ==
  ExperimentRecords(id, "fastbin_experiment", "fastbin_experiment", walk,
                    FastbinExperiment(h, walk, t, Offsets))
    \o OfBin(id, "fastbin", now, k) \o OfBin(id, "unsorted", now, k)
    \o RegularRecords(id, h, walk)
    \o OfBin(id, "smallbin", now, k) \o OfBin(id, "largebin", now, k)
    \o ExperimentRecords(id, "unsorted_experiment", "unsorted_bin_experiment", walk,
                         UnsortedBinExperiment(h, walk, t))
    \o ExperimentRecords(id, "bin_experiment", "bin_experiment", walk,
                         BinExperiment(h, walk, t))

LayoutRecords(id, t, o, walk, k) ==
  If("layout" \in config.texts /\ walk # None,
     <<HeapLayout(id, walk, t, Seen(o), k, config.stored["--max-layout-chunks"])>>)
    \o If(Shows("tcache"), <<ObservedTcacheChains(id, o)>>)

\* The struct is told of once, and compared at every event with the observed tcache.
StructRecords(id, h, t, o, end, walk) ==
  If(Shows("tcache_struct") /\ walk # None,
     If(Once({"tcache_struct_candidate"}), <<TcacheStruct(id, StructBin(h))>>)
       \o If(Shows("tcache"), <<TcacheComparison(id, StructBin(h), o),
                                TcacheValidation(id, StructBin(h), o, t, end)>>))

\* allocator_source_summary, its delta to the last one, and the warnings.
WarningRecords(id, t, o, k, sum) ==
  If(WarningsOn, SourceRecords(id, sum, Diff(summary, sum), Warnings(Seen(o), k, t)))

ScanRecords(id, report) == If(report # None, <<ScanRecord(id, report)>>)

\* With nothing to show but events, the arena is still told of.
Related(id, h, t, o, end, walk, now, k, report, sum) ==
  LET top    == TopRecords(id, h, walk)
      chunks == "chunks" \in config.texts
  IN  top \o ArenaRecords(id, top)
        \o ExperimentRecords(id, "arena_experiment", "main_arena_experiment", walk,
                             MainArenaExperiment(h, walk))
        \o If(config.texts # {},
              If(chunks, ChunkRecords(id, h, t, walk, now, k) \o LayoutRecords(id, t, o, walk, k))
                \o WarningRecords(id, t, o, k, sum)
                \o ScanRecords(id, report)
                \o If(chunks, StructRecords(id, h, t, o, end, walk)))

Tell(id, h, t, o, event, end, walk, now, report, sum) ==
  /\ related' = Related(id, h, t, o, end, walk, now, kept', report, sum)
  /\ printed' = printed \cup (ToldOnce \cap {related'[i].kind : i \in DOMAIN related'})
  /\ records' = records \o Writing(<<EventRecord(id, event, ChunkAt(h, event.ptr))>> \o related')
  /\ summary' = OnlyIf(WarningsOn, sum)
  /\ matched' = StopOn(event, report)

EmitAt(id, h, t, o, event, end, walk, now) ==
  /\ mapping' = end
  /\ kept' = [b \in Bins |-> IF b \in now THEN ReadBin(h, walk, t, L!Limit(config), b)
                                         ELSE kept[b]]
  /\ wasIn' = [b \in Bins |-> IF b \in now THEN h.lists[b] ELSE wasIn[b]]
  /\ Tell(id, h, t, o, event, end, walk, now,
          ReportOn(h, t, o, OnlyIf("chunks" \in config.texts, walk), kept'),
          Summary(Seen(o), kept', t))
  /\ tracked' = t
  /\ observed' = o

\* Mutant: the records of an event carry the number of the one before.
EmitAfterStale(h, t, o, event, end, walk) ==
  EmitAt(events, h, t, o, event, end, walk, ReadNow(walk))

EmitAfter(h, t, o, event, end, walk) ==
  EmitAt(events + 1, h, t, o, event, end, walk, ReadNow(walk))

Emit(h, t, o, event) ==
  EmitAfter(h, t, o, event, Discovered(h), Snapshot(h, Discovered(h)))

Disturbed == hiddenCalls > 0 \/ heap.bad # None
Bound == IF WritesTrace THEN MaxWritten ELSE IF Disturbed THEN MaxDisturbed ELSE MaxEvents

Event ==
  events + hiddenCalls < Bound /\ events' = events + 1 /\ UNCHANGED <<setup, config, hiddenCalls>>

\* What the break conditions look at; all requests are of one size.
Asked == Unit - Header
EventOf(kind, ptr, size, note) == [kind |-> kind, ptr |-> ptr, size |-> size, note |-> note]
Allocates(c) == EventOf("allocation", UserOf(c), Asked, None)
FreesNothing == EventOf("free", NULL, None, "free(NULL)")
Frees(c) ==
  EventOf("free", UserOf(c), None,
          IF KnownFreed(tracked, UserOf(c)) = "yes" THEN "double free" ELSE None)

TracedMalloc ==
  /\ Event
  /\ \E s \in Served(heap) :
       /\ heap' = s.heap
       /\ hidden' = hidden \ {s.chunk}
       /\ UNCHANGED unseen
       /\ Emit(s.heap, Returned(tracked, s.heap, s.chunk), observed, Allocates(s.chunk))

TracedFree ==
  /\ Event
  /\ \E c \in Freeable(heap) :
       LET h == Given(heap, c) IN
       /\ heap' = h
       /\ hidden' = IF UserOf(c) \in DOMAIN tracked THEN hidden \ {c} ELSE hidden
       /\ unseen' = unseen \ {c}
       /\ Emit(h, GivenBack(tracked, c), ObserveEvent(observed, h, c), Frees(c))

\* realloc to another chunk: the block freed is no event of its own.
TracedRealloc ==
  /\ Event
  /\ \E c \in Freeable(heap) : \E s \in Served(heap) :
       /\ ~Frozen(s.heap, Home(s.heap))
       /\ LET h == Given(s.heap, c)
          IN  /\ heap' = h
              /\ hidden' = (IF UserOf(c) \in DOMAIN tracked THEN hidden \ {c} ELSE hidden)
                             \ {s.chunk}
              /\ unseen' = unseen \cup {c}
              /\ Emit(h, Returned(GivenBack(tracked, c), h, s.chunk), observed, Allocates(s.chunk))

\* free(NULL), or an allocation that failed: nothing changes but the evidence.
TracedNull ==
  Event /\ UNCHANGED <<heap, hidden, unseen>> /\ Emit(heap, tracked, observed, FreesNothing)

Hidden ==
  /\ hiddenCalls < MaxHidden /\ events + hiddenCalls < MaxDisturbed
  /\ hiddenCalls' = hiddenCalls + 1
  /\ UNCHANGED <<setup, config, events, trace>>

UntracedMalloc ==
  /\ Hidden
  /\ \E s \in Served(heap) : heap' = s.heap /\ hidden' = hidden \cup {s.chunk}
  /\ UNCHANGED unseen

UntracedFree ==
  /\ Hidden
  /\ \E c \in Freeable(heap) : /\ heap' = Given(heap, c)
                               /\ hidden' = hidden \cup {c} /\ unseen' = unseen \cup {c}

Overwrite ==
  /\ heap.bad = None
  /\ \E w \in Overwrites(heap) : heap' = [heap EXCEPT !.bad = w]
  /\ UNCHANGED <<setup, config, events, hidden, hiddenCalls, unseen, trace>>

Next ==
  \/ TracedMalloc \/ TracedFree \/ TracedRealloc \/ TracedNull
  \/ UntracedMalloc \/ UntracedFree \/ Overwrite

Spec == Init /\ [][Next]_vars

-----------------------------------------------------------------------------
(* Properties *)

\* The records of a kind the last event left.
Said(kind) == {r \in ToSet(related) : r.kind = kind}

Untouched == hiddenCalls = 0 /\ heap.bad = None

\* The header of a bin is where the profile says.
Aligned == heap.skew = 0

\* What a reading of a bin would give now.
Fresh(b)      == ReadBin(heap, Walk(heap, mapping), tracked, L!Limit(config), b)
ChunksOf(snapshot) == [i \in DOMAIN Nodes(snapshot) |-> Nodes(snapshot)[i].chunk]
InLimit(b)    == /\ b = "smallbin" => L!Limit(config) > 3
                 /\ b = "largebin" => L!Limit(config) > 70

\* The evidence has its types; a running count of chunks is never negative
\* (app.rs:7043-7292, allocator_sources.rs:30-60).
TypeOK ==
  /\ setup \in Setups /\ events \in 0 .. MaxEvents /\ hiddenCalls \in 0 .. MaxHidden
  /\ hidden \subseteq Slots /\ unseen \subseteq Slots
  /\ mapping \in Nat \cup {None}
  /\ DOMAIN kept = Bins /\ DOMAIN wasIn = Bins
  /\ summary # None => summary \in [Counts -> Nat]
  /\ printed \subseteq ToldOnce
  /\ \A i \in DOMAIN related : related[i].kind \in Kinds /\ related[i].event = events
  /\ matched # None => matched \in ToSet(config.breaks)

\* In a heap whose every call was traced, that nobody overwrote and that did not
\* grow, a reader gives back exactly the chunks the allocator linked, in order, and
\* the validation vouches for them, whatever mix of reuse, realloc, sorting and
\* stashing made the list (lib.rs:4370-5043, glibc.rs:622-1210).
SoundHeapReadWhole ==
  mapping # None /\ mapping = heap.brk /\ Untouched /\ Aligned =>
    \A b \in {x \in Bins : InLimit(x) /\ Len(heap.lists[x]) <= ChainLimit} :
      LET fresh == Fresh(b)
      IN  /\ ChunksOf(fresh) = heap.lists[b]
          /\ heap.lists[b] # <<>> => fresh.verdict = "plausible"

\* One overwritten link never makes a doubly linked bin look plausible with a wrong
\* chunk in it: at worst the chain is cut short, since the tail word of the bin is not
\* compared with the last chunk read (lib.rs:5372-5443, glibc.rs:632-687).
PlausibleIsPrefix ==
  mapping # None /\ Aligned => \A b \in Linked :
    LET fresh == Fresh(b)
    IN  fresh.verdict = "plausible" => IsPrefix(ChunksOf(fresh), heap.lists[b])

EndsSoundly(chunks) ==
  /\ ToSet(chunks) \subseteq Free(heap)
  /\ Cardinality(ToSet(chunks)) = Len(chunks)
  /\ Reveal(Word(heap, UserOf(Last(chunks)))) = NULL

\* A fastbin, which has no links back, is called plausible only if every chunk read is
\* really free and met once, and the last one ends the chain (lib.rs:4651-4715,
\* glibc.rs:1107-1210).
VouchedFastbinEnds ==
  mapping # None /\ hiddenCalls = 0 =>
    LET fresh == Fresh("fastbin")
    IN  fresh.verdict = "plausible" => EndsSoundly(ChunksOf(fresh))

\* Each bin is read at the first event that can, before the program freed anything the
\* tracer saw: unless calls went untraced before, the snapshots all later warnings,
\* summaries and scans are made from list no chunk (app.rs:7528, 7677, 7784, 7869).
SnapshotsPredateFrees ==
  hiddenCalls = 0 => \A b \in Bins : Nodes(kept[b]) = <<>>

\* A scan calls a sound heap suspicious only for a known reason: a bin changed since
\* it was read, the observed tcache holds a chunk that left it or never was there, a
\* bin's header is not where the profile says, or the heap outgrew its mapping.  And
\* --break-on double-free stops a sound program only where a call went untraced
\* (heap_scan.rs:198-336, allocator_sources.rs:85-188, app.rs:3120-3204).
Reasons ==
  \/ \E b \in Bins : kept[b] # None /\ wasIn[b] # heap.lists[b]
  \/ /\ Shows("tcache")
     /\ ~(ToSet(Entries(observed)) \subseteq {UserOf(c) : c \in ToSet(heap.lists["tcache"])})
  \/ ~Aligned /\ \E b \in Linked : kept[b] # None
  \/ mapping # heap.brk

StoppedOn(condition) ==
  matched # None /\ matched.flag = "--break-on" /\ matched.value = condition

AlarmsExplained ==
  /\ (\E r \in Said("heap_scan") : r.body.status = "suspicious") /\ Untouched => Reasons
  /\ StoppedOn("suspicious") /\ Untouched => Reasons
  /\ StoppedOn("double-free") => hiddenCalls > 0

\* Where the header of a bin lies below its fd word, as glibc lays it out, every scan
\* reports each doubly linked bin it read, empty ones too, as leaving the heap
\* (lib.rs:4394-4418, 4515-4534, heap_scan.rs:428-486).
HeaderTakenForStray ==
  ~Aligned /\ heap.bad = None => \A r \in Said("heap_scan") : \A b \in Linked :
    kept[b] # None /\ kept[b].chain # None /\ Len(wasIn[b]) < ChainLimit =>
      \E f \in r.body.findings : f.kind = "free_list_node_outside_heap" /\ f.where = b

\* p orders the options of a line anew, but for those that set or extend one value.
Reorders(p, line) ==
  LET D == DOMAIN line IN
  /\ p \in [D -> D]
  /\ \A i, j \in D : i < j =>
       /\ p[i] # p[j]
       /\ line[p[i]].flag = line[p[j]].flag /\ line[p[i]].flag \in L!Stored \cup L!Listed =>
            p[i] < p[j]

\* What is the same of two configurations that stop on the same conditions.
Alike(c, d) == [c EXCEPT !.breaks = ToSet(@)] = [d EXCEPT !.breaks = ToSet(@)]

\* The same options in any order start the same session, or none: what a flag adds,
\* takes away or forbids never hangs on where it stands, except that of two options
\* that set one value the last one counts (app.rs:4025-4342).
OptionOrder ==
  events + hiddenCalls = 0 =>
    \A p \in Permutations(DOMAIN setup.line) :
      Reorders(p, setup.line) =>
        \E c \in L!Parse([i \in DOMAIN setup.line |-> setup.line[p[i]]], Program) :
          Alike(c, config)

\* When the tcache struct is said to match the observed chain, the chain is the
\* allocator's own list, unless a chunk of it was freed by a call that is no free
\* event (tcache.rs:103-110, 145-248).
MatchIsExact ==
  (\E r \in Said("tcache_comparison") : r.body # <<>> /\ Head(r.body).status = "matches") =>
    \/ Entries(observed) = [i \in DOMAIN heap.lists["tcache"] |->
                              UserOf(heap.lists["tcache"][i])]
    \/ \E c \in ToSet(heap.lists["tcache"]) : c \in unseen
    \/ heap.bad # None \/ hiddenCalls > 0

\* In an undisturbed session the layout of an event, cut short or not, calls a chunk
\* allocated only if the program holds it, freed only if the allocator does, and knows
\* every chunk but the top (json.rs:1374-1459, tracker.rs:47-120).
LayoutTells ==
  Untouched => \A r \in Said("heap_layout") : \A c \in ToSet(r.body.chunks) :
    CASE c.state = "allocated" -> c.chunk \in InUse(heap)
      [] c.state = "freed"     -> c.chunk \in Free(heap)
      [] OTHER                 -> c.chunk = Top(heap)

-----------------------------------------------------------------------------
(* The trace as it is read back, which may have been cut after any record  *)

\* replay_config_from_render_config
OwnReplay == [eventsOnly |-> config.texts = {}, showChunks |-> "chunks" \in config.texts,
              tui |-> FALSE]

Same(a, b) ==
  /\ Len(a) = Len(b)
  /\ \A i \in DOMAIN a : a[i].kind = b[i].kind /\ a[i].body = b[i].body

\* Where the n-th event was written, and what was written from there to the next.
EventsIn(file)  == {i \in DOMAIN file : file[i].kind = "event"}
PlaceOf(file, n) == CHOOSE i \in EventsIn(file) : Cardinality(EventsIn(file) \cap 1 .. i) = n
Until(file, n)  == IF n = Cardinality(EventsIn(file)) THEN Len(file) ELSE PlaceOf(file, n + 1) - 1
Following(file, n) ==
  LET from == SubSeq(file, PlaceOf(file, n) + 1, Until(file, n))
  IN  Picked(from, {i \in DOMAIN from : from[i].kind # "session_end"})

\* The deltas written up to the end of the n-th event.
DeltaSum(file, n, count) ==
  LET sum[k \in 0 .. Until(file, n)] ==
        IF k = 0 THEN 0
        ELSE sum[k - 1] + (IF file[k].kind = "allocator_source_delta" THEN file[k].body[count]
                           ELSE 0)
  IN  sum[Until(file, n)]

TellsEvent(file, session, n) ==
  LET entry == session.events[n] IN
  /\ entry.id = n /\ entry.index = PlaceOf(file, n)
  /\ \A c \in {ParseReplay(<<>>, <<"trace">>), OwnReplay} :
       Same(RelatedText(session, n, c), Texts(Following(file, n), c))
  /\ n \in DOMAIN session.deltas => \A count \in Counts :
       TimelineLine(session, entry).counts[count] = DeltaSum(file, n, count)

\* Whatever key is pressed, the event selected is a line of the timeline.
TellsTimeline(session) ==
  LET last == EventCount(session) - 1 IN
  \A selected \in 0 .. last, rows \in 1 .. 3, key \in Keys :
    LET next == Selected(session, key, selected) IN
    /\ next \in 0 .. last
    /\ \E line \in ToSet(Timeline(session, next, rows)) : line.id = session.events[next + 1].id

\* The file after its k-th record, the last of which is the end of the session.
FileOf(k) == [i \in 1 .. k |-> Line(IF i <= Len(records) THEN records[i] ELSE SessionEnd(events))]

\* A trace cut after any record replays as the session that had come so far: each event
\* once and in order, under it what was written before the next event and nothing else,
\* though most blocks are written once, the counts that the deltas add up to, and a
\* timeline that always shows the event selected.  A whole trace counts its events, and
\* one cut within a record does not replay (replay.rs:67-189, app.rs:4634-4693,
\* 6767-6913, allocator_sources.rs:272-297).
ReplayTellsTrace ==
  WritesTrace =>
    /\ LET whole == FromRecords(Load(FileOf(Len(records) + 1)))
       IN  /\ \A n \in 1 .. events : TellsEvent(whole.records, whole, n)
           /\ TellsTimeline(whole)
           /\ Head(whole.end).body.count = EventCount(whole)
           /\ Same(Rendered(whole, OwnReplay), Texts(whole.records, OwnReplay))
    /\ \A k \in (IF events = 0 THEN 1 ELSE PlaceOf(records, events)) .. Len(records) :
         LET cut == FromRecords(Load(FileOf(k)))
         IN  /\ EventCount(cut) = events /\ cut.end = <<>>
             /\ events > 0 => TellsEvent(cut.records, cut, events)
             /\ Load(Append(FileOf(k), Broken)) = None
=============================================================================
