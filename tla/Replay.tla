------------------------------- MODULE Replay -------------------------------
(***************************************************************************)
(* A trace read back: `heapify replay' (crates/heapify-cli/src/app.rs) and *)
(* its session (crates/heapify-cli/src/replay.rs).  A file is a sequence   *)
(* of lines, each [text, record]: `whole' text is a record, `blank' none,  *)
(* `broken' text is what is left of a line cut short.                      *)
(***************************************************************************)
EXTENDS TraceRecords

-----------------------------------------------------------------------------
(* The command line: flags up to the name of the file, which is the last.  *)

ReplayDefault == [eventsOnly |-> FALSE, showChunks |-> TRUE, tui |-> FALSE]

ReplayOption(c, flag) ==
  [eventsOnly |-> c.eventsOnly \/ flag = "--events-only",
   showChunks |-> c.showChunks /\ flag # "--no-chunks",
   tui        |-> c.tui \/ flag = "--tui"]

ReplayFlags == {"--events-only", "--no-chunks", "--tui"}

ParseReplay(flags, files) ==
  IF ~(ToSet(flags) \subseteq ReplayFlags) \/ Len(files) # 1 THEN None
  ELSE FoldLeft(ReplayOption, ReplayDefault, flags)

-----------------------------------------------------------------------------
(* Loading: nothing is replayed of a file with a line that is no record.   *)

\* The elements of a sequence at the positions I, in their order.
Picked(seq, I) ==
  LET upTo[k \in 0 .. Len(seq)] ==
        IF k = 0 THEN <<>>
        ELSE IF k \in I THEN Append(upTo[k - 1], seq[k]) ELSE upTo[k - 1]
  IN  upTo[Len(seq)]

Line(record) == [text |-> "whole", record |-> record]
Blank  == [text |-> "blank", record |-> None]
Broken == [text |-> "broken", record |-> None]

Records(lines) ==
  LET whole == Picked(lines, {i \in DOMAIN lines : lines[i].text = "whole"})
  IN  [i \in DOMAIN whole |-> whole[i].record]

\* load_replay_records: the records, or None.
Load(lines) ==
  IF \E i \in DOMAIN lines : lines[i].text = "broken" THEN None ELSE Records(lines)

-----------------------------------------------------------------------------
(* ReplaySession *)

OfKind(records, kind) == Picked(records, {i \in DOMAIN records : records[i].kind = kind})

\* The first start and the last end, where there are any.
StartOf(records) ==
  LET starts == OfKind(records, "session_start")
  IN  IF starts = <<>> THEN <<>> ELSE <<Head(starts)>>
EndOf(records) ==
  LET ends == OfKind(records, "session_end")
  IN  IF ends = <<>> THEN <<>> ELSE <<Last(ends)>>

\* By event, the last record of the kind.
ByEvent(records, kind) ==
  LET of == OfKind(records, kind)
      ids == {of[i].event : i \in DOMAIN of}
  IN  [id \in ids |-> Last(Picked(of, {i \in DOMAIN of : of[i].event = id})).body]

EventEntries(records) ==
  LET at == Picked([i \in DOMAIN records |-> i], {i \in DOMAIN records : records[i].kind = "event"})
  IN  [i \in DOMAIN at |-> [id |-> records[at[i]].event, index |-> at[i]]]

\* from_records
FromRecords(records) ==
  [records |-> records, start |-> StartOf(records), end |-> EndOf(records),
   events  |-> EventEntries(records),
   states  |-> ByEvent(records, "allocator_source_summary"),
   deltas  |-> ByEvent(records, "allocator_source_delta")]

EventCount(session) == Len(session.events)

RecordsFor(session, id) ==
  Picked(session.records, {i \in DOMAIN session.records : session.records[i].event = id})

-----------------------------------------------------------------------------
(* What is shown of a record: its kind and what of its body is told, or    *)
(* None.  Of the kinds without a definition here every field is told, with *)
(* a word of its own for each value a field can have.                      *)

\* Kinds whose record is shown only if it lists something.
OnlyIfListed ==
  {"observed_tcache_chains", "tcache_comparison", "tcache_validation", "smallbin_validation",
   "largebin_validation"}

HiddenBy(c, r) ==
  \/ c.eventsOnly /\ r.kind \notin Ends \cup {"event"}
  \/ ~c.showChunks /\ r.kind \in ChunkKinds
  \/ r.kind \in OnlyIfListed /\ r.body = <<>>

\* The source of a chunk of the layout is told of two kinds only.
Annotation(chunk) ==
  IF chunk.source # None /\ chunk.source.kind \in {"fastbin", "tcache_candidate"}
  THEN chunk.source
  ELSE IF chunk.tcache = None THEN None ELSE [kind |-> "tcache_candidate", index |-> chunk.tcache]

LayoutText(body) ==
  [chunks |-> [i \in DOMAIN body.chunks |->
                 [chunk |-> body.chunks[i].chunk, size |-> body.chunks[i].size,
                  state |-> body.chunks[i].state, source |-> Annotation(body.chunks[i])]],
   omitted |-> body.omitted, truncated |-> body.truncated]

\* The details of the profile are for those who see more than events.
StartText(body, c) == [body EXCEPT !.selection = IF c.eventsOnly THEN None ELSE @]

EventText(body, c) == [body EXCEPT !.chunk = IF c.showChunks THEN @ ELSE None]

\* What a chain that is told as a line ends in.
EndMark(end) ==
  CASE end = "cycle"     -> "... cycle"     [] end = "unknown_next" -> "?"
    [] end = "truncated" -> "... truncated" [] OTHER                -> "NULL"

ObservedText(body) ==
  [i \in DOMAIN body |-> [entries |-> body[i].entries, mark |-> EndMark(body[i].end)]]

\* Nothing observed is told as such, whatever the chain ended in.
ObservedIn(comparison) ==
  IF comparison.observed = None \/ comparison.observed.entries = <<>> THEN <<>>
  ELSE ObservedText(<<comparison.observed>>)

ComparisonText(body) ==
  [i \in DOMAIN body |-> [bin |-> body[i].bin, observed |-> ObservedIn(body[i]),
                          status |-> body[i].status]]

\* Of a fastbin the addresses, on a line.
FastbinsText(body) ==
  [i \in DOMAIN body |-> [chunks |-> [j \in DOMAIN body[i].nodes |-> body[i].nodes[j].chunk],
                          mark   |-> EndMark(body[i].end)]]

\* Of the other bins the nodes of those that are not empty: what the chain ended in
\* is not told.
LinkedText(body) ==
  LET full == SelectSeq(body, LAMBDA chain : ~chain.empty)
  IN  [i \in DOMAIN full |-> full[i].nodes]

ScanText(body) ==
  [status   |-> body.status,
   snapshot |-> IF \E f \in body.findings : f.kind = "heap_snapshot_unavailable"
                  THEN "unavailable"
                ELSE IF body.truncated THEN "truncated" ELSE "complete",
   top      |-> CASE body.top = TRUE -> "validated" [] body.top = FALSE -> "not_validated"
                  [] OTHER -> "unknown",
   findings |-> body.findings]

BodyText(r, c) ==
  CASE r.kind = "session_start"          -> StartText(r.body, c)
    [] r.kind = "event"                  -> EventText(r.body, c)
    [] r.kind = "heap_layout"            -> LayoutText(r.body)
    [] r.kind = "observed_tcache_chains" -> ObservedText(r.body)
    [] r.kind = "tcache_comparison"      -> ComparisonText(r.body)
    [] r.kind = "fastbins"               -> FastbinsText(r.body)
    [] r.kind \in {"unsorted_bin", "smallbins", "largebins"} -> LinkedText(r.body)
    [] r.kind = "heap_scan"              -> ScanText(r.body)
    [] OTHER                             -> r.body

\* format_replay_record
Text(r, c) == IF HiddenBy(c, r) THEN None ELSE [kind |-> r.kind, body |-> BodyText(r, c)]

Texts(records, c) ==
  LET shown == SelectSeq(records, LAMBDA r : ~HiddenBy(c, r))
  IN  [i \in DOMAIN shown |-> Text(shown[i], c)]

\* replay_trace_file: the two ends frame the rest, wherever they are in the file.
Rendered(session, c) ==
  LET between == {i \in DOMAIN session.records : session.records[i].kind \notin Ends}
  IN  Texts(session.start \o Picked(session.records, between) \o session.end, c)

-----------------------------------------------------------------------------
(* The interface: a line per event, and the related records of one.        *)

RelatedText(session, id, c) ==
  LET of == RecordsFor(session, id)
  IN  Texts(Picked(of, {i \in DOMAIN of : of[i].kind # "event"}), c)

\* Shown in the timeline: the counts, where a summary was recorded.
TimelineLine(session, entry) ==
  [id |-> entry.id,
   counts |-> IF entry.id \in DOMAIN session.states THEN session.states[entry.id] ELSE None]

Keys == {"up", "down", "page_up", "page_down", "home", "end"}

Most(a, b) == IF a > b THEN a ELSE b

\* handle_replay_tui_key: events are counted from 0.
Selected(session, key, selected) ==
  LET last == Most(EventCount(session) - 1, 0) IN
  CASE key = "down"      -> Least(selected + 1, last)
    [] key = "page_down" -> Least(selected + 10, last)
    [] key = "up"        -> Most(selected - 1, 0)
    [] key = "page_up"   -> Most(selected - 10, 0)
    [] key = "home"      -> 0
    [] OTHER             -> last

\* visible_timeline_offset
Offset(selected, rows, count) ==
  IF rows = 0 \/ count <= rows THEN 0 ELSE Least(Most(selected - (rows - 1), 0), count - rows)

\* draw_replay_tui: the lines of the timeline.
Timeline(session, selected, rows) ==
  LET from == Offset(selected, rows, EventCount(session))
      shown == SubSeq(session.events, from + 1, Least(from + Most(rows, 1), EventCount(session)))
  IN  [i \in DOMAIN shown |-> TimelineLine(session, shown[i])]
=============================================================================
