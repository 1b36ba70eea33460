----------------------------- MODULE HeapReport -----------------------------
(***************************************************************************)
(* What is made of the evidence: the allocator sources, their warnings     *)
(* and summary (crates/heapify-core/src/allocator_sources.rs) and the heap *)
(* scan (crates/heapify-core/src/heap_scan.rs).                            *)
(*                                                                         *)
(* o is the observed tcache, None when its view is off; kept the snapshot  *)
(* of each bin, None until it is read.                                     *)
(***************************************************************************)
EXTENDS ObservedTcache

EntriesIf(o) == IF o = None THEN <<>> ELSE Entries(o)

-----------------------------------------------------------------------------
(* Memberships: where a user address is listed, and with which sizes.      *)

TcacheNodes(o, walk) ==
  {[kind |-> "tcache", user |-> p, expected |-> Unit,
    actual |-> IF walk = None THEN None ELSE WalkedSize(p - Header, walk)] :
     p \in {q \in ToSet(EntriesIf(o)) : q >= Header}}

BinNodes(kept, bin) ==
  {[kind |-> bin, user |-> n.user, actual |-> n.size,
    expected |-> IF bin \in {"fastbin", "smallbin"} THEN Unit ELSE None] :
     n \in ToSet(Nodes(kept[bin]))}

SourceNodes(o, kept, walk) == TcacheNodes(o, walk) \cup (UNION {BinNodes(kept, b) : b \in Bins})

Memberships(o, kept) == {[kind |-> n.kind, user |-> n.user] : n \in SourceNodes(o, kept, None)}

Mismatch(n) == n.expected # None /\ n.actual # None /\ n.expected # n.actual

\* Mutant: one source is a conflict.
ConflictsOne(o, kept) == {m.user : m \in Memberships(o, kept)}

Conflicts(o, kept) ==
  {u \in {m.user : m \in Memberships(o, kept)} :
     Cardinality({m.kind : m \in {x \in Memberships(o, kept) : x.user = u}}) > 1}

\* collect_allocator_warnings: the sizes of tcache entries are not looked at.
Warnings(o, kept, t) ==
  {[kind |-> "allocator_source_conflict", source |-> None, user |-> u] :
     u \in Conflicts(o, kept)}
  \cup
  {[kind |-> "allocator_source_allocated", source |-> None, user |-> m.user] :
     m \in {x \in Memberships(o, kept) : KnownFreed(t, x.user) = "no"}}
  \cup
  {[kind |-> "free_list_size_mismatch", source |-> n.kind, user |-> n.user] :
     n \in {x \in BinNodes(kept, "fastbin") \cup BinNodes(kept, "smallbin") : Mismatch(x)}}

-----------------------------------------------------------------------------
(* The summary, and the delta to the one before.                           *)

Counts == {"tcache", "fastbin", "unsorted", "smallbin", "largebin", "total", "warnings"}
Zero   == [c \in Counts |-> 0]

Summary(o, kept, t) ==
  [tcache   |-> Len(EntriesIf(o)),
   fastbin  |-> Len(Nodes(kept["fastbin"])),
   unsorted |-> Len(Nodes(kept["unsorted"])),
   smallbin |-> Len(Nodes(kept["smallbin"])),
   largebin |-> Len(Nodes(kept["largebin"])),
   total    |-> Cardinality({n.user : n \in (UNION {BinNodes(kept, b) : b \in Bins})}
                              \cup ToSet(EntriesIf(o))),
   warnings |-> Cardinality(Warnings(o, kept, t))]

\* Mutant: the first summary has nothing to differ from.
DiffSkipsFirst(previous, current) ==
  [c \in Counts |-> IF previous = None THEN 0 ELSE current[c] - previous[c]]

Diff(previous, current) ==
  [c \in Counts |-> current[c] - (IF previous = None THEN 0 ELSE previous[c])]

-----------------------------------------------------------------------------
(* The heap scan: a set of findings, since one equal to an earlier one is  *)
(* not pushed again; `where' stands for its message.                       *)

Finding(severity, kind, chunk, user, where) ==
  [severity |-> severity, kind |-> kind, chunk |-> chunk, user |-> user, where |-> where]
Suspicion(kind, chunk, user, where) == Finding("suspicious", kind, chunk, user, where)
Doubt(kind) == Finding("warning", kind, None, None, None)

WalkFindings(walk) ==
  IF walk = None THEN {Doubt("heap_snapshot_unavailable")}
  ELSE IF walk.truncated THEN {Doubt("heap_snapshot_truncated")} ELSE {}

WarningFindings(warnings) ==
  {Suspicion(w.kind, w.user - Header, w.user, "source") : w \in warnings}

\* Of a node already reported as allocated the size is not looked at.
NodeFindings(n, t, prior) ==
  LET where == n.user - Header
      known == \E f \in prior : /\ f.kind = "allocator_source_allocated"
                                /\ f.chunk = where /\ f.user = n.user
      allocated == KnownFreed(t, n.user) = "no"
  IN  IF allocated /\ known THEN {}
      ELSE (IF allocated THEN {Suspicion("allocator_source_allocated", where, n.user, n.kind)}
                         ELSE {})
      \cup (IF Mismatch(n) \/ (n.kind = "largebin" /\ n.actual # None /\ n.actual < MinChunk)
            THEN {Suspicion("free_list_size_mismatch", where, n.user, n.kind)} ELSE {})

\* Mutant: a chain that left the heap is no finding.
ChainFindingsNoStray(kept, bin, mapped) ==
  IF kept[bin] = None \/ kept[bin].chain = None THEN {}
  ELSE LET chain == kept[bin].chain IN
       IF chain.end = "cycle" THEN {Suspicion("free_list_cycle", chain.head, None, bin)} ELSE {}

\* mapped is the end the heap had when the fastbin head was judged.
ChainFindings(kept, bin, mapped) ==
  IF kept[bin] = None \/ kept[bin].chain = None THEN {}
  ELSE LET chain == kept[bin].chain IN
       (IF chain.end = "cycle" THEN {Suspicion("free_list_cycle", chain.head, None, bin)}
                               ELSE {})
       \cup
       (IF chain.end = "unknown_next" \/ (bin = "fastbin" /\ chain.head \notin Start .. mapped - 1)
        THEN {Suspicion("free_list_node_outside_heap", chain.head, None, bin)} ELSE {})

TopFindings(top) ==
  IF top = FALSE THEN {Suspicion("main_arena_top_not_validated", None, None, None)} ELSE {}

VerdictFindings(kept, bin) ==
  IF kept[bin] = None \/ kept[bin].verdict \in {None, "plausible"} THEN {}
  ELSE {Finding(IF kept[bin].verdict = "suspicious" THEN "suspicious" ELSE "warning",
                "bin_validation", IF bin = "unsorted" THEN None ELSE kept[bin].chain.head,
                None, bin)}

\* build_heap_scan_report
FindingsAfter(prior, o, kept, t, walk, top) ==
  prior \cup (UNION {NodeFindings(n, t, prior) : n \in SourceNodes(o, kept, walk)})
        \cup (UNION {ChainFindings(kept, b, IF walk = None THEN 0 ELSE walk.end) : b \in Bins})
        \cup TopFindings(top)
        \cup (UNION {VerdictFindings(kept, b) : b \in Bins})

Findings(o, kept, t, walk, top) ==
  FindingsAfter(WalkFindings(walk) \cup WarningFindings(Warnings(o, kept, t)),
                o, kept, t, walk, top)

StatusOf(findings) ==
  IF \E f \in findings : f.severity = "suspicious" THEN "suspicious"
  ELSE IF \E f \in findings : f.severity = "warning" THEN "incomplete" ELSE "plausible"

ReportOf(findings, truncated, top) ==
  [status |-> StatusOf(findings), findings |-> findings, top |-> top, truncated |-> truncated]

Report(o, kept, t, walk, top) ==
  ReportOf(Findings(o, kept, t, walk, top), walk # None /\ walk.truncated, top)
=============================================================================
