--------------------------- MODULE ObservedTcache ---------------------------
(***************************************************************************)
(* The tcache as the tracer reconstructs it from the frees it sees         *)
(* (crates/heapify-core/src/tcache.rs), of one chunk size: the last        *)
(* pointer freed, and the link each freed pointer held when its free       *)
(* returned.  Nothing is ever taken out again.                             *)
(***************************************************************************)
EXTENDS BinChains

CONSTANT TcacheLimit   \* max_tcache_chain

ASSUME TcacheBound == TcacheLimit \in Nat

NoFrees == [head |-> None, next |-> [p \in {} |-> NULL]]

Link(next, p, q) == [x \in DOMAIN next \cup {p} |-> IF x = p THEN q ELSE next[x]]

\* The chunk may have gone to another list: the word is decoded all the same.
ObserveFree(o, p, next) == [head |-> p, next |-> Link(o.next, p, next)]

\* build_chain; `truncated' also stands for a pointer met again.
ObservedStep(o, r) ==
  IF r.end # "reading" THEN r
  ELSE IF r.cur \in ToSet(r.entries) THEN [r EXCEPT !.end = "truncated"]
  ELSE LET entries == Append(r.entries, r.cur)
           next    == o.next[r.cur]
       IN  IF Len(entries) >= TcacheLimit
             THEN [cur |-> r.cur, entries |-> entries, end |-> "truncated"]
           ELSE IF next = NULL
             THEN [cur |-> r.cur, entries |-> entries, end |-> "complete"]
           ELSE IF next \notin DOMAIN o.next
             THEN [cur |-> r.cur, entries |-> Append(entries, next), end |-> "unknown_next"]
           ELSE [cur |-> next, entries |-> entries, end |-> "reading"]

\* chain_for_size: None before the first free.
ObservedChain(o) ==
  LET read[n \in 0 .. TcacheLimit] ==
        IF n = 0 THEN [cur |-> o.head, entries |-> <<>>, end |-> "reading"]
                 ELSE ObservedStep(o, read[n - 1])
  IN  IF o.head = None THEN None ELSE read[TcacheLimit]

Entries(o) == IF o.head = None THEN <<>> ELSE ObservedChain(o).entries

-----------------------------------------------------------------------------
(* The tcache struct: a bin with neither count nor head is left out.       *)

StructBin(h) ==
  IF h.lists["tcache"] = <<>> THEN None
  ELSE [count |-> Len(h.lists["tcache"]), head |-> UserOf(Head(h.lists["tcache"]))]

\* Mutant: the heads are not compared.
CompareCounts(bin, o) ==
  LET chain == ObservedChain(o) IN
  IF bin = None THEN None
  ELSE IF chain = None THEN "missing"
  ELSE IF chain.end # "complete" THEN "incomplete"
  ELSE IF bin.count # Len(chain.entries) THEN "count_differs" ELSE "matches"

\* compare_tcache_snapshot_with_observed
Compare(bin, o) ==
  LET chain == ObservedChain(o) IN
  IF bin = None THEN None
  ELSE IF chain = None THEN "missing"
  ELSE IF bin.head # o.head THEN "head_differs"
  ELSE IF chain.end # "complete" THEN "incomplete"
  ELSE IF bin.count # Len(chain.entries) THEN "count_differs" ELSE "matches"

\* Of the entries the tracker knows the chunk size of, an odd one decides.
ObservedSizes(o, t) ==
  LET known == ToSet(Entries(o)) \cap DOMAIN t
  IN  IF \E p \in known : t[p].size # Unit THEN "no" ELSE IF known = {} THEN "unknown" ELSE "yes"

\* validate_tcache_snapshot_candidate
ValidateTcache(bin, o, t, end) ==
  LET chain == ObservedChain(o) IN
  IF bin = None THEN None
  ELSE Verdict({IF bin.head \in Start .. end - 1 THEN "yes" ELSE "no",
                KnownFreed(t, bin.head),
                ObservedSizes(o, t),
                IF chain = None \/ chain.end # "complete" THEN "unknown"
                ELSE IF bin.count = Len(chain.entries) THEN "yes" ELSE "no"})
=============================================================================
