------------------------------ MODULE BinChains ------------------------------
(***************************************************************************)
(* The bins of the main arena as the tracer reads them out of a stopped    *)
(* target (crates/heapify-debugger/src/lib.rs), and what the validations   *)
(* (crates/heapify-core/src/glibc.rs) say of what was read.                *)
(*                                                                         *)
(* h is the heap, walk the walk made at the same stop, t the tracker: the  *)
(* state and the chunk size last seen of each user address it knows.       *)
(***************************************************************************)
EXTENDS GlibcHeap

CONSTANT ChainLimit   \* max_fastbin_chain, max_unsorted_chain, ...

ASSUME ChainBound == ChainLimit \in Nat

P == INSTANCE GlibcProfiles

KnownFreed(t, user) ==
  IF user \notin DOMAIN t THEN "unknown"
  ELSE IF t[user].state = "Freed" THEN "yes" ELSE "no"

Node(h, walk, t, c) ==
  [chunk |-> c, user |-> UserOf(c), fd |-> Word(h, UserOf(c)), bk |-> Word(h, UserOf(c) + 1),
   size |-> WalkedSize(c, walk), freed |-> KnownFreed(t, UserOf(c))]

Visited(nodes) == {nodes[i].chunk : i \in DOMAIN nodes}

-----------------------------------------------------------------------------
(* The four chain readers.  A reading is [cur, nodes, end]; `end' stands   *)
(* for truncated, cycle_detected (which sets truncated too) and            *)
(* stopped_on_unknown_next, of which a reading ends with at most one.      *)

Stop(r, end) == [cur |-> r.cur, nodes |-> r.nodes, end |-> end]

\* Once a node is read, where its link leads decides what comes next.
Follow(r, node, next, stop, walk) ==
  [cur |-> next, nodes |-> Append(r.nodes, node),
   end |-> IF next = stop THEN "complete"
           ELSE IF Plausible(next, walk) THEN "reading" ELSE "unknown_next"]

FollowHidden(r, node, walk)   == Follow(r, node, Reveal(node.fd), NULL, walk)
FollowFd(r, node, stop, walk) == Follow(r, node, node.fd, stop, walk)

\* Mutant: a chunk met before ends the reading and sets no flag.
FastbinStepBlind(h, walk, t, r) ==
  IF r.end # "reading" THEN r
  ELSE IF Len(r.nodes) >= ChainLimit THEN Stop(r, "truncated")
  ELSE IF r.cur \in Visited(r.nodes) THEN Stop(r, "complete")
  ELSE IF ~Readable(h, UserOf(r.cur)) THEN Stop(r, "unknown_next")
  ELSE FollowHidden(r, Node(h, walk, t, r.cur), walk)

\* The head of a fastbin is followed whatever it is, as long as it can be read.
FastbinStep(h, walk, t, r) ==
  IF r.end # "reading" THEN r
  ELSE IF Len(r.nodes) >= ChainLimit THEN Stop(r, "truncated")
  ELSE IF r.cur \in Visited(r.nodes) THEN Stop(r, "cycle")
  ELSE IF ~Readable(h, UserOf(r.cur)) THEN Stop(r, "unknown_next")
  ELSE FollowHidden(r, Node(h, walk, t, r.cur), walk)

\* A large chunk has two links more, which must be readable.
LinkWords(bin) == IF bin = "largebin" THEN 0 .. 3 ELSE 0 .. 1

\* The bin's own fd word is taken for the address of its header.
LinkedStep(h, walk, t, bin, r) ==
  IF r.end # "reading" THEN r
  ELSE IF r.cur = FieldOf(bin) THEN Stop(r, "complete")
  ELSE IF Len(r.nodes) >= ChainLimit THEN Stop(r, "truncated")
  ELSE IF r.cur \in Visited(r.nodes) THEN Stop(r, "cycle")
  ELSE IF ~Plausible(r.cur, walk) \/ \E i \in LinkWords(bin) : ~Readable(h, UserOf(r.cur) + i)
    THEN Stop(r, "unknown_next")
  ELSE FollowFd(r, Node(h, walk, t, r.cur), FieldOf(bin), walk)

Begin(head) == [cur |-> head, nodes |-> <<>>, end |-> "reading"]

FastbinOf(head, r) == [head |-> head, nodes |-> r.nodes, end |-> r.end]

FastbinChain(h, walk, t, head) ==
  LET read[n \in 0 .. ChainLimit + 1] ==
        IF n = 0 THEN Begin(head) ELSE FastbinStep(h, walk, t, read[n - 1])
  IN  FastbinOf(head, read[ChainLimit + 1])

\* Mutant: the links back are not looked at.
ConsistentForward(nodes, end, bin) ==
  end = "complete" /\ nodes # <<>> /\ Last(nodes).fd = FieldOf(bin)

\* *_chain_fd_bk_consistent
Consistent(nodes, end, bin) ==
  /\ end = "complete" /\ nodes # <<>>
  /\ Head(nodes).bk = FieldOf(bin) /\ Last(nodes).fd = FieldOf(bin)
  /\ \A i \in 1 .. Len(nodes) - 1 :
       nodes[i].fd = nodes[i + 1].chunk /\ nodes[i + 1].bk = nodes[i].chunk

LinkedOf(bin, head, empty, r) ==
  [head |-> head, nodes |-> r.nodes, end |-> r.end, empty |-> empty,
   consistent |-> empty \/ Consistent(r.nodes, r.end, bin)]

LinkedChain(h, walk, t, bin, head, tail) ==
  LET read[n \in 0 .. ChainLimit + 1] ==
        IF n = 0 THEN Begin(head) ELSE LinkedStep(h, walk, t, bin, read[n - 1])
  IN  LinkedOf(bin, head, head = FieldOf(bin) /\ tail = FieldOf(bin), read[ChainLimit + 1])

UnsortedChain(h, walk, t, head, tail) == LinkedChain(h, walk, t, "unsorted", head, tail)
SmallbinChain(h, walk, t, head, tail) == LinkedChain(h, walk, t, "smallbin", head, tail)
LargebinChain(h, walk, t, head, tail) == LinkedChain(h, walk, t, "largebin", head, tail)

-----------------------------------------------------------------------------
(* The snapshots: at most one chain, since the heap has one bin of each    *)
(* kind; None where the snapshot lists no chain.                           *)

\* One place of each role in the array of bins.
Places == {0, 3, 70}

\* Mutant: the roles are told by the place, not by glibc's number of the bin.
RegularBinsShifted(h, limit) ==
  {[role |-> P!Role(i + 61), fd |-> HeadOf(h, P!Role(i)), bk |-> TailOf(h, P!Role(i))] :
     i \in {j \in Places : j < limit}}

\* limit is max_regular_bins: how many of the 126 heads are read.
RegularBins(h, limit) ==
  {[role |-> P!Role(i), fd |-> HeadOf(h, P!Role(i)), bk |-> TailOf(h, P!Role(i))] :
     i \in {j \in Places : j < limit}}

FastbinsSnapshot(h, walk, t) ==
  IF HeadOf(h, "fastbin") = NULL THEN None
  ELSE FastbinChain(h, walk, t, HeadOf(h, "fastbin"))

UnsortedSnapshot(h, walk, t) ==
  UnsortedChain(h, walk, t, HeadOf(h, "unsorted"), TailOf(h, "unsorted"))

SmallbinsSnapshot(h, walk, t, limit) ==
  LET heads == {b \in RegularBins(h, limit) : b.role = "smallbin"}
  IN  IF heads = {} THEN None
      ELSE LET b == CHOOSE x \in heads : TRUE IN SmallbinChain(h, walk, t, b.fd, b.bk)

LargebinsSnapshot(h, walk, t, limit) ==
  LET heads == {b \in RegularBins(h, limit) : b.role = "largebin"}
  IN  IF heads = {} THEN None
      ELSE LET b == CHOOSE x \in heads : TRUE IN LargebinChain(h, walk, t, b.fd, b.bk)

-----------------------------------------------------------------------------
(* The validations: answers, and the verdict they add up to.               *)

Verdict(answers) ==
  IF "no" \in answers THEN "suspicious"
  ELSE IF "unknown" \in answers THEN "incomplete" ELSE "plausible"

\* The first answer that is not a yes.
FirstDoubt(answers, vacuous) ==
  LET doubts == {i \in DOMAIN answers : answers[i] # "yes"}
  IN  IF doubts # {} THEN answers[Min(doubts)] ELSE IF answers = <<>> THEN vacuous ELSE "yes"

FreedAnswers(nodes) == [i \in DOMAIN nodes |-> nodes[i].freed]
SizeAnswers(nodes) ==
  [i \in DOMAIN nodes |-> IF nodes[i].size = None THEN "unknown"
                          ELSE IF nodes[i].size = Unit THEN "yes" ELSE "no"]

ChainComplete(end) ==
  CASE end = "complete" -> "yes" [] end = "cycle" -> "no" [] OTHER -> "unknown"

ConsistentAnswer(chain) ==
  IF chain.consistent THEN "yes"
  ELSE IF chain.end \in {"truncated", "cycle", "unknown_next"} THEN "unknown" ELSE "no"

\* Of a fastbin the nodes the walk did not list are passed over.
FastbinSizes(nodes) ==
  LET answers == ToSet(SizeAnswers(nodes))
  IN  IF "no" \in answers THEN "no" ELSE IF "yes" \in answers THEN "yes" ELSE "unknown"

ValidateFastbins(chain, end) ==
  Verdict({IF Start <= chain.head /\ chain.head < end THEN "yes" ELSE "no",
           FastbinSizes(chain.nodes),
           FirstDoubt(FreedAnswers(chain.nodes), "unknown"),
           ChainComplete(chain.end)})

\* Nothing is known of the nodes of an empty unsorted bin.
ValidateUnsorted(chain, end) ==
  Verdict({IF chain.empty \/ (Start <= chain.head /\ chain.head < end) THEN "yes" ELSE "no",
           ConsistentAnswer(chain),
           IF chain.empty THEN "unknown" ELSE FirstDoubt(FreedAnswers(chain.nodes), "yes"),
           ChainComplete(chain.end)})

HeadAnswer(chain) ==
  IF chain.nodes # <<>> /\ Head(chain.nodes).chunk = chain.head THEN "yes"
  ELSE IF chain.end # "complete" THEN "unknown" ELSE "no"

ValidateSmallbins(chain) ==
  Verdict({HeadAnswer(chain), FirstDoubt(SizeAnswers(chain.nodes), "yes"),
           ConsistentAnswer(chain), FirstDoubt(FreedAnswers(chain.nodes), "yes"),
           ChainComplete(chain.end)})

ValidateLargebins(chain) ==
  Verdict({HeadAnswer(chain), ConsistentAnswer(chain),
           FirstDoubt(FreedAnswers(chain.nodes), "yes"), ChainComplete(chain.end)})

-----------------------------------------------------------------------------
(* A snapshot as it is kept: the chain, and the verdict on it, None where  *)
(* there is nothing to validate.  A validation reads the snapshot alone,   *)
(* so the verdict on a kept snapshot never changes.                        *)

Answers == {"yes", "no", "unknown"}
ChainNodes ==
  [chunk : Nat, user : Nat, fd : Nat \cup {None}, bk : Nat \cup {None}, size : Nat \cup {None},
   freed : Answers]
ChainEnds  == {"complete", "truncated", "cycle", "unknown_next", "reading"}
Chains ==
  [head : Nat, nodes : Seq(ChainNodes), end : ChainEnds]
  \cup [head : Nat, nodes : Seq(ChainNodes), end : ChainEnds, empty : BOOLEAN,
        consistent : BOOLEAN]
Verdicts   == {"plausible", "incomplete", "suspicious"}
Snapshots ==
  [chain : Chains \cup {None}, verdict : Verdicts \cup {None}]

\* A bin that was not read has no snapshot.
ASSUME NoneIsNoSnapshot == None \notin Chains /\ None \notin Snapshots /\ None \notin Verdicts

Judged(bin, chain, end) ==
  [chain   |-> chain,
   verdict |-> IF chain = None THEN None
               ELSE IF bin = "fastbin" THEN ValidateFastbins(chain, end)
               ELSE IF bin = "unsorted" THEN ValidateUnsorted(chain, end)
               ELSE IF chain.empty THEN None
               ELSE IF bin = "smallbin" THEN ValidateSmallbins(chain)
               ELSE ValidateLargebins(chain)]

ReadBin(h, walk, t, limit, bin) ==
  Judged(bin, CASE bin = "fastbin"  -> FastbinsSnapshot(h, walk, t)
                [] bin = "unsorted" -> UnsortedSnapshot(h, walk, t)
                [] bin = "smallbin" -> SmallbinsSnapshot(h, walk, t, limit)
                [] OTHER            -> LargebinsSnapshot(h, walk, t, limit), walk.end)

Nodes(snapshot) ==
  IF snapshot = None \/ snapshot.chain = None THEN <<>> ELSE snapshot.chain.nodes
=============================================================================
